-------------------------- MODULE ReedSolomonProofs -------------------------
(***************************************************************************)
(* Proofs about ReedSolomon, for every field, length of block and number   *)
(* of parity symbols, every codeword and every error.                      *)
(*                                                                         *)
(* The field: its symbols but 0 are the powers of the generator, doubling  *)
(* is linear, so products add exponents and distribute over the sum.       *)
(* Berlekamp and Massey: RegisterInv says what the register, and the one   *)
(* it last replaced, predict of the syndromes read so far; the one makes   *)
(* up for the other's wrong prediction.  The search: a polynomial of       *)
(* degree n has at most n zeros, and one with n zeros has none in common   *)
(* with its derivative, so the correction never divides by 0.  The errors: *)
(* syndromes are the moments of the errors; moments of few places that are *)
(* 0 have shares that are 0 (Vandermonde), so the register is 0 at every   *)
(* wrong place, and being no longer than there are such places, nowhere    *)
(* else.                                                                   *)
(***************************************************************************)
EXTENDS ReedSolomon, FiniteSetTheorems, TLAPS

\* The loop of the search and the powers of the generator are folds.
Search == INSTANCE FoldLemmas WITH Op <- Report
Doubling == INSTANCE FoldLemmas WITH Op <- LAMBDA p, x, i : Double(x)

-----------------------------------------------------------------------------
(* Arithmetic.                                                              *)

\* A remainder determines itself.
LEMMA Remainder ==
  ASSUME NEW n \in Nat \ {0}, NEW a \in Nat
  PROVE  /\ a \div n \in Nat /\ a % n \in 0 .. n - 1
         /\ a = n * (a \div n) + (a % n)
<1>1. a % n \in 0 .. n - 1
  OBVIOUS
<1>2. a \div n \in Nat
  OBVIOUS
<1>3. a = n * (a \div n) + (a % n)
  OBVIOUS
<1>. QED
  BY <1>1, <1>2, <1>3

\* What a multiple of n and a rest leave.
LEMMA RemainderOf ==
  ASSUME NEW n \in Nat \ {0}, NEW q \in Nat, NEW m \in 0 .. n - 1
  PROVE  (n * q + m) % n = m
OBVIOUS

\* Remainders may be taken before a sum.
LEMMA RemainderOfSum ==
  ASSUME NEW n \in Nat \ {0}, NEW a \in Nat, NEW c \in Nat
  PROVE  ((a % n) + c) % n = (a + c) % n
<1>. DEFINE q == a \div n
            m == a % n
            p == (m + c) \div n
            t == (m + c) % n
<1>1. q \in Nat /\ m \in 0 .. n - 1 /\ a = n * q + m
  BY Remainder
<1>2. m + c \in Nat
  BY <1>1
<1>3. p \in Nat /\ t \in 0 .. n - 1 /\ m + c = n * p + t
  BY <1>2, Remainder
<1>4. a + c = n * (q + p) + t /\ q + p \in Nat
  BY <1>1, <1>3
<1>. HIDE DEF q, m, p, t
<1>5. (n * (q + p) + t) % n = t
  BY <1>3, <1>4, RemainderOf
<1>. QED
  BY <1>4, <1>5 DEF t, m

\* A multiple of the divisor more.
LEMMA RemainderPeriod ==
  ASSUME NEW n \in Nat \ {0}, NEW a \in Nat
  PROVE  (a + n) % n = a % n
<1>1. a \div n \in Nat /\ a % n \in 0 .. n - 1 /\ a = n * (a \div n) + (a % n)
  BY Remainder
<1>2. a + n = n * (a \div n + 1) + (a % n) /\ a \div n + 1 \in Nat
  BY <1>1
<1>. QED
  BY ZenonT(30), <1>1, <1>2, RemainderOf

-----------------------------------------------------------------------------
(* Bit sets.                                                                *)

\* The sum of two symbols is a symbol.
LEMMA XorTyped == \A x, y \in Symbol : x ^^ y \in Symbol
BY DEF Symbol, ^^

\* Addition of symbols: commutative, associative, each its own opposite.
LEMMA XorLaws ==
  /\ \A x, y : x ^^ y = y ^^ x
  /\ \A x, y, z : (x ^^ y) ^^ z = x ^^ (y ^^ z)
  /\ \A x : x ^^ {} = x /\ {} ^^ x = x /\ x ^^ x = {}
BY DEF ^^

\* What is added twice is gone, and only equals add up to nothing.
LEMMA XorCancels ==
  /\ \A x, y : (x ^^ y) ^^ y = x
  /\ \A x, y : x ^^ y = {} <=> x = y
BY DEF ^^

\* Two sums are added term by term.
LEMMA XorSwaps == \A u, v, x, y : (u ^^ v) ^^ (x ^^ y) = (u ^^ x) ^^ (v ^^ y)
BY DEF ^^

Shifted(x) == {bit + 1 : bit \in x}

\* Double, by the bits it shifts.
LEMMA DoubleIs == \A x : Double(x) = IF M \in Shifted(x) THEN Shifted(x) ^^ Poly ELSE Shifted(x)
BY DEF Double, Shifted

\* A shift moves each bit one up.
LEMMA ShiftedBits ==
  ASSUME NEW x \in Symbol
  PROVE  Shifted(x) \subseteq 1 .. M
BY FieldAssumption DEF Shifted, Symbol, Bits

\* A shift commutes with the sum,
LEMMA ShiftedSum ==
  ASSUME NEW x \in Symbol, NEW y \in Symbol
  PROVE  Shifted(x ^^ y) = Shifted(x) ^^ Shifted(y)
<1>1. \A u \in Symbol : u \subseteq Int
  BY FieldAssumption DEF Symbol, Bits
<1>2. \A bit \in Int, u \in Symbol : bit \in Shifted(u) <=> bit - 1 \in u
  BY <1>1 DEF Shifted
<1>3. \A u \in Symbol : Shifted(u) \subseteq Int
  BY <1>1 DEF Shifted
<1>4. x ^^ y \in Symbol
  BY XorTyped
<1>. QED
  BY <1>2, <1>3, <1>4 DEF ^^

\* Doubling stays in the field,
LEMMA DoubleTyped == \A x \in Symbol : Double(x) \in Symbol
<1>. SUFFICES ASSUME NEW x \in Symbol PROVE Double(x) \in Symbol
  OBVIOUS
<1>1. Shifted(x) \subseteq 1 .. M
  BY ShiftedBits
<1>2. CASE M \in Shifted(x)
  <2>1. \A bit \in Shifted(x) ^^ Poly : bit \in 0 .. M /\ bit # M
    <3>1. Shifted(x) \subseteq 0 .. M /\ Poly \subseteq 0 .. M /\ M \in Poly
      BY <1>1, FieldAssumption
    <3>. QED
      BY <1>2, <3>1 DEF ^^
  <2>2. \A bit \in 0 .. M : bit # M => bit \in 0 .. M - 1
    BY FieldAssumption
  <2>. QED
    BY <1>2, <2>1, <2>2, DoubleIs DEF Symbol, Bits
<1>3. CASE M \notin Shifted(x)
  <2>1. Shifted(x) \subseteq 0 .. M - 1
    BY <1>1, <1>3, FieldAssumption
  <2>. QED
    BY <1>3, <2>1, DoubleIs DEF Symbol, Bits
<1>. QED
  BY <1>2, <1>3

\* and so does the reduction by the polynomial.
LEMMA DoubleLinear ==
  \A x, y \in Symbol : Double(x ^^ y) = Double(x) ^^ Double(y)
<1>. SUFFICES ASSUME NEW x \in Symbol, NEW y \in Symbol
              PROVE  Double(x ^^ y) = Double(x) ^^ Double(y)
  OBVIOUS
<1>. DEFINE u == Shifted(x)
            v == Shifted(y)
<1>1. Shifted(x ^^ y) = u ^^ v
  BY ShiftedSum
<1>2. M \in u ^^ v <=> ~(M \in u <=> M \in v)
  BY DEF ^^
<1>3. /\ Double(x ^^ y) = IF M \in u ^^ v THEN (u ^^ v) ^^ Poly ELSE u ^^ v
      /\ Double(x) = IF M \in u THEN u ^^ Poly ELSE u
      /\ Double(y) = IF M \in v THEN v ^^ Poly ELSE v
  BY <1>1, DoubleIs
<1>. HIDE DEF u, v
<1>4. /\ (u ^^ Poly) ^^ (v ^^ Poly) = u ^^ v
      /\ (u ^^ Poly) ^^ v = (u ^^ v) ^^ Poly
      /\ u ^^ (v ^^ Poly) = (u ^^ v) ^^ Poly
  BY DEF ^^
<1>. QED
  BY <1>2, <1>3, <1>4

\* Nothing but nothing doubles to nothing.
LEMMA DoubleInjective ==
  /\ Double({}) = {}
  /\ \A x \in Symbol : Double(x) = {} => x = {}
  /\ \A x, y \in Symbol : Double(x) = Double(y) => x = y
<1>1. Double({}) = {}
  BY DoubleIs DEF Shifted
<1>2. ASSUME NEW x \in Symbol, Double(x) = {} PROVE x = {}
  <2>1. 0 \notin Shifted(x)
    BY ShiftedBits
  <2>2. Shifted(x) # Poly
    BY <2>1, FieldAssumption
  <2>3. Shifted(x) = {}
    BY <1>2, <2>2, DoubleIs, XorCancels
  <2>. QED
    BY <2>3 DEF Shifted
<1>3. ASSUME NEW x \in Symbol, NEW y \in Symbol, Double(x) = Double(y) PROVE x = y
  <2>1. Double(x ^^ y) = {}
    BY <1>3, DoubleLinear, XorCancels
  <2>. QED
    BY <1>2, <2>1, XorTyped, XorCancels
<1>. QED
  BY <1>1, <1>2, <1>3

-----------------------------------------------------------------------------
(* The powers of the generator.                                             *)

IsPowers(p) == p = [i \in Nat |-> IF i = 0 THEN {0} ELSE Double(p[i - 1])]

\* The recursion that defines the powers has a solution: folding Double.
LEMMA PowersExist == \E p : IsPowers(p)
<1>. DEFINE zeros(n) == [i \in 1 .. n |-> 0]
            p == [n \in Nat |-> Doubling!Fold(0, {0}, zeros(n))]
<1>1. p[0] = {0}
  <2>1. zeros(0) = <<>>
    OBVIOUS
  <2>. QED
    BY <2>1, Doubling!FoldEmpty
<1>2. ASSUME NEW n \in Nat PROVE p[n + 1] = Double(p[n])
  <2>1. zeros(n) \in Seq({0}) /\ zeros(n + 1) = Append(zeros(n), 0)
    OBVIOUS
  <2>2. Doubling!Fold(0, {0}, Append(zeros(n), 0)) = Double(Doubling!Fold(0, {0}, zeros(n)))
    BY <2>1, Doubling!FoldAppend
  <2>3. p[n] = Doubling!Fold(0, {0}, zeros(n)) /\ p[n + 1] = Doubling!Fold(0, {0}, zeros(n + 1))
    OBVIOUS
  <2>. QED
    BY <2>1, <2>2, <2>3, Zenon
<1>. HIDE DEF p
<1>3. ASSUME NEW n \in Nat PROVE p[n] = IF n = 0 THEN {0} ELSE Double(p[n - 1])
  <2>1. n # 0 => n - 1 \in Nat /\ (n - 1) + 1 = n
    OBVIOUS
  <2>. QED
    BY <1>1, <1>2, <2>1
<1>4. p = [i \in Nat |-> p[i]]
  BY DEF p
<1>. QED
  BY <1>3, <1>4, Zenon DEF IsPowers

\* The n-th power of the generator.
Alpha(n) == expTable[n % N]

\* The table holds the powers, over and over.
LEMMA Table ==
  /\ \A i \in 0 .. 2 * N - 1 : expTable[i] = Alpha(i)
  /\ \A i \in 0 .. N - 1 : expTable[i] = Alpha(i)
  /\ Alpha(0) = {0}
  /\ \A i \in 0 .. N - 1 : i + 1 < N => Alpha(i + 1) = Double(Alpha(i))
<1>. DEFINE p == CHOOSE p : IsPowers(p)
<1>0. N \in Nat \ {0}
  BY FieldAssumption
<1>1. IsPowers(p)
  BY PowersExist
<1>2. expTable = [i \in 0 .. 2 * N - 1 |-> p[i % N]]
  BY DEF expTable, IsPowers
<1>3. \A n \in Nat : p[n] = IF n = 0 THEN {0} ELSE Double(p[n - 1])
  BY <1>1, Zenon DEF IsPowers
<1>. HIDE DEF p
<1>4. \A i \in 0 .. N - 1 : i % N = i /\ i \in 0 .. 2 * N - 1
  BY <1>0
<1>5. \A i \in 0 .. N - 1 : expTable[i] = p[i] /\ Alpha(i) = p[i]
  BY <1>2, <1>4 DEF Alpha
<1>6. ASSUME NEW i \in 0 .. 2 * N - 1 PROVE expTable[i] = Alpha(i)
  <2>1. i % N \in 0 .. N - 1
    BY <1>0
  <2>. QED
    BY <1>2, <1>5, <2>1 DEF Alpha
<1>7. 0 \in 0 .. N - 1 /\ Alpha(0) = {0}
  BY <1>0, <1>3, <1>5
<1>8. ASSUME NEW i \in 0 .. N - 1, i + 1 < N PROVE Alpha(i + 1) = Double(Alpha(i))
  <2>1. i + 1 \in 0 .. N - 1 /\ i + 1 \in Nat /\ i + 1 # 0 /\ (i + 1) - 1 = i
    BY <1>0, <1>8
  <2>. QED
    BY <1>3, <1>5, <2>1
<1>. QED
  BY <1>5, <1>6, <1>7, <1>8

\* Every symbol but 0 is a power, the powers up to N are different ones.
LEMMA Powers ==
  /\ \A i \in 0 .. N - 1 : Alpha(i) \in Symbol \ {{}}
  /\ \A i, j \in 0 .. N - 1 : Alpha(i) = Alpha(j) => i = j
  /\ \A x \in Symbol \ {{}} : \E i \in 0 .. N - 1 : Alpha(i) = x
<1>. DEFINE p == [i \in 0 .. N - 1 |-> expTable[i]]
<1>1. /\ p \in [0 .. N - 1 -> Symbol \ {{}}]
      /\ \A i, j \in 0 .. N - 1 : p[i] = p[j] => i = j
      /\ \A x \in Symbol \ {{}} : \E i \in 0 .. N - 1 : p[i] = x
  BY PrimitiveAssumption DEF Bijection, Injection, Surjection, IsInjective
<1>2. \A i \in 0 .. N - 1 : p[i] = Alpha(i)
  BY Table
<1>. HIDE DEF p
<1>. QED
  BY <1>1, <1>2

\* After the last power the first.
LEMMA PowersCycle == Double(Alpha(N - 1)) = {0}
<1>0. N \in Nat \ {0} /\ N - 1 \in 0 .. N - 1
  BY FieldAssumption
<1>1. Double(Alpha(N - 1)) \in Symbol \ {{}}
  BY <1>0, Powers, DoubleTyped, DoubleInjective
<1>2. PICK i \in 0 .. N - 1 : Alpha(i) = Double(Alpha(N - 1))
  BY <1>1, Powers
<1>3. CASE i = 0
  BY <1>2, <1>3, Table
<1>4. CASE i # 0
  <2>1. i - 1 \in 0 .. N - 1 /\ (i - 1) + 1 = i /\ i < N
    BY <1>0, <1>4
  <2>2. Double(Alpha(i - 1)) = Double(Alpha(N - 1))
    BY <1>2, <2>1, Table
  <2>3. Alpha(i - 1) = Alpha(N - 1)
    BY <1>0, <2>1, <2>2, Powers, DoubleInjective
  <2>4. i - 1 = N - 1
    BY <1>0, <2>1, <2>3, Powers
  <2>. QED
    BY <1>0, <2>1, <2>4
<1>. QED
  BY <1>3, <1>4

\* The powers: each doubles the one before, and they repeat after N.
LEMMA AlphaStep ==
  \A n \in Nat : /\ Alpha(n) \in Symbol \ {{}}
                 /\ Alpha(n + 1) = Double(Alpha(n))
                 /\ Alpha(n % N) = Alpha(n) /\ n % N \in 0 .. N - 1
<1>. SUFFICES ASSUME NEW n \in Nat
              PROVE  /\ Alpha(n) \in Symbol \ {{}}
                     /\ Alpha(n + 1) = Double(Alpha(n))
                     /\ Alpha(n % N) = Alpha(n) /\ n % N \in 0 .. N - 1
  OBVIOUS
<1>. DEFINE m == n % N
<1>0. N \in Nat \ {0}
  BY FieldAssumption
<1>1. m \in 0 .. N - 1 /\ m \in Nat
  BY <1>0
<1>2. m % N = m
  BY <1>0, <1>1
<1>3. Alpha(m) = Alpha(n)
  BY <1>2 DEF Alpha
<1>4. (m + 1) % N = (n + 1) % N
  BY <1>0, RemainderOfSum
<1>5. Alpha(m + 1) = Alpha(n + 1)
  BY <1>4 DEF Alpha
<1>. HIDE DEF m
<1>6. CASE m + 1 < N
  BY <1>1, <1>3, <1>5, <1>6, Powers, Table DEF m
<1>7. CASE m + 1 = N
  <2>1. m = N - 1 /\ (m + 1) % N = 0 % N
    <3>1. m = N - 1
      BY <1>0, <1>1, <1>7
    <3>2. (0 + N) % N = 0 % N
      BY <1>0, RemainderPeriod
    <3>. QED
      BY <1>0, <1>7, <3>1, <3>2
  <2>2. Alpha(m + 1) = Alpha(0)
    BY <2>1 DEF Alpha
  <2>. QED
    BY <1>1, <1>3, <1>5, <2>1, <2>2, Powers, Table, PowersCycle DEF m
<1>. QED
  BY <1>0, <1>1, <1>6, <1>7

-----------------------------------------------------------------------------
(* Logarithms and products: the symbols are a field.                        *)

NonZero == Symbol \ {{}}

\* The two tables are inverse to each other.
LEMMA Logarithms ==
  /\ \A x \in NonZero : logTable[x] \in 0 .. N - 1 /\ Alpha(logTable[x]) = x
  /\ \A i \in Nat : logTable[Alpha(i)] = i % N
<1>0. N \in Nat \ {0}
  BY FieldAssumption
<1>1. ASSUME NEW x \in NonZero PROVE logTable[x] \in 0 .. N - 1 /\ Alpha(logTable[x]) = x
  <2>1. \E i \in 0 .. N - 1 : expTable[i] = x
    BY Powers, Table DEF NonZero
  <2>2. logTable[x] = CHOOSE i \in 0 .. N - 1 : expTable[i] = x
    BY DEF NonZero, logTable
  <2>3. logTable[x] \in 0 .. N - 1 /\ expTable[logTable[x]] = x
    BY <2>1, <2>2, Zenon
  <2>. QED
    BY <2>3, Table
<1>2. ASSUME NEW i \in Nat PROVE logTable[Alpha(i)] = i % N
  <2>1. Alpha(i) \in NonZero /\ i % N \in 0 .. N - 1 /\ Alpha(i % N) = Alpha(i)
    BY AlphaStep DEF NonZero
  <2>2. logTable[Alpha(i)] \in 0 .. N - 1 /\ Alpha(logTable[Alpha(i)]) = Alpha(i)
    BY <1>1, <2>1
  <2>. QED
    BY <2>1, <2>2, Powers
<1>. QED
  BY <1>1, <1>2

\* Every symbol but 0 is a power.
LEMMA IsPower == \A x \in NonZero : \E i \in 0 .. N - 1 : x = Alpha(i)
BY Powers DEF NonZero

\* A power is never 0.
LEMMA AlphaTyped == \A i \in Nat : Alpha(i) \in NonZero /\ Alpha(i) \in Symbol /\ Alpha(i) # {}
BY AlphaStep DEF NonZero

\* Products add exponents.
LEMMA ProductOfPowers == \A i, j \in Nat : mul(Alpha(i), Alpha(j)) = Alpha(i + j)
<1>. SUFFICES ASSUME NEW i \in Nat, NEW j \in Nat PROVE mul(Alpha(i), Alpha(j)) = Alpha(i + j)
  OBVIOUS
<1>. DEFINE m == i % N
            n == j % N
<1>0. N \in Nat \ {0}
  BY FieldAssumption
<1>1. m \in 0 .. N - 1 /\ n \in 0 .. N - 1
  BY AlphaStep
<1>2. mul(Alpha(i), Alpha(j)) = expTable[m + n]
  BY AlphaTyped, Logarithms DEF mul
<1>3. (m + n) % N = (i + j) % N
  <2>0. n \in Nat
    BY <1>0, <1>1
  <2>1. (m + n) % N = (i + n) % N
    <3>. HIDE DEF n
    <3>. QED
      BY <1>0, <2>0, RemainderOfSum
  <2>2. (n + i) % N = (j + i) % N
    BY <1>0, RemainderOfSum
  <2>3. m + n \in Nat /\ i + n = n + i /\ i + j = j + i
    BY <1>1
  <2>. QED
    BY <2>1, <2>2, <2>3, Zenon
<1>4. m + n \in 0 .. 2 * N - 1
  BY <1>0, <1>1
<1>. HIDE DEF m, n
<1>5. expTable[m + n] = Alpha(m + n)
  BY <1>4, Table
<1>. QED
  BY <1>2, <1>3, <1>5 DEF Alpha

\* The laws of the product.
LEMMA MulZero == \A x : mul({}, x) = {} /\ mul(x, {}) = {}
BY DEF mul

LEMMA MulTyped ==
  /\ \A x, y \in Symbol : mul(x, y) \in Symbol /\ (mul(x, y) = {} <=> x = {} \/ y = {})
  /\ \A x, y \in NonZero : mul(x, y) \in NonZero
<1>1. ASSUME NEW x \in NonZero, NEW y \in NonZero PROVE mul(x, y) \in NonZero
  <2>1. PICK i \in 0 .. N - 1 : x = Alpha(i)
    BY IsPower
  <2>2. PICK j \in 0 .. N - 1 : y = Alpha(j)
    BY IsPower
  <2>3. mul(x, y) = Alpha(i + j) /\ i + j \in Nat
    BY <2>1, <2>2, ProductOfPowers, FieldAssumption
  <2>. QED
    BY <2>3, AlphaTyped
<1>2. {} \in Symbol
  BY DEF Symbol
<1>. QED
  BY <1>1, <1>2, MulZero DEF NonZero

LEMMA MulCommutes == \A x, y \in Symbol : mul(x, y) = mul(y, x)
<1>. SUFFICES ASSUME NEW x \in Symbol, NEW y \in Symbol PROVE mul(x, y) = mul(y, x)
  OBVIOUS
<1>1. CASE x = {} \/ y = {}
  BY <1>1 DEF mul
<1>2. CASE ~(x = {} \/ y = {})
  <2>1. logTable[x] \in Int /\ logTable[y] \in Int
    BY <1>2, Logarithms DEF NonZero
  <2>2. logTable[x] + logTable[y] = logTable[y] + logTable[x]
    BY <2>1
  <2>. QED
    BY <1>2, <2>2 DEF mul
<1>. QED
  BY <1>1, <1>2

LEMMA MulAssociates ==
  \A x, y, z \in Symbol : mul(mul(x, y), z) = mul(x, mul(y, z))
<1>. SUFFICES ASSUME NEW x \in Symbol, NEW y \in Symbol, NEW z \in Symbol
              PROVE  mul(mul(x, y), z) = mul(x, mul(y, z))
  OBVIOUS
<1>1. CASE x = {} \/ y = {} \/ z = {}
  BY <1>1, MulZero
<1>2. CASE x # {} /\ y # {} /\ z # {}
  <2>1. PICK i \in 0 .. N - 1 : x = Alpha(i)
    BY <1>2, IsPower DEF NonZero
  <2>2. PICK j \in 0 .. N - 1 : y = Alpha(j)
    BY <1>2, IsPower DEF NonZero
  <2>3. PICK n \in 0 .. N - 1 : z = Alpha(n)
    BY <1>2, IsPower DEF NonZero
  <2>4. i \in Nat /\ j \in Nat /\ n \in Nat /\ i + j \in Nat /\ j + n \in Nat
    BY FieldAssumption
  <2>5. (i + j) + n = i + (j + n)
    BY <2>4
  <2>6. mul(x, y) = Alpha(i + j) /\ mul(y, z) = Alpha(j + n)
    BY <2>1, <2>2, <2>3, <2>4, ProductOfPowers
  <2>7. mul(mul(x, y), z) = Alpha((i + j) + n)
    BY <2>3, <2>4, <2>6, ProductOfPowers, SMTT(30)
  <2>8. mul(x, mul(y, z)) = Alpha(i + (j + n))
    BY <2>1, <2>4, <2>6, ProductOfPowers, SMTT(30)
  <2>. QED
    BY <2>5, <2>7, <2>8
<1>. QED
  BY <1>1, <1>2

LEMMA MulOne == \A x \in Symbol : mul({0}, x) = x /\ mul(x, {0}) = x
<1>. SUFFICES ASSUME NEW x \in Symbol PROVE mul({0}, x) = x
  <2>1. 0 \in Nat
    OBVIOUS
  <2>2. {0} \in Symbol
    BY <2>1, Table, AlphaTyped, Zenon
  <2>. QED
    BY <2>2, MulCommutes, Zenon
<1>1. CASE x = {}
  BY <1>1, MulZero
<1>2. CASE x # {}
  <2>1. PICK i \in 0 .. N - 1 : x = Alpha(i)
    BY <1>2, IsPower DEF NonZero
  <2>2. i \in Nat /\ 0 + i = i /\ 0 \in Nat /\ Alpha(0) = {0}
    BY FieldAssumption, Table
  <2>. QED
    BY <2>1, <2>2, ProductOfPowers, Zenon
<1>. QED
  BY <1>1, <1>2

\* A power of the generator more is a doubling more.
LEMMA MulByNext ==
  \A n \in Nat : \A y \in Symbol : mul(Alpha(n + 1), y) = Double(mul(Alpha(n), y))
<1>. SUFFICES ASSUME NEW n \in Nat, NEW y \in Symbol
              PROVE  mul(Alpha(n + 1), y) = Double(mul(Alpha(n), y))
  OBVIOUS
<1>1. CASE y = {}
  BY <1>1, MulZero, DoubleInjective
<1>2. CASE y # {}
  <2>1. PICK i \in 0 .. N - 1 : y = Alpha(i)
    BY <1>2, IsPower DEF NonZero
  <2>2. i \in Nat /\ n + 1 \in Nat /\ n + i \in Nat /\ (n + 1) + i = (n + i) + 1
    BY FieldAssumption
  <2>3. mul(Alpha(n + 1), y) = Alpha((n + i) + 1) /\ mul(Alpha(n), y) = Alpha(n + i)
    BY <2>1, <2>2, ProductOfPowers, Zenon
  <2>. QED
    BY <2>2, <2>3, AlphaStep
<1>. QED
  BY <1>1, <1>2

\* Doubling is linear, and a product is so many doublings.
LEMMA MulDistributes ==
  \A x, y, z \in Symbol : /\ mul(x, y ^^ z) = mul(x, y) ^^ mul(x, z)
                          /\ mul(y ^^ z, x) = mul(y, x) ^^ mul(z, x)
<1>. DEFINE Q == {n \in Nat : \A y, z \in Symbol :
                    mul(Alpha(n), y ^^ z) = mul(Alpha(n), y) ^^ mul(Alpha(n), z)}
<1>1. 0 \in Q
  BY Table, MulOne, XorTyped
<1>2. ASSUME NEW n \in Nat, n \in Q PROVE n + 1 \in Q
  <2>. SUFFICES ASSUME NEW y \in Symbol, NEW z \in Symbol
                PROVE  mul(Alpha(n + 1), y ^^ z) = mul(Alpha(n + 1), y) ^^ mul(Alpha(n + 1), z)
    OBVIOUS
  <2>1. mul(Alpha(n), y ^^ z) = mul(Alpha(n), y) ^^ mul(Alpha(n), z)
    BY <1>2
  <2>2. /\ mul(Alpha(n), y) \in Symbol /\ mul(Alpha(n), z) \in Symbol
        /\ y ^^ z \in Symbol
    BY AlphaTyped, MulTyped, XorTyped
  <2>. QED
    BY <2>1, <2>2, MulByNext, DoubleLinear
<1>. HIDE DEF Q
<1>3. Nat \subseteq Q
  BY <1>1, <1>2, Search!NatSetInduction
<1>4. ASSUME NEW x \in Symbol, NEW y \in Symbol, NEW z \in Symbol
      PROVE  mul(x, y ^^ z) = mul(x, y) ^^ mul(x, z)
  <2>1. CASE x = {}
    <3>1. mul(x, y ^^ z) = {} /\ mul(x, y) = {} /\ mul(x, z) = {}
      BY <2>1, MulZero
    <3>. QED
      BY <3>1, XorLaws
  <2>2. CASE x # {}
    <3>1. PICK i \in 0 .. N - 1 : x = Alpha(i)
      BY <2>2, IsPower DEF NonZero
    <3>2. i \in Q
      BY <1>3
    <3>. QED
      BY <3>1, <3>2 DEF Q
  <2>. QED
    BY <2>1, <2>2
<1>. QED
  BY <1>4, MulCommutes, XorTyped

\* Division undoes multiplication.
LEMMA DivTyped ==
  \A x \in Symbol, y \in NonZero :
    /\ div(x, y) \in Symbol /\ mul(div(x, y), y) = x
    /\ x # {} => div(x, y) # {}
<1>. SUFFICES ASSUME NEW x \in Symbol, NEW y \in NonZero
              PROVE  /\ div(x, y) \in Symbol /\ mul(div(x, y), y) = x
                     /\ x # {} => div(x, y) # {}
  OBVIOUS
<1>1. CASE x = {}
  BY <1>1, MulZero DEF div, Symbol
<1>2. CASE x # {}
  <2>. DEFINE i == logTable[x]
              j == logTable[y]
  <2>1. x \in NonZero /\ y # {} /\ N \in Nat \ {0}
    BY <1>2, FieldAssumption DEF NonZero
  <2>2. i \in 0 .. N - 1 /\ j \in 0 .. N - 1 /\ x = Alpha(i) /\ y = Alpha(j)
    BY <2>1, Logarithms
  <2>3. div(x, y) = expTable[(i - j + N) % N]
    BY <2>1 DEF div, NonZero
  <2>. HIDE DEF i, j
  <2>4. i - j + N \in Nat /\ (i - j + N) + j = i + N /\ i \in Nat /\ j \in Nat
    BY <2>1, <2>2
  <2>5. div(x, y) = Alpha(i - j + N)
    BY <2>3 DEF Alpha
  <2>6. mul(div(x, y), y) = Alpha(i + N)
    BY <2>2, <2>4, <2>5, ProductOfPowers, Zenon
  <2>7. Alpha(i + N) = Alpha(i)
    BY <2>1, <2>4, RemainderPeriod, Zenon DEF Alpha
  <2>. QED
    BY <2>2, <2>4, <2>5, <2>6, <2>7, AlphaTyped
<1>. QED
  BY <1>1, <1>2

\* Powers of a symbol.
LEMMA PowerLaws ==
  ASSUME NEW x \in NonZero
  PROVE  /\ Power(x, 0) = {0}
         /\ \A j \in Nat : /\ Power(x, j) \in NonZero /\ Power(x, j) \in Symbol
                           /\ Power(x, j + 1) = mul(x, Power(x, j))
         /\ \A i, j \in Nat : mul(Power(x, i), Power(x, j)) = Power(x, i + j)
<1>. DEFINE l == logTable[x]
<1>1. l \in Nat /\ x = Alpha(l)
  BY Logarithms, FieldAssumption
<1>. HIDE DEF l
<1>2. \A j : Power(x, j) = Alpha(l * j)
  BY DEF Power, Alpha, l
<1>3. \A j \in Nat : l * j \in Nat
  BY <1>1
<1>4. l * 0 = 0
  BY <1>1
<1>5. \A j \in Nat : l * (j + 1) = l + l * j
  BY <1>1
<1>6. \A i, j \in Nat : l * (i + j) = l * i + l * j
  BY <1>1
<1>7. ASSUME NEW i \in Nat, NEW j \in Nat
      PROVE  mul(Power(x, i), Power(x, j)) = Power(x, i + j)
  <2>1. mul(Alpha(l * i), Alpha(l * j)) = Alpha(l * i + l * j)
    BY <1>3, ProductOfPowers, Zenon
  <2>2. l * (i + j) = l * i + l * j
    BY <1>6
  <2>. QED
    BY <1>2, <2>1, <2>2, Zenon
<1>8. ASSUME NEW j \in Nat PROVE Power(x, j + 1) = mul(x, Power(x, j))
  <2>1. mul(Alpha(l), Alpha(l * j)) = Alpha(l + l * j)
    BY <1>1, <1>3, ProductOfPowers, Zenon
  <2>2. l * (j + 1) = l + l * j
    BY <1>5
  <2>. QED
    BY <1>1, <1>2, <2>1, <2>2, Zenon
<1>9. \A j \in Nat : Power(x, j) \in NonZero /\ Power(x, j) \in Symbol
  BY <1>2, <1>3, AlphaTyped, Zenon
<1>10. Power(x, 0) = {0}
  BY <1>2, <1>4, Table, Zenon
<1>. QED
  BY <1>7, <1>8, <1>9, <1>10, Zenon

-----------------------------------------------------------------------------
(* Sums of symbols.  The proofs extend what the decoder adds up to a series *)
(* over all the numbers, 0 where there is nothing, and sum the first n.     *)

Series == [Nat -> Symbol]
Sum(f, n) == Total([i \in 0 .. n - 1 |-> f[i]])

\* A sum is a symbol.
LEMMA TotalTyped == \A f : Total(f) \in Symbol
BY DEF Total, Symbol

\* An element more in the domain is a term more in the sum.
LEMMA TotalAdd ==
  ASSUME NEW f, IsFiniteSet(DOMAIN f), NEW d, d \notin DOMAIN f,
         NEW g, DOMAIN g = DOMAIN f \cup {d}, \A i \in DOMAIN f : g[i] = f[i], g[d] \in Symbol
  PROVE  Total(g) = Total(f) ^^ g[d]
<1>. DEFINE D == DOMAIN f
            In(bit) == {i \in D : bit \in f[i]}
            Out(bit) == {i \in D \cup {d} : bit \in g[i]}
<1>1. ASSUME NEW bit \in Bits
      PROVE  Cardinality(Out(bit)) % 2 = 1 <=> ~(Cardinality(In(bit)) % 2 = 1 <=> bit \in g[d])
  <2>1. IsFiniteSet(In(bit)) /\ d \notin In(bit)
    BY FS_Subset
  <2>2. Cardinality(In(bit)) \in Nat
    BY <2>1, FS_CardinalityType
  <2>3. CASE bit \in g[d]
    <3>1. Out(bit) = In(bit) \cup {d}
      BY <2>3
    <3>. HIDE DEF In, Out
    <3>2. Cardinality(Out(bit)) = Cardinality(In(bit)) + 1
      BY <2>1, <3>1, FS_AddElement
    <3>. QED
      BY <2>2, <2>3, <3>2
  <2>4. CASE bit \notin g[d]
    <3>1. Out(bit) = In(bit)
      BY <2>4
    <3>. HIDE DEF In, Out
    <3>. QED
      BY <2>4, <3>1
  <2>. QED
    BY <2>3, <2>4
<1>2. Total(f) = {bit \in Bits : Cardinality(In(bit)) % 2 = 1}
  BY DEF Total
<1>3. Total(g) = {bit \in Bits : Cardinality(Out(bit)) % 2 = 1}
  BY DEF Total
<1>4. g[d] \subseteq Bits
  BY DEF Symbol
<1>. HIDE DEF In, Out
<1>. QED
  BY <1>1, <1>2, <1>3, <1>4 DEF ^^

\* The sum of nothing is 0.
LEMMA TotalEmpty == ASSUME NEW f, DOMAIN f = {} PROVE Total(f) = {}
<1>1. \A bit : {i \in DOMAIN f : bit \in f[i]} = {}
  OBVIOUS
<1>2. Cardinality({}) = 0 /\ 0 % 2 # 1
  BY FS_EmptySet
<1>. QED
  BY <1>1, <1>2, Zenon DEF Total

\* Only the terms that are not 0 matter.
LEMMA TotalIsSum ==
  ASSUME NEW f \in Series, NEW n \in Nat, NEW g, DOMAIN g \subseteq 0 .. n - 1,
         \A i \in DOMAIN g : g[i] = f[i],
         \A i \in 0 .. n - 1 : i \notin DOMAIN g => f[i] = {}
  PROVE  Total(g) = Sum(f, n)
<1>. DEFINE h == [i \in 0 .. n - 1 |-> f[i]]
<1>1. \A bit : {i \in DOMAIN g : bit \in g[i]} = {i \in DOMAIN h : bit \in h[i]}
  OBVIOUS
<1>. HIDE DEF h
<1>2. Total(g) = Total(h)
  BY <1>1, Zenon DEF Total
<1>. QED
  BY <1>2 DEF Sum, h

\* The sum of the first n terms of a series, term by term.
LEMMA SumTyped == \A f, n : Sum(f, n) \in Symbol
BY TotalTyped DEF Sum

LEMMA SumEmpty == \A f : Sum(f, 0) = {}
<1>. SUFFICES ASSUME NEW f PROVE Sum(f, 0) = {}
  OBVIOUS
<1>1. DOMAIN [i \in 0 .. 0 - 1 |-> f[i]] = {}
  OBVIOUS
<1>. QED
  BY <1>1, TotalEmpty DEF Sum

LEMMA SumNext ==
  ASSUME NEW f, NEW n \in Nat, f[n] \in Symbol
  PROVE  Sum(f, n + 1) = Sum(f, n) ^^ f[n]
<1>. DEFINE g == [i \in 0 .. n - 1 |-> f[i]]
            h == [i \in 0 .. (n + 1) - 1 |-> f[i]]
<1>1. DOMAIN g = 0 .. n - 1 /\ IsFiniteSet(DOMAIN g) /\ n \notin DOMAIN g
  BY FS_Interval
<1>2. DOMAIN h = DOMAIN g \cup {n} /\ h[n] = f[n] /\ \A i \in DOMAIN g : h[i] = g[i]
  OBVIOUS
<1>3. Sum(f, n) = Total(g) /\ Sum(f, n + 1) = Total(h)
  BY DEF Sum
<1>. HIDE DEF g, h
<1>4. Total(h) = Total(g) ^^ h[n]
  BY <1>1, <1>2, TotalAdd
<1>. QED
  BY <1>2, <1>3, <1>4

\* It depends on those terms only,
LEMMA SumAgrees ==
  ASSUME NEW f, NEW g, NEW n \in Nat, \A i \in 0 .. n - 1 : f[i] = g[i]
  PROVE  Sum(f, n) = Sum(g, n)
<1>1. [i \in 0 .. n - 1 |-> f[i]] = [i \in 0 .. n - 1 |-> g[i]]
  OBVIOUS
<1>. QED
  BY <1>1 DEF Sum

\* does not change when the terms that follow are 0,
LEMMA SumTail ==
  ASSUME NEW f \in Series, NEW n \in Nat, NEW m \in Nat, n <= m,
         \A i \in n .. m - 1 : f[i] = {}
  PROVE  Sum(f, m) = Sum(f, n)
<1>. DEFINE g == [i \in 0 .. n - 1 |-> f[i]]
<1>1. /\ DOMAIN g \subseteq 0 .. m - 1 /\ \A i \in DOMAIN g : g[i] = f[i]
      /\ \A i \in 0 .. m - 1 : i \notin DOMAIN g => f[i] = {}
  OBVIOUS
<1>2. Sum(f, n) = Total(g)
  BY DEF Sum
<1>. HIDE DEF g
<1>. QED
  BY <1>1, <1>2, TotalIsSum

\* and is 0 when they all are.
LEMMA SumNone ==
  ASSUME NEW f \in Series, NEW n \in Nat, \A i \in 0 .. n - 1 : f[i] = {}
  PROVE  Sum(f, n) = {}
<1>1. Sum(f, n) = Sum(f, 0)
  BY SumTail
<1>. QED
  BY <1>1, SumEmpty

\* A sum with one term.
LEMMA SumOnly ==
  ASSUME NEW f \in Series, NEW n \in Nat, NEW d \in 0 .. n - 1,
         \A i \in 0 .. n - 1 : i # d => f[i] = {}
  PROVE  Sum(f, n) = f[d]
<1>. DEFINE none == [i \in {} |-> {}]
            g == [i \in {d} |-> f[i]]
<1>1. DOMAIN none = {} /\ IsFiniteSet(DOMAIN none) /\ d \notin DOMAIN none
  BY FS_EmptySet
<1>2. DOMAIN g = DOMAIN none \cup {d} /\ g[d] = f[d] /\ f[d] \in Symbol
  BY DEF Series
<1>3. DOMAIN g \subseteq 0 .. n - 1 /\ (\A i \in DOMAIN g : g[i] = f[i])
      /\ \A i \in 0 .. n - 1 : i \notin DOMAIN g => f[i] = {}
  OBVIOUS
<1>4. \A i \in DOMAIN none : g[i] = none[i]
  OBVIOUS
<1>. HIDE DEF none, g
<1>5. Total(g) = Total(none) ^^ g[d]
  BY <1>1, <1>2, <1>4, TotalAdd
<1>6. Total(none) = {}
  BY <1>1, TotalEmpty
<1>7. Total(g) = Sum(f, n)
  BY <1>3, TotalIsSum
<1>. QED
  BY <1>2, <1>5, <1>6, <1>7, XorLaws

\* Sums are added term by term.
LEMMA SumOfSums ==
  ASSUME NEW f \in Series, NEW g \in Series, NEW h \in Series, NEW n \in Nat,
         \A i \in 0 .. n - 1 : h[i] = f[i] ^^ g[i]
  PROVE  Sum(h, n) = Sum(f, n) ^^ Sum(g, n)
<1>. DEFINE Q == {m \in Nat : m <= n => Sum(h, m) = Sum(f, m) ^^ Sum(g, m)}
<1>1. 0 \in Q
  BY SumEmpty, XorLaws
<1>2. ASSUME NEW m \in Nat, m \in Q PROVE m + 1 \in Q
  <2>. SUFFICES ASSUME m + 1 <= n PROVE Sum(h, m + 1) = Sum(f, m + 1) ^^ Sum(g, m + 1)
    OBVIOUS
  <2>1. Sum(h, m) = Sum(f, m) ^^ Sum(g, m) /\ h[m] = f[m] ^^ g[m]
    BY <1>2
  <2>2. f[m] \in Symbol /\ g[m] \in Symbol /\ h[m] \in Symbol
    BY DEF Series
  <2>3. /\ Sum(f, m + 1) = Sum(f, m) ^^ f[m]
        /\ Sum(g, m + 1) = Sum(g, m) ^^ g[m]
        /\ Sum(h, m + 1) = Sum(h, m) ^^ h[m]
    BY <2>2, SumNext
  <2>. QED
    BY <2>1, <2>3, XorSwaps
<1>. HIDE DEF Q
<1>3. n \in Q
  BY <1>1, <1>2, Search!NatSetInduction
<1>. QED
  BY <1>3 DEF Q

\* A common factor.
LEMMA SumTimes ==
  ASSUME NEW c \in Symbol, NEW f \in Series, NEW h \in Series, NEW n \in Nat,
         \A i \in 0 .. n - 1 : h[i] = mul(c, f[i])
  PROVE  Sum(h, n) = mul(c, Sum(f, n))
<1>. DEFINE Q == {m \in Nat : m <= n => Sum(h, m) = mul(c, Sum(f, m))}
<1>1. 0 \in Q
  BY SumEmpty, MulZero
<1>2. ASSUME NEW m \in Nat, m \in Q PROVE m + 1 \in Q
  <2>. SUFFICES ASSUME m + 1 <= n PROVE Sum(h, m + 1) = mul(c, Sum(f, m + 1))
    OBVIOUS
  <2>1. Sum(h, m) = mul(c, Sum(f, m)) /\ h[m] = mul(c, f[m])
    BY <1>2
  <2>2. f[m] \in Symbol /\ h[m] \in Symbol /\ Sum(f, m) \in Symbol
    BY SumTyped DEF Series
  <2>3. Sum(f, m + 1) = Sum(f, m) ^^ f[m] /\ Sum(h, m + 1) = Sum(h, m) ^^ h[m]
    BY <2>2, SumNext
  <2>. QED
    BY <2>1, <2>2, <2>3, MulDistributes
<1>. HIDE DEF Q
<1>3. n \in Q
  BY <1>1, <1>2, Search!NatSetInduction
<1>. QED
  BY <1>3 DEF Q

\* Terms that come k places later.
LEMMA SumShift ==
  ASSUME NEW f \in Series, NEW g \in Series, NEW n \in Nat, NEW d \in Nat,
         \A i \in 0 .. d - 1 : f[i] = {}, \A i \in 0 .. n - 1 : f[i + d] = g[i]
  PROVE  Sum(f, n + d) = Sum(g, n)
<1>. DEFINE Q == {m \in Nat : m <= n => Sum(f, m + d) = Sum(g, m)}
<1>1. 0 \in Q
  BY SumEmpty, SumNone
<1>2. ASSUME NEW m \in Nat, m \in Q PROVE m + 1 \in Q
  <2>. SUFFICES ASSUME m + 1 <= n PROVE Sum(f, (m + 1) + d) = Sum(g, m + 1)
    OBVIOUS
  <2>1. Sum(f, m + d) = Sum(g, m) /\ f[m + d] = g[m]
    BY <1>2
  <2>2. f[m + d] \in Symbol /\ g[m] \in Symbol
    BY DEF Series
  <2>3. m + d \in Nat /\ (m + 1) + d = (m + d) + 1
    OBVIOUS
  <2>4. Sum(g, m + 1) = Sum(g, m) ^^ g[m] /\ Sum(f, (m + d) + 1) = Sum(f, m + d) ^^ f[m + d]
    BY <2>2, <2>3, SumNext
  <2>. QED
    BY <2>1, <2>3, <2>4
<1>. HIDE DEF Q
<1>3. n \in Q
  BY <1>1, <1>2, Search!NatSetInduction
<1>. QED
  BY <1>3 DEF Q

\* The first term apart from the others.
LEMMA SumFirst ==
  ASSUME NEW f \in Series, NEW g \in Series, NEW n \in Nat,
         \A i \in 0 .. n - 1 : f[i + 1] = g[i]
  PROVE  Sum(f, n + 1) = f[0] ^^ Sum(g, n)
<1>. DEFINE head == [i \in Nat |-> IF i = 0 THEN f[0] ELSE {}]
            rest == [i \in Nat |-> IF i = 0 THEN {} ELSE f[i]]
<1>1. head \in Series /\ rest \in Series
  BY DEF Series, Symbol
<1>2. \A i \in 0 .. (n + 1) - 1 : f[i] = head[i] ^^ rest[i]
  <2>. SUFFICES ASSUME NEW i \in 0 .. (n + 1) - 1 PROVE f[i] = head[i] ^^ rest[i]
    OBVIOUS
  <2>1. CASE i = 0
    BY <2>1, XorLaws
  <2>2. CASE i # 0
    <3>1. head[i] = {} /\ rest[i] = f[i]
      BY <2>2
    <3>. QED
      BY <3>1, XorLaws
  <2>. QED
    BY <2>1, <2>2
<1>3. (\A i \in 0 .. (n + 1) - 1 : i # 0 => head[i] = {}) /\ head[0] = f[0] /\ 0 \in 0 .. (n + 1) - 1
  OBVIOUS
<1>4. (\A i \in 0 .. 1 - 1 : rest[i] = {}) /\ \A i \in 0 .. n - 1 : rest[i + 1] = g[i]
  OBVIOUS
<1>. HIDE DEF head, rest
<1>5. Sum(f, n + 1) = Sum(head, n + 1) ^^ Sum(rest, n + 1)
  BY <1>1, <1>2, SumOfSums
<1>6. Sum(head, n + 1) = f[0]
  BY <1>1, <1>3, SumOnly
<1>7. Sum(rest, n + 1) = Sum(g, n)
  BY <1>1, <1>4, SumShift
<1>. QED
  BY <1>5, <1>6, <1>7

\* A table may be added up by rows or by columns.
LEMMA SumExchange ==
  ASSUME NEW a \in [Nat -> Series], NEW m \in Nat, NEW n \in Nat
  PROVE  Sum([i \in Nat |-> Sum(a[i], m)], n)
           = Sum([j \in Nat |-> Sum([i \in Nat |-> a[i][j]], n)], m)
<1>. DEFINE rows == [i \in Nat |-> Sum(a[i], m)]
            col(j) == [i \in Nat |-> a[i][j]]
            cols(p) == [j \in Nat |-> Sum(col(j), p)]
            Q == {p \in Nat : Sum(rows, p) = Sum(cols(p), m)}
<1>0. \A p : cols(p) \in Series
  BY SumTyped DEF Series
<1>1. 0 \in Q
  <2>1. \A j \in 0 .. m - 1 : cols(0)[j] = {}
    BY SumEmpty
  <2>2. Sum(cols(0), m) = {}
    BY <1>0, <2>1, SumNone
  <2>. QED
    BY <2>2, SumEmpty
<1>2. ASSUME NEW p \in Nat, p \in Q PROVE p + 1 \in Q
  <2>1. a[p] \in Series
    OBVIOUS
  <2>2. ASSUME NEW j \in 0 .. m - 1 PROVE cols(p + 1)[j] = cols(p)[j] ^^ a[p][j]
    <3>1. col(j)[p] = a[p][j] /\ a[p][j] \in Symbol
      BY <2>1 DEF Series
    <3>2. Sum(col(j), p + 1) = Sum(col(j), p) ^^ col(j)[p]
      BY <3>1, SumNext
    <3>. QED
      BY <3>1, <3>2
  <2>3. Sum(cols(p + 1), m) = Sum(cols(p), m) ^^ Sum(a[p], m)
    <3>. HIDE DEF cols
    <3>. QED
      BY <1>0, <2>1, <2>2, SumOfSums
  <2>4. rows[p] = Sum(a[p], m) /\ rows[p] \in Symbol
    BY SumTyped
  <2>5. Sum(rows, p + 1) = Sum(rows, p) ^^ Sum(a[p], m)
    BY <2>4, SumNext
  <2>. QED
    BY <1>2, <2>3, <2>5
<1>. HIDE DEF Q
<1>3. n \in Q
  BY <1>1, <1>2, Search!NatSetInduction
<1>. QED
  BY <1>3 DEF Q

-----------------------------------------------------------------------------
(* Convolutions: what a register says of a sequence of syndromes.           *)

Extended(f) == [i \in Nat |-> IF i \in DOMAIN f THEN f[i] ELSE {}]
Term(p, s, j) == [i \in Nat |-> IF i <= j THEN mul(p[i], s[j - i]) ELSE {}]
Conv(p, s, j) == Sum(Term(p, s, j), j + 1)

\* An array, extended by 0.
LEMMA ExtendedTyped ==
  \A n \in Int : \A f \in [0 .. n -> Symbol] :
     /\ Extended(f) \in Series
     /\ \A i \in 0 .. n : Extended(f)[i] = f[i]
     /\ \A i \in Nat : i > n => Extended(f)[i] = {}
BY DEF Extended, Series, Symbol

\* A convolution is a sum of symbols.
LEMMA TermTyped == \A p, s \in Series, j \in Nat : Term(p, s, j) \in Series
<1>. SUFFICES ASSUME NEW p \in Series, NEW s \in Series, NEW j \in Nat
              PROVE  Term(p, s, j) \in Series
  OBVIOUS
<1>1. ASSUME NEW i \in Nat, i <= j PROVE mul(p[i], s[j - i]) \in Symbol
  <2>1. p[i] \in Symbol /\ s[j - i] \in Symbol
    BY <1>1 DEF Series
  <2>. QED
    BY <2>1, MulTyped
<1>2. {} \in Symbol
  BY DEF Symbol
<1>. QED
  BY <1>1, <1>2 DEF Term, Series

LEMMA ConvTyped == \A p, s, j : Conv(p, s, j) \in Symbol
BY SumTyped DEF Conv

\* Registers are added coefficient by coefficient.
LEMMA ConvSum ==
  ASSUME NEW p \in Series, NEW q \in Series, NEW h \in Series, NEW s \in Series, NEW j \in Nat,
         \A i \in 0 .. j : h[i] = p[i] ^^ q[i]
  PROVE  Conv(h, s, j) = Conv(p, s, j) ^^ Conv(q, s, j)
<1>1. ASSUME NEW i \in 0 .. (j + 1) - 1
      PROVE  Term(h, s, j)[i] = Term(p, s, j)[i] ^^ Term(q, s, j)[i]
  <2>1. p[i] \in Symbol /\ q[i] \in Symbol /\ s[j - i] \in Symbol
    BY DEF Series
  <2>2. mul(p[i] ^^ q[i], s[j - i]) = mul(p[i], s[j - i]) ^^ mul(q[i], s[j - i])
    BY <2>1, MulDistributes
  <2>. QED
    BY <2>2 DEF Term
<1>2. /\ Term(h, s, j) \in Series /\ Term(p, s, j) \in Series
      /\ Term(q, s, j) \in Series /\ j + 1 \in Nat
  BY TermTyped
<1>. QED
  BY <1>1, <1>2, SumOfSums DEF Conv

\* A register times a factor and moved d places.
LEMMA ConvShift ==
  ASSUME NEW c \in Symbol, NEW p \in Series, NEW h \in Series, NEW s \in Series,
         NEW d \in Nat, NEW j \in Nat,
         \A i \in 0 .. j : h[i] = IF i < d THEN {} ELSE mul(c, p[i - d])
  PROVE  Conv(h, s, j) = IF j < d THEN {} ELSE mul(c, Conv(p, s, j - d))
<1>0. Term(h, s, j) \in Series /\ j + 1 \in Nat
  BY TermTyped
<1>1. CASE j < d
  <2>1. \A i \in 0 .. (j + 1) - 1 : Term(h, s, j)[i] = {}
    BY <1>1, MulZero DEF Term
  <2>2. Sum(Term(h, s, j), j + 1) = {}
    BY <1>0, <2>1, SumNone
  <2>. QED
    BY <1>1, <2>2 DEF Conv
<1>2. CASE ~(j < d)
  <2>. DEFINE n == j - d
              t == Term(p, s, n)
              g == [i \in Nat |-> mul(c, t[i])]
  <2>1. n \in Nat /\ t \in Series /\ n + d = j
    BY <1>2, TermTyped
  <2>2. g \in Series
    BY <2>1, MulTyped DEF Series
  <2>3. \A i \in 0 .. d - 1 : Term(h, s, j)[i] = {}
    BY <1>2, MulZero DEF Term
  <2>4. ASSUME NEW i \in 0 .. (n + 1) - 1 PROVE Term(h, s, j)[i + d] = g[i]
    <3>1. i \in Nat /\ i <= n /\ i + d \in Nat /\ i + d <= j /\ i + d \in 0 .. j
          /\ ~(i + d < d) /\ (i + d) - d = i /\ j - (i + d) = n - i /\ n - i \in Nat
      BY <1>2, <2>1
    <3>2. h[i + d] = mul(c, p[i])
      BY <3>1
    <3>3. Term(h, s, j)[i + d] = mul(mul(c, p[i]), s[n - i])
      BY <3>1, <3>2 DEF Term
    <3>4. g[i] = mul(c, mul(p[i], s[n - i]))
      BY <3>1 DEF Term
    <3>5. p[i] \in Symbol /\ s[n - i] \in Symbol
      BY <3>1 DEF Series
    <3>. QED
      BY <3>3, <3>4, <3>5, MulAssociates
  <2>5. (n + 1) + d = j + 1 /\ n + 1 \in Nat
    BY <2>1
  <2>6. \A i \in 0 .. (n + 1) - 1 : g[i] = mul(c, t[i])
    BY <2>1
  <2>. HIDE DEF g, t, n
  <2>7. Sum(Term(h, s, j), j + 1) = Sum(g, n + 1)
    BY <1>0, <2>2, <2>3, <2>4, <2>5, SumShift
  <2>8. Sum(g, n + 1) = mul(c, Sum(t, n + 1))
    BY <2>1, <2>2, <2>5, <2>6, SumTimes
  <2>. QED
    BY <1>2, <2>7, <2>8 DEF Conv, t, n
<1>. QED
  BY <1>1, <1>2

-----------------------------------------------------------------------------
(* The register of Berlekamp and Massey.                                    *)

\* What register p says of syndrome j of the block, and by how much it errs.
Residual(p, j) == Conv(Extended(p), Extended(S), j)

Registers == [0 .. NPAR -> Symbol]

\* The sum the code computes is the residual.
LEMMA Discrepancy ==
  ASSUME S \in [0 .. NPAR - 1 -> Symbol], lambda \in Registers, L \in 0 .. NPAR,
         lambda[0] = {0}, \A i \in L + 1 .. NPAR : lambda[i] = {},
         NEW j \in L .. NPAR - 1
  PROVE  S[j] ^^ Total([i \in 1 .. L |-> mul(lambda[i], S[j - i])]) = Residual(lambda, j)
<1>. DEFINE p == Extended(lambda)
            s == Extended(S)
            f == Term(p, s, j)
            rest == [i \in Nat |-> IF i = 0 THEN {} ELSE f[i]]
            tail == [i \in Nat |-> f[i + 1]]
            g == [i \in 1 .. L |-> mul(lambda[i], S[j - i])]
<1>0. NPAR \in Nat /\ j \in Nat /\ L \in Nat /\ NPAR - 1 \in Int
  BY FieldAssumption
<1>1. /\ p \in Series /\ s \in Series
      /\ \A i \in 0 .. NPAR : p[i] = lambda[i]
      /\ \A i \in 0 .. NPAR - 1 : s[i] = S[i]
  BY <1>0, ExtendedTyped DEF Registers
<1>. HIDE DEF p, s
<1>2. \A i \in 0 .. j : f[i] = mul(lambda[i], S[j - i])
  <2>. SUFFICES ASSUME NEW i \in 0 .. j PROVE f[i] = mul(lambda[i], S[j - i])
    OBVIOUS
  <2>1. i \in 0 .. NPAR /\ j - i \in 0 .. NPAR - 1 /\ i \in Nat /\ i <= j
    BY <1>0
  <2>. QED
    BY <1>1, <2>1 DEF Term
<1>3. f \in Series
  BY <1>0, <1>1, TermTyped, Zenon
<1>. HIDE DEF f
<1>4. f[0] = S[j]
  <2>1. 0 \in 0 .. j /\ j - 0 = j /\ j \in 0 .. NPAR - 1
    BY <1>0
  <2>2. f[0] = mul({0}, S[j]) /\ S[j] \in Symbol
    BY <1>2, <2>1
  <2>. QED
    BY <2>2, MulOne
<1>5. rest \in Series /\ tail \in Series
  BY <1>3 DEF Series, Symbol
<1>6. Sum(f, j + 1) = f[0] ^^ Sum(tail, j)
  <2>1. \A i \in 0 .. j - 1 : f[i + 1] = tail[i]
    BY <1>0
  <2>. HIDE DEF tail
  <2>. QED
    BY <1>0, <1>3, <1>5, <2>1, SumFirst
<1>7. Sum(rest, j + 1) = Sum(tail, j)
  <2>1. \A i \in 0 .. 1 - 1 : rest[i] = {}
    OBVIOUS
  <2>2. \A i \in 0 .. j - 1 : rest[i + 1] = tail[i]
    BY <1>0
  <2>. HIDE DEF rest, tail
  <2>. QED
    BY <1>0, <1>5, <2>1, <2>2, SumShift, SMTT(30)
<1>8. Total(g) = Sum(rest, j + 1)
  <2>1. DOMAIN g \subseteq 0 .. (j + 1) - 1
    BY <1>0
  <2>2. \A i \in DOMAIN g : g[i] = rest[i]
    BY <1>0, <1>2, SMTT(30)
  <2>3. ASSUME NEW i \in 0 .. (j + 1) - 1, i \notin DOMAIN g PROVE rest[i] = {}
    <3>1. CASE i = 0
      BY <3>1
    <3>2. CASE i # 0
      <4>1. i \in L + 1 .. NPAR /\ i \in 0 .. j
        BY <1>0, <2>3, <3>2
      <4>2. f[i] = mul({}, S[j - i])
        BY <1>2, <4>1
      <4>. QED
        BY <3>2, <4>2, MulZero
    <3>. QED
      BY <3>1, <3>2
  <2>. HIDE DEF g, rest
  <2>. QED
    BY <1>3, <1>5, <2>1, <2>2, <2>3, TotalIsSum
<1>. QED
  BY <1>4, <1>6, <1>7, <1>8 DEF Residual, Conv, p, s, f

\* What the correction of lambda does to its residuals.
LEMMA AdjustedResidual ==
  ASSUME S \in [0 .. NPAR - 1 -> Symbol], lambda \in Registers, b \in Registers,
         k \in 1 .. NPAR + 1, NEW c \in Symbol
  PROVE  /\ Adjusted(c) \in Registers
         /\ \A j \in 0 .. NPAR :
              Residual(Adjusted(c), j)
                = Residual(lambda, j) ^^ (IF j < k THEN {} ELSE mul(c, Residual(b, j - k)))
<1>. DEFINE a == Adjusted(c)
            moved == [i \in Nat |-> IF i < k THEN {} ELSE mul(c, Extended(b)[i - k])]
<1>0. NPAR \in Nat /\ NPAR - 1 \in Int /\ k \in Nat
  BY FieldAssumption
<1>1. /\ Extended(lambda) \in Series /\ Extended(b) \in Series /\ Extended(S) \in Series
      /\ \A i \in 0 .. NPAR : Extended(lambda)[i] = lambda[i] /\ Extended(b)[i] = b[i]
  <2>1. NPAR \in Int
    BY <1>0
  <2>2. lambda \in [0 .. NPAR -> Symbol] /\ b \in [0 .. NPAR -> Symbol]
    BY DEF Registers
  <2>. QED
    BY <1>0, <2>1, <2>2, ExtendedTyped, ZenonT(40)
<1>2. moved \in Series
  <2>1. \A i \in Nat : ~(i < k) => Extended(b)[i - k] \in Symbol
    BY <1>0, <1>1 DEF Series
  <2>2. \A i \in Nat : ~(i < k) => mul(c, Extended(b)[i - k]) \in Symbol
    BY <2>1, MulTyped
  <2>. QED
    BY <2>2 DEF Series, Symbol
<1>3. ASSUME NEW i \in 0 .. NPAR PROVE a[i] = lambda[i] ^^ moved[i]
  <2>1. CASE i < k
    BY <2>1, XorLaws DEF Adjusted
  <2>2. CASE ~(i < k)
    <3>1. i - k \in 0 .. NPAR
      BY <1>0, <2>2
    <3>. QED
      BY <1>1, <2>2, <3>1 DEF Adjusted
  <2>. QED
    BY <2>1, <2>2
<1>4. a \in Registers
  <2>1. \A i \in 0 .. NPAR : lambda[i] ^^ moved[i] \in Symbol
    BY <1>2, XorTyped DEF Registers, Series
  <2>2. a = [i \in 0 .. NPAR |-> a[i]]
    BY DEF Adjusted
  <2>. HIDE DEF a, moved
  <2>. QED
    BY <1>3, <2>1, <2>2 DEF Registers
<1>5. Extended(a) \in Series /\ \A i \in 0 .. NPAR : Extended(a)[i] = a[i]
  BY <1>0, <1>4, ExtendedTyped DEF Registers
<1>6. ASSUME NEW j \in 0 .. NPAR
      PROVE  Residual(a, j) = Residual(lambda, j) ^^ (IF j < k THEN {} ELSE mul(c, Residual(b, j - k)))
  <2>1. \A i \in 0 .. j : moved[i] = IF i < k THEN {} ELSE mul(c, Extended(b)[i - k])
    OBVIOUS
  <2>2. \A i \in 0 .. j : Extended(a)[i] = Extended(lambda)[i] ^^ moved[i]
    BY <1>0, <1>1, <1>3, <1>5
  <2>5. j \in Nat
    BY <1>0
  <2>. HIDE DEF a, moved
  <2>3. Conv(moved, Extended(S), j)
          = IF j < k THEN {} ELSE mul(c, Conv(Extended(b), Extended(S), j - k))
    <3>. DEFINE e == Extended(b)
                s == Extended(S)
    <3>1. e \in Series /\ s \in Series /\ k \in Nat /\ c \in Symbol
      BY <1>0, <1>1
    <3>2. \A i \in 0 .. j : moved[i] = IF i < k THEN {} ELSE mul(c, e[i - k])
      BY <2>1
    <3>. HIDE DEF e, s
    <3>3. Conv(moved, s, j) = IF j < k THEN {} ELSE mul(c, Conv(e, s, j - k))
      BY <1>2, <2>5, <3>1, <3>2, ConvShift
    <3>. QED
      BY <3>3 DEF e, s
  <2>4. Conv(Extended(a), Extended(S), j)
          = Conv(Extended(lambda), Extended(S), j) ^^ Conv(moved, Extended(S), j)
    BY <1>1, <1>2, <1>5, <2>2, ConvSum
  <2>. QED
    BY <2>3, <2>4 DEF Residual
<1>. QED
  BY <1>4, <1>6

-----------------------------------------------------------------------------
(* Horner's rule, and the Chien search.                                     *)

Horner(word, x, n) ==
  [t \in Nat |-> IF t < n THEN mul(word[t], Power(x, n - 1 - t)) ELSE {}]

\* The terms of Horner's rule, and the step that adds one.
LEMMA HornerTyped ==
  \A word \in Block, x \in NonZero, n \in 0 .. N : Horner(word, x, n) \in Series
<1>. SUFFICES ASSUME NEW word \in Block, NEW x \in NonZero, NEW n \in 0 .. N
              PROVE  Horner(word, x, n) \in Series
  OBVIOUS
<1>1. ASSUME NEW t \in Nat, t < n PROVE mul(word[t], Power(x, n - 1 - t)) \in Symbol
  <2>1. n - 1 - t \in Nat /\ t \in 0 .. N - 1
    BY <1>1, FieldAssumption
  <2>2. word[t] \in Symbol /\ Power(x, n - 1 - t) \in Symbol
    BY <2>1, PowerLaws DEF Block
  <2>. QED
    BY <2>2, MulTyped
<1>2. {} \in Symbol
  BY DEF Symbol
<1>. QED
  BY <1>1, <1>2 DEF Horner, Series

LEMMA HornerStep ==
  ASSUME NEW word \in Block, NEW x \in NonZero, NEW n \in 0 .. N - 1
  PROVE  Sum(Horner(word, x, n + 1), n + 1) = word[n] ^^ mul(Sum(Horner(word, x, n), n), x)
<1>. DEFINE f == Horner(word, x, n)
            g == Horner(word, x, n + 1)
<1>0. N \in Nat \ {0} /\ n \in Nat /\ n \in 0 .. N /\ n + 1 \in 0 .. N
  BY FieldAssumption
<1>1. f \in Series /\ g \in Series
  BY <1>0, HornerTyped
<1>2. x \in Symbol /\ word[n] \in Symbol
  BY <1>0 DEF NonZero, Block
<1>3. g[n] = word[n]
  <2>1. n < n + 1 /\ (n + 1) - 1 - n = 0
    BY <1>0
  <2>2. g[n] = mul(word[n], Power(x, 0))
    BY <1>0, <2>1 DEF Horner
  <2>. QED
    BY <1>2, <2>2, PowerLaws, MulOne
<1>4. ASSUME NEW t \in 0 .. n - 1 PROVE g[t] = mul(x, f[t])
  <2>. DEFINE e == n - 1 - t
  <2>1. t \in Nat /\ t < n /\ t < n + 1 /\ e \in Nat /\ (n + 1) - 1 - t = e + 1 /\ t \in 0 .. N - 1
    BY <1>0
  <2>2. f[t] = mul(word[t], Power(x, e)) /\ g[t] = mul(word[t], Power(x, e + 1))
    BY <2>1 DEF Horner
  <2>. HIDE DEF e
  <2>3. Power(x, e + 1) = mul(x, Power(x, e)) /\ Power(x, e) \in Symbol /\ word[t] \in Symbol
    BY <2>1, PowerLaws DEF Block
  <2>4. mul(word[t], mul(x, Power(x, e))) = mul(mul(word[t], x), Power(x, e))
    BY <1>2, <2>3, MulAssociates
  <2>5. mul(x, mul(word[t], Power(x, e))) = mul(mul(x, word[t]), Power(x, e))
    BY <1>2, <2>3, MulAssociates
  <2>. QED
    BY <1>2, <2>2, <2>3, <2>4, <2>5, MulCommutes
<1>. HIDE DEF f, g
<1>5. Sum(g, n + 1) = Sum(g, n) ^^ word[n]
  BY <1>0, <1>2, <1>3, SumNext
<1>6. Sum(g, n) = mul(x, Sum(f, n))
  BY <1>0, <1>1, <1>2, <1>4, SumTimes
<1>. QED
  BY <1>2, <1>5, <1>6, SumTyped, MulCommutes, XorLaws DEF f, g

\* The recursion that adds up a syndrome computes the sum.
LEMMA SyndromeIs ==
  ASSUME NEW word \in Block, NEW i \in 0 .. NPAR - 1
  PROVE  /\ Syndrome(word, i) = Sum(Horner(word, Alpha(i), N), N)
         /\ Syndrome(word, i) \in Symbol
<1>. DEFINE x == expTable[i]
            Computes(f) == f = [j \in 0 .. N |->
                                  IF j = 0 THEN {} ELSE word[j - 1] ^^ mul(f[j - 1], x)]
            h == [j \in 0 .. N |-> Sum(Horner(word, x, j), j)]
            s == CHOOSE f : Computes(f)
<1>0. N \in Nat \ {0} /\ i \in 0 .. N - 1 /\ i \in Nat
  BY FieldAssumption
<1>1. x = Alpha(i) /\ x \in NonZero
  BY <1>0, Table, AlphaTyped
<1>. HIDE DEF x
<1>2. ASSUME NEW j \in 0 .. N
      PROVE  h[j] = IF j = 0 THEN {} ELSE word[j - 1] ^^ mul(h[j - 1], x)
  <2>1. CASE j = 0
    BY <2>1, SumEmpty
  <2>2. CASE j # 0
    <3>1. j - 1 \in 0 .. N - 1 /\ (j - 1) + 1 = j /\ j - 1 \in 0 .. N
      BY <1>0, <2>2
    <3>2. Sum(Horner(word, x, j), j) = word[j - 1] ^^ mul(Sum(Horner(word, x, j - 1), j - 1), x)
      BY <1>1, <3>1, HornerStep
    <3>. QED
      BY <2>2, <3>1, <3>2
  <2>. QED
    BY <2>1, <2>2
<1>3. h = [j \in 0 .. N |-> h[j]]
  OBVIOUS
<1>4. h[N] = Sum(Horner(word, x, N), N)
  BY <1>0
<1>. HIDE DEF h
<1>5. Computes(h)
  BY <1>2, <1>3, Zenon
<1>6. Computes(s)
  BY <1>5, Zenon
<1>7. \A j \in 0 .. N : s[j] = IF j = 0 THEN {} ELSE word[j - 1] ^^ mul(s[j - 1], x)
  BY <1>6, Zenon
<1>8. Syndrome(word, i) = s[N]
  BY DEF Syndrome, x
<1>. HIDE DEF s
<1>. DEFINE Q == {j \in Nat : j <= N => s[j] = h[j]}
<1>9. 0 \in Q
  BY <1>0, <1>2, <1>7
<1>10. ASSUME NEW j \in Nat, j \in Q PROVE j + 1 \in Q
  <2>. SUFFICES ASSUME j + 1 <= N PROVE s[j + 1] = h[j + 1]
    OBVIOUS
  <2>1. s[j] = h[j] /\ j + 1 \in 0 .. N /\ j + 1 # 0 /\ (j + 1) - 1 = j
    BY <1>0, <1>10
  <2>. QED
    BY <1>2, <1>7, <2>1
<1>. HIDE DEF Q
<1>11. N \in Q
  BY <1>0, <1>9, <1>10, Search!NatSetInduction
<1>. QED
  BY <1>0, <1>1, <1>4, <1>8, <1>11, SumTyped DEF Q

\* The search reports each position it finds once.
LEMMA RootsAre ==
  LET found == {i \in 0 .. N - 1 : Root(i)}
  IN  /\ Roots \in Seq(0 .. N - 1)
      /\ ToSet(Roots) = {N - 1 - i : i \in found}
      /\ Len(Roots) = Cardinality(found)
      /\ IsFiniteSet(found)
<1>. DEFINE found == {i \in 0 .. N - 1 : Root(i)}
            upto(m) == {i \in found : i < m}
            all == [i \in 1 .. N |-> i - 1]
<1>0. N \in Nat \ {0}
  BY FieldAssumption
<1>1. all \in Seq(0 .. N - 1) /\ Len(all) = N
  BY <1>0
<1>2. Roots = Search!Fold(found, <<>>, all)
  BY Zenon DEF Roots, FoldLeft, MapThenFoldSet, Max, Search!Fold, Search!FoldLeft,
               Search!MapThenFoldSet, Search!Max
<1>3. IsFiniteSet(found) /\ found \subseteq 0 .. N - 1
  <2>1. IsFiniteSet(0 .. N - 1)
    BY <1>0, FS_Interval
  <2>. QED
    BY <2>1, FS_Subset
<1>. HIDE DEF found, all
<1>4. PICK f : /\ f[0] = <<>>
               /\ \A m \in 1 .. N : f[m] = Report(found, f[m - 1], all[m])
               /\ f[N] = Roots
  <2>1. \E f : /\ f[0] = <<>>
               /\ \A m \in 1 .. Len(all) : f[m] = Report(found, f[m - 1], all[m])
               /\ f[Len(all)] = Search!Fold(found, <<>>, all)
    BY <1>1, Search!FoldTrace
  <2>. QED
    BY <1>1, <1>2, <2>1
<1>. DEFINE Q == {m \in Nat : m <= N => /\ f[m] \in Seq(0 .. N - 1)
                                        /\ ToSet(f[m]) = {N - 1 - i : i \in upto(m)}
                                        /\ Len(f[m]) = Cardinality(upto(m))}
<1>5. 0 \in Q
  <2>1. upto(0) = {}
    <3>1. \A i \in found : ~(i < 0)
      BY <1>0, <1>3
    <3>. QED
      BY <3>1
  <2>2. Cardinality({}) = 0 /\ ToSet(<<>>) = {} /\ Len(<<>>) = 0
    BY FS_EmptySet DEF ToSet
  <2>. QED
    <3>1. f[0] \in Seq(0 .. N - 1)
      BY <1>4
    <3>2. {N - 1 - i : i \in upto(0)} = {}
      BY <2>1
    <3>. HIDE DEF upto
    <3>. QED
      BY <1>4, <2>1, <2>2, <3>1, <3>2
<1>6. ASSUME NEW m \in Nat, m \in Q PROVE m + 1 \in Q
  <2>. SUFFICES ASSUME m + 1 <= N
                PROVE  /\ f[m + 1] \in Seq(0 .. N - 1)
                       /\ ToSet(f[m + 1]) = {N - 1 - i : i \in upto(m + 1)}
                       /\ Len(f[m + 1]) = Cardinality(upto(m + 1))
    OBVIOUS
  <2>1. /\ f[m] \in Seq(0 .. N - 1) /\ Len(f[m]) = Cardinality(upto(m))
        /\ ToSet(f[m]) = {N - 1 - i : i \in upto(m)}
    BY <1>0, <1>6
  <2>2. all[m + 1] = m /\ m + 1 \in 1 .. N /\ (m + 1) - 1 = m
    BY <1>0 DEF all
  <2>3. f[m + 1] = IF m \in found THEN Append(f[m], N - 1 - m) ELSE f[m]
    BY <1>4, <2>2 DEF Report
  <2>4. CASE m \in found
    <3>1. upto(m + 1) = upto(m) \cup {m} /\ m \notin upto(m) /\ IsFiniteSet(upto(m))
      <4>1. \A i \in found : i < m + 1 <=> i < m \/ i = m
        BY <1>0, <1>3
      <4>2. upto(m + 1) = upto(m) \cup {m}
        BY <2>4, <4>1
      <4>3. m \notin upto(m)
        OBVIOUS
      <4>4. IsFiniteSet(upto(m))
        <5>1. upto(m) \subseteq found
          OBVIOUS
        <5>. QED
          BY <1>3, <5>1, FS_Subset
      <4>. QED
        BY <4>2, <4>3, <4>4
    <3>2. Cardinality(upto(m + 1)) = Cardinality(upto(m)) + 1
      <4>. HIDE DEF upto
      <4>. QED
        BY <3>1, FS_AddElement
    <3>3. N - 1 - m \in 0 .. N - 1
      BY <1>0
    <3>4. ToSet(Append(f[m], N - 1 - m)) = ToSet(f[m]) \cup {N - 1 - m}
      <4>. DEFINE s == f[m]
                  e == N - 1 - m
      <4>1. s \in Seq(0 .. N - 1)
        BY <2>1
      <4>. HIDE DEF s, e
      <4>2. /\ Len(s) \in Nat /\ DOMAIN s = 1 .. Len(s) /\ DOMAIN Append(s, e) = 1 .. Len(s) + 1
            /\ \A i \in 1 .. Len(s) : Append(s, e)[i] = s[i]
            /\ Append(s, e)[Len(s) + 1] = e
        BY <4>1
      <4>3. ToSet(Append(s, e)) = ToSet(s) \cup {e}
        BY <4>2 DEF ToSet
      <4>. QED
        BY <4>3 DEF s, e
    <3>5. {N - 1 - i : i \in upto(m) \cup {m}} = {N - 1 - i : i \in upto(m)} \cup {N - 1 - m}
      OBVIOUS
    <3>6. Append(f[m], N - 1 - m) \in Seq(0 .. N - 1) /\ Len(Append(f[m], N - 1 - m)) = Len(f[m]) + 1
      BY <2>1, <3>3
    <3>. HIDE DEF upto
    <3>. QED
      BY <2>1, <2>3, <2>4, <3>1, <3>2, <3>4, <3>5, <3>6
  <2>5. CASE m \notin found
    <3>1. upto(m + 1) = upto(m)
      <4>1. \A i \in found : i < m + 1 <=> i < m
        BY <1>0, <1>3, <2>5
      <4>. QED
        BY <4>1
    <3>. HIDE DEF upto
    <3>. QED
      BY <2>1, <2>3, <2>5, <3>1
  <2>. QED
    BY <2>4, <2>5
<1>. HIDE DEF Q
<1>7. N \in Q
  BY <1>0, <1>5, <1>6, Search!NatSetInduction
<1>8. upto(N) = found
  <2>1. \A i \in found : i < N
    BY <1>0, <1>3
  <2>. QED
    BY <2>1
<1>9. N <= N
  BY <1>0
<1>10. f[N] \in Seq(0 .. N - 1) /\ ToSet(f[N]) = {N - 1 - i : i \in upto(N)} /\ Len(f[N]) = Cardinality(upto(N))
  BY <1>7, <1>9, Zenon DEF Q
<1>11. /\ Roots \in Seq(0 .. N - 1) /\ ToSet(Roots) = {N - 1 - i : i \in found}
       /\ Len(Roots) = Cardinality(found)
  BY <1>4, <1>8, <1>10, Zenon
<1>. QED
  BY <1>3, <1>11, Zenon DEF found

-----------------------------------------------------------------------------
(* The inductive invariant.                                                 *)

\* b is the register before the last change of length, at iteration r - k; it
\* was this long.
Behind == r + 1 - k - L

\* lambda predicts what was read from L on; b predicted what was read from
\* its length on, up to the iteration that replaced it, where it erred by
\* gamma.  (Before the first change there is no such iteration: k = r + 1.)
RegisterInv ==
  /\ L \in 0 .. r /\ k \in 1 .. r + 1 /\ Behind \in Nat
  /\ lambda[0] = {0} /\ \A i \in L + 1 .. NPAR : lambda[i] = {}
  /\ \A j \in L .. r - 1 : Residual(lambda, j) = {}
  /\ \A i \in Behind + 1 .. NPAR : b[i] = {}
  /\ \A j \in Behind .. r - k - 1 : Residual(b, j) = {}
  /\ k <= r => Residual(b, r - k) = gamma

Found == {i \in 0 .. N - 1 : Root(i)}

\* What the loops hand on to each other.
SearchInv ==
  /\ sent \in Sent
  /\ pc = "syndromes" => r = 0
  /\ pc # "syndromes" => S = [i \in 0 .. NPAR - 1 |-> Syndrome(Corrupted(sent, hits), i)]
  /\ pc \in {"syndromes", "massey"} => block = Corrupted(sent, hits) /\ next = 1
  /\ pc # "done" => errorsCorrected = 0
  /\ pc = "forney" => /\ r = NPAR /\ L <= MAXERR /\ Len(errorPos) = L /\ Cardinality(Found) = L
                       /\ ToSet(errorPos) = {N - 1 - i : i \in Found}

DecoderInv == TypeOK /\ RegisterInv /\ SearchInv

\* A block with errors is a block.
LEMMA CorruptedTyped == \A word, e \in Block : Corrupted(word, e) \in Block
BY XorTyped DEF Corrupted, Block

\* The invariant holds at the call, and every loop keeps it.
LEMMA DecoderInit == Init => DecoderInv
<1>. SUFFICES ASSUME Init PROVE DecoderInv
  OBVIOUS
<1>0. NPAR \in Nat /\ N \in Nat \ {0} /\ M \in Nat \ {0} /\ MAXERR \in Nat
  BY FieldAssumption DEF MAXERR
<1>1. {} \in Symbol /\ {0} \in Symbol
  BY <1>0 DEF Symbol, Bits
<1>2. sent \in Sent /\ sent \in Block
  BY CodewordAssumption DEF Init
<1>3. hits \in Block
  <2>1. PICK e \in Errors : hits = [j \in 0 .. N - 1 |-> IF j \in DOMAIN e THEN e[j] ELSE {}]
    BY DEF Init
  <2>2. \A j \in DOMAIN e : e[j] \in Symbol
    BY CodewordAssumption
  <2>. QED
    BY <1>1, <2>1, <2>2 DEF Block
<1>4. block = Corrupted(sent, hits) /\ block \in Block
  BY <1>2, <1>3, CorruptedTyped DEF Init
<1>5. One \in Registers /\ One[0] = {0} /\ \A i \in 1 .. NPAR : One[i] = {}
  BY <1>0, <1>1 DEF One, Registers
<1>6. /\ pc = "syndromes" /\ lambda = One /\ b = One /\ L = 0 /\ k = 1 /\ gamma = {0} /\ r = 0
      /\ errorPos = <<>> /\ next = 1 /\ errorsCorrected = 0 /\ ok = FALSE
      /\ S = [i \in 0 .. NPAR - 1 |-> {}]
  BY DEF Init
<1>7. TypeOK
  <2>1. S \in [0 .. NPAR - 1 -> Symbol]
    BY <1>1, <1>6
  <2>2. L \in 0 .. NPAR /\ k \in 1 .. NPAR + 1 /\ r \in 0 .. NPAR /\ errorsCorrected \in 0 .. MAXERR
    BY <1>0, <1>6
  <2>3. errorPos \in Seq(0 .. N - 1) /\ next \in 1 .. Len(errorPos) + 1
    BY <1>6
  <2>4. gamma \in Symbol \ {{}} /\ ok \in BOOLEAN /\ pc \in {"syndromes", "massey", "forney", "done"}
    BY <1>1, <1>6
  <2>. QED
    BY <1>2, <1>3, <1>4, <1>5, <1>6, <2>1, <2>2, <2>3, <2>4 DEF TypeOK, Registers
<1>8. RegisterInv
  <2>1. Behind = 0 /\ L \in 0 .. r /\ k \in 1 .. r + 1 /\ ~(k <= r)
    BY <1>6 DEF Behind
  <2>2. L .. r - 1 = {} /\ Behind .. r - k - 1 = {} /\ L + 1 = 1 /\ Behind + 1 = 1
    BY <1>6, <2>1
  <2>. QED
    BY <1>5, <1>6, <2>1, <2>2 DEF RegisterInv
<1>9. SearchInv
  BY <1>2, <1>4, <1>6 DEF SearchInv
<1>. QED
  BY <1>7, <1>8, <1>9 DEF DecoderInv

\* The sum in Delta.
LEMMA DeltaIs ==
  ASSUME TypeOK, RegisterInv, r < NPAR
  PROVE  Delta = Residual(lambda, r) /\ Delta \in Symbol
<1>1. r \in L .. NPAR - 1
  BY FieldAssumption DEF TypeOK, RegisterInv
<1>2. Delta = Residual(lambda, r)
  BY <1>1, Discrepancy DEF Delta, TypeOK, RegisterInv, Registers
<1>. QED
  BY <1>2, ConvTyped DEF Residual

\* What the Massey loop keeps.
LEMMA MasseyKeepsRegister ==
  ASSUME TypeOK, RegisterInv, Massey
  PROVE  /\ RegisterInv'
         /\ lambda' \in Registers /\ b' \in Registers /\ gamma' \in NonZero
         /\ L' \in 0 .. NPAR /\ k' \in 1 .. NPAR + 1 /\ r' \in 0 .. NPAR
<1>0. /\ NPAR \in Nat /\ r \in Nat /\ r < NPAR /\ r' = r + 1 /\ S' = S
      /\ L \in Nat /\ L <= r /\ k \in Nat /\ 1 <= k /\ k <= r + 1
      /\ Behind \in Nat /\ Behind = r + 1 - k - L
      /\ lambda \in Registers /\ b \in Registers /\ gamma \in NonZero
      /\ S \in [0 .. NPAR - 1 -> Symbol] /\ k \in 1 .. NPAR + 1
  BY FieldAssumption, SMTT(30) DEF TypeOK, RegisterInv, Massey, Behind, Registers, NonZero
<1>1. Delta = Residual(lambda, r) /\ Delta \in Symbol
  BY <1>0, DeltaIs
<1>2. /\ lambda[0] = {0} /\ \A i \in L + 1 .. NPAR : lambda[i] = {}
      /\ \A j \in L .. r - 1 : Residual(lambda, j) = {}
      /\ \A i \in Behind + 1 .. NPAR : b[i] = {}
      /\ \A j \in Behind .. r - k - 1 : Residual(b, j) = {}
      /\ k <= r => Residual(b, r - k) = gamma
  BY DEF RegisterInv
<1>4. CASE Delta = {}
  <2>1. k' = k + 1 /\ lambda' = lambda /\ b' = b /\ L' = L /\ gamma' = gamma
    BY <1>4 DEF Massey
  <2>2. Behind' = Behind /\ L' \in 0 .. r' /\ k' \in 1 .. r' + 1
    BY <1>0, <2>1 DEF Behind
  <2>3. \A j \in L' .. r' - 1 : Residual(lambda, j)' = {}
    <3>. SUFFICES ASSUME NEW j \in L .. r PROVE Residual(lambda, j) = {}
      BY <1>0, <2>1 DEF Residual
    <3>1. j \in L .. r - 1 \/ j = r
      BY <1>0
    <3>. QED
      BY <1>1, <1>2, <1>4, <3>1
  <2>4. \A j \in Behind' .. r' - k' - 1 : Residual(b, j)' = {}
    <3>1. r' - k' - 1 = r - k - 1
      BY <1>0, <2>1
    <3>. QED
      BY <1>0, <1>2, <2>1, <2>2, <3>1 DEF Residual
  <2>5. k' <= r' => Residual(b, r - k)' = gamma'
    <3>1. r' - k' = r - k /\ (k' <= r' => k <= r)
      BY <1>0, <2>1
    <3>. QED
      BY <1>0, <1>2, <2>1, <3>1 DEF Residual
  <2>6. k' \in 1 .. NPAR + 1 /\ r' \in 0 .. NPAR /\ L' \in 0 .. NPAR
    BY <1>0, <2>1
  <2>. QED
    BY <1>0, <1>2, <2>1, <2>2, <2>3, <2>4, <2>5, <2>6 DEF RegisterInv
<1>5. CASE Delta # {}
  <2>. DEFINE c == div(Delta, gamma)
  <2>1. c \in Symbol /\ mul(c, gamma) = Delta /\ lambda' = Adjusted(c)
    BY <1>0, <1>1, <1>5, DivTyped DEF Massey
  <2>. HIDE DEF c
  <2>2. /\ Adjusted(c) \in Registers
        /\ \A j \in 0 .. NPAR :
             Residual(Adjusted(c), j)
               = Residual(lambda, j) ^^ (IF j < k THEN {} ELSE mul(c, Residual(b, j - k)))
    BY <1>0, <2>1, AdjustedResidual
  <2>3. Adjusted(c)[0] = {0}
    BY <1>0, <1>2 DEF Adjusted
  <2>4. ASSUME NEW i \in 0 .. NPAR, i > L, i > r + 1 - L PROVE Adjusted(c)[i] = {}
    <3>1. i \in L + 1 .. NPAR /\ ~(i < k) /\ i - k \in Behind + 1 .. NPAR
      BY <1>0, <2>4
    <3>2. lambda[i] = {} /\ b[i - k] = {}
      BY <1>2, <3>1
    <3>. QED
      BY <3>1, <3>2, MulZero, XorLaws DEF Adjusted
  <2>5. ASSUME NEW j \in Nat, L <= j, r + 1 - L <= j, j <= r
        PROVE  Residual(Adjusted(c), j) = {}
    <3>1. j \in 0 .. NPAR /\ ~(j < k) /\ j - k >= Behind
      BY <1>0, <2>5
    <3>2. Residual(Adjusted(c), j) = Residual(lambda, j) ^^ mul(c, Residual(b, j - k))
      BY <2>2, <3>1
    <3>3. CASE j < r
      <4>1. j \in L .. r - 1 /\ j - k \in Behind .. r - k - 1
        BY <1>0, <2>5, <3>1, <3>3
      <4>2. Residual(lambda, j) = {} /\ Residual(b, j - k) = {}
        BY <1>2, <4>1
      <4>3. mul(c, {}) = {} /\ {} ^^ {} = {}
        BY MulZero, XorLaws
      <4>. QED
        BY <3>2, <4>2, <4>3
    <3>4. CASE j = r
      <4>1. k <= r
        BY <1>0, <3>1, <3>4
      <4>. QED
        BY <1>1, <1>2, <2>1, <3>2, <3>4, <4>1, XorLaws
    <3>. QED
      BY <1>0, <2>5, <3>3, <3>4
  <2>6. CASE Lengthen
    <3>1. L' = r + 1 - L /\ b' = lambda /\ gamma' = Delta /\ k' = 1 /\ 2 * L <= r
      BY <1>5, <2>6 DEF Massey, Lengthen
    <3>2. /\ Behind' = L /\ L' \in 0 .. r' /\ k' \in 1 .. r' + 1
          /\ k' \in 1 .. NPAR + 1 /\ r' \in 0 .. NPAR /\ L' \in 0 .. NPAR
      BY <1>0, <3>1 DEF Behind
    <3>3. \A i \in L' + 1 .. NPAR : lambda'[i] = {}
      BY <1>0, <2>1, <2>4, <3>1
    <3>4. \A j \in L' .. r' - 1 : Residual(lambda, j)' = {}
      <4>1. \A j \in L' .. r' - 1 : j \in Nat /\ L <= j /\ r + 1 - L <= j /\ j <= r
        BY <1>0, <3>1
      <4>. QED
        BY <1>0, <2>1, <2>5, <4>1 DEF Residual
    <3>5. \A j \in Behind' .. r' - k' - 1 : Residual(b, j)' = {}
      <4>1. r' - k' - 1 = r - 1
        BY <1>0, <3>1
      <4>. QED
        BY <1>0, <1>2, <3>1, <3>2, <4>1 DEF Residual
    <3>6. Residual(b, r - k)' = gamma'
      <4>1. r' - k' = r
        BY <1>0, <3>1
      <4>. QED
        BY <1>0, <1>1, <3>1, <4>1 DEF Residual
    <3>7. gamma' \in NonZero /\ \A i \in Behind' + 1 .. NPAR : b'[i] = {}
      BY <1>1, <1>2, <1>5, <3>1, <3>2 DEF NonZero
    <3>. QED
      BY <1>0, <2>1, <2>2, <2>3, <3>1, <3>2, <3>3, <3>4, <3>5, <3>6, <3>7 DEF RegisterInv
  <2>7. CASE ~Lengthen
    <3>1. L' = L /\ b' = b /\ gamma' = gamma /\ k' = k + 1 /\ ~(2 * L <= r)
      BY <1>5, <2>7 DEF Massey, Lengthen
    <3>2. /\ Behind' = Behind /\ L' \in 0 .. r' /\ k' \in 1 .. r' + 1 /\ r + 1 - L <= L
          /\ k' \in 1 .. NPAR + 1 /\ r' \in 0 .. NPAR /\ L' \in 0 .. NPAR
      BY <1>0, <3>1 DEF Behind
    <3>3. \A i \in L' + 1 .. NPAR : lambda'[i] = {}
      BY <1>0, <2>1, <2>4, <3>1, <3>2
    <3>4. \A j \in L' .. r' - 1 : Residual(lambda, j)' = {}
      <4>1. \A j \in L' .. r' - 1 : j \in Nat /\ L <= j /\ r + 1 - L <= j /\ j <= r
        BY <1>0, <3>1, <3>2
      <4>. QED
        BY <1>0, <2>1, <2>5, <4>1 DEF Residual
    <3>5. \A j \in Behind' .. r' - k' - 1 : Residual(b, j)' = {}
      <4>1. r' - k' - 1 = r - k - 1
        BY <1>0, <3>1
      <4>. QED
        BY <1>0, <1>2, <3>1, <3>2, <4>1 DEF Residual
    <3>6. k' <= r' => Residual(b, r - k)' = gamma'
      <4>1. r' - k' = r - k /\ (k' <= r' => k <= r)
        BY <1>0, <3>1
      <4>. QED
        BY <1>0, <1>2, <3>1, <4>1 DEF Residual
    <3>. QED
      BY <1>0, <1>2, <2>1, <2>2, <2>3, <3>1, <3>2, <3>3, <3>4, <3>5, <3>6 DEF RegisterInv
  <2>. QED
    BY <2>6, <2>7
<1>. QED
  BY <1>4, <1>5

\* The syndromes are computed once, from the block as it came.
LEMMA SyndromesKeeps == DecoderInv /\ Syndromes => DecoderInv'
<1>. SUFFICES ASSUME DecoderInv, Syndromes PROVE DecoderInv'
  OBVIOUS
<1>0. /\ TypeOK /\ RegisterInv /\ SearchInv /\ r = 0 /\ NPAR \in Nat
      /\ block = Corrupted(sent, hits) /\ errorsCorrected = 0 /\ next = 1
      /\ S' = [i \in 0 .. NPAR - 1 |-> Syndrome(block, i)]
      /\ pc' \in {"massey", "done"} /\ ok' \in BOOLEAN
      /\ UNCHANGED <<block, locator, errorPos, next, errorsCorrected, history>>
  <2>1. TypeOK /\ RegisterInv /\ SearchInv /\ NPAR \in Nat /\ pc = "syndromes" /\ ok \in BOOLEAN
    BY FieldAssumption DEF DecoderInv, Syndromes, TypeOK
  <2>2. r = 0 /\ block = Corrupted(sent, hits) /\ errorsCorrected = 0 /\ next = 1
    BY <2>1 DEF SearchInv
  <2>3. pc' \in {"massey", "done"} /\ ok' \in BOOLEAN
    BY <2>1 DEF Syndromes, Return
  <2>4. /\ S' = [i \in 0 .. NPAR - 1 |-> Syndrome(block, i)]
        /\ UNCHANGED <<block, locator, errorPos, next, errorsCorrected, history>>
    BY DEF Syndromes
  <2>. QED
    BY <2>1, <2>2, <2>3, <2>4
<1>1. /\ block' = block /\ lambda' = lambda /\ b' = b /\ L' = L /\ k' = k /\ gamma' = gamma
      /\ r' = r /\ errorPos' = errorPos /\ next' = next /\ errorsCorrected' = errorsCorrected
      /\ sent' = sent /\ hits' = hits
  BY <1>0 DEF locator, history
<1>2. S' \in [0 .. NPAR - 1 -> Symbol]
  BY <1>0, SyndromeIs DEF TypeOK
<1>3. TypeOK'
  BY <1>0, <1>1, <1>2 DEF TypeOK
<1>4. RegisterInv'
  <2>1. L = 0 /\ k = 1 /\ r = 0 /\ Behind = 0 /\ Behind' = 0
    BY <1>0, <1>1 DEF RegisterInv, Behind
  <2>2. L' .. r' - 1 = {} /\ Behind' .. r' - k' - 1 = {} /\ ~(k' <= r')
    BY <1>1, <2>1
  <2>. QED
    BY <1>0, <1>1, <2>1, <2>2 DEF RegisterInv
<1>5. SearchInv'
  <2>1. S' = [i \in 0 .. NPAR - 1 |-> Syndrome(Corrupted(sent', hits'), i)]
    BY <1>0, <1>1
  <2>2. block' = Corrupted(sent', hits')
    BY <1>0, <1>1 DEF Corrupted
  <2>. QED
    BY <1>0, <1>1, <2>1, <2>2 DEF SearchInv
<1>. QED
  BY <1>3, <1>4, <1>5 DEF DecoderInv

\* Where syndromes and register stay, so does what is known of them.
LEMMA RegisterStays ==
  RegisterInv /\ UNCHANGED <<S, locator>> => RegisterInv' /\ Found' = Found
<1>. SUFFICES ASSUME RegisterInv, UNCHANGED <<S, locator>> PROVE RegisterInv' /\ Found' = Found
  OBVIOUS
<1>1. /\ S' = S /\ lambda' = lambda /\ b' = b /\ L' = L /\ k' = k /\ gamma' = gamma /\ r' = r
  BY DEF locator
<1>2. Found' = Found
  BY <1>1 DEF Found, Root
<1>3. RegisterInv'
  BY <1>1 DEF RegisterInv, Residual, Behind
<1>. QED
  BY <1>2, <1>3

\* The iteration of Berlekamp and Massey: the register that was lengthened at
\* the last wrong prediction makes up for this one.
LEMMA MasseyKeeps == DecoderInv /\ Massey => DecoderInv'
<1>. SUFFICES ASSUME DecoderInv, Massey PROVE DecoderInv'
  OBVIOUS
<1>0. TypeOK /\ RegisterInv /\ SearchInv /\ pc = "massey"
  BY DEF DecoderInv, Massey
<1>1. /\ pc' = pc /\ block' = block /\ S' = S /\ errorPos' = errorPos /\ next' = next
      /\ errorsCorrected' = errorsCorrected /\ ok' = ok /\ sent' = sent /\ hits' = hits
  BY DEF Massey, history
<1>2. /\ RegisterInv'
      /\ lambda' \in Registers /\ b' \in Registers /\ gamma' \in NonZero
      /\ L' \in 0 .. NPAR /\ k' \in 1 .. NPAR + 1 /\ r' \in 0 .. NPAR
  BY <1>0, MasseyKeepsRegister
<1>3. TypeOK'
  BY <1>0, <1>1, <1>2 DEF TypeOK, Registers, NonZero
<1>4. SearchInv'
  BY <1>0, <1>1 DEF SearchInv, Corrupted
<1>. QED
  BY <1>2, <1>3, <1>4 DEF DecoderInv

\* The search reports each root of the locator, once.
LEMMA ChienKeeps == DecoderInv /\ Chien => DecoderInv'
<1>. SUFFICES ASSUME DecoderInv, Chien PROVE DecoderInv'
  OBVIOUS
<1>0. TypeOK /\ RegisterInv /\ SearchInv /\ pc = "massey" /\ next = 1 /\ r = NPAR /\ errorsCorrected = 0
  BY DEF DecoderInv, Chien, SearchInv
<1>1. /\ block' = block /\ S' = S /\ lambda' = lambda /\ b' = b /\ L' = L /\ k' = k
      /\ gamma' = gamma /\ r' = r /\ next' = next
      /\ errorsCorrected' = errorsCorrected /\ sent' = sent /\ hits' = hits
      /\ UNCHANGED <<S, locator>>
  BY DEF Chien, history, locator
<1>2. RegisterInv' /\ Found' = Found
  BY <1>0, <1>1, RegisterStays
<1>3. /\ pc' \in {"forney", "done"} /\ ok' \in BOOLEAN
      /\ errorPos' = errorPos \/ errorPos' = Roots
      /\ pc' = "forney" => L <= MAXERR /\ errorPos' = Roots /\ Len(Roots) = L
  <2>1. L \in Nat /\ MAXERR \in Nat /\ ok \in BOOLEAN
    BY <1>0, FieldAssumption DEF TypeOK, MAXERR
  <2>2. CASE TooManyErrors
    BY <2>1, <2>2 DEF Chien, Return
  <2>3. CASE ~TooManyErrors
    <3>1. L <= MAXERR /\ errorPos' = Roots
      BY <2>1, <2>3 DEF Chien, TooManyErrors
    <3>2. CASE RootMismatch
      BY <2>3, <3>1, <3>2 DEF Chien, Return
    <3>3. CASE ~RootMismatch
      BY <2>1, <2>3, <3>1, <3>3 DEF Chien, RootMismatch
    <3>. QED
      BY <3>2, <3>3
  <2>. QED
    BY <2>2, <2>3
<1>4. errorPos' \in Seq(0 .. N - 1) /\ next' \in 1 .. Len(errorPos') + 1
  <2>1. errorPos' \in Seq(0 .. N - 1)
    BY <1>0, <1>3, RootsAre DEF TypeOK
  <2>. QED
    BY <1>0, <1>1, <2>1
<1>5. TypeOK'
  BY <1>0, <1>1, <1>3, <1>4 DEF TypeOK
<1>6. SearchInv'
  <2>1. Len(Roots) = Cardinality(Found) /\ ToSet(Roots) = {N - 1 - i : i \in Found}
    BY RootsAre DEF Found
  <2>2. /\ sent' \in Sent /\ errorsCorrected' = 0 /\ pc' # "syndromes" /\ pc' # "massey"
        /\ S' = [i \in 0 .. NPAR - 1 |-> Syndrome(Corrupted(sent', hits'), i)]
    BY <1>0, <1>1, <1>3 DEF SearchInv
  <2>. QED
    BY <1>0, <1>1, <1>2, <1>3, <2>1, <2>2 DEF SearchInv
<1>. QED
  BY <1>2, <1>5, <1>6 DEF DecoderInv

\* A correction is a symbol.
LEMMA ForneyKeeps == DecoderInv /\ Forney => DecoderInv'
<1>. SUFFICES ASSUME DecoderInv, Forney PROVE DecoderInv'
  OBVIOUS
<1>0. TypeOK /\ RegisterInv /\ SearchInv /\ pc = "forney" /\ next <= Len(errorPos)
  BY DEF DecoderInv, Forney
<1>1. /\ S' = S /\ lambda' = lambda /\ b' = b /\ L' = L /\ k' = k
      /\ gamma' = gamma /\ r' = r /\ errorPos' = errorPos
      /\ errorsCorrected' = errorsCorrected /\ sent' = sent /\ hits' = hits
      /\ UNCHANGED <<S, locator>>
  BY DEF Forney, history, locator
<1>2. RegisterInv' /\ Found' = Found
  BY <1>0, <1>1, RegisterStays
<1>. DEFINE pos == errorPos[next]
            xInv == expTable[(N - (N - 1 - pos)) % N]
            denom == Denominator(xInv)
            fixed == block[pos] ^^ div(Numerator(xInv), denom)
<1>10. errorPos \in Seq(0 .. N - 1) /\ Len(errorPos) \in Nat /\ next \in 1 .. Len(errorPos)
  <2>1. errorPos \in Seq(0 .. N - 1) /\ next \in 1 .. Len(errorPos) + 1
    BY <1>0 DEF TypeOK
  <2>. QED
    BY <1>0, <2>1
<1>3. pos \in 0 .. N - 1
  <2>1. ASSUME NEW T, NEW s \in Seq(T), NEW i \in 1 .. Len(s) PROVE s[i] \in T
    OBVIOUS
  <2>. QED
    BY <1>10, <2>1
<1>4. /\ denom = {} => pc' = "done" /\ ok' = FALSE /\ block' = block /\ next' = next
      /\ denom # {} => /\ block' = [block EXCEPT ![pos] = fixed]
                       /\ next' = next + 1 /\ pc' = pc /\ ok' = ok
  BY DEF Forney, Return
<1>5. denom # {} => fixed \in Symbol
  <2>. SUFFICES ASSUME denom # {} PROVE fixed \in Symbol
    OBVIOUS
  <2>1. denom \in NonZero /\ Numerator(xInv) \in Symbol
    BY TotalTyped DEF Denominator, Numerator, NonZero
  <2>2. block[pos] \in Symbol
    BY <1>0, <1>3 DEF TypeOK, Block
  <2>. HIDE DEF denom
  <2>3. div(Numerator(xInv), denom) \in Symbol
    BY <2>1, DivTyped
  <2>. QED
    BY <2>2, <2>3, XorTyped
<1>. HIDE DEF pos, xInv, denom, fixed
<1>6. block' \in Block
  BY <1>0, <1>3, <1>4, <1>5 DEF TypeOK, Block
<1>7. next' \in 1 .. Len(errorPos) + 1 /\ pc' \in {"forney", "done"} /\ ok' \in BOOLEAN
  <2>1. ok \in BOOLEAN
    BY <1>0 DEF TypeOK
  <2>2. CASE denom = {}
    <3>1. next' = next /\ pc' = "done" /\ ok' = FALSE
      BY <1>4, <2>2
    <3>2. next' \in 1 .. Len(errorPos) + 1
      BY <1>10, <3>1
    <3>3. ok' \in BOOLEAN
      BY <3>1, Zenon
    <3>. QED
      BY <3>1, <3>2, <3>3
  <2>3. CASE denom # {}
    <3>1. next' = next + 1 /\ pc' = pc /\ ok' = ok
      BY <1>4, <2>3
    <3>. QED
      BY <1>0, <1>10, <2>1, <3>1
  <2>. QED
    BY <2>2, <2>3
<1>8. TypeOK'
  BY <1>0, <1>1, <1>6, <1>7 DEF TypeOK
<1>9. SearchInv'
  BY <1>0, <1>1, <1>2, <1>4 DEF SearchInv, Corrupted
<1>. QED
  BY <1>2, <1>8, <1>9 DEF DecoderInv

\* The end of the correction reports the length of the register.
LEMMA FinishKeeps == DecoderInv /\ Finish => DecoderInv'
<1>. SUFFICES ASSUME DecoderInv, Finish PROVE DecoderInv'
  OBVIOUS
<1>0. TypeOK /\ RegisterInv /\ SearchInv /\ pc = "forney" /\ L <= MAXERR /\ errorsCorrected' = L
  BY DEF DecoderInv, Finish, SearchInv
<1>1. /\ block' = block /\ S' = S /\ lambda' = lambda /\ b' = b /\ L' = L /\ k' = k
      /\ gamma' = gamma /\ r' = r /\ next' = next /\ errorPos' = errorPos
      /\ sent' = sent /\ hits' = hits /\ pc' = "done" /\ ok' = TRUE
      /\ UNCHANGED <<S, locator>>
  BY DEF Finish, history, locator, Return
<1>2. RegisterInv'
  BY <1>0, <1>1, RegisterStays
<1>3. TypeOK'
  <2>1. L \in 0 .. MAXERR
    BY <1>0, FieldAssumption DEF TypeOK, MAXERR
  <2>. QED
    BY <1>0, <1>1, <2>1 DEF TypeOK
<1>4. SearchInv'
  BY <1>0, <1>1 DEF SearchInv, Corrupted
<1>. QED
  BY <1>2, <1>3, <1>4 DEF DecoderInv

\* The invariant is about the variables only.
LEMMA StutterKeeps == DecoderInv /\ UNCHANGED vars => DecoderInv'
<1>. SUFFICES ASSUME DecoderInv, UNCHANGED vars PROVE DecoderInv'
  OBVIOUS
<1>1. RegisterInv' /\ Found' = Found
  BY RegisterStays DEF DecoderInv, vars, locator
<1>. QED
  BY <1>1 DEF DecoderInv, TypeOK, SearchInv, vars, Corrupted

\* In every state of a decode the register accounts for the syndromes read so
\* far and the search for the roots of the register (RegisterInv and SearchInv).
THEOREM DecoderInvariant == Spec => []DecoderInv
<1>1. DecoderInv /\ [Next]_vars => DecoderInv'
  BY SyndromesKeeps, MasseyKeeps, ChienKeeps, ForneyKeeps, FinishKeeps, StutterKeeps DEF Next
<1>. QED
  BY DecoderInit, <1>1, PTL DEF Spec

\* No coefficient, length, counter or position of the decoder leaves its range:
\* no index of the loops is outside its array.
THEOREM DecoderTypeCorrect == Spec => []TypeOK
BY DecoderInvariant, PTL DEF DecoderInv

\* The loop invariant of Berlekamp and Massey: before iteration r the register
\* of length L predicts every syndrome from S[L] to S[r - 1].
THEOREM RegisterAlwaysPredicts == Spec => []RegisterPredicts
<1>1. DecoderInv => RegisterPredicts
  <2>. SUFFICES ASSUME DecoderInv, NEW j \in L .. r - 1
                PROVE  S[j] = Total([i \in 1 .. L |-> mul(lambda[i], S[j - i])])
    BY DEF DecoderInv, RegisterInv, TypeOK, RegisterPredicts
  <2>1. j \in L .. NPAR - 1 /\ Residual(lambda, j) = {}
    BY FieldAssumption DEF DecoderInv, RegisterInv, TypeOK
  <2>2. S[j] ^^ Total([i \in 1 .. L |-> mul(lambda[i], S[j - i])]) = {}
    BY <2>1, Discrepancy DEF DecoderInv, RegisterInv, TypeOK, Registers
  <2>. QED
    BY <2>2, XorCancels
<1>. QED
  BY DecoderInvariant, <1>1, PTL

-----------------------------------------------------------------------------
(* Polynomials: the value at x, and that of the formal derivative, of the   *)
(* polynomial with the coefficients p[0] to p[n].                           *)

Values(p, x) == [i \in Nat |-> mul(p[i], Power(x, i))]
Eval(p, n, x) == Sum(Values(p, x), n + 1)

Slopes(p, x) == [i \in Nat |-> IF i % 2 = 1 THEN mul(p[i], Power(x, i - 1)) ELSE {}]
Deriv(p, n, x) == Sum(Slopes(p, x), n + 1)

\* Without the constant, divided by x.
Lowered(p) == [i \in Nat |-> p[i + 1]]

\* The terms of the value and of the derivative, and the polynomial without its
\* constant, divided by x, are series of symbols.
LEMMA PolynomialsTyped ==
  ASSUME NEW p \in Series, NEW x \in NonZero
  PROVE  Values(p, x) \in Series /\ Slopes(p, x) \in Series /\ Lowered(p) \in Series
<1>1. \A i \in Nat : p[i] \in Symbol /\ Power(x, i) \in Symbol
  BY PowerLaws DEF Series
<1>2. \A i, j \in Nat : mul(p[i], Power(x, j)) \in Symbol
  BY <1>1, MulTyped
<1>3. {} \in Symbol
  BY DEF Symbol
<1>4. \A i \in Nat : i % 2 = 1 => i - 1 \in Nat
  OBVIOUS
<1>5. Values(p, x) \in Series
  BY <1>2 DEF Values, Series
<1>6. Slopes(p, x) \in Series
  BY <1>2, <1>3, <1>4 DEF Slopes, Series
<1>7. Lowered(p) \in Series
  BY DEF Lowered, Series
<1>. QED
  BY <1>5, <1>6, <1>7

\* Values of polynomials are symbols.
LEMMA EvalTyped == \A p, n, x : Eval(p, n, x) \in Symbol /\ Deriv(p, n, x) \in Symbol
BY SumTyped DEF Eval, Deriv

\* A constant.
LEMMA EvalConstant ==
  ASSUME NEW p \in Series, NEW x \in NonZero
  PROVE  Eval(p, 0, x) = p[0] /\ Deriv(p, 0, x) = {}
<1>1. Values(p, x) \in Series /\ Slopes(p, x) \in Series /\ p[0] \in Symbol
  BY PolynomialsTyped DEF Series
<1>2. Values(p, x)[0] = p[0]
  <2>1. Values(p, x)[0] = mul(p[0], Power(x, 0))
    BY DEF Values
  <2>. QED
    BY <1>1, <2>1, PowerLaws, MulOne
<1>3. Slopes(p, x)[0] = {}
  BY DEF Slopes
<1>4. \A i \in 0 .. 1 - 1 : i = 0
  OBVIOUS
<1>5. Sum(Values(p, x), 1) = p[0]
  BY <1>1, <1>2, <1>4, SumOnly
<1>6. Sum(Slopes(p, x), 1) = {}
  BY <1>1, <1>3, <1>4, SumNone
<1>7. 0 + 1 = 1
  OBVIOUS
<1>. QED
  BY <1>5, <1>6, <1>7 DEF Eval, Deriv

\* Horner: the constant, and x times the rest.
LEMMA EvalLowered ==
  ASSUME NEW p \in Series, NEW x \in NonZero, NEW n \in Nat
  PROVE  Eval(p, n + 1, x) = p[0] ^^ mul(x, Eval(Lowered(p), n, x))
<1>. DEFINE f == Values(p, x)
            q == Lowered(p)
            v == Values(q, x)
            g == [i \in Nat |-> mul(x, v[i])]
<1>0. x \in Symbol /\ p[0] \in Symbol /\ q \in Series /\ f \in Series /\ n + 1 \in Nat
  BY PolynomialsTyped DEF NonZero, Series
<1>1. v \in Series
  BY <1>0, PolynomialsTyped
<1>2. g \in Series
  BY <1>0, <1>1, MulTyped DEF Series
<1>3. f[0] = p[0]
  <2>1. f[0] = mul(p[0], Power(x, 0))
    BY DEF Values
  <2>. QED
    BY <1>0, <2>1, PowerLaws, MulOne
<1>4. ASSUME NEW i \in 0 .. (n + 1) - 1 PROVE f[i + 1] = g[i]
  <2>1. i \in Nat /\ i + 1 \in Nat /\ p[i + 1] \in Symbol
    BY DEF Series
  <2>2. f[i + 1] = mul(p[i + 1], Power(x, i + 1)) /\ v[i] = mul(p[i + 1], Power(x, i))
        /\ g[i] = mul(x, v[i])
    BY <2>1 DEF Values, Lowered
  <2>3. Power(x, i + 1) = mul(x, Power(x, i)) /\ Power(x, i) \in Symbol
    BY <2>1, PowerLaws
  <2>. HIDE DEF f, v, g
  <2>4. mul(p[i + 1], mul(x, Power(x, i))) = mul(mul(p[i + 1], x), Power(x, i))
    BY <1>0, <2>1, <2>3, MulAssociates
  <2>5. mul(x, mul(p[i + 1], Power(x, i))) = mul(mul(x, p[i + 1]), Power(x, i))
    BY <1>0, <2>1, <2>3, MulAssociates
  <2>6. mul(p[i + 1], x) = mul(x, p[i + 1])
    BY <1>0, <2>1, MulCommutes
  <2>. QED
    BY <2>2, <2>3, <2>4, <2>5, <2>6
<1>5. \A i \in 0 .. (n + 1) - 1 : g[i] = mul(x, v[i])
  OBVIOUS
<1>. HIDE DEF f, v, g, q
<1>6. Sum(f, (n + 1) + 1) = f[0] ^^ Sum(g, n + 1)
  BY <1>0, <1>2, <1>4, SumFirst
<1>7. Sum(g, n + 1) = mul(x, Sum(v, n + 1))
  BY <1>0, <1>1, <1>2, <1>5, SumTimes
<1>. QED
  BY <1>3, <1>6, <1>7 DEF Eval, f, v, q

\* The product rule, for x times what is left.
LEMMA DerivLowered ==
  ASSUME NEW p \in Series, NEW x \in NonZero, NEW n \in Nat
  PROVE  Deriv(p, n + 1, x) = Eval(Lowered(p), n, x) ^^ mul(x, Deriv(Lowered(p), n, x))
<1>. DEFINE f == Slopes(p, x)
            q == Lowered(p)
            v == Values(q, x)
            d == Slopes(q, x)
            g == [i \in Nat |-> mul(x, d[i])]
            h == [i \in Nat |-> f[i + 1]]
<1>0. x \in Symbol /\ q \in Series /\ f \in Series /\ n + 1 \in Nat
  BY PolynomialsTyped DEF NonZero, Series
<1>1. v \in Series /\ d \in Series
  BY <1>0, PolynomialsTyped
<1>2. g \in Series /\ h \in Series
  BY <1>0, <1>1, MulTyped DEF Series
<1>3. f[0] = {}
  BY DEF Slopes
<1>4. ASSUME NEW i \in 0 .. (n + 1) - 1 PROVE h[i] = v[i] ^^ g[i]
  <2>1. i \in Nat /\ i + 1 \in Nat /\ (i + 1) - 1 = i /\ p[i + 1] \in Symbol
    BY DEF Series
  <2>2. h[i] = IF (i + 1) % 2 = 1 THEN mul(p[i + 1], Power(x, i)) ELSE {}
    BY <2>1 DEF Slopes
  <2>3. v[i] = mul(p[i + 1], Power(x, i))
    BY <2>1 DEF Values, Lowered
  <2>4. g[i] = mul(x, IF i % 2 = 1 THEN mul(p[i + 1], Power(x, i - 1)) ELSE {})
    BY <2>1 DEF Slopes, Lowered
  <2>5. CASE i % 2 = 1
    <3>1. (i + 1) % 2 # 1 /\ i - 1 \in Nat /\ (i - 1) + 1 = i
      BY <2>1, <2>5
    <3>2. Power(x, (i - 1) + 1) = mul(x, Power(x, i - 1)) /\ Power(x, i - 1) \in Symbol
      BY <3>1, PowerLaws
    <3>3. g[i] = mul(x, mul(p[i + 1], Power(x, i - 1)))
      BY <2>4, <2>5
    <3>. HIDE DEF f, v, g, h, d
    <3>4. mul(x, mul(p[i + 1], Power(x, i - 1))) = mul(mul(x, p[i + 1]), Power(x, i - 1))
      BY <1>0, <2>1, <3>2, MulAssociates
    <3>5. mul(p[i + 1], mul(x, Power(x, i - 1))) = mul(mul(p[i + 1], x), Power(x, i - 1))
      BY <1>0, <2>1, <3>2, MulAssociates
    <3>6. mul(x, p[i + 1]) = mul(p[i + 1], x)
      BY <1>0, <2>1, MulCommutes
    <3>7. g[i] = v[i]
      BY <2>3, <3>1, <3>2, <3>3, <3>4, <3>5, <3>6
    <3>8. h[i] = {}
      BY <2>2, <3>1
    <3>. QED
      BY <3>7, <3>8, XorLaws
  <2>6. CASE i % 2 # 1
    <3>1. (i + 1) % 2 = 1
      BY <2>1, <2>6
    <3>2. h[i] = v[i]
      BY <2>2, <2>3, <3>1
    <3>3. g[i] = {}
      BY <2>4, <2>6, MulZero
    <3>. QED
      BY <3>2, <3>3, XorLaws
  <2>. QED
    BY <2>5, <2>6
<1>5. /\ \A i \in 0 .. (n + 1) - 1 : g[i] = mul(x, d[i])
      /\ \A i \in 0 .. (n + 1) - 1 : f[i + 1] = h[i]
  OBVIOUS
<1>. HIDE DEF f, v, g, q, d, h
<1>6. Sum(f, (n + 1) + 1) = f[0] ^^ Sum(h, n + 1)
  BY <1>0, <1>2, <1>5, SumFirst
<1>7. Sum(h, n + 1) = Sum(v, n + 1) ^^ Sum(g, n + 1)
  BY <1>0, <1>1, <1>2, <1>4, SumOfSums
<1>8. Sum(g, n + 1) = mul(x, Sum(d, n + 1))
  BY <1>0, <1>1, <1>2, <1>5, SumTimes
<1>9. Sum(f, (n + 1) + 1) = Sum(h, n + 1)
  BY <1>3, <1>6, XorLaws
<1>. QED
  BY <1>7, <1>8, <1>9 DEF Eval, Deriv, f, v, q, d

\* Division by y + x: what the quotient q of degree n says of a polynomial of
\* degree n + 1, at every point and of the derivative at x.
Quotient(p, q, n, x) ==
  /\ \A y \in NonZero : Eval(p, n + 1, y) = mul(y ^^ x, Eval(q, n, y)) ^^ Eval(p, n + 1, x)
  /\ Deriv(p, n + 1, x) = Eval(q, n, x)
  /\ q[n] = p[n + 1]

\* A quotient of the lowered polynomial makes one of the polynomial.
LEMMA QuotientStep ==
  ASSUME NEW p \in Series, NEW q \in Series, NEW s \in Series, NEW n \in Nat, NEW x \in NonZero,
         Quotient(Lowered(p), q, n, x),
         s[0] = Eval(Lowered(p), n + 1, x), Lowered(s) = q
  PROVE  Quotient(p, s, n + 1, x)
<1>. DEFINE e == Eval(Lowered(p), n + 1, x)
<1>0. /\ x \in Symbol /\ e \in Symbol /\ Lowered(p) \in Series
      /\ n + 1 \in Nat /\ p[0] \in Symbol
  BY PolynomialsTyped, EvalTyped DEF NonZero, Series
<1>1. \A y \in NonZero : Eval(p, (n + 1) + 1, y) = p[0] ^^ mul(y, Eval(Lowered(p), n + 1, y))
  BY <1>0, EvalLowered
<1>2. \A y \in NonZero : Eval(s, n + 1, y) = e ^^ mul(y, Eval(q, n, y))
  BY EvalLowered
<1>3. \A y \in NonZero : Eval(Lowered(p), n + 1, y) = mul(y ^^ x, Eval(q, n, y)) ^^ e
  BY DEF Quotient
<1>4. Deriv(Lowered(p), n + 1, x) = Eval(q, n, x)
  BY DEF Quotient
<1>. HIDE DEF e
<1>5. ASSUME NEW y \in NonZero
      PROVE  Eval(p, (n + 1) + 1, y) = mul(y ^^ x, Eval(s, n + 1, y)) ^^ Eval(p, (n + 1) + 1, x)
  <2>. DEFINE u == Eval(q, n, y)
              w == y ^^ x
  <2>1. u \in Symbol /\ y \in Symbol /\ w \in Symbol
    BY <1>0, EvalTyped, XorTyped DEF NonZero
  <2>2. Eval(p, (n + 1) + 1, y) = p[0] ^^ mul(y, mul(w, u) ^^ e)
    BY <1>1, <1>3
  <2>3. Eval(p, (n + 1) + 1, x) = p[0] ^^ mul(x, e)
    BY <1>1 DEF e
  <2>4. Eval(s, n + 1, y) = e ^^ mul(y, u)
    BY <1>2
  <2>5. mul(w, e) = mul(y, e) ^^ mul(x, e)
    BY <1>0, <2>1, MulDistributes
  <2>. HIDE DEF u, w
  <2>6. mul(w, u) \in Symbol /\ mul(y, u) \in Symbol
    BY <2>1, MulTyped
  <2>7. mul(y, mul(w, u) ^^ e) = mul(y, mul(w, u)) ^^ mul(y, e)
    BY <1>0, <2>1, <2>6, MulDistributes
  <2>8. mul(w, e ^^ mul(y, u)) = mul(w, e) ^^ mul(w, mul(y, u))
    BY <1>0, <2>1, <2>6, MulDistributes
  <2>9. mul(y, mul(w, u)) = mul(w, mul(y, u))
    <3>1. mul(y, mul(w, u)) = mul(mul(y, w), u)
      BY <2>1, MulAssociates
    <3>2. mul(w, mul(y, u)) = mul(mul(w, y), u)
      BY <2>1, MulAssociates
    <3>3. mul(y, w) = mul(w, y)
      BY <2>1, MulCommutes
    <3>. QED
      BY <3>1, <3>2, <3>3
  <2>10. \A a, c, f, g : a ^^ (g ^^ c) = ((c ^^ f) ^^ g) ^^ (a ^^ f)
    BY DEF ^^
  <2>11. p[0] ^^ (mul(w, mul(y, u)) ^^ mul(y, e))
           = ((mul(y, e) ^^ mul(x, e)) ^^ mul(w, mul(y, u))) ^^ (p[0] ^^ mul(x, e))
    BY <2>10, SMT
  <2>. QED
    BY <2>2, <2>3, <2>4, <2>5, <2>7, <2>8, <2>9, <2>11 DEF w
<1>6. Deriv(p, (n + 1) + 1, x) = Eval(s, n + 1, x)
  BY <1>0, <1>2, <1>4, DerivLowered DEF e
<1>7. s[n + 1] = p[(n + 1) + 1]
  <2>1. q[n] = s[n + 1]
    BY DEF Lowered
  <2>2. q[n] = Lowered(p)[n + 1]
    BY DEF Quotient
  <2>. QED
    BY <1>0, <2>1, <2>2 DEF Lowered
<1>. QED
  BY <1>5, <1>6, <1>7 DEF Quotient

\* Every polynomial can be divided by y + x.
LEMMA Division ==
  \A n \in Nat : \A p \in Series, x \in NonZero : \E q \in Series : Quotient(p, q, n, x)
<1>. DEFINE Q == {n \in Nat : \A p \in Series, x \in NonZero : \E q \in Series : Quotient(p, q, n, x)}
<1>1. 0 \in Q
  <2>. SUFFICES ASSUME NEW p \in Series, NEW x \in NonZero
                PROVE  \E q \in Series : Quotient(p, q, 0, x)
    OBVIOUS
  <2>. DEFINE q == Lowered(p)
  <2>0. q \in Series /\ x \in Symbol /\ q[0] = p[1] /\ p[0] \in Symbol /\ p[1] \in Symbol
    BY PolynomialsTyped DEF NonZero, Lowered, Series
  <2>1. \A y \in NonZero : Eval(p, 0 + 1, y) = p[0] ^^ mul(y, Eval(q, 0, y))
    BY EvalLowered
  <2>2. \A y \in NonZero : Eval(q, 0, y) = p[1] /\ Deriv(q, 0, y) = {}
    BY <2>0, EvalConstant
  <2>3. ASSUME NEW y \in NonZero
        PROVE  Eval(p, 0 + 1, y) = mul(y ^^ x, Eval(q, 0, y)) ^^ Eval(p, 0 + 1, x)
    <3>1. y \in Symbol
      BY DEF NonZero
    <3>2. mul(y ^^ x, p[1]) = mul(y, p[1]) ^^ mul(x, p[1])
      BY <2>0, <3>1, MulDistributes
    <3>3. \A a, c, d : a ^^ c = (c ^^ d) ^^ (a ^^ d)
      BY DEF ^^
    <3>4. p[0] ^^ mul(y, p[1]) = (mul(y, p[1]) ^^ mul(x, p[1])) ^^ (p[0] ^^ mul(x, p[1]))
      BY <3>3, SMT
    <3>. QED
      BY <2>1, <2>2, <3>2, <3>4
  <2>4. Deriv(p, 0 + 1, x) = Eval(q, 0, x)
    <3>1. Deriv(p, 0 + 1, x) = Eval(q, 0, x) ^^ mul(x, Deriv(q, 0, x))
      BY DerivLowered
    <3>. QED
      BY <2>2, <3>1, MulZero, XorLaws
  <2>. QED
    BY <2>0, <2>3, <2>4 DEF Quotient
<1>2. ASSUME NEW n \in Nat, n \in Q PROVE n + 1 \in Q
  <2>. SUFFICES ASSUME NEW p \in Series, NEW x \in NonZero
                PROVE  \E q \in Series : Quotient(p, q, n + 1, x)
    OBVIOUS
  <2>1. Lowered(p) \in Series
    BY PolynomialsTyped
  <2>2. PICK q \in Series : Quotient(Lowered(p), q, n, x)
    BY <1>2, <2>1
  <2>. DEFINE e == Eval(Lowered(p), n + 1, x)
              s == [i \in Nat |-> IF i = 0 THEN e ELSE q[i - 1]]
  <2>3. s \in Series
    <3>1. e \in Symbol
      BY EvalTyped
    <3>. HIDE DEF e
    <3>2. \A i \in Nat : i # 0 => q[i - 1] \in Symbol
      BY DEF Series
    <3>. QED
      BY <3>1, <3>2 DEF Series
  <2>4. Lowered(s) = q /\ s[0] = e
    <3>1. q = [i \in Nat |-> q[i]]
      BY DEF Series
    <3>2. \A i \in Nat : s[i + 1] = q[i]
      BY SMT
    <3>. HIDE DEF s
    <3>3. Lowered(s) = q
      BY <3>1, <3>2 DEF Lowered
    <3>. QED
      BY <3>3 DEF s
  <2>. HIDE DEF s
  <2>. QED
    BY <2>2, <2>3, <2>4, QuotientStep
<1>. HIDE DEF Q
<1>3. Nat \subseteq Q
  BY <1>1, <1>2, Search!NatSetInduction
<1>. QED
  BY <1>3 DEF Q

Zeros(p, n) == {y \in NonZero : Eval(p, n, y) = {}}

\* A polynomial has finitely many zeros, as there are that many symbols.
LEMMA ZerosFinite == IsFiniteSet(NonZero) /\ \A p, n : IsFiniteSet(Zeros(p, n))
<1>1. IsFiniteSet(Bits)
  BY FieldAssumption, FS_Interval DEF Bits
<1>2. IsFiniteSet(Symbol)
  BY <1>1, FS_SUBSET DEF Symbol
<1>3. IsFiniteSet(NonZero)
  BY <1>2, FS_Subset DEF NonZero
<1>4. \A p, n : Zeros(p, n) \subseteq NonZero
  BY DEF Zeros
<1>. QED
  BY <1>3, <1>4, FS_Subset

\* Where the leading coefficient is 0.
LEMMA EvalDegree ==
  ASSUME NEW p \in Series, NEW n \in Nat, p[n + 1] = {}, NEW y \in NonZero
  PROVE  Eval(p, n + 1, y) = Eval(p, n, y)
<1>1. Values(p, y) \in Series /\ n + 1 \in Nat
  BY PolynomialsTyped
<1>2. Values(p, y)[n + 1] = {}
  <2>1. n + 1 \in Nat /\ mul({}, Power(y, n + 1)) = {}
    BY MulZero
  <2>. QED
    BY <2>1 DEF Values
<1>3. \A i \in n + 1 .. ((n + 1) + 1) - 1 : i = n + 1
  OBVIOUS
<1>4. n + 1 <= (n + 1) + 1 /\ (n + 1) + 1 \in Nat
  OBVIOUS
<1>5. Sum(Values(p, y), (n + 1) + 1) = Sum(Values(p, y), n + 1)
  BY <1>1, <1>2, <1>3, <1>4, SumTail
<1>. QED
  BY <1>5 DEF Eval

\* At a zero x the others are zeros of the quotient.
LEMMA QuotientZeros ==
  ASSUME NEW p \in Series, NEW q \in Series, NEW n \in Nat, NEW x \in NonZero,
         Quotient(p, q, n, x), Eval(p, n + 1, x) = {}
  PROVE  Zeros(p, n + 1) \subseteq Zeros(q, n) \cup {x}
<1>. SUFFICES ASSUME NEW y \in Zeros(p, n + 1), y # x PROVE y \in Zeros(q, n)
  OBVIOUS
<1>1. y \in NonZero /\ Eval(p, n + 1, y) = {}
  BY DEF Zeros
<1>2. Eval(p, n + 1, y) = mul(y ^^ x, Eval(q, n, y)) ^^ {}
  BY <1>1 DEF Quotient
<1>3. mul(y ^^ x, Eval(q, n, y)) = {}
  BY <1>1, <1>2, XorLaws
<1>4. y ^^ x \in Symbol /\ y ^^ x # {} /\ Eval(q, n, y) \in Symbol
  BY <1>1, XorTyped, XorCancels, EvalTyped DEF NonZero
<1>. QED
  BY <1>1, <1>3, <1>4, MulTyped DEF Zeros

\* A polynomial has at most as many zeros as its degree.
LEMMA ZerosBounded ==
  \A n \in Nat : \A p \in Series :
     (\E i \in 0 .. n : p[i] # {}) => Cardinality(Zeros(p, n)) <= n
<1>. DEFINE Q == {n \in Nat : \A p \in Series :
                    (\E i \in 0 .. n : p[i] # {}) => Cardinality(Zeros(p, n)) <= n}
<1>1. 0 \in Q
  <2>. SUFFICES ASSUME NEW p \in Series, \E i \in 0 .. 0 : p[i] # {}
                PROVE  Cardinality(Zeros(p, 0)) <= 0
    OBVIOUS
  <2>1. p[0] # {}
    OBVIOUS
  <2>2. Zeros(p, 0) = {}
    BY <2>1, EvalConstant DEF Zeros
  <2>. QED
    BY <2>2, FS_EmptySet
<1>2. ASSUME NEW n \in Nat, n \in Q PROVE n + 1 \in Q
  <2>. SUFFICES ASSUME NEW p \in Series, NEW i \in 0 .. n + 1, p[i] # {}
                PROVE  Cardinality(Zeros(p, n + 1)) <= n + 1
    OBVIOUS
  <2>0. Cardinality(Zeros(p, n + 1)) \in Nat
    BY ZerosFinite, FS_CardinalityType
  <2>1. CASE p[n + 1] = {}
    <3>1. Zeros(p, n + 1) = Zeros(p, n)
      BY <2>1, EvalDegree DEF Zeros
    <3>2. i \in 0 .. n
      BY <2>1
    <3>3. Cardinality(Zeros(p, n)) <= n
      BY <1>2, <3>2
    <3>. QED
      BY <2>0, <3>1, <3>3
  <2>2. CASE p[n + 1] # {} /\ Zeros(p, n + 1) # {}
    <3>1. PICK x \in NonZero : Eval(p, n + 1, x) = {}
      BY <2>2 DEF Zeros
    <3>2. PICK q \in Series : Quotient(p, q, n, x)
      BY Division
    <3>3. Zeros(p, n + 1) \subseteq Zeros(q, n) \cup {x}
      BY <3>1, <3>2, QuotientZeros
    <3>4. q[n] # {}
      BY <2>2, <3>2 DEF Quotient
    <3>5. Cardinality(Zeros(q, n)) <= n
      <4>1. n \in 0 .. n
        OBVIOUS
      <4>. QED
        BY <1>2, <3>4, <4>1
    <3>6. Cardinality(Zeros(q, n)) \in Nat /\ IsFiniteSet(Zeros(q, n))
      BY ZerosFinite, FS_CardinalityType
    <3>7. /\ IsFiniteSet(Zeros(q, n) \cup {x})
          /\ Cardinality(Zeros(q, n) \cup {x}) <= Cardinality(Zeros(q, n)) + 1
          /\ Cardinality(Zeros(q, n) \cup {x}) \in Nat
      <4>1. /\ IsFiniteSet(Zeros(q, n) \cup {x})
            /\ \/ Cardinality(Zeros(q, n) \cup {x}) = Cardinality(Zeros(q, n))
               \/ Cardinality(Zeros(q, n) \cup {x}) = Cardinality(Zeros(q, n)) + 1
        BY <3>6, FS_AddElement
      <4>. QED
        BY <3>6, <4>1
    <3>8. Cardinality(Zeros(p, n + 1)) <= Cardinality(Zeros(q, n) \cup {x})
      BY <3>3, <3>7, FS_Subset
    <3>. QED
      BY <2>0, <3>5, <3>6, <3>7, <3>8
  <2>3. CASE Zeros(p, n + 1) = {}
    <3>1. Cardinality(Zeros(p, n + 1)) = 0
      BY <2>3, FS_EmptySet
    <3>. QED
      BY <3>1
  <2>. QED
    BY <2>1, <2>2, <2>3
<1>. HIDE DEF Q
<1>3. Nat \subseteq Q
  BY <1>1, <1>2, Search!NatSetInduction
<1>. QED
  BY <1>3 DEF Q

\* With as many zeros as its degree a polynomial has no double zero.
LEMMA Separable ==
  ASSUME NEW p \in Series, NEW n \in Nat, p[0] # {}, NEW x \in NonZero,
         Eval(p, n + 1, x) = {}, Cardinality(Zeros(p, n + 1)) > n
  PROVE  Deriv(p, n + 1, x) # {}
<1>. SUFFICES ASSUME Deriv(p, n + 1, x) = {} PROVE FALSE
  OBVIOUS
<1>0. Cardinality(Zeros(p, n + 1)) \in Nat
  BY ZerosFinite, FS_CardinalityType
<1>1. CASE p[n + 1] = {}
  <2>1. Zeros(p, n + 1) = Zeros(p, n)
    BY <1>1, EvalDegree DEF Zeros
  <2>2. Cardinality(Zeros(p, n)) <= n
    <3>1. 0 \in 0 .. n
      OBVIOUS
    <3>. QED
      BY <3>1, ZerosBounded
  <2>. QED
    BY <1>0, <2>1, <2>2
<1>2. CASE p[n + 1] # {}
  <2>1. PICK q \in Series : Quotient(p, q, n, x)
    BY Division
  <2>2. Eval(q, n, x) = {} /\ q[n] # {}
    BY <1>2, <2>1 DEF Quotient
  <2>3. Zeros(p, n + 1) \subseteq Zeros(q, n)
    BY <2>1, <2>2, QuotientZeros DEF Zeros
  <2>4. Cardinality(Zeros(q, n)) <= n
    <3>1. n \in 0 .. n
      OBVIOUS
    <3>. QED
      BY <2>2, <3>1, ZerosBounded
  <2>5. Cardinality(Zeros(p, n + 1)) <= Cardinality(Zeros(q, n)) /\ Cardinality(Zeros(q, n)) \in Nat
    BY <2>3, ZerosFinite, FS_Subset, FS_CardinalityType
  <2>. QED
    BY <1>0, <2>4, <2>5
<1>. QED
  BY <1>1, <1>2

-----------------------------------------------------------------------------
(* The search and the correction, as polynomials.                           *)

Locator == Extended(lambda)

\* The locator is a series, with constant 1.
LEMMA LocatorTyped ==
  ASSUME TypeOK, RegisterInv
  PROVE  /\ Locator \in Series /\ L \in Nat /\ L <= NPAR
         /\ Locator[0] = {0} /\ \A i \in 0 .. L : Locator[i] = lambda[i]
<1>1. NPAR \in Nat /\ L \in Nat /\ L <= NPAR /\ lambda \in [0 .. NPAR -> Symbol]
  BY FieldAssumption DEF TypeOK
<1>2. Locator \in Series /\ \A i \in 0 .. NPAR : Locator[i] = lambda[i]
  BY <1>1, ExtendedTyped DEF Locator
<1>3. 0 \in 0 .. NPAR /\ \A i \in 0 .. L : i \in 0 .. NPAR
  BY <1>1
<1>. QED
  BY <1>1, <1>2, <1>3 DEF RegisterInv

\* What the search compares with 0 is the value of the locator,
LEMMA SearchEvaluates ==
  ASSUME TypeOK, RegisterInv, NEW x \in NonZero
  PROVE  {0} ^^ Total([j \in 1 .. L |-> mul(lambda[j], Power(x, j))]) = Eval(Locator, L, x)
<1>. DEFINE g == [j \in 1 .. L |-> mul(lambda[j], Power(x, j))]
            f == Values(Locator, x)
            h == [i \in 0 .. (L + 1) - 1 |-> f[i]]
<1>1. /\ Locator \in Series /\ L \in Nat /\ Locator[0] = {0}
      /\ \A i \in 0 .. L : Locator[i] = lambda[i]
  BY LocatorTyped
<1>2. f \in Series
  BY <1>1, PolynomialsTyped
<1>3. f[0] = {0} /\ f[0] \in Symbol
  <2>1. f[0] = mul({0}, Power(x, 0))
    BY <1>1 DEF Values
  <2>2. {0} \in Symbol
    BY <1>1 DEF Series
  <2>. QED
    BY <2>1, <2>2, PowerLaws, MulOne
<1>4. \A i \in DOMAIN g : h[i] = g[i]
  BY <1>1 DEF Values
<1>5. h[0] = {0} /\ h[0] \in Symbol
  BY <1>1, <1>3
<1>6. DOMAIN g = 1 .. L /\ DOMAIN h = DOMAIN g \cup {0}
  BY <1>1
<1>7. IsFiniteSet(1 .. L) /\ 0 \notin 1 .. L
  BY <1>1, FS_Interval
<1>8. Eval(Locator, L, x) = Total(h)
  BY DEF Eval, Sum
<1>. HIDE DEF g, f, h
<1>9. Total(h) = Total(g) ^^ h[0]
  BY <1>4, <1>5, <1>6, <1>7, TotalAdd
<1>10. Total(g) ^^ {0} = {0} ^^ Total(g)
  BY XorLaws
<1>. QED
  BY <1>5, <1>8, <1>9, <1>10 DEF g

\* and what the correction divides by is its derivative.
LEMMA DenominatorIs ==
  ASSUME TypeOK, RegisterInv, NEW x \in NonZero
  PROVE  Denominator(x) = Deriv(Locator, L, x)
<1>. DEFINE g == [j \in {i \in 1 .. L : i % 2 = 1} |-> mul(lambda[j], Power(x, j - 1))]
            f == Slopes(Locator, x)
<1>1. Locator \in Series /\ L \in Nat /\ \A i \in 0 .. L : Locator[i] = lambda[i]
  BY LocatorTyped
<1>2. f \in Series /\ L + 1 \in Nat
  BY <1>1, PolynomialsTyped
<1>3. DOMAIN g \subseteq 0 .. (L + 1) - 1 /\ \A i \in DOMAIN g : g[i] = f[i]
  BY <1>1 DEF Slopes
<1>4. ASSUME NEW i \in 0 .. (L + 1) - 1, i \notin DOMAIN g PROVE f[i] = {}
  <2>1. i % 2 # 1
    BY <1>1, <1>4
  <2>. QED
    BY <1>1, <2>1 DEF Slopes
<1>5. Denominator(x) = Total(g)
  BY DEF Denominator
<1>. HIDE DEF g, f
<1>6. Total(g) = Sum(f, L + 1)
  BY <1>2, <1>3, <1>4, TotalIsSum
<1>. QED
  BY <1>5, <1>6 DEF Deriv, f

\* The root that reports i.
RootOf(i) == expTable[(N - i) % N]

\* The search visits each symbol but 0 once, at the inverse of the power.
LEMMA RootOfTyped ==
  /\ \A i \in 0 .. N - 1 : RootOf(i) \in NonZero /\ RootOf(i) = Alpha(N - i)
  /\ \A i, j \in 0 .. N - 1 : RootOf(i) = RootOf(j) => i = j
<1>0. N \in Nat \ {0}
  BY FieldAssumption
<1>1. ASSUME NEW i \in 0 .. N - 1
      PROVE  RootOf(i) \in NonZero /\ RootOf(i) = Alpha(N - i)
  <2>1. N - i \in Nat
    BY <1>0
  <2>2. RootOf(i) = Alpha(N - i)
    BY DEF RootOf, Alpha
  <2>. QED
    BY <2>1, <2>2, AlphaTyped
<1>2. \A i \in 0 .. N - 1 : (N - i) % N = IF i = 0 THEN 0 ELSE N - i
  <2>. SUFFICES ASSUME NEW i \in 0 .. N - 1 PROVE (N - i) % N = IF i = 0 THEN 0 ELSE N - i
    OBVIOUS
  <2>1. CASE i = 0
    <3>1. (0 + N) % N = 0 % N /\ 0 % N = 0
      BY <1>0, RemainderPeriod
    <3>. QED
      BY <1>0, <2>1, <3>1
  <2>2. CASE i # 0
    <3>1. N - i \in 0 .. N - 1
      BY <1>0, <2>2
    <3>2. (N - i) % N = N - i
      BY <1>0, <3>1
    <3>. QED
      BY <2>2, <3>2
  <2>. QED
    BY <2>1, <2>2
<1>3. ASSUME NEW i \in 0 .. N - 1, NEW j \in 0 .. N - 1, RootOf(i) = RootOf(j) PROVE i = j
  <2>. DEFINE m == (N - i) % N
              n == (N - j) % N
  <2>1. m \in 0 .. N - 1 /\ n \in 0 .. N - 1
    BY <1>0
  <2>2. Alpha(m) = Alpha(n)
    BY <1>3, <2>1, Table DEF RootOf
  <2>3. m = n
    <3>. HIDE DEF m, n
    <3>. QED
      BY <2>1, <2>2, Powers
  <2>4. (N - i) % N = (N - j) % N
    BY <2>3
  <2>. QED
    BY <1>0, <1>2, <2>4
<1>. QED
  BY <1>1, <1>3

\* What it finds are the zeros of the locator.
LEMMA RootIsZero ==
  ASSUME TypeOK, RegisterInv
  PROVE  \A i \in 0 .. N - 1 : i \in Found <=> RootOf(i) \in Zeros(Locator, L)
<1>. SUFFICES ASSUME NEW i \in 0 .. N - 1 PROVE i \in Found <=> RootOf(i) \in Zeros(Locator, L)
  OBVIOUS
<1>1. RootOf(i) \in NonZero
  BY RootOfTyped
<1>2. {0} ^^ Total([j \in 1 .. L |-> mul(lambda[j], Power(RootOf(i), j))]) = Eval(Locator, L, RootOf(i))
  BY <1>1, SearchEvaluates
<1>3. Root(i) <=> {0} ^^ Total([j \in 1 .. L |-> mul(lambda[j], Power(RootOf(i), j))]) = {}
  BY DEF Root, RootOf
<1>. QED
  BY <1>1, <1>2, <1>3 DEF Found, Zeros

\* There are no more zeros than the length of the register, and as many as are found.
LEMMA FoundBounded ==
  ASSUME TypeOK, RegisterInv
  PROVE  /\ Cardinality(Found) <= Cardinality(Zeros(Locator, L))
         /\ Cardinality(Zeros(Locator, L)) <= L
         /\ IsFiniteSet(Found) /\ Cardinality(Found) \in Nat
<1>. DEFINE f == [i \in Found |-> RootOf(i)]
            Z == Zeros(Locator, L)
<1>1. f \in Injection(Found, Z)
  <2>1. Found \subseteq 0 .. N - 1
    BY DEF Found
  <2>2. f \in [Found -> Z]
    BY <2>1, RootIsZero
  <2>3. \A i, j \in Found : f[i] = f[j] => i = j
    BY <2>1, RootOfTyped
  <2>. QED
    BY <2>2, <2>3 DEF Injection, IsInjective
<1>. HIDE DEF f
<1>2. IsFiniteSet(Z)
  BY ZerosFinite
<1>3. IsFiniteSet(Found) /\ Cardinality(Found) <= Cardinality(Z)
  BY <1>1, <1>2, FS_Injection
<1>4. Cardinality(Z) <= L
  <2>1. 0 \in 0 .. L /\ Locator[0] # {} /\ Locator \in Series /\ L \in Nat
    BY LocatorTyped
  <2>. QED
    BY <2>1, ZerosBounded
<1>. QED
  BY <1>3, <1>4, FS_CardinalityType

\* The correction never divides by 0.
LEMMA DenominatorNonZero ==
  ASSUME DecoderInv, Forney
  PROVE  LET pos == errorPos[next]
         IN  Denominator(expTable[(N - (N - 1 - pos)) % N]) # {}
<1>. DEFINE pos == errorPos[next]
<1>0. /\ TypeOK /\ RegisterInv /\ SearchInv /\ pc = "forney" /\ next <= Len(errorPos)
      /\ N \in Nat \ {0}
  BY FieldAssumption DEF DecoderInv, Forney
<1>1. Cardinality(Found) = L /\ ToSet(errorPos) = {N - 1 - i : i \in Found}
  BY <1>0 DEF SearchInv
<1>2. pos \in ToSet(errorPos)
  <2>1. errorPos \in Seq(0 .. N - 1) /\ next \in 1 .. Len(errorPos) + 1
    BY <1>0 DEF TypeOK
  <2>2. next \in DOMAIN errorPos
    BY <1>0, <2>1
  <2>. QED
    BY <2>2 DEF ToSet
<1>3. PICK i \in Found : pos = N - 1 - i
  BY <1>1, <1>2
<1>. HIDE DEF pos
<1>4. i \in 0 .. N - 1 /\ N - 1 - pos = i
  <2>1. i \in 0 .. N - 1
    BY DEF Found
  <2>. QED
    BY <1>0, <1>3, <2>1
<1>5. expTable[(N - (N - 1 - pos)) % N] = RootOf(i)
  BY <1>4 DEF RootOf
<1>. DEFINE x == RootOf(i)
<1>6. x \in NonZero /\ Eval(Locator, L, x) = {}
  BY <1>0, <1>4, RootIsZero DEF Zeros
<1>7. L \in Nat /\ L # 0
  <2>1. L \in Nat /\ Found # {}
    BY <1>0, LocatorTyped
  <2>. QED
    BY <1>0, <1>1, <2>1, FoundBounded, FS_EmptySet
<1>. DEFINE n == L - 1
<1>8. n \in Nat /\ L = n + 1
  BY <1>7
<1>9. Cardinality(Zeros(Locator, L)) > n
  BY <1>0, <1>1, <1>7, FoundBounded, ZerosFinite, FS_CardinalityType
<1>10. Locator \in Series /\ Locator[0] # {}
  BY <1>0, LocatorTyped
<1>. HIDE DEF n, x
<1>11. Deriv(Locator, n + 1, x) # {}
  BY <1>6, <1>8, <1>9, <1>10, Separable
<1>12. Denominator(x) = Deriv(Locator, L, x)
  BY <1>0, <1>6, DenominatorIs
<1>. QED
  BY <1>5, <1>8, <1>11, <1>12 DEF pos, x

\* A decode that fails leaves the caller's block as it was received: the return
\* in the middle of the correction loop is never taken, because a locator with
\* as many roots as its degree has no double root.
THEOREM FailedDecodeIsHarmless == Spec => []FailureIsHarmless
<1>1. Init => FailureIsHarmless
  BY DEF Init, FailureIsHarmless
<1>2. ASSUME DecoderInv, FailureIsHarmless, [Next]_vars PROVE FailureIsHarmless'
  <2>1. CASE Syndromes
    BY <2>1 DEF Syndromes, Return, FailureIsHarmless
  <2>2. CASE Massey
    BY <2>2 DEF Massey, FailureIsHarmless
  <2>3. CASE Chien
    <3>1. block = Corrupted(sent, hits) /\ block' = block /\ sent' = sent /\ hits' = hits
      BY <1>2, <2>3 DEF Chien, DecoderInv, SearchInv, history
    <3>. QED
      BY <3>1 DEF FailureIsHarmless, Corrupted
  <2>4. CASE Forney
    <3>1. pc' = pc /\ pc = "forney"
      BY <1>2, <2>4, DenominatorNonZero DEF Forney
    <3>. QED
      BY <3>1 DEF FailureIsHarmless
  <2>5. CASE Finish
    BY <2>5 DEF Finish, Return, FailureIsHarmless
  <2>6. CASE UNCHANGED vars
    BY <1>2, <2>6 DEF vars, FailureIsHarmless, Corrupted
  <2>. QED
    BY <1>2, <2>1, <2>2, <2>3, <2>4, <2>5, <2>6 DEF Next
<1>. QED
  BY DecoderInvariant, <1>1, <1>2, PTL DEF Spec

\* Values of a polynomial that is a combination of two.
LEMMA EvalCombination ==
  ASSUME NEW f \in Series, NEW g \in Series, NEW h \in Series, NEW c \in Symbol, NEW n \in Nat,
         NEW y \in NonZero, \A i \in 0 .. n : h[i] = f[i] ^^ mul(c, g[i])
  PROVE  Eval(h, n, y) = Eval(f, n, y) ^^ mul(c, Eval(g, n, y))
<1>. DEFINE u == Values(f, y)
            v == Values(g, y)
            w == Values(h, y)
            cv == [i \in Nat |-> mul(c, v[i])]
<1>1. u \in Series /\ v \in Series /\ w \in Series
  BY PolynomialsTyped, Zenon
<1>10. n + 1 \in Nat
  OBVIOUS
<1>2. cv \in Series
  BY <1>1, MulTyped DEF Series
<1>3. ASSUME NEW i \in 0 .. (n + 1) - 1 PROVE w[i] = u[i] ^^ cv[i]
  <2>. DEFINE e == Power(y, i)
  <2>1. i \in Nat /\ f[i] \in Symbol /\ g[i] \in Symbol /\ e \in Symbol /\ mul(c, g[i]) \in Symbol
    BY PowerLaws, MulTyped DEF Series
  <2>2. w[i] = mul(f[i] ^^ mul(c, g[i]), e) /\ u[i] = mul(f[i], e) /\ cv[i] = mul(c, mul(g[i], e))
    BY <2>1 DEF Values
  <2>. HIDE DEF u, w, cv, e
  <2>3. mul(f[i] ^^ mul(c, g[i]), e) = mul(f[i], e) ^^ mul(mul(c, g[i]), e)
    BY <2>1, MulDistributes
  <2>4. mul(mul(c, g[i]), e) = mul(c, mul(g[i], e))
    BY <2>1, MulAssociates
  <2>. QED
    BY <2>2, <2>3, <2>4
<1>4. \A i \in 0 .. (n + 1) - 1 : cv[i] = mul(c, v[i])
  OBVIOUS
<1>. HIDE DEF u, v, w, cv
<1>5. Sum(w, n + 1) = Sum(u, n + 1) ^^ Sum(cv, n + 1)
  BY <1>1, <1>2, <1>3, <1>10, SumOfSums
<1>6. Sum(cv, n + 1) = mul(c, Sum(v, n + 1))
  BY <1>1, <1>2, <1>4, <1>10, SumTimes
<1>. QED
  BY <1>5, <1>6 DEF Eval, u, v, w

-----------------------------------------------------------------------------
(* The errors.  X(t) is the place of byte t of a block, Y(t) its inverse.    *)

X(t) == IF t < N THEN Alpha(N - 1 - t) ELSE {0}
Y(t) == IF t < N THEN RootOf(N - 1 - t) ELSE {0}

\* Places are not 0, differ, and Y(t) is the inverse of X(t).
LEMMA Places ==
  /\ \A t \in Nat : X(t) \in NonZero /\ Y(t) \in NonZero /\ mul(X(t), Y(t)) = {0}
  /\ \A t, u \in 0 .. N - 1 : X(t) = X(u) => t = u
<1>0. N \in Nat \ {0} /\ {0} \in NonZero /\ {0} \in Symbol
  BY FieldAssumption, Table, AlphaTyped
<1>1. ASSUME NEW t \in Nat PROVE X(t) \in NonZero /\ Y(t) \in NonZero /\ mul(X(t), Y(t)) = {0}
  <2>1. CASE t < N
    <3>. DEFINE i == N - 1 - t
    <3>1. i \in 0 .. N - 1 /\ i \in Nat /\ N - i \in Nat /\ i + (N - i) = N
      BY <1>0, <2>1
    <3>2. X(t) = Alpha(i) /\ Y(t) = Alpha(N - i)
      BY <2>1, <3>1, RootOfTyped DEF X, Y
    <3>. HIDE DEF i
    <3>3. mul(Alpha(i), Alpha(N - i)) = Alpha(i + (N - i))
      BY <3>1, ProductOfPowers
    <3>4. Alpha(N) = {0}
      <4>1. (0 + N) % N = 0 % N
        BY <1>0, RemainderPeriod
      <4>2. 0 + N = N
        BY <1>0
      <4>. QED
        BY <4>1, <4>2, Table DEF Alpha
    <3>. QED
      BY <3>1, <3>2, <3>3, <3>4, AlphaTyped
  <2>2. CASE ~(t < N)
    BY <1>0, <2>2, MulOne DEF X, Y
  <2>. QED
    BY <2>1, <2>2
<1>2. ASSUME NEW t \in 0 .. N - 1, NEW u \in 0 .. N - 1, X(t) = X(u) PROVE t = u
  <2>1. N - 1 - t \in 0 .. N - 1 /\ N - 1 - u \in 0 .. N - 1 /\ t < N /\ u < N
    BY <1>0
  <2>2. N - 1 - t = N - 1 - u
    BY <1>2, <2>1, Powers DEF X
  <2>. QED
    BY <1>0, <2>2
<1>. QED
  BY <1>1, <1>2

\* Powers of a place and of its inverse.
LEMMA InversePowers ==
  ASSUME NEW t \in Nat
  PROVE  /\ \A i \in Nat : mul(Power(X(t), i), Power(Y(t), i)) = {0}
         /\ \A j \in Nat : \A i \in 0 .. j :
              Power(X(t), j - i) = mul(Power(X(t), j), Power(Y(t), i))
<1>. DEFINE x == X(t)
            y == Y(t)
            Q == {i \in Nat : mul(Power(x, i), Power(y, i)) = {0}}
<1>0. x \in NonZero /\ y \in NonZero /\ mul(x, y) = {0} /\ x \in Symbol /\ y \in Symbol /\ {0} \in Symbol
  BY Places, Table, AlphaTyped DEF NonZero
<1>. HIDE DEF x, y
<1>1. 0 \in Q
  BY <1>0, PowerLaws, MulOne
<1>2. ASSUME NEW i \in Nat, i \in Q PROVE i + 1 \in Q
  <2>. DEFINE u == Power(x, i)
              v == Power(y, i)
  <2>1. u \in Symbol /\ v \in Symbol /\ mul(u, v) = {0}
    BY <1>0, <1>2, PowerLaws
  <2>2. Power(x, i + 1) = mul(x, u) /\ Power(y, i + 1) = mul(y, v)
    BY <1>0, PowerLaws
  <2>. HIDE DEF u, v
  <2>3. mul(mul(x, u), mul(y, v)) = mul(x, mul(u, mul(y, v)))
    BY <1>0, <2>1, MulAssociates, MulTyped
  <2>4. mul(u, mul(y, v)) = mul(mul(u, y), v) /\ mul(u, y) = mul(y, u)
    BY <1>0, <2>1, MulAssociates, MulCommutes
  <2>5. mul(mul(y, u), v) = mul(y, mul(u, v))
    BY <1>0, <2>1, MulAssociates, SMTT(30)
  <2>6. mul(y, mul(u, v)) = y
    BY <1>0, <2>1, MulOne
  <2>7. mul(mul(x, u), mul(y, v)) = {0}
    BY <1>0, <2>3, <2>4, <2>5, <2>6
  <2>. QED
    BY <2>2, <2>7
<1>. HIDE DEF Q
<1>3. Nat \subseteq Q
  BY <1>1, <1>2, Search!NatSetInduction
<1>4. ASSUME NEW j \in Nat, NEW i \in 0 .. j PROVE Power(x, j - i) = mul(Power(x, j), Power(y, i))
  <2>. DEFINE u == Power(x, j - i)
              v == Power(x, i)
              w == Power(y, i)
  <2>1. j - i \in Nat /\ i \in Nat /\ (j - i) + i = j
    OBVIOUS
  <2>2. u \in Symbol /\ v \in Symbol /\ w \in Symbol /\ mul(u, v) = Power(x, j)
    BY <1>0, <2>1, PowerLaws
  <2>3. mul(v, w) = {0}
    BY <1>3, <2>1 DEF Q
  <2>. HIDE DEF u, v, w
  <2>4. mul(mul(u, v), w) = mul(u, mul(v, w))
    BY <2>2, MulAssociates
  <2>5. mul(u, mul(v, w)) = u
    BY <2>2, <2>3, MulOne
  <2>. QED
    BY <2>2, <2>4, <2>5 DEF u, w
<1>. QED
  BY <1>3, <1>4 DEF Q, x, y

\* A polynomial that is 0 at given places and nowhere else.
LEMMA Vanishing ==
  \A n \in Nat : \A W \in SUBSET (0 .. N - 1) : Cardinality(W) = n =>
    \E p \in Series :
      /\ \A i \in Nat : i > n => p[i] = {}
      /\ \A y \in NonZero : Eval(p, n, y) = {} <=> \E w \in W : y = X(w)
<1>. DEFINE Vanishes(p, n, W) ==
              /\ \A i \in Nat : i > n => p[i] = {}
              /\ \A y \in NonZero : Eval(p, n, y) = {} <=> \E w \in W : y = X(w)
            Q == {n \in Nat : \A W \in SUBSET (0 .. N - 1) : Cardinality(W) = n =>
                     \E p \in Series : Vanishes(p, n, W)}
<1>0. \A W \in SUBSET (0 .. N - 1) : IsFiniteSet(W)
  <2>1. IsFiniteSet(0 .. N - 1)
    BY FieldAssumption, FS_Interval
  <2>. QED
    BY <2>1, FS_Subset
<1>1. 0 \in Q
  <2>. SUFFICES ASSUME NEW W \in SUBSET (0 .. N - 1), Cardinality(W) = 0
                PROVE  \E p \in Series : Vanishes(p, 0, W)
    OBVIOUS
  <2>1. W = {}
    BY <1>0, FS_EmptySet
  <2>. DEFINE p == [i \in Nat |-> IF i = 0 THEN {0} ELSE {}]
  <2>2. p \in Series
    BY Table, AlphaTyped DEF Series, Symbol
  <2>3. p[0] = {0} /\ \A i \in Nat : i > 0 => p[i] = {}
    OBVIOUS
  <2>. HIDE DEF p
  <2>4. \A y \in NonZero : Eval(p, 0, y) = {0}
    BY <2>2, <2>3, EvalConstant
  <2>. QED
    BY <2>1, <2>2, <2>3, <2>4
<1>2. ASSUME NEW n \in Nat, n \in Q PROVE n + 1 \in Q
  <2>. SUFFICES ASSUME NEW W \in SUBSET (0 .. N - 1), Cardinality(W) = n + 1
                PROVE  \E p \in Series : Vanishes(p, n + 1, W)
    BY SMTT(30)
  <2>1. PICK u \in W : TRUE
    <3>1. Cardinality({}) # n + 1
      BY FS_EmptySet
    <3>. QED
      BY <3>1
  <2>2. W \ {u} \in SUBSET (0 .. N - 1) /\ Cardinality(W \ {u}) = n
    BY <1>0, <2>1, FS_RemoveElement
  <2>3. PICK q \in Series : Vanishes(q, n, W \ {u})
    BY <1>2, <2>2
  <2>. DEFINE x == X(u)
              moved == [i \in Nat |-> IF i = 0 THEN {} ELSE q[i - 1]]
              p == [i \in Nat |-> moved[i] ^^ mul(x, q[i])]
  <2>4. x \in NonZero /\ x \in Symbol
    BY <2>1, Places DEF NonZero
  <2>5. moved \in Series
    <3>1. \A i \in Nat : i # 0 => i - 1 \in Nat
      OBVIOUS
    <3>. QED
      BY <3>1 DEF Series, Symbol
  <2>6. p \in Series
    <3>1. \A i \in Nat : moved[i] \in Symbol /\ mul(x, q[i]) \in Symbol
      BY <2>4, <2>5, MulTyped DEF Series
    <3>. HIDE DEF moved, x
    <3>. QED
      BY <3>1, XorTyped DEF Series
  <2>7. ASSUME NEW i \in Nat, i > n + 1 PROVE p[i] = {}
    <3>1. i - 1 \in Nat /\ i - 1 > n /\ i > n /\ i # 0
      BY <2>7
    <3>2. moved[i] = {} /\ q[i] = {}
      BY <2>3, <3>1
    <3>3. p[i] = {} ^^ mul(x, {})
      BY <3>2
    <3>. QED
      BY <3>3, MulZero, XorLaws
  <2>8. ASSUME NEW y \in NonZero PROVE Eval(p, n + 1, y) = mul(y ^^ x, Eval(q, n, y))
    <3>0. y \in Symbol /\ Eval(q, n, y) \in Symbol /\ n + 1 \in Nat
      BY EvalTyped DEF NonZero
    <3>1. Lowered(moved) = q /\ moved[0] = {}
      <4>1. q = [i \in Nat |-> q[i]]
        BY DEF Series
      <4>2. \A i \in Nat : moved[i + 1] = q[i]
        BY SMT
      <4>3. moved[0] = {}
        OBVIOUS
      <4>. HIDE DEF moved
      <4>. QED
        BY <4>1, <4>2, <4>3 DEF Lowered
    <3>2. \A i \in 0 .. n + 1 : p[i] = moved[i] ^^ mul(x, q[i])
      OBVIOUS
    <3>3. q[n + 1] = {}
      BY <2>3, <3>0
    <3>. HIDE DEF p, moved, x
    <3>4. Eval(p, n + 1, y) = Eval(moved, n + 1, y) ^^ mul(x, Eval(q, n + 1, y))
      BY <2>4, <2>5, <2>6, <3>0, <3>2, EvalCombination
    <3>5. Eval(moved, n + 1, y) = {} ^^ mul(y, Eval(q, n, y))
      BY <2>5, <3>1, EvalLowered
    <3>6. Eval(q, n + 1, y) = Eval(q, n, y)
      BY <3>3, EvalDegree
    <3>7. {} ^^ mul(y, Eval(q, n, y)) = mul(y, Eval(q, n, y))
      BY XorLaws
    <3>8. mul(y ^^ x, Eval(q, n, y)) = mul(y, Eval(q, n, y)) ^^ mul(x, Eval(q, n, y))
      BY <2>4, <3>0, MulDistributes
    <3>. QED
      BY <3>4, <3>5, <3>6, <3>7, <3>8
  <2>. HIDE DEF p, moved
  <2>9. ASSUME NEW y \in NonZero PROVE Eval(p, n + 1, y) = {} <=> \E w \in W : y = X(w)
    <3>1. y ^^ x \in Symbol /\ Eval(q, n, y) \in Symbol
      BY <2>4, EvalTyped, XorTyped DEF NonZero
    <3>2. Eval(p, n + 1, y) = {} <=> y ^^ x = {} \/ Eval(q, n, y) = {}
      BY <2>8, <3>1, MulTyped
    <3>3. y ^^ x = {} <=> y = x
      BY XorCancels
    <3>4. Eval(q, n, y) = {} <=> \E w \in W \ {u} : y = X(w)
      BY <2>3
    <3>. QED
      BY <2>1, <3>2, <3>3, <3>4
  <2>. QED
    BY <2>6, <2>7, <2>9
<1>. HIDE DEF Q
<1>3. Nat \subseteq Q
  BY <1>1, <1>2, Search!NatSetInduction
<1>. QED
  BY <1>3 DEF Q

-----------------------------------------------------------------------------
(* Moments: sums of what is at each place, times a power of the place.  The *)
(* syndromes of a block are the moments of its errors.                      *)

Shares(c, m) == [t \in Nat |-> mul(c[t], Power(X(t), m))]
Moment(c, m) == Sum(Shares(c, m), N)

\* A moment is a sum of symbols.
LEMMA SharesTyped ==
  ASSUME NEW c \in Series, NEW m \in Nat
  PROVE  Shares(c, m) \in Series /\ Moment(c, m) \in Symbol /\ N \in Nat
<1>1. \A t \in Nat : c[t] \in Symbol /\ Power(X(t), m) \in Symbol
  BY Places, PowerLaws DEF Series
<1>2. Shares(c, m) \in Series
  BY <1>1, MulTyped DEF Shares, Series
<1>. QED
  BY <1>2, SumTyped, FieldAssumption DEF Moment

\* A polynomial of the moments is the moment 0 of the values at the places.
LEMMA MomentsCombine ==
  ASSUME NEW p \in Series, NEW c \in Series, NEW n \in Nat
  PROVE  Sum([i \in Nat |-> mul(p[i], Moment(c, i))], n + 1)
           = Sum([t \in Nat |-> mul(c[t], Eval(p, n, X(t)))], N)
<1>. DEFINE a == [i \in Nat |-> [t \in Nat |-> mul(p[i], Shares(c, i)[t])]]
            byPower == [i \in Nat |-> Sum(a[i], N)]
            byPlace == [t \in Nat |-> Sum([i \in Nat |-> a[i][t]], n + 1)]
            l == [i \in Nat |-> mul(p[i], Moment(c, i))]
            v == [t \in Nat |-> mul(c[t], Eval(p, n, X(t)))]
<1>0. N \in Nat /\ n + 1 \in Nat
  BY FieldAssumption
<1>1. \A i \in Nat : a[i] \in Series
  <2>. SUFFICES ASSUME NEW i \in Nat PROVE a[i] \in Series
    OBVIOUS
  <2>1. Shares(c, i) \in Series /\ p[i] \in Symbol
    BY SharesTyped DEF Series
  <2>. QED
    BY <2>1, MulTyped DEF Series
<1>2. a \in [Nat -> Series]
  BY <1>1
<1>3. Sum(byPower, n + 1) = Sum(byPlace, N)
  <2>. HIDE DEF a
  <2>. QED
    BY <1>0, <1>2, SumExchange
<1>4. ASSUME NEW i \in 0 .. (n + 1) - 1 PROVE byPower[i] = l[i]
  <2>1. i \in Nat /\ a[i] \in Series /\ Shares(c, i) \in Series /\ p[i] \in Symbol
    BY <1>1, SharesTyped DEF Series
  <2>2. \A t \in 0 .. N - 1 : a[i][t] = mul(p[i], Shares(c, i)[t])
    BY <1>0, <2>1
  <2>. HIDE DEF a
  <2>3. Sum(a[i], N) = mul(p[i], Sum(Shares(c, i), N))
    BY <1>0, <2>1, <2>2, SumTimes
  <2>. QED
    BY <2>1, <2>3 DEF Moment
<1>5. ASSUME NEW t \in 0 .. N - 1 PROVE byPlace[t] = v[t]
  <2>. DEFINE col == [i \in Nat |-> a[i][t]]
              x == X(t)
  <2>1. t \in Nat /\ c[t] \in Symbol /\ x \in NonZero /\ Values(p, x) \in Series
    <3>1. t \in Nat /\ c[t] \in Symbol /\ x \in NonZero
      BY <1>0, Places DEF Series
    <3>. HIDE DEF x
    <3>. QED
      BY <3>1, PolynomialsTyped
  <2>2. col \in Series
    BY <1>1, <2>1 DEF Series
  <2>3. ASSUME NEW i \in 0 .. (n + 1) - 1 PROVE col[i] = mul(c[t], Values(p, x)[i])
    <3>1. i \in Nat /\ p[i] \in Symbol /\ Power(x, i) \in Symbol
      <4>. HIDE DEF x
      <4>1. i \in Nat
        OBVIOUS
      <4>. QED
        BY <2>1, <4>1, PowerLaws DEF Series
    <3>2. col[i] = mul(p[i], mul(c[t], Power(x, i)))
      BY <2>1, <3>1 DEF Shares
    <3>3. Values(p, x)[i] = mul(p[i], Power(x, i))
      BY <3>1 DEF Values
    <3>. HIDE DEF col, x
    <3>4. mul(p[i], mul(c[t], Power(x, i))) = mul(mul(p[i], c[t]), Power(x, i))
      BY <2>1, <3>1, MulAssociates
    <3>5. mul(c[t], mul(p[i], Power(x, i))) = mul(mul(c[t], p[i]), Power(x, i))
      BY <2>1, <3>1, MulAssociates
    <3>6. mul(p[i], c[t]) = mul(c[t], p[i])
      BY <2>1, <3>1, MulCommutes
    <3>. QED
      BY <3>2, <3>3, <3>4, <3>5, <3>6
  <2>4. byPlace[t] = Sum(col, n + 1) /\ v[t] = mul(c[t], Eval(p, n, x))
    BY <2>1
  <2>. HIDE DEF col, x, a, v, byPlace
  <2>5. Sum(col, n + 1) = mul(c[t], Sum(Values(p, x), n + 1))
    BY <1>0, <2>1, <2>2, <2>3, SumTimes
  <2>. QED
    BY <2>4, <2>5 DEF Eval
<1>. HIDE DEF a, byPower, byPlace, l, v
<1>6. Sum(byPower, n + 1) = Sum(l, n + 1)
  BY <1>0, <1>4, SumAgrees
<1>7. Sum(byPlace, N) = Sum(v, N)
  BY <1>0, <1>5, SumAgrees
<1>. QED
  BY <1>3, <1>6, <1>7 DEF l, v

\* As many moments that are 0 as places that are not, and there are no such places.
LEMMA Vandermonde ==
  ASSUME NEW c \in Series, NEW n \in Nat,
         Cardinality({t \in 0 .. N - 1 : c[t] # {}}) <= n,
         \A m \in 0 .. n - 1 : Moment(c, m) = {}
  PROVE  \A t \in 0 .. N - 1 : c[t] = {}
<1>. DEFINE W == {t \in 0 .. N - 1 : c[t] # {}}
<1>. SUFFICES ASSUME NEW u \in W PROVE FALSE
  OBVIOUS
<1>0. N \in Nat /\ u \in 0 .. N - 1 /\ c[u] # {} /\ c[u] \in Symbol
  BY FieldAssumption DEF Series
<1>1. IsFiniteSet(W) /\ W \subseteq 0 .. N - 1 /\ Cardinality(W) <= n
  <2>1. IsFiniteSet(0 .. N - 1)
    <3>1. 0 \in Int /\ N - 1 \in Int
      BY <1>0
    <3>. QED
      BY <3>1, FS_Interval
  <2>. QED
    BY <2>1, FS_Subset
<1>2. \A t \in 0 .. N - 1 : t \notin W => c[t] = {}
  OBVIOUS
<1>. HIDE DEF W
<1>3. W \ {u} \in SUBSET (0 .. N - 1) /\ IsFiniteSet(W \ {u})
      /\ Cardinality(W \ {u}) = Cardinality(W) - 1
  BY <1>1, FS_RemoveElement
<1>. DEFINE d == Cardinality(W \ {u})
<1>4. d \in Nat /\ d <= n - 1
  BY <1>1, <1>3, FS_CardinalityType
<1>. HIDE DEF d
<1>5. PICK p \in Series : \A y \in NonZero : Eval(p, d, y) = {} <=> \E w \in W \ {u} : y = X(w)
  <2>. DEFINE V == W \ {u}
  <2>1. V \in SUBSET (0 .. N - 1) /\ Cardinality(V) = d
    BY <1>3 DEF d
  <2>. HIDE DEF V
  <2>2. \E p \in Series : \A y \in NonZero : Eval(p, d, y) = {} <=> \E w \in V : y = X(w)
    <3>1. \E p \in Series :
             /\ \A i \in Nat : i > d => p[i] = {}
             /\ \A y \in NonZero : Eval(p, d, y) = {} <=> \E w \in V : y = X(w)
      <4>1. \A W1 \in SUBSET (0 .. N - 1) : Cardinality(W1) = d =>
               \E p \in Series :
                 /\ \A i \in Nat : i > d => p[i] = {}
                 /\ \A y \in NonZero : Eval(p, d, y) = {} <=> \E w \in W1 : y = X(w)
        <5>1. d \in Nat
          BY <1>4
        <5>. QED
          BY <5>1, Vanishing, Zenon
      <4>. QED
        BY <2>1, <4>1, Zenon
    <3>. QED
      BY <3>1, Zenon
  <2>. QED
    BY <2>2 DEF V
<1>. DEFINE l == [i \in Nat |-> mul(p[i], Moment(c, i))]
            v == [t \in Nat |-> mul(c[t], Eval(p, d, X(t)))]
<1>6. Sum(l, d + 1) = Sum(v, N)
  BY <1>4, MomentsCombine
<1>7. l \in Series /\ v \in Series
  <2>1. \A i \in Nat : p[i] \in Symbol /\ c[i] \in Symbol /\ Moment(c, i) \in Symbol
    BY SharesTyped DEF Series
  <2>2. \A i \in Nat : Eval(p, d, X(i)) \in Symbol
    BY EvalTyped
  <2>3. \A i \in Nat : mul(p[i], Moment(c, i)) \in Symbol /\ mul(c[i], Eval(p, d, X(i))) \in Symbol
    BY <2>1, <2>2, MulTyped
  <2>. QED
    BY <2>3 DEF Series
<1>8. \A i \in 0 .. (d + 1) - 1 : l[i] = {}
  <2>. SUFFICES ASSUME NEW i \in 0 .. (d + 1) - 1 PROVE l[i] = {}
    OBVIOUS
  <2>1. i \in Nat /\ i \in 0 .. n - 1
    BY <1>4
  <2>2. l[i] = mul(p[i], {})
    BY <2>1
  <2>. QED
    BY <2>2, MulZero
<1>9. ASSUME NEW t \in 0 .. N - 1, t # u PROVE v[t] = {}
  <2>1. t \in Nat /\ X(t) \in NonZero
    BY Places
  <2>2. CASE t \in W
    <3>1. Eval(p, d, X(t)) = {}
      BY <1>5, <1>9, <2>1, <2>2
    <3>2. v[t] = mul(c[t], {})
      BY <2>1, <3>1
    <3>. QED
      BY <3>2, MulZero
  <2>3. CASE t \notin W
    <3>1. v[t] = mul({}, Eval(p, d, X(t)))
      BY <1>2, <2>1, <2>3
    <3>. QED
      BY <3>1, MulZero
  <2>. QED
    BY <2>2, <2>3
<1>10. v[u] # {}
  <2>1. u \in Nat /\ X(u) \in NonZero
    BY <1>0, Places
  <2>2. ~\E w \in W \ {u} : X(u) = X(w)
    BY <1>0, <1>1, Places
  <2>3. Eval(p, d, X(u)) # {} /\ Eval(p, d, X(u)) \in Symbol
    BY <1>5, <2>1, <2>2, EvalTyped
  <2>. QED
    BY <1>0, <2>1, <2>3, MulTyped
<1>. HIDE DEF l, v
<1>11. Sum(l, d + 1) = {}
  BY <1>4, <1>7, <1>8, SumNone
<1>12. Sum(v, N) = v[u]
  BY <1>0, <1>7, <1>9, SumOnly
<1>. QED
  BY <1>6, <1>10, <1>11, <1>12

\* Later moments are the moments of other weights.
LEMMA MomentShift ==
  ASSUME NEW c \in Series, NEW d \in Nat, NEW m \in Nat
  PROVE  Moment([t \in Nat |-> mul(c[t], Power(X(t), d))], m) = Moment(c, m + d)
<1>. DEFINE e == [t \in Nat |-> mul(c[t], Power(X(t), d))]
<1>1. ASSUME NEW t \in 0 .. N - 1 PROVE Shares(e, m)[t] = Shares(c, m + d)[t]
  <2>1. t \in Nat /\ c[t] \in Symbol /\ X(t) \in NonZero /\ m + d \in Nat /\ d + m = m + d
    BY Places DEF Series
  <2>2. Power(X(t), d) \in Symbol /\ Power(X(t), m) \in Symbol
        /\ mul(Power(X(t), d), Power(X(t), m)) = Power(X(t), d + m)
    BY <2>1, PowerLaws
  <2>3. Shares(e, m)[t] = mul(mul(c[t], Power(X(t), d)), Power(X(t), m))
    BY <2>1 DEF Shares
  <2>4. Shares(c, m + d)[t] = mul(c[t], Power(X(t), m + d))
    BY <2>1 DEF Shares
  <2>5. mul(mul(c[t], Power(X(t), d)), Power(X(t), m)) = mul(c[t], mul(Power(X(t), d), Power(X(t), m)))
    BY <2>1, <2>2, MulAssociates
  <2>. QED
    BY <2>1, <2>2, <2>3, <2>4, <2>5
<1>. HIDE DEF e
<1>2. Sum(Shares(e, m), N) = Sum(Shares(c, m + d), N)
  BY <1>1, FieldAssumption, SumAgrees
<1>. QED
  BY <1>2 DEF Moment, e

-----------------------------------------------------------------------------
(* What the decoder's syndromes and register say of the errors.             *)

Hits == [t \in Nat |-> IF t < N THEN hits[t] ELSE {}]

\* The errors, as a series.
LEMMA HitsTyped ==
  ASSUME TypeOK
  PROVE  Hits \in Series /\ \A t \in 0 .. N - 1 : Hits[t] = hits[t] /\ hits[t] \in Symbol
<1>1. \A t \in 0 .. N - 1 : Hits[t] = hits[t] /\ hits[t] \in Symbol
  <2>1. \A t \in 0 .. N - 1 : t \in Nat /\ t < N
    BY FieldAssumption
  <2>2. \A t \in 0 .. N - 1 : hits[t] \in Symbol
    BY DEF TypeOK, Block
  <2>. QED
    BY <2>1, <2>2 DEF Hits
<1>2. \A t \in Nat : t < N => t \in 0 .. N - 1
  BY FieldAssumption
<1>. QED
  BY <1>1, <1>2 DEF Hits, Series, Symbol

\* A codeword has no syndromes, so those of the block are of its errors.
LEMMA SyndromesAreMoments ==
  ASSUME TypeOK, sent \in Sent, NEW i \in 0 .. NPAR - 1
  PROVE  Syndrome(Corrupted(sent, hits), i) = Moment(Hits, i)
<1>. DEFINE word == Corrupted(sent, hits)
            x == Alpha(i)
            f == Horner(sent, x, N)
            g == Horner(hits, x, N)
            h == Horner(word, x, N)
<1>0. N \in Nat \ {0} /\ N \in 0 .. N /\ i \in 0 .. N - 1 /\ i \in Nat /\ NPAR \in Nat
  BY FieldAssumption
<1>1. word \in Block /\ sent \in Block /\ hits \in Block /\ \A t \in 0 .. N - 1 : word[t] = sent[t] ^^ hits[t]
  BY CorruptedTyped DEF TypeOK, Corrupted
<1>2. x \in NonZero
  BY <1>0, AlphaTyped
<1>. HIDE DEF word
<1>3. f \in Series /\ g \in Series /\ h \in Series
  <2>. HIDE DEF x
  <2>. QED
    BY <1>0, <1>1, <1>2, HornerTyped
<1>4. ASSUME NEW t \in 0 .. N - 1
      PROVE  h[t] = f[t] ^^ g[t] /\ g[t] = Shares(Hits, i)[t]
  <2>. DEFINE m == N - 1 - t
  <2>1. t \in Nat /\ t < N /\ m \in Nat /\ m \in 0 .. N - 1
    BY <1>0
  <2>2. sent[t] \in Symbol /\ hits[t] \in Symbol /\ Power(x, m) \in Symbol /\ word[t] = sent[t] ^^ hits[t]
    BY <1>1, <1>2, <2>1, PowerLaws DEF Block
  <2>3. h[t] = mul(word[t], Power(x, m)) /\ f[t] = mul(sent[t], Power(x, m)) /\ g[t] = mul(hits[t], Power(x, m))
    BY <2>1 DEF Horner
  <2>4. Power(x, m) = Power(X(t), i)
    <3>1. logTable[Alpha(i)] = i % N /\ logTable[Alpha(m)] = m % N
      BY <1>0, <2>1, Logarithms
    <3>2. i % N = i /\ m % N = m
      BY <1>0, <2>1
    <3>3. i * m = m * i
      BY <1>0, <2>1
    <3>4. X(t) = Alpha(m)
      BY <2>1 DEF X
    <3>. QED
      BY <3>1, <3>2, <3>3, <3>4 DEF Power
  <2>5. Shares(Hits, i)[t] = mul(hits[t], Power(X(t), i))
    BY <2>1, HitsTyped DEF Shares
  <2>. HIDE DEF m, x, f, g, h
  <2>. QED
    BY <2>2, <2>3, <2>4, <2>5, MulDistributes
<1>5. Syndrome(word, i) = Sum(h, N) /\ Syndrome(sent, i) = Sum(f, N)
  BY <1>1, SyndromeIs
<1>6. Syndrome(sent, i) = {}
  BY CodewordAssumption
<1>. HIDE DEF f, g, h, x
<1>7. Sum(h, N) = Sum(f, N) ^^ Sum(g, N)
  BY <1>0, <1>3, <1>4, SumOfSums
<1>8. Sum(g, N) = Moment(Hits, i)
  BY <1>0, <1>4, SumAgrees DEF Moment
<1>. QED
  BY <1>5, <1>6, <1>7, <1>8, XorLaws DEF word

\* What the register leaves of each error.
Left == [t \in Nat |-> mul(Hits[t], Eval(Locator, L, Y(t)))]

\* What the register leaves of the errors is a series.
LEMMA LeftTyped == ASSUME TypeOK PROVE Left \in Series
BY HitsTyped, EvalTyped, MulTyped DEF Left, Series

\* What the register leaves of the syndromes are the moments of what its value
\* at each place leaves of the errors.
LEMMA ResidualsAreMoments ==
  ASSUME TypeOK, RegisterInv, \A i \in 0 .. NPAR - 1 : S[i] = Moment(Hits, i),
         NEW j \in L .. NPAR - 1
  PROVE  Residual(lambda, j) = Moment(Left, j)
<1>. DEFINE s == Extended(S)
            f == Term(Locator, s, j)
            w(t) == mul(Hits[t], Power(X(t), j))
            a == [i \in Nat |-> [t \in Nat |->
                    IF i <= L THEN mul(w(t), Values(Locator, Y(t))[i]) ELSE {}]]
            rows == [i \in Nat |-> Sum(a[i], N)]
            cols == [t \in Nat |-> Sum([i \in Nat |-> a[i][t]], j + 1)]
<1>0. /\ N \in Nat /\ L \in Nat /\ NPAR \in Nat /\ j \in Nat /\ j + 1 \in Nat /\ L <= j /\ j < NPAR
      /\ NPAR - 1 \in Int
  BY FieldAssumption DEF TypeOK
<1>1. /\ Locator \in Series /\ \A i \in 0 .. L : Locator[i] = lambda[i]
      /\ \A i \in L + 1 .. NPAR : Locator[i] = {}
  <2>1. \A i \in L + 1 .. NPAR : Locator[i] = lambda[i] /\ lambda[i] = {}
    <3>1. \A i \in L + 1 .. NPAR : i \in 0 .. NPAR /\ i \in Nat
      BY <1>0
    <3>2. lambda \in [0 .. NPAR -> Symbol]
      BY DEF TypeOK
    <3>. QED
      BY <3>1, <3>2 DEF Locator, Extended, RegisterInv
  <2>. QED
    BY <2>1, LocatorTyped
<1>2. /\ s \in Series /\ \A i \in 0 .. NPAR - 1 : s[i] = Moment(Hits, i)
  <2>1. S \in [0 .. NPAR - 1 -> Symbol]
    BY DEF TypeOK
  <2>. QED
    BY <1>0, <2>1, ExtendedTyped
<1>. HIDE DEF s
<1>3. \A t \in Nat : /\ Hits[t] \in Symbol /\ w(t) \in Symbol
                     /\ X(t) \in NonZero /\ Y(t) \in NonZero /\ Values(Locator, Y(t)) \in Series
  <2>. SUFFICES ASSUME NEW t \in Nat
                PROVE  /\ Hits[t] \in Symbol /\ w(t) \in Symbol
                       /\ X(t) \in NonZero /\ Y(t) \in NonZero /\ Values(Locator, Y(t)) \in Series
    OBVIOUS
  <2>1. Hits[t] \in Symbol /\ X(t) \in NonZero /\ Y(t) \in NonZero
    BY HitsTyped, Places DEF Series
  <2>2. Power(X(t), j) \in Symbol
    BY <1>0, <2>1, PowerLaws
  <2>3. Values(Locator, Y(t)) \in Series
    BY <1>1, <2>1, PolynomialsTyped
  <2>. QED
    BY <2>1, <2>2, <2>3, MulTyped
<1>4. a \in [Nat -> Series]
  <2>. SUFFICES ASSUME NEW i \in Nat, NEW t \in Nat
                PROVE  (IF i <= L THEN mul(w(t), Values(Locator, Y(t))[i]) ELSE {}) \in Symbol
    BY DEF Series
  <2>1. w(t) \in Symbol /\ Values(Locator, Y(t))[i] \in Symbol
    BY <1>3 DEF Series
  <2>. HIDE DEF w
  <2>. QED
    BY <2>1, MulTyped DEF Symbol
<1>5. Sum(rows, j + 1) = Sum(cols, N)
  <2>. HIDE DEF a
  <2>. QED
    BY <1>0, <1>4, SumExchange
<1>6. ASSUME NEW i \in 0 .. (j + 1) - 1 PROVE rows[i] = f[i]
  <2>0. i \in Nat /\ i <= j /\ i \in 0 .. j /\ j - i \in Nat /\ j - i \in 0 .. NPAR - 1
    BY <1>0
  <2>1. f[i] = mul(Locator[i], Moment(Hits, j - i))
    BY <1>2, <2>0 DEF Term
  <2>2. CASE i <= L
    <3>. DEFINE v == Shares(Hits, j - i)
    <3>1. v \in Series /\ Locator[i] \in Symbol /\ a[i] \in Series
      BY <1>1, <1>4, <2>0, HitsTyped, SharesTyped DEF Series
    <3>2. ASSUME NEW t \in 0 .. N - 1 PROVE a[i][t] = mul(Locator[i], v[t])
      <4>. DEFINE p == Power(X(t), j)
                  q == Power(Y(t), i)
                  z == Hits[t]
                  c == Locator[i]
      <4>1. t \in Nat
        BY <1>0
      <4>2. a[i][t] = mul(mul(z, p), mul(c, q))
        BY <2>0, <2>2, <4>1 DEF Values
      <4>3. v[t] = mul(z, mul(p, q))
        BY <2>0, <4>1, InversePowers DEF Shares
      <4>4. z \in Symbol /\ p \in Symbol /\ q \in Symbol /\ c \in Symbol
        BY <1>0, <1>3, <2>0, <3>1, <4>1, PowerLaws
      <4>. HIDE DEF p, q, z, c, a, v
      <4>5. mul(z, p) \in Symbol /\ mul(p, q) \in Symbol
        BY <4>4, MulTyped
      <4>6. mul(mul(z, p), mul(c, q)) = mul(mul(mul(z, p), c), q)
        BY <4>4, <4>5, MulAssociates
      <4>7. mul(mul(z, p), c) = mul(c, mul(z, p))
        BY <4>4, <4>5, MulCommutes
      <4>8. mul(mul(c, mul(z, p)), q) = mul(c, mul(mul(z, p), q))
        BY <4>4, <4>5, MulAssociates
      <4>9. mul(mul(z, p), q) = mul(z, mul(p, q))
        BY <4>4, MulAssociates
      <4>. QED
        BY <4>2, <4>3, <4>6, <4>7, <4>8, <4>9 DEF c
    <3>. HIDE DEF v, a
    <3>3. Sum(a[i], N) = mul(Locator[i], Sum(v, N))
      BY <1>0, <3>1, <3>2, SumTimes
    <3>4. rows[i] = Sum(a[i], N)
      BY <2>0
    <3>. QED
      BY <2>1, <3>3, <3>4 DEF Moment, v
  <2>3. CASE ~(i <= L)
    <3>1. Locator[i] = {}
      BY <1>0, <1>1, <2>0, <2>3
    <3>2. a[i] \in Series /\ \A t \in 0 .. N - 1 : a[i][t] = {}
      BY <1>0, <1>4, <2>0, <2>3
    <3>3. rows[i] = Sum(a[i], N)
      BY <2>0
    <3>. HIDE DEF a, rows
    <3>4. Sum(a[i], N) = {}
      BY <1>0, <3>2, SumNone
    <3>. QED
      BY <2>1, <3>1, <3>3, <3>4, MulZero
  <2>. QED
    BY <2>2, <2>3
<1>7. ASSUME NEW t \in 0 .. N - 1 PROVE cols[t] = Shares(Left, j)[t]
  <2>. DEFINE col == [i \in Nat |-> a[i][t]]
              e == Values(Locator, Y(t))
              g == [i \in Nat |-> IF i <= L THEN e[i] ELSE {}]
  <2>1. t \in Nat /\ w(t) \in Symbol /\ Hits[t] \in Symbol /\ e \in Series /\ Power(X(t), j) \in Symbol
    <3>1. t \in Nat /\ X(t) \in NonZero
      BY <1>0, <1>3
    <3>. QED
      BY <1>0, <1>3, <3>1, PowerLaws
  <2>2. col \in Series
    BY <1>4, <2>1 DEF Series
  <2>3. \A i \in 0 .. (L + 1) - 1 : col[i] = mul(w(t), e[i])
    BY <1>0, <2>1
  <2>4. \A i \in L + 1 .. (j + 1) - 1 : col[i] = {}
    BY <1>0, <2>1
  <2>5. cols[t] = Sum(col, j + 1)
    BY <2>1
  <2>6. Shares(Left, j)[t] = mul(mul(Hits[t], Eval(Locator, L, Y(t))), Power(X(t), j))
    BY <2>1 DEF Shares, Left
  <2>. HIDE DEF col, e, a, cols
  <2>7. Sum(col, j + 1) = Sum(col, L + 1)
    BY <1>0, <2>2, <2>4, SumTail
  <2>8. Sum(col, L + 1) = mul(w(t), Sum(e, L + 1))
    <3>. DEFINE c == w(t)
    <3>1. c \in Symbol /\ \A i \in 0 .. (L + 1) - 1 : col[i] = mul(c, e[i])
      BY <2>1, <2>3
    <3>. HIDE DEF c
    <3>. QED
      BY <1>0, <2>1, <2>2, <3>1, SumTimes DEF c
  <2>. DEFINE p == Power(X(t), j)
              z == Hits[t]
              u == Eval(Locator, L, Y(t))
  <2>9. u \in Symbol /\ u = Sum(e, L + 1) /\ p \in Symbol /\ z \in Symbol
    BY <2>1, EvalTyped DEF Eval, e
  <2>10. cols[t] = mul(mul(z, p), u) /\ Shares(Left, j)[t] = mul(mul(z, u), p)
    BY <2>5, <2>6, <2>7, <2>8, <2>9
  <2>. HIDE DEF p, z, u
  <2>11. mul(mul(z, p), u) = mul(z, mul(p, u)) /\ mul(mul(z, u), p) = mul(z, mul(u, p))
    BY <2>9, MulAssociates
  <2>12. mul(p, u) = mul(u, p)
    BY <2>9, MulCommutes
  <2>. QED
    BY <2>10, <2>11, <2>12
<1>. HIDE DEF a, rows, cols, f
<1>8. Sum(rows, j + 1) = Sum(f, j + 1)
  BY <1>0, <1>6, SumAgrees
<1>9. Sum(cols, N) = Moment(Left, j)
  BY <1>0, <1>7, SumAgrees DEF Moment
<1>. QED
  BY <1>5, <1>8, <1>9 DEF Residual, Conv, f, s, Locator

\* There are finitely many wrong bytes.
LEMMA WrongFinite ==
  ASSUME TypeOK
  PROVE  /\ IsFiniteSet(Wrong) /\ Cardinality(Wrong) \in Nat
         /\ Wrong = {t \in 0 .. N - 1 : Hits[t] # {}}
<1>1. IsFiniteSet(0 .. N - 1)
  <2>1. 0 \in Int /\ N - 1 \in Int
    BY FieldAssumption
  <2>. QED
    BY <2>1, FS_Interval
<1>2. IsFiniteSet(Wrong)
  BY <1>1, FS_Subset DEF Wrong
<1>3. Wrong = {t \in 0 .. N - 1 : Hits[t] # {}}
  BY HitsTyped DEF Wrong
<1>. QED
  BY <1>2, <1>3, FS_CardinalityType

\* The syndromes the decoder works with are the moments of the errors.
LEMMA SyndromesKnown ==
  ASSUME TypeOK, SearchInv, pc # "syndromes"
  PROVE  \A i \in 0 .. NPAR - 1 : S[i] = Moment(Hits, i)
BY SyndromesAreMoments DEF SearchInv

\* A register that predicts as many syndromes as there are errors has their
\* places among its roots, and then predicts all the syndromes.
LEMMA Annihilated ==
  ASSUME TypeOK, RegisterInv, \A i \in 0 .. NPAR - 1 : S[i] = Moment(Hits, i),
         Cardinality(Wrong) <= r - L
  PROVE  /\ \A t \in Wrong : Eval(Locator, L, Y(t)) = {}
         /\ \A j \in L .. NPAR - 1 : Residual(lambda, j) = {}
<1>. DEFINE c == [t \in Nat |-> mul(Left[t], Power(X(t), L))]
            n == r - L
            V == {t \in 0 .. N - 1 : c[t] # {}}
<1>0. /\ N \in Nat /\ L \in Nat /\ r \in Nat /\ r <= NPAR /\ L <= r /\ NPAR \in Nat /\ n \in Nat
      /\ Left \in Series
  BY FieldAssumption, LeftTyped DEF TypeOK, RegisterInv
<1>1. \A t \in Nat : /\ Left[t] \in Symbol
                     /\ Power(X(t), L) \in Symbol /\ Power(X(t), L) # {}
  BY <1>0, Places, PowerLaws DEF Series, NonZero
<1>2. c \in Series
  BY <1>1, MulTyped DEF Series
<1>3. \A t \in 0 .. N - 1 : c[t] = {} <=> Left[t] = {}
  <2>1. \A t \in 0 .. N - 1 : t \in Nat
    OBVIOUS
  <2>. QED
    BY <1>1, <2>1, MulTyped
<1>4. \A t \in 0 .. N - 1 : Left[t] = {} <=> Hits[t] = {} \/ Eval(Locator, L, Y(t)) = {}
  <2>. SUFFICES ASSUME NEW t \in 0 .. N - 1
                PROVE  Left[t] = {} <=> Hits[t] = {} \/ Eval(Locator, L, Y(t)) = {}
    OBVIOUS
  <2>1. t \in Nat /\ Hits[t] \in Symbol /\ Eval(Locator, L, Y(t)) \in Symbol
    BY HitsTyped, EvalTyped DEF Series
  <2>2. Left[t] = mul(Hits[t], Eval(Locator, L, Y(t)))
    BY <2>1 DEF Left
  <2>. QED
    BY <2>1, <2>2, MulTyped
<1>5. Cardinality(V) <= n
  <2>1. V \subseteq Wrong
    BY <1>3, <1>4, WrongFinite
  <2>. HIDE DEF V
  <2>2. Cardinality(V) <= Cardinality(Wrong) /\ Cardinality(V) \in Nat
    BY <2>1, WrongFinite, FS_Subset, FS_CardinalityType
  <2>. QED
    BY <1>0, <2>2, WrongFinite
<1>6. ASSUME NEW m \in 0 .. n - 1 PROVE Moment(c, m) = {}
  <2>1. m \in Nat /\ m + L \in L .. NPAR - 1 /\ m + L \in L .. r - 1
    BY <1>0
  <2>2. Moment(c, m) = Moment(Left, m + L)
    BY <1>0, <2>1, MomentShift
  <2>3. Moment(Left, m + L) = Residual(lambda, m + L)
    BY <2>1, ResidualsAreMoments
  <2>4. Residual(lambda, m + L) = {}
    BY <2>1 DEF RegisterInv
  <2>. QED
    BY <2>2, <2>3, <2>4
<1>. HIDE DEF c, n
<1>7. \A t \in 0 .. N - 1 : c[t] = {}
  BY <1>0, <1>2, <1>5, <1>6, Vandermonde
<1>8. ASSUME NEW t \in Wrong PROVE Eval(Locator, L, Y(t)) = {}
  BY <1>3, <1>4, <1>7, WrongFinite
<1>9. ASSUME NEW j \in L .. NPAR - 1 PROVE Residual(lambda, j) = {}
  <2>1. j \in Nat
    BY <1>0
  <2>2. \A t \in 0 .. N - 1 : Shares(Left, j)[t] = {}
    <3>1. \A t \in 0 .. N - 1 : t \in Nat /\ Left[t] = {}
      BY <1>3, <1>7
    <3>. QED
      BY <3>1, MulZero DEF Shares
  <2>3. Sum(Shares(Left, j), N) = {}
    BY <1>0, <2>1, <2>2, SharesTyped, SumNone
  <2>. QED
    BY <2>3, ResidualsAreMoments DEF Moment
<1>. QED
  BY <1>8, <1>9

-----------------------------------------------------------------------------
(* The errors are located.                                                  *)

\* The register is never longer than there are errors: one that is not long
\* enough for them is the only one that can fail to predict.
LocatedInv ==
  /\ L <= Cardinality(Wrong)
  /\ pc = "forney" /\ Cardinality(Wrong) <= MAXERR => L = Cardinality(Wrong)

\* No syndrome, no error.
LEMMA CleanBlock ==
  ASSUME TypeOK, SearchInv, pc = "syndromes", Cardinality(Wrong) <= MAXERR,
         \A i \in 0 .. NPAR - 1 : Syndrome(block, i) = {}
  PROVE  Cardinality(Wrong) = 0
<1>0. NPAR \in Nat /\ MAXERR \in Nat /\ MAXERR <= NPAR
  BY FieldAssumption DEF MAXERR
<1>1. \A i \in 0 .. NPAR - 1 : Moment(Hits, i) = {}
  BY SyndromesAreMoments DEF SearchInv
<1>2. Cardinality({t \in 0 .. N - 1 : Hits[t] # {}}) <= NPAR
  BY <1>0, WrongFinite
<1>3. \A t \in 0 .. N - 1 : Hits[t] = {}
  BY <1>0, <1>1, <1>2, HitsTyped, Vandermonde
<1>4. Wrong = {}
  BY <1>3, WrongFinite
<1>. QED
  BY <1>4, FS_EmptySet

\* The whole register finds exactly the errors.
LEMMA AllFound ==
  ASSUME TypeOK, RegisterInv, SearchInv, LocatedInv, pc = "massey", r = NPAR,
         Cardinality(Wrong) <= MAXERR
  PROVE  /\ L = Cardinality(Wrong) /\ L <= MAXERR /\ Len(Roots) = L
         /\ ToSet(Roots) = Wrong
<1>0. /\ N \in Nat \ {0} /\ NPAR \in Nat /\ L \in Nat /\ MAXERR \in Nat /\ 2 * MAXERR <= NPAR
      /\ Cardinality(Wrong) \in Nat /\ L <= Cardinality(Wrong)
  BY FieldAssumption, WrongFinite DEF MAXERR, TypeOK, LocatedInv
<1>1. Cardinality(Wrong) <= r - L
  BY <1>0
<1>2. \A t \in Wrong : Eval(Locator, L, Y(t)) = {}
  BY <1>1, SyndromesKnown, Annihilated
<1>. DEFINE f == [t \in Wrong |-> N - 1 - t]
<1>3. \A t \in Wrong : t \in 0 .. N - 1 /\ N - 1 - t \in 0 .. N - 1 /\ N - 1 - (N - 1 - t) = t
  BY <1>0 DEF Wrong
<1>4. \A t \in Wrong : N - 1 - t \in Found
  <2>. SUFFICES ASSUME NEW t \in Wrong PROVE N - 1 - t \in Found
    OBVIOUS
  <2>1. Y(t) = RootOf(N - 1 - t) /\ N - 1 - t \in 0 .. N - 1
    BY <1>0, <1>3 DEF Y
  <2>2. RootOf(N - 1 - t) \in Zeros(Locator, L)
    BY <1>2, <2>1, RootOfTyped DEF Zeros
  <2>. QED
    BY <2>1, <2>2, RootIsZero
<1>5. f \in Injection(Wrong, Found)
  <2>1. f \in [Wrong -> Found]
    BY <1>4
  <2>2. \A t, u \in Wrong : f[t] = f[u] => t = u
    <3>. SUFFICES ASSUME NEW t \in Wrong, NEW u \in Wrong, N - 1 - t = N - 1 - u PROVE t = u
      OBVIOUS
    <3>. QED
      BY <1>3
  <2>. QED
    BY <2>1, <2>2 DEF Injection, IsInjective
<1>. HIDE DEF f
<1>6. /\ Cardinality(Wrong) <= Cardinality(Found)
      /\ Cardinality(Wrong) = Cardinality(Found) <=> f \in Surjection(Wrong, Found)
  BY <1>5, FoundBounded, FS_Injection
<1>7. Cardinality(Found) <= L
  <2>1. Cardinality(Zeros(Locator, L)) \in Nat
    BY ZerosFinite, FS_CardinalityType
  <2>. QED
    BY <1>0, <2>1, FoundBounded
<1>8. L = Cardinality(Wrong) /\ Cardinality(Found) = L
  BY <1>0, <1>6, <1>7, FoundBounded
<1>9. \A i \in Found : \E t \in Wrong : i = N - 1 - t
  <2>1. f \in Surjection(Wrong, Found)
    BY <1>6, <1>8
  <2>. QED
    BY <2>1 DEF Surjection, f
<1>10. {N - 1 - i : i \in Found} = Wrong
  <2>1. ASSUME NEW i \in Found PROVE N - 1 - i \in Wrong
    BY <1>3, <1>9
  <2>2. ASSUME NEW t \in Wrong PROVE \E i \in Found : t = N - 1 - i
    BY <1>3, <1>4
  <2>. QED
    BY <2>1, <2>2
<1>11. Len(Roots) = Cardinality(Found) /\ ToSet(Roots) = {N - 1 - i : i \in Found}
  BY RootsAre DEF Found
<1>. QED
  BY <1>0, <1>8, <1>10, <1>11

\* Every step keeps what is known of the located errors.
LEMMA LocatedStep ==
  ASSUME DecoderInv, LocatedInv, LocatesErrors, [Next]_vars
  PROVE  LocatedInv' /\ LocatesErrors'
<1>0. /\ TypeOK /\ RegisterInv /\ SearchInv /\ NPAR \in Nat /\ Cardinality(Wrong) \in Nat
      /\ MAXERR \in Nat /\ L \in Nat
  BY FieldAssumption, WrongFinite DEF DecoderInv, MAXERR, TypeOK
<1>1. Wrong' = Wrong
  <2>1. hits' = hits
    BY DEF Next, Syndromes, Massey, Chien, Forney, Finish, vars, history
  <2>. QED
    BY <2>1 DEF Wrong
<1>2. CASE Syndromes
  <2>1. L' = L /\ pc' \in {"massey", "done"} /\ errorsCorrected' = errorsCorrected /\ pc = "syndromes"
        /\ errorsCorrected = 0
    BY <1>0, <1>2 DEF Syndromes, locator, Return, SearchInv
  <2>2. ASSUME pc' = "done", Cardinality(Wrong) <= MAXERR PROVE ok' /\ Cardinality(Wrong) = 0
    <3>1. DOMAIN S = 0 .. NPAR - 1
      BY <1>0 DEF TypeOK
    <3>2. ok' /\ \A i \in 0 .. NPAR - 1 : S'[i] = {}
      BY <1>2, <2>2, <3>1 DEF Syndromes, Return
    <3>3. \A i \in 0 .. NPAR - 1 : Syndrome(block, i) = {}
      BY <1>2, <3>2 DEF Syndromes
    <3>. QED
      BY <1>0, <2>1, <2>2, <3>2, <3>3, CleanBlock
  <2>. QED
    BY <1>1, <2>1, <2>2 DEF LocatedInv, LocatesErrors
<1>3. CASE Massey
  <2>1. pc' = pc /\ pc = "massey" /\ r < NPAR /\ r \in Nat
    BY <1>0, <1>3 DEF Massey, TypeOK
  <2>2. L' <= Cardinality(Wrong)
    <3>1. CASE L' = L
      BY <3>1 DEF LocatedInv
    <3>2. CASE L' # L
      <4>1. Delta # {} /\ L' = r + 1 - L
        BY <1>3, <3>2 DEF Massey
      <4>2. Delta = Residual(lambda, r) /\ r \in L .. NPAR - 1
        BY <1>0, <2>1, DeltaIs DEF RegisterInv
      <4>3. ~(Cardinality(Wrong) <= r - L)
        BY <1>0, <2>1, <4>1, <4>2, SyndromesKnown, Annihilated
      <4>. QED
        BY <1>0, <2>1, <4>1, <4>3
    <3>. QED
      BY <3>1, <3>2
  <2>. QED
    BY <1>1, <2>1, <2>2 DEF LocatedInv, LocatesErrors
<1>4. CASE Chien
  <2>1. pc = "massey" /\ r = NPAR /\ L' = L
    BY <1>4 DEF Chien, locator
  <2>2. ASSUME Cardinality(Wrong) <= MAXERR
        PROVE  pc' = "forney" /\ errorPos' = Roots /\ ToSet(Roots) = Wrong /\ L = Cardinality(Wrong)
    <3>1. L = Cardinality(Wrong) /\ L <= MAXERR /\ Len(Roots) = L /\ ToSet(Roots) = Wrong
      BY <1>0, <2>1, <2>2, AllFound
    <3>2. ~TooManyErrors /\ ~RootMismatch
      BY <1>0, <3>1 DEF TooManyErrors, RootMismatch
    <3>. QED
      BY <1>4, <3>1, <3>2 DEF Chien
  <2>. QED
    BY <1>1, <2>1, <2>2 DEF LocatedInv, LocatesErrors
<1>5. CASE Forney
  <2>1. pc' = pc /\ pc = "forney" /\ errorPos' = errorPos /\ L' = L
    BY <1>5, DenominatorNonZero DEF Forney, locator
  <2>. QED
    BY <1>1, <2>1 DEF LocatedInv, LocatesErrors
<1>6. CASE Finish
  <2>1. pc' = "done" /\ pc = "forney" /\ errorsCorrected' = L /\ L' = L /\ ok'
    BY <1>6 DEF Finish, locator, Return
  <2>. QED
    BY <1>1, <2>1 DEF LocatedInv, LocatesErrors
<1>7. CASE UNCHANGED vars
  BY <1>1, <1>7 DEF LocatedInv, LocatesErrors, vars
<1>. QED
  BY <1>2, <1>3, <1>4, <1>5, <1>6, <1>7 DEF Next

\* A block with at most MAXERR wrong bytes is accepted with their number as
\* errorsCorrected, and the search reports exactly the wrong bytes.
THEOREM ErrorsAreLocated == Spec => []LocatesErrors
<1>1. Init => LocatedInv /\ LocatesErrors
  <2>. SUFFICES ASSUME Init PROVE LocatedInv /\ LocatesErrors
    OBVIOUS
  <2>1. pc = "syndromes" /\ L = 0 /\ Cardinality(Wrong) \in Nat
    BY DecoderInit, WrongFinite DEF Init, DecoderInv
  <2>. QED
    BY <2>1 DEF LocatedInv, LocatesErrors
<1>2. DecoderInv /\ LocatedInv /\ LocatesErrors /\ [Next]_vars => LocatedInv' /\ LocatesErrors'
  BY LocatedStep
<1>. QED
  BY DecoderInvariant, <1>1, <1>2, PTL DEF Spec
=============================================================================
