------------------------------ MODULE FoldLemmas ------------------------------
(***************************************************************************)
(* Folds over sequences, for proofs.  FoldLeft of the community modules is *)
(* defined by a recursive function on sets of indices; here is what        *)
(* follows from that, by induction.  The induction theorems of the library *)
(* take an operator as a parameter, which the provers cannot instantiate;  *)
(* the least element of a well-founded set, WFMin, does as well.           *)
(*                                                                         *)
(* The operation is a constant: a module that folds takes an instance for  *)
(* each of its operations.                                                 *)
(***************************************************************************)
EXTENDS Integers, Sequences, SequencesExt, WellFoundedInduction, TLAPS
CONSTANT Op(_, _, _)   \* a step: of what is fixed, what was found so far, and an element

\* The fold of s from base on.
Fold(p, base, s) == FoldLeft(LAMBDA acc, x : Op(p, acc, x), base, s)

\* A set that holds 0, and with a number the next, holds every number.
LEMMA NatSetInduction ==
  ASSUME NEW S, 0 \in S, \A n \in Nat : n \in S => n + 1 \in S
  PROVE  Nat \subseteq S
<1>. DEFINE T == Nat \ S
<1>. SUFFICES ASSUME T # {} PROVE FALSE
  OBVIOUS
<1>1. IsWellFoundedOn(OpToRel(<, Nat), Nat)
  BY NatLessThanWellFounded
<1>2. PICK x \in T : \A y \in T : ~(<<y, x>> \in OpToRel(<, Nat))
  BY <1>1, WFMin, Zenon
<1>3. \A y \in Nat : y < x => <<y, x>> \in OpToRel(<, Nat)
  BY DEF OpToRel
<1>4. x \in Nat /\ x \notin S
  OBVIOUS
<1>5. \A y \in Nat : y < x => y \in S
  BY <1>2, <1>3, Zenon
<1>6. x # 0 => x - 1 \in Nat /\ x - 1 < x /\ (x - 1) + 1 = x
  BY <1>4
<1>. QED
  BY <1>4, <1>5, <1>6

\* What FoldLeft chooses: a function on the sets of indices up to n.
IsFold(iter, p, base, s, n) ==
  iter = [t \in SUBSET (1 .. n) |->
            IF t = {} THEN base ELSE Op(p, iter[t \ {Max(t)}], s[Max(t)])]

\* A set of numbers up to n that holds n has n as its maximum.
LEMMA MaxIsUpper ==
  ASSUME NEW n \in Nat, NEW t \in SUBSET (1 .. n), n \in t
  PROVE  Max(t) = n
<1>1. n \in t /\ \A y \in t : n >= y
  OBVIOUS
<1>2. \A x \in t : (\A y \in t : x >= y) => x = n
  BY <1>1
<1>. QED
  BY <1>1, <1>2 DEF Max

\* The function by which FoldLeft is defined exists, for as long a sequence as
\* one likes: the CHOOSE in it chooses something.
LEMMA FoldExists ==
  ASSUME NEW p, NEW base, NEW s
  PROVE  \A n \in Nat : \E iter : IsFold(iter, p, base, s, n)
<1>. DEFINE S == {n \in Nat : \E iter : IsFold(iter, p, base, s, n)}
<1>1. 0 \in S
  <2>1. IsFold([t \in SUBSET (1 .. 0) |-> base], p, base, s, 0)
    <3>1. 1 .. 0 = {} /\ SUBSET {} = {{}}
      OBVIOUS
    <3>2. QED
      BY <3>1 DEF IsFold
  <2>. QED
    BY <2>1
<1>2. ASSUME NEW n \in Nat, n \in S PROVE n + 1 \in S
  <2>1. PICK f : IsFold(f, p, base, s, n)
    BY <1>2
  <2>. DEFINE g == [t \in SUBSET (1 .. n + 1) |->
                      IF n + 1 \in t THEN Op(p, f[t \ {n + 1}], s[n + 1]) ELSE f[t]]
  <2>2. ASSUME NEW t \in SUBSET (1 .. n + 1)
        PROVE  g[t] = IF t = {} THEN base ELSE Op(p, g[t \ {Max(t)}], s[Max(t)])
    <3>1. CASE n + 1 \in t
      <4>1. Max(t) = n + 1
        BY <3>1, MaxIsUpper
      <4>2. t \ {n + 1} \in SUBSET (1 .. n + 1) /\ n + 1 \notin t \ {n + 1} /\ t # {}
        BY <3>1
      <4>3. g[t \ {n + 1}] = f[t \ {n + 1}]
        BY <4>2
      <4>4. g[t] = Op(p, f[t \ {n + 1}], s[n + 1])
        BY <3>1
      <4>. QED
        BY <4>1, <4>2, <4>3, <4>4, Zenon
    <3>2. CASE n + 1 \notin t
      <4>1. t \in SUBSET (1 .. n)
        BY <3>2
      <4>2. t \ {Max(t)} \in SUBSET (1 .. n + 1) /\ n + 1 \notin t \ {Max(t)}
        BY <3>2
      <4>3. g[t] = f[t] /\ g[t \ {Max(t)}] = f[t \ {Max(t)}]
        BY <3>2, <4>2
      <4>4. f[t] = IF t = {} THEN base ELSE Op(p, f[t \ {Max(t)}], s[Max(t)])
        BY <2>1, <4>1, Zenon DEF IsFold
      <4>. QED
        BY <4>3, <4>4, Zenon
    <3>. QED
      BY <3>1, <3>2
  <2>. HIDE DEF g
  <2>3. g = [t \in SUBSET (1 .. n + 1) |-> g[t]]
    BY DEF g
  <2>4. IsFold(g, p, base, s, n + 1)
    BY <2>2, <2>3, Zenon DEF IsFold
  <2>. QED
    BY <2>4
<1>. HIDE DEF S
<1>3. Nat \subseteq S
  BY <1>1, <1>2, NatSetInduction
<1>. QED
  BY <1>3 DEF S

\* A fold goes from its base through the elements in their order to its value.
LEMMA FoldTrace ==
  ASSUME NEW T, NEW s \in Seq(T), NEW p, NEW base
  PROVE  \E f : /\ f[0] = base
                /\ \A k \in 1 .. Len(s) : f[k] = Op(p, f[k - 1], s[k])
                /\ f[Len(s)] = Fold(p, base, s)
<1>. DEFINE n == Len(s)
            iter == CHOOSE iter : IsFold(iter, p, base, s, n)
            f == [k \in 0 .. n |-> iter[1 .. k]]
<1>0. n \in Nat /\ DOMAIN s = 1 .. n
  OBVIOUS
<1>1. IsFold(iter, p, base, s, n)
  BY <1>0, FoldExists, Zenon
<1>2. Fold(p, base, s) = iter[1 .. n]
  BY <1>0, Zenon DEF Fold, FoldLeft, MapThenFoldSet, IsFold
<1>. HIDE DEF n, iter
<1>3. ASSUME NEW t \in SUBSET (1 .. n)
      PROVE  iter[t] = IF t = {} THEN base ELSE Op(p, iter[t \ {Max(t)}], s[Max(t)])
  BY <1>1, Zenon DEF IsFold
<1>4. iter[1 .. 0] = base
  <2>1. 1 .. 0 = {}
    BY <1>0
  <2>. QED
    BY <1>3, <2>1
<1>5. ASSUME NEW k \in 1 .. n PROVE iter[1 .. k] = Op(p, iter[1 .. k - 1], s[k])
  <2>1. 1 .. k \in SUBSET (1 .. n) /\ 1 .. k # {} /\ (1 .. k) \ {k} = 1 .. k - 1
    BY <1>0
  <2>2. Max(1 .. k) = k
    BY <1>0, MaxIsUpper
  <2>. QED
    BY <1>3, <2>1, <2>2, Zenon
<1>6. 0 \in 0 .. n /\ n \in 0 .. n /\ \A k \in 1 .. n : k \in 0 .. n /\ k - 1 \in 0 .. n
  BY <1>0
<1>7. f[0] = base /\ f[n] = Fold(p, base, s) /\ \A k \in 1 .. n : f[k] = Op(p, f[k - 1], s[k])
  BY <1>2, <1>4, <1>5, <1>6, Zenon
<1>. QED
  BY <1>7, Zenon DEF n

\* The fold of nothing is its base.
LEMMA FoldEmpty ==
  ASSUME NEW p, NEW base
  PROVE  Fold(p, base, <<>>) = base
<1>. DEFINE s == <<>>
<1>1. s \in Seq({}) /\ Len(s) = 0
  OBVIOUS
<1>. HIDE DEF s
<1>2. PICK f : /\ f[0] = base
               /\ \A k \in 1 .. Len(s) : f[k] = Op(p, f[k - 1], s[k])
               /\ f[Len(s)] = Fold(p, base, s)
  BY <1>1, FoldTrace, Zenon
<1>3. Fold(p, base, s) = base
  BY <1>1, <1>2, Zenon
<1>. QED
  BY <1>3 DEF s

\* One more element is one more step.
LEMMA FoldAppend ==
  ASSUME NEW T, NEW s \in Seq(T), NEW e \in T, NEW p, NEW base
  PROVE  Fold(p, base, Append(s, e)) = Op(p, Fold(p, base, s), e)
<1>. DEFINE n == Len(s)
            t == Append(s, e)
<1>1. /\ t \in Seq(T) /\ n \in Nat /\ Len(t) = n + 1 /\ t[n + 1] = e
      /\ \A k \in 1 .. n : t[k] = s[k]
  OBVIOUS
<1>. HIDE DEF t, n
<1>2. PICK f : /\ f[0] = base
               /\ \A k \in 1 .. n : f[k] = Op(p, f[k - 1], s[k])
               /\ f[n] = Fold(p, base, s)
  BY FoldTrace, Zenon DEF n
<1>3. PICK g : /\ g[0] = base
               /\ \A k \in 1 .. Len(t) : g[k] = Op(p, g[k - 1], t[k])
               /\ g[Len(t)] = Fold(p, base, t)
  BY <1>1, FoldTrace, Zenon
<1>. DEFINE S == {k \in Nat : k <= n => f[k] = g[k]}
<1>4. 0 \in S
  BY <1>2, <1>3
<1>5. ASSUME NEW k \in Nat, k \in S PROVE k + 1 \in S
  <2>. SUFFICES ASSUME k + 1 <= n PROVE f[k + 1] = g[k + 1]
    OBVIOUS
  <2>1. f[k] = g[k] /\ k + 1 \in 1 .. n /\ k + 1 \in 1 .. Len(t) /\ (k + 1) - 1 = k
    BY <1>1, <1>5
  <2>. QED
    BY <1>1, <1>2, <1>3, <2>1, Zenon
<1>6. n \in S
  BY <1>1, <1>4, <1>5, NatSetInduction, Zenon
<1>7. f[n] = g[n] /\ n + 1 \in 1 .. Len(t) /\ (n + 1) - 1 = n
  BY <1>1, <1>6
<1>8. Fold(p, base, t) = Op(p, Fold(p, base, s), e)
  BY <1>1, <1>2, <1>3, <1>7, Zenon
<1>. QED
  BY <1>8 DEF t

\* What the base has and every step keeps, the fold has.
LEMMA FoldInvariant ==
  ASSUME NEW T, NEW s \in Seq(T), NEW p, NEW base, NEW V, base \in V,
         \A v \in V, x \in T : Op(p, v, x) \in V
  PROVE  Fold(p, base, s) \in V
<1>. DEFINE n == Len(s)
<1>1. n \in Nat /\ \A k \in 1 .. n : s[k] \in T
  OBVIOUS
<1>2. PICK f : /\ f[0] = base
               /\ \A k \in 1 .. n : f[k] = Op(p, f[k - 1], s[k])
               /\ f[n] = Fold(p, base, s)
  BY FoldTrace, Zenon
<1>. HIDE DEF n
<1>. DEFINE S == {k \in Nat : k <= n => f[k] \in V}
<1>3. 0 \in S
  BY <1>2
<1>4. ASSUME NEW k \in Nat, k \in S PROVE k + 1 \in S
  <2>. SUFFICES ASSUME k + 1 <= n PROVE f[k + 1] \in V
    OBVIOUS
  <2>1. f[k] \in V /\ k + 1 \in 1 .. n /\ (k + 1) - 1 = k
    BY <1>1, <1>4
  <2>. QED
    BY <1>1, <1>2, <2>1, Zenon
<1>5. n \in S
  BY <1>1, <1>3, <1>4, NatSetInduction, Zenon
<1>. QED
  BY <1>1, <1>2, <1>5
=============================================================================
