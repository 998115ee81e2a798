------------------------------ MODULE Combiner ------------------------------
(***************************************************************************)
(* DiversityCombiner: from one block of every channel to one block.        *)
(*                                                                         *)
(* A sample is a complex number <<re, im>> of integers, in thousandths of  *)
(* full scale; channels differ in amplitude and by quarter turns of phase, *)
(* so that every sum is exact.  Weights are in thousandths, too.           *)
(***************************************************************************)
EXTENDS Integers, Sequences, SequencesExt

Modes == {"SelectionCombining", "EqualGainCombining", "MaximalRatioCombining"}

Sum2(x, y) == <<x[1] + y[1], x[2] + y[2]>>
Scaled(k, x) == <<k * x[1], k * x[2]>>

\* x times i^q.
Turned(x, q) ==
  CASE q % 4 = 0 -> x
    [] q % 4 = 1 -> <<-x[2], x[1]>>
    [] q % 4 = 2 -> <<-x[1], -x[2]>>
    [] q % 4 = 3 -> <<x[2], -x[1]>>

\* x times the conjugate of y.
TimesConj(x, y) == <<x[1] * y[1] + x[2] * y[2], x[2] * y[1] - x[1] * y[2]>>

Power(data) == FoldLeft(LAMBDA s, z : s + z[1] * z[1] + z[2] * z[2], 0, data)

\* Slip: the conjugate of the other factor.
ConjTimes(x, y) == TimesConj(y, x)

CrossProduct(ref, z) == TimesConj(ref, z)

CrossCorrelation(ref, data) ==
  FoldLeft(Sum2, <<0, 0>>, [i \in 1 .. Len(data) |-> CrossProduct(ref[i], data[i])])

\* atan2 in quarter turns, of a number on an axis; atan2(0, 0) is 0.
Phase(x) ==
  IF x = <<0, 0>> THEN 0
  ELSE CHOOSE q \in 0 .. 3 : Turned(x, -q)[1] > 0 /\ Turned(x, -q)[2] = 0

\* The square root of the average power, at least a thousandth.
Amplitude(data) ==
  LET average == Power(data) \div Len(data)
  IN IF average = 0 THEN 1 ELSE CHOOSE r \in 1 .. average : r * r = average

\* updateChannelEstimates.  The reference channel's weight is 1 in every mode.
ChannelPhase(channels, ch) == IF ch = 1 THEN 0 ELSE Phase(CrossCorrelation(channels[1], channels[ch]))

ChannelWeight(mode, channels, ch) ==
  IF ch # 1 /\ mode = "MaximalRatioCombining" THEN Amplitude(channels[ch]) ELSE 1000

\* The channel with the highest power, the first of those.
Best(channels) ==
  CHOOSE b \in 1 .. Len(channels) :
    \A c \in 1 .. Len(channels) :
      Power(channels[c]) <= Power(channels[b]) /\ (c < b => Power(channels[c]) < Power(channels[b]))

\* Sums to scale: the samples of the sum, times scale.
Aligned(mode, channels) ==
  LET n == Len(channels[1])
      weight == [c \in 1 .. Len(channels) |-> ChannelWeight(mode, channels, c)]
      phase == [c \in 1 .. Len(channels) |-> ChannelPhase(channels, c)]
      Part(c, i) == Scaled(weight[c], Turned(channels[c][i], phase[c]))
  IN [scale   |-> FoldLeft(LAMBDA s, w : s + w, 0, weight),
      samples |-> [i \in 1 .. n |->
                     FoldLeft(Sum2, <<0, 0>>, [c \in 1 .. Len(channels) |-> Part(c, i)])]]

\* combineBlocks, up to what the shortest block has.
CombineBlocks(mode, blocks, capacity) ==
  LET count == FoldLeft(LAMBDA n, b : IF Len(b) < n THEN Len(b) ELSE n, capacity, blocks)
      channels == [c \in 1 .. Len(blocks) |-> SubSeq(blocks[c], 1, count)]
  IN IF mode = "SelectionCombining" THEN [scale |-> 1, samples |-> channels[Best(channels)]]
     ELSE Aligned(mode, channels)
=============================================================================
