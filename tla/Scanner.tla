------------------------------- MODULE Scanner -------------------------------
(***************************************************************************)
(* SpectrumScanner::analyzeBlock: from a block of samples to the peaks in  *)
(* its spectrum, with FFTW or with the transform the program brings along. *)
(*                                                                         *)
(* Blocks have N = 8 samples, so that every number is exact: a sample is   *)
(* a + b w + c w^2 + d w^3 for the eighth root of unity w, written         *)
(* <<a, b, c, d>>.  The Hann window, which widens a line but does not move *)
(* it, is left out.                                                        *)
(***************************************************************************)
EXTENDS Integers, Sequences, SequencesExt

CONSTANTS
  MinHz, MaxHz,    \* minFrequencyHz and maxFrequencyHz of the configuration
  ThresholdDb,     \* detectionThresholdDb
  SampleRate

N == 8
Bins == 0 .. N - 1

Zero == <<0, 0, 0, 0>>
Plus(x, y) == [i \in 1 .. 4 |-> x[i] + y[i]]
Minus(x, y) == [i \in 1 .. 4 |-> x[i] - y[i]]

\* x times w^n: w^4 = -1.
Rotate(x, n) ==
  [i \in 1 .. 4 |-> LET j == (i - 1 - n) % N IN IF j < 4 THEN x[j + 1] ELSE -x[j - 3]]

\* Those of a sequence that pass a test, in their order.
Filter(s, Test(_)) == FoldLeft(LAMBDA kept, x : IF Test(x) THEN Append(kept, x) ELSE kept, <<>>, s)

Total(f) == FoldLeft(LAMBDA s, i : Plus(s, f[i - 1]), Zero, [i \in 1 .. N |-> i])

-----------------------------------------------------------------------------
\* fftwf_plan_dft_1d(..., FFTW_FORWARD): out[k] is the sum of in[n] w^(-kn).
Fftw(a) == [k \in Bins |-> Total([n \in Bins |-> Rotate(a[n], -k * n)])]

\* computeCooleyTukeyFft(a, false).  First the samples change places: bits of
\* the index in reverse.
BitReversal(a) ==
  [i \in Bins |-> a[4 * (i % 2) + 2 * ((i \div 2) % 2) + i \div 4]]

\* wlen^j, as a power of w.
Twiddle(j, len) == j * (N \div len)

\* One round over the blocks of length len: u + v in the lower half, u - v above.
Butterflies(a, len) ==
  [i \in Bins |->
     LET j == i % len  half == len \div 2
     IN IF j < half THEN Plus(a[i], Rotate(a[i + half], Twiddle(j, len)))
                    ELSE Minus(a[i - half], Rotate(a[i], Twiddle(j - half, len)))]

CooleyTukey(a) == FoldLeft(Butterflies, BitReversal(a), <<2, 4, 8>>)

-----------------------------------------------------------------------------
\* |z|^2 / N^2, for a z that is a multiple of one power of w.
MagSq(z) == (z[1] * z[1] + z[2] * z[2] + z[3] * z[3] + z[4] * z[4]) \div (N * N)

\* 10 log10, of the powers that occur here; nothing is below -120.
Db(p) == IF p = 0 THEN -120 ELSE IF p = 1 THEN 0 ELSE 6

\* Slip: the two halves of the spectrum are not swapped.
Unshifted(k) == k

Shifted(k) == (k + N \div 2) % N

PowerSpectrum(fft) == [k \in Bins |-> Db(MagSq(fft[Shifted(k)]))]

\* snr >= threshold, both sides times N, and higher than two bins on each side.
IsPeak(spectrum, k) ==
  LET total == FoldLeft(LAMBDA s, i : s + spectrum[i - 1], 0, [i \in 1 .. N |-> i])
  IN /\ N * spectrum[k] - total >= N * ThresholdDb
     /\ \A j \in {k - 2, k - 1, k + 1, k + 2} : spectrum[k] > spectrum[j]

BinHz(k, centre) == centre + (k - N \div 2) * (SampleRate \div N)

\* The peaks, from the lowest frequency up.
AnalyzeBlock(samples, centre, fftw) ==
  LET spectrum == PowerSpectrum(IF fftw THEN Fftw(samples) ELSE CooleyTukey(samples))
      found == Filter([i \in 1 .. N - 4 |-> i + 1], LAMBDA k : IsPeak(spectrum, k))
      hz == [i \in 1 .. Len(found) |-> BinHz(found[i], centre)]
  IN Filter(hz, LAMBDA f : MinHz <= f /\ f <= MaxHz)
=============================================================================
