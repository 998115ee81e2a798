---------------------------- MODULE SessionProofs -----------------------------
(***************************************************************************)
(* What holds in every run of Session.  First what the operators of        *)
(* Session, FrameParser, Scanner and ConfigFile do, for every input: the   *)
(* walk over the blocks of an RS41 frame, the histories the sinks keep,    *)
(* where a frequency may come from, the flight path the browser reads and  *)
(* the landing predictor's descent.  Then the invariant: the sinks are     *)
(* told of a frame one after the other, in three steps between which a     *)
(* user or a sweep may retune and main() may be told to stop, and it says, *)
(* step by step, what each of them has by then.  Then the settings, and    *)
(* the scanner: samples are sums of tones, a tone is in one bin of either  *)
(* transform and cancels in all others, so the peaks are the carriers.     *)
(***************************************************************************)
EXTENDS Session, SequenceTheorems, FiniteSetTheorems, WellFoundedInduction, TLAPS

Walk == INSTANCE FoldLemmas WITH Op <- LAMBDA p, walk, b : WalkBlock(walk, b)
Length == INSTANCE FoldLemmas WITH Op <- LAMBDA p, n, b : n + 2 + b.len

Fields == {"type", "serial", "alt", "climb", "temperature", "eccCorrected", "frequencyHz"}

\* A frame as a decoder leaves it; the frequency is not its business.
IsFrame(t) ==
  /\ t = [x \in Fields |-> t[x]] /\ t.frequencyHz = 0
  /\ IsPosition(t.alt) /\ t.climb \in Int

\* The frame before anything was read: a frame without a position.
LEMMA UnknownIsFrame == IsFrame(Unknown) /\ DOMAIN Unknown = Fields /\ ~GpsValid(Unknown)
  BY DEF IsFrame, IsPosition, Unknown, Fields, GpsValid

\* A block gives a frame its position only if it is a GPS block of full length.
LEMMA ReadBlockKeepsFrame ==
  ASSUME NEW t, IsFrame(t), NEW b, IsBlock(b)
  PROVE  /\ IsFrame(ReadBlock(t, b))
         /\ \/ ReadBlock(t, b).alt = t.alt
            \/ /\ b.type = "gps" /\ LongEnough(b, 28)
               /\ ReadBlock(t, b).alt = b.alt
<1>. DEFINE r == ReadBlock(t, b)
<1>1. CASE r = [t EXCEPT !.serial = b.serial]
  BY <1>1 DEF IsFrame, Fields
<1>2. CASE b.type = "gps" /\ LongEnough(b, 28) /\ r = [t EXCEPT !.alt = b.alt, !.climb = b.climb]
  BY <1>2 DEF IsFrame, IsBlock, Fields
<1>3. CASE r = [t EXCEPT !.temperature = b.temperature]
  BY <1>3 DEF IsFrame, Fields
<1>4. CASE r = t
  BY <1>4
<1>. QED
  BY <1>1, <1>2, <1>3, <1>4 DEF ReadBlock

\* How far a part of a frame reaches.
Reach(blocks, k) == FoldLeft(LAMBDA n, b : n + 2 + b.len, 0, SubSeq(blocks, 1, k))

\* The reach of k blocks is that of k - 1 and the length of one more.
LEMMA ReachGrows ==
  ASSUME NEW T, NEW blocks \in Seq(T), \A b \in T : IsBlock(b)
  PROVE  /\ \A k \in 0 .. Len(blocks) : Reach(blocks, k) \in Nat
         /\ Reach(blocks, 0) = 0
         /\ \A k \in 1 .. Len(blocks) : Reach(blocks, k) = Reach(blocks, k - 1) + 2 + blocks[k].len
<1>1. ASSUME NEW s PROVE FoldLeft(LAMBDA n, b : n + 2 + b.len, 0, s) = Length!Fold(0, 0, s)
  BY Zenon DEF FoldLeft, MapThenFoldSet, Max, Length!Fold, Length!FoldLeft, Length!MapThenFoldSet,
               Length!Max
<1>2. Reach(blocks, 0) = 0
  <2>1. SubSeq(blocks, 1, 0) = <<>>
    OBVIOUS
  <2>. QED
    BY <1>1, <2>1, Length!FoldEmpty, Zenon DEF Reach
<1>3. ASSUME NEW k \in 1 .. Len(blocks)
      PROVE  Reach(blocks, k) = Reach(blocks, k - 1) + 2 + blocks[k].len
  <2>1. SubSeq(blocks, 1, k) = Append(SubSeq(blocks, 1, k - 1), blocks[k])
    OBVIOUS
  <2>2. SubSeq(blocks, 1, k - 1) \in Seq(T) /\ blocks[k] \in T
    OBVIOUS
  <2>3. Length!Fold(0, 0, SubSeq(blocks, 1, k))
          = Length!Fold(0, 0, SubSeq(blocks, 1, k - 1)) + 2 + blocks[k].len
    BY <2>1, <2>2, Length!FoldAppend, Zenon
  <2>. QED
    BY <1>1, <2>3, Zenon DEF Reach
<1>4. ASSUME NEW k \in 0 .. Len(blocks) PROVE Reach(blocks, k) \in Nat
  <2>1. SubSeq(blocks, 1, k) \in Seq(T)
    OBVIOUS
  <2>2. 0 \in Nat /\ \A n \in Nat, b \in T : n + 2 + b.len \in Nat
    <3>1. \A n \in Nat, l \in 0 .. 255 : n + 2 + l \in Nat
      OBVIOUS
    <3>. QED
      BY <3>1 DEF IsBlock
  <2>3. Length!Fold(0, 0, SubSeq(blocks, 1, k)) \in Nat
    BY <2>1, <2>2, Length!FoldInvariant, Zenon
  <2>. QED
    BY <1>1, <2>3, Zenon DEF Reach
<1>. QED
  BY <1>2, <1>3, <1>4

\* What the walk over the blocks has found after k of them.
Walked(w, blocks, size, k) ==
  /\ w = [x \in {"size", "offset", "ended", "frame"} |-> w[x]]
  /\ w.size = size
  /\ IsFrame(w.frame)
  /\ ~w.ended => /\ w.offset = 8 + Reach(blocks, k)
                 /\ \A j \in 1 .. k : Block([size |-> size], blocks, j)
  /\ GpsValid(w.frame) =>
       \E i \in 1 .. k :
         /\ blocks[i].type = "gps" /\ blocks[i].len >= 28 /\ blocks[i].alt = w.frame.alt
         /\ \A j \in 1 .. i : Block([size |-> size], blocks, j)

\* The arithmetic of a block that fits.
LEMMA Fits ==
  \A r, size \in Nat, l \in 0 .. 255 :
    /\ l # 0 /\ ~(8 + r + 2 + l > size) => l > 0 /\ 8 + r + 2 + l <= size
    /\ 8 + r + 2 + l = 8 + (r + 2 + l)
  OBVIOUS

\* Each block of RS41Decoder's walk keeps that.
LEMMA WalkStep ==
  ASSUME NEW T, NEW blocks \in Seq(T), \A b \in T : IsBlock(b), NEW size \in Nat,
         NEW k \in 1 .. Len(blocks), NEW w, Walked(w, blocks, size, k - 1)
  PROVE  Walked(WalkBlock(w, blocks[k]), blocks, size, k)
<1>. DEFINE b == blocks[k]
            v == WalkBlock(w, b)
            Whole(n) == \A j \in 1 .. n : Block([size |-> size], blocks, j)
            Found(n, alt) == \E i \in 1 .. n :
              blocks[i].type = "gps" /\ blocks[i].len >= 28 /\ blocks[i].alt = alt /\ Whole(i)
<1>0. IsBlock(b) /\ b.len \in 0 .. 255
  BY DEF IsBlock
<1>1. /\ \A j \in 1 .. k : j = k \/ j \in 1 .. k - 1
      /\ \A j \in 1 .. k - 1 : j \in 1 .. k
      /\ k \in 1 .. k
  OBVIOUS
<1>2. /\ w = [x \in {"size", "offset", "ended", "frame"} |-> w[x]]
      /\ w.size = size /\ IsFrame(w.frame)
      /\ ~w.ended => w.offset = 8 + Reach(blocks, k - 1) /\ Whole(k - 1)
      /\ GpsValid(w.frame) => Found(k - 1, w.frame.alt)
  BY Zenon DEF Walked
<1>3. \/ v = [w EXCEPT !.ended = TRUE]
      \/ /\ ~w.ended /\ b.len # 0 /\ ~(w.offset + 2 + b.len > w.size)
         /\ v = [w EXCEPT !.offset = @ + 2 + b.len, !.frame = ReadBlock(@, b)]
  BY DEF WalkBlock
<1>4. /\ Reach(blocks, k) = Reach(blocks, k - 1) + 2 + b.len
      /\ Reach(blocks, k - 1) \in Nat
  <2>1. k - 1 \in 0 .. Len(blocks)
    OBVIOUS
  <2>. QED
    BY <2>1, ReachGrows, Zenon
<1>5. \A alt : Found(k - 1, alt) => Found(k, alt)
  BY <1>1, Zenon
<1>6. b.len > 0 /\ 8 + Reach(blocks, k - 1) + 2 + b.len <= size => Block([size |-> size], blocks, k)
  BY DEF Block, Reach
<1>7. Whole(k - 1) /\ Block([size |-> size], blocks, k) => Whole(k)
  BY <1>1, Zenon
<1>8. b.type = "gps" /\ LongEnough(b, 28) /\ Whole(k) => Found(k, b.alt)
  BY <1>1, Zenon DEF LongEnough
<1>9. SUFFICES /\ v = [x \in {"size", "offset", "ended", "frame"} |-> v[x]]
               /\ v.size = size /\ IsFrame(v.frame)
               /\ ~v.ended => v.offset = 8 + Reach(blocks, k) /\ Whole(k)
               /\ GpsValid(v.frame) => Found(k, v.frame.alt)
  BY Zenon DEF Walked
<1>. HIDE DEF v, b, Whole, Found
<1>10. CASE v = [w EXCEPT !.ended = TRUE]
  <2>1. /\ v = [x \in {"size", "offset", "ended", "frame"} |-> v[x]]
        /\ v.size = size /\ v.frame = w.frame /\ v.ended
    BY <1>2, <1>10
  <2>. QED
    BY <1>2, <1>5, <2>1, Zenon
<1>11. CASE /\ ~w.ended /\ b.len # 0 /\ ~(w.offset + 2 + b.len > w.size)
            /\ v = [w EXCEPT !.offset = @ + 2 + b.len, !.frame = ReadBlock(@, b)]
  <2>1. /\ v = [x \in {"size", "offset", "ended", "frame"} |-> v[x]]
        /\ v.size = size /\ v.frame = ReadBlock(w.frame, b)
        /\ v.offset = w.offset + 2 + b.len
    BY <1>2, <1>11
  <2>2. v.offset = 8 + Reach(blocks, k) /\ Whole(k)
    <3>0. /\ w.offset = 8 + Reach(blocks, k - 1) /\ w.size = size
          /\ b.len # 0 /\ ~(w.offset + 2 + b.len > w.size)
      BY <1>2, <1>11
    <3>1. b.len > 0 /\ 8 + Reach(blocks, k - 1) + 2 + b.len <= size
      BY <1>0, <1>4, <3>0, Fits, Zenon
    <3>2. Whole(k)
      BY <1>2, <1>6, <1>7, <1>11, <3>1
    <3>3. v.offset = 8 + Reach(blocks, k)
      BY <1>0, <1>4, <2>1, <3>0, Fits, Zenon
    <3>. QED
      BY <3>2, <3>3
  <2>3. /\ IsFrame(v.frame)
        /\ \/ v.frame.alt = w.frame.alt
           \/ b.type = "gps" /\ LongEnough(b, 28) /\ v.frame.alt = b.alt
    <3>1. /\ IsFrame(ReadBlock(w.frame, b))
          /\ \/ ReadBlock(w.frame, b).alt = w.frame.alt
             \/ b.type = "gps" /\ LongEnough(b, 28) /\ ReadBlock(w.frame, b).alt = b.alt
      BY <1>0, <1>2, ReadBlockKeepsFrame, SMTT(30)
    <3>2. v.frame = ReadBlock(w.frame, b)
      BY <2>1
    <3>. QED
      BY <3>1, <3>2, Zenon
  <2>4. GpsValid(v.frame) => Found(k, v.frame.alt)
    BY <1>2, <1>5, <1>8, <2>2, <2>3, Zenon DEF GpsValid
  <2>. QED
    BY <2>1, <2>2, <2>3, <2>4
<1>. QED
  BY <1>3, <1>10, <1>11

\* What is asked of a position in a frame that was read from these blocks.
ReadWhole(t, raw, blocks) ==
  GpsValid(t) =>
    \E i \in 1 .. Len(blocks) :
      /\ blocks[i].type = "gps" /\ blocks[i].len >= 28 /\ blocks[i].alt = t.alt
      /\ \A j \in 1 .. i : Block(raw, blocks, j)

\* So the whole walk reads a position from whole blocks or not at all.
LEMMA WalkReadsWhole ==
  ASSUME NEW T, NEW blocks \in Seq(T), \A b \in T : IsBlock(b),
         NEW raw, raw.size \in Nat, NEW empty, IsFrame(empty), ~GpsValid(empty)
  PROVE  LET t == FoldLeft(WalkBlock,
                           [size |-> raw.size, offset |-> 8, ended |-> FALSE, frame |-> empty],
                           blocks).frame
         IN IsFrame(t) /\ ReadWhole(t, raw, blocks)
<1>. DEFINE n == Len(blocks)
            base == [size |-> raw.size, offset |-> 8, ended |-> FALSE, frame |-> empty]
            end == FoldLeft(WalkBlock, base, blocks)
<1>1. end = Walk!Fold(0, base, blocks)
  BY Zenon DEF FoldLeft, MapThenFoldSet, Max, Walk!Fold, Walk!FoldLeft, Walk!MapThenFoldSet, Walk!Max
<1>2. Walked(base, blocks, raw.size, 0)
  <2>1. Reach(blocks, 0) = 0
    BY ReachGrows, Zenon
  <2>2. /\ base = [x \in {"size", "offset", "ended", "frame"} |-> base[x]]
        /\ base.size = raw.size /\ base.frame = empty /\ base.offset = 8 + 0
    OBVIOUS
  <2>3. \A j \in 1 .. 0 : FALSE
    OBVIOUS
  <2>. HIDE DEF base
  <2>. QED
    BY <2>1, <2>2, <2>3, Zenon DEF Walked
<1>. HIDE DEF base, end
<1>3. PICK f : /\ f[0] = base
               /\ \A k \in 1 .. n : f[k] = WalkBlock(f[k - 1], blocks[k])
               /\ f[n] = Walk!Fold(0, base, blocks)
  BY Walk!FoldTrace, Zenon
<1>. DEFINE S == {k \in Nat : k <= n => Walked(f[k], blocks, raw.size, k)}
<1>4. n \in Nat
  OBVIOUS
<1>. HIDE DEF n
<1>5. 0 \in S
  BY <1>2, <1>3
<1>6. ASSUME NEW k \in Nat, k \in S PROVE k + 1 \in S
  <2>. SUFFICES ASSUME k + 1 <= n PROVE Walked(f[k + 1], blocks, raw.size, k + 1)
    OBVIOUS
  <2>1. Walked(f[k], blocks, raw.size, k) /\ k + 1 \in 1 .. n /\ (k + 1) - 1 = k
    BY <1>4, <1>6
  <2>2. f[k + 1] = WalkBlock(f[k], blocks[k + 1])
    BY <1>3, <2>1, Zenon
  <2>3. Walked(WalkBlock(f[k], blocks[k + 1]), blocks, raw.size, k + 1)
    BY <2>1, WalkStep, Zenon DEF n
  <2>. QED
    BY <2>2, <2>3, Zenon
<1>7. n \in S
  BY <1>4, <1>5, <1>6, Walk!NatSetInduction, Zenon
<1>8. Walked(end, blocks, raw.size, n)
  BY <1>1, <1>3, <1>4, <1>7
<1>9. \A j : Block([size |-> raw.size], blocks, j) => Block(raw, blocks, j)
  BY Zenon DEF Block
<1>10. IsFrame(end.frame) /\ ReadWhole(end.frame, raw, blocks)
  BY <1>8, <1>9, Zenon DEF Walked, ReadWhole, n
<1>. QED
  BY <1>10 DEF end, base

\* And so does processRawFrame, of whichever bytes it takes.
LEMMA RS41ReadsWhole ==
  ASSUME NEW raw \in RawFrames, raw.sonde = "RS41"
  PROVE  /\ IsFrame(RS41Frame(raw))
         /\ ReadWhole(RS41Frame(raw), raw, IF raw.ok THEN raw.corrected ELSE raw.received)
<1>. DEFINE corrected == raw.size >= 518 /\ raw.ok
            blocks == IF corrected THEN raw.corrected ELSE raw.received
            empty == [Unknown EXCEPT !.type = "RS41",
                                     !.eccCorrected = corrected /\ raw.errors > 0]
<1>1. raw.size \in Nat /\ raw.ok \in BOOLEAN /\ (raw.ok => raw.size >= 518)
  BY InputAssumption
<1>2. blocks = IF raw.ok THEN raw.corrected ELSE raw.received
  BY <1>1
<1>3. blocks \in Seq(ToSet(blocks)) /\ \A b \in ToSet(blocks) : IsBlock(b)
  <2>1. blocks \in {raw.received, raw.corrected}
    OBVIOUS
  <2>. HIDE DEF blocks
  <2>. QED
    BY <2>1, InputAssumption, Zenon
<1>4. IsFrame(empty) /\ ~GpsValid(empty)
  <2>1. /\ empty = [x \in Fields |-> empty[x]]
        /\ empty.frequencyHz = 0 /\ empty.alt = Nothing /\ empty.climb = 0
    BY DEF Unknown, Fields
  <2>. HIDE DEF empty
  <2>. QED
    BY <2>1 DEF IsFrame, IsPosition, GpsValid
<1>5. RS41Frame(raw) = FoldLeft(WalkBlock,
                         [size |-> raw.size, offset |-> 8, ended |-> FALSE, frame |-> empty],
                         blocks).frame
  BY Zenon DEF RS41Frame
<1>. HIDE DEF blocks, empty
<1>6. IsFrame(RS41Frame(raw)) /\ ReadWhole(RS41Frame(raw), raw, blocks)
  BY <1>1, <1>3, <1>4, <1>5, WalkReadsWhole, Zenon
<1>. QED
  BY <1>2, <1>6, Zenon

-----------------------------------------------------------------------------
(* What the telemetry callback may be called with.                         *)

Frames == {ProcessRawFrame(raw)[1] : raw \in {r \in RawFrames : ProcessRawFrame(r) # <<>>}}

\* A frame that is delivered has a serial or a position, of an RS41 read from
\* whole blocks.
LEMMA FramesAreFrames ==
  ASSUME NEW t \in Frames
  PROVE  /\ IsFrame(t)
         /\ HasSerial(t) \/ GpsValid(t)
         /\ t.type = "RS41" => \E raw \in {r \in RawFrames : r.sonde = "RS41"} :
                                 ReadWhole(t, raw, IF raw.ok THEN raw.corrected ELSE raw.received)
<1>1. PICK raw \in RawFrames : ProcessRawFrame(raw) # <<>> /\ t = ProcessRawFrame(raw)[1]
  BY DEF Frames
<1>. DEFINE u == CASE raw.sonde = "RS41" -> RS41Frame(raw)
                   [] raw.sonde = "DFM"  -> DFMFrame(raw)
                   [] OTHER              -> M10Frame(raw)
<1>2. t = u /\ (HasSerial(u) \/ GpsValid(u))
  <2>. HIDE DEF u
  <2>1. ProcessRawFrame(raw) = IF raw.size >= LeastSize[raw.sonde] /\ (HasSerial(u) \/ GpsValid(u))
                                 THEN <<u>> ELSE <<>>
    BY Zenon DEF ProcessRawFrame, u
  <2>2. <<u>>[1] = u
    OBVIOUS
  <2>. QED
    BY <1>1, <2>1, <2>2, Zenon
<1>3. CASE raw.sonde = "RS41"
  <2>1. u = RS41Frame(raw)
    BY <1>3
  <2>. HIDE DEF u
  <2>. QED
    BY <1>2, <1>3, <2>1, RS41ReadsWhole, Zenon
<1>4. CASE raw.sonde # "RS41"
  <2>1. u = DFMFrame(raw) \/ u = M10Frame(raw)
    BY <1>4, Zenon
  <2>0. IsPosition(raw.alt)
    BY <1>4, InputAssumption
  <2>2. IsFrame(DFMFrame(raw)) /\ DFMFrame(raw).type # "RS41"
    <3>. DEFINE d == DFMFrame(raw)
    <3>1. /\ d = [x \in Fields |-> d[x]] /\ d.frequencyHz = 0 /\ d.climb = 0
          /\ d.alt = raw.alt \/ d.alt = Nothing
          /\ d.type # "RS41"
      BY DEF DFMFrame, Unknown, Fields
    <3>. HIDE DEF d
    <3>2. IsFrame(d) /\ d.type # "RS41"
      BY <2>0, <3>1 DEF IsFrame, IsPosition
    <3>. QED
      BY <3>2 DEF d
  <2>3. IsFrame(M10Frame(raw)) /\ M10Frame(raw).type # "RS41"
    <3>. DEFINE m == M10Frame(raw)
    <3>1. /\ m = [x \in Fields |-> m[x]] /\ m.frequencyHz = 0 /\ m.climb = 0
          /\ m.alt = raw.alt /\ m.type # "RS41"
      BY DEF M10Frame, Unknown, Fields
    <3>. HIDE DEF m
    <3>2. IsFrame(m) /\ m.type # "RS41"
      BY <2>0, <3>1 DEF IsFrame, IsPosition
    <3>. QED
      BY <3>2 DEF m
  <2>. HIDE DEF u
  <2>. QED
    BY <1>2, <2>1, <2>2, <2>3, Zenon
<1>. QED
  BY <1>3, <1>4

-----------------------------------------------------------------------------
(* Sequences: the newest of one that grows, and what passes a test.        *)

ByPosition ==
  INSTANCE FoldLemmas WITH Op <- LAMBDA p, kept, t : IF GpsValid(t) THEN Append(kept, t) ELSE kept
ByLoggable ==
  INSTANCE FoldLemmas WITH Op <- LAMBDA p, kept, t : IF Loggable(t) THEN Append(kept, t) ELSE kept

\* Both tests, as folds.
LEMMA FilterIsFold ==
  ASSUME NEW s
  PROVE  /\ Filter(s, GpsValid) = ByPosition!Fold(0, <<>>, s)
         /\ Filter(s, Loggable) = ByLoggable!Fold(0, <<>>, s)
<1>1. Filter(s, GpsValid) = ByPosition!Fold(0, <<>>, s)
  BY Zenon DEF Filter, FoldLeft, MapThenFoldSet, Max, ByPosition!Fold, ByPosition!FoldLeft,
               ByPosition!MapThenFoldSet, ByPosition!Max
<1>2. Filter(s, Loggable) = ByLoggable!Fold(0, <<>>, s)
  BY Zenon DEF Filter, FoldLeft, MapThenFoldSet, Max, ByLoggable!Fold, ByLoggable!FoldLeft,
               ByLoggable!MapThenFoldSet, ByLoggable!Max
<1>. QED
  BY <1>1, <1>2

\* What passes is a sequence of what passes.
LEMMA FilterIsSeq ==
  ASSUME NEW T, NEW s \in Seq(T)
  PROVE  /\ Filter(s, GpsValid) \in Seq({t \in T : GpsValid(t)})
         /\ Filter(s, Loggable) \in Seq({t \in T : Loggable(t)})
<1>. DEFINE P == {t \in T : GpsValid(t)}
            L == {t \in T : Loggable(t)}
<1>1. <<>> \in Seq(P) /\ <<>> \in Seq(L)
  OBVIOUS
<1>2. \A kept \in Seq(P), t \in T : (IF GpsValid(t) THEN Append(kept, t) ELSE kept) \in Seq(P)
  OBVIOUS
<1>3. \A kept \in Seq(L), t \in T : (IF Loggable(t) THEN Append(kept, t) ELSE kept) \in Seq(L)
  OBVIOUS
<1>. HIDE DEF P, L
<1>4. ByPosition!Fold(0, <<>>, s) \in Seq(P)
  BY <1>1, <1>2, ByPosition!FoldInvariant, Zenon
<1>5. ByLoggable!Fold(0, <<>>, s) \in Seq(L)
  BY <1>1, <1>3, ByLoggable!FoldInvariant, Zenon
<1>. QED
  BY <1>4, <1>5, FilterIsFold, Zenon DEF P, L

\* A frame more is added at the end, or not at all.
LEMMA FilterGrows ==
  ASSUME NEW T, NEW s \in Seq(T), NEW e \in T
  PROVE  /\ Filter(Append(s, e), GpsValid) = IF GpsValid(e) THEN Append(Filter(s, GpsValid), e)
                                                            ELSE Filter(s, GpsValid)
         /\ Filter(Append(s, e), Loggable) = IF Loggable(e) THEN Append(Filter(s, Loggable), e)
                                                            ELSE Filter(s, Loggable)
<1>1. ByPosition!Fold(0, <<>>, Append(s, e))
        = IF GpsValid(e) THEN Append(ByPosition!Fold(0, <<>>, s), e)
                         ELSE ByPosition!Fold(0, <<>>, s)
  BY ByPosition!FoldAppend, Zenon
<1>2. ByLoggable!Fold(0, <<>>, Append(s, e))
        = IF Loggable(e) THEN Append(ByLoggable!Fold(0, <<>>, s), e)
                         ELSE ByLoggable!Fold(0, <<>>, s)
  BY ByLoggable!FoldAppend, Zenon
<1>. QED
  BY <1>1, <1>2, FilterIsFold, Zenon

\* Of nothing, nothing passes.
LEMMA FilterOfNothing == Filter(<<>>, GpsValid) = <<>> /\ Filter(<<>>, Loggable) = <<>>
  BY FilterIsFold, ByPosition!FoldEmpty, ByLoggable!FoldEmpty, Zenon

\* The newest cap elements of a sequence: what they are and how many.
LEMMA NewestElements ==
  ASSUME NEW T, NEW s \in Seq(T), NEW cap \in Nat \ {0}
  PROVE  /\ Newest(s, cap) \in Seq(T)
         /\ Len(Newest(s, cap)) = IF Len(s) > cap THEN cap ELSE Len(s)
         /\ Len(s) > cap => \A i \in 1 .. cap : Newest(s, cap)[i] = s[Len(s) - cap + i]
         /\ Len(s) <= cap => \A i \in 1 .. Len(s) : Newest(s, cap)[i] = s[i]
<1>1. Len(s) \in Nat /\ \A i \in 1 .. Len(s) : s[i] \in T
  OBVIOUS
<1>2. CASE Len(s) > cap
  <2>1. Newest(s, cap) = SubSeq(s, Len(s) - cap + 1, Len(s))
    BY <1>2 DEF Newest
  <2>2. /\ Len(s) - cap + 1 \in Int /\ Len(s) \in Int
        /\ \A i \in Len(s) - cap + 1 .. Len(s) : s[i] \in T
    BY <1>1, <1>2
  <2>3. /\ SubSeq(s, Len(s) - cap + 1, Len(s)) \in Seq(T)
        /\ Len(SubSeq(s, Len(s) - cap + 1, Len(s)))
             = IF Len(s) - cap + 1 <= Len(s) THEN Len(s) - (Len(s) - cap + 1) + 1 ELSE 0
        /\ \A i \in 1 .. Len(s) - (Len(s) - cap + 1) + 1 :
             SubSeq(s, Len(s) - cap + 1, Len(s))[i] = s[Len(s) - cap + 1 + i - 1]
    BY <2>2, SubSeqProperties
  <2>4. /\ Len(s) - cap + 1 <= Len(s) /\ Len(s) - (Len(s) - cap + 1) + 1 = cap
        /\ \A i \in 1 .. cap : Len(s) - cap + 1 + i - 1 = Len(s) - cap + i
    BY <1>1, <1>2
  <2>. QED
    BY <1>1, <1>2, <2>1, <2>3, <2>4
<1>3. CASE Len(s) <= cap
  <2>0. ~(Len(s) > cap)
    BY <1>1, <1>3
  <2>1. Newest(s, cap) = SubSeq(s, 1, Len(s))
    BY <2>0, Zenon DEF Newest
  <2>2. SubSeq(s, 1, Len(s)) = s
    OBVIOUS
  <2>. QED
    BY <1>1, <1>3, <2>1, <2>2
<1>. QED
  BY <1>1, <1>2, <1>3

\* A history from which the oldest is dropped holds the newest of all there was:
\* what DropOldest does step by step is what Newest says at once.
LEMMA NewestOfGrowing ==
  ASSUME NEW T, NEW s \in Seq(T), NEW e \in T, NEW cap \in Nat \ {0}
  PROVE  Newest(Append(s, e), cap) = DropOldest(Append(Newest(s, cap), e), cap)
<1>. DEFINE n == Len(s)
            t == Append(s, e)
            old == Newest(s, cap)
            new == Newest(t, cap)
            longer == Append(old, e)
<1>1. n \in Nat /\ t \in Seq(T) /\ Len(t) = n + 1 /\ t[n + 1] = e /\ \A i \in 1 .. n : t[i] = s[i]
  OBVIOUS
<1>. HIDE DEF t
<1>2. /\ old \in Seq(T) /\ Len(old) = IF n > cap THEN cap ELSE n
      /\ n > cap => \A i \in 1 .. cap : old[i] = s[n - cap + i]
      /\ n <= cap => \A i \in 1 .. n : old[i] = s[i]
  BY NewestElements
<1>3. /\ new \in Seq(T) /\ Len(new) = IF n + 1 > cap THEN cap ELSE n + 1
      /\ n + 1 > cap => \A i \in 1 .. cap : new[i] = t[n + 1 - cap + i]
      /\ n + 1 <= cap => \A i \in 1 .. n + 1 : new[i] = t[i]
  <2>1. /\ new \in Seq(T) /\ Len(new) = IF Len(t) > cap THEN cap ELSE Len(t)
        /\ Len(t) > cap => \A i \in 1 .. cap : new[i] = t[Len(t) - cap + i]
        /\ Len(t) <= cap => \A i \in 1 .. Len(t) : new[i] = t[i]
    BY <1>1, NewestElements
  <2>. QED
    BY <1>1, <2>1
<1>. HIDE DEF n, old, new
<1>4. /\ longer \in Seq(T) /\ Len(longer) = Len(old) + 1 /\ longer[Len(old) + 1] = e
      /\ \A i \in 1 .. Len(old) : longer[i] = old[i]
  BY <1>2
<1>. HIDE DEF longer
<1>5. CASE n < cap
  <2>1. Len(old) = n /\ Len(longer) = n + 1 /\ Len(new) = n + 1
    BY <1>1, <1>2, <1>3, <1>4, <1>5
  <2>2. \A i \in 1 .. n + 1 : new[i] = longer[i]
    BY <1>1, <1>2, <1>3, <1>4, <1>5, <2>1
  <2>3. new = longer
    BY <1>3, <1>4, <2>1, <2>2, SeqEqual
  <2>4. ~(Len(longer) > cap)
    BY <1>1, <1>5, <2>1
  <2>. QED
    BY <2>3, <2>4, Zenon DEF DropOldest, longer, old, new, t
<1>6. CASE n >= cap
  <2>1. Len(old) = cap /\ Len(longer) = cap + 1 /\ Len(new) = cap
    BY <1>1, <1>2, <1>3, <1>4, <1>6
  <2>2. longer # <<>> /\ Tail(longer) \in Seq(T) /\ Len(Tail(longer)) = cap
    BY <1>4, <2>1
  <2>3. \A i \in 1 .. cap : Tail(longer)[i] = longer[i + 1]
    BY <1>4, <2>1
  <2>4. ASSUME NEW i \in 1 .. cap PROVE new[i] = longer[i + 1]
    <3>1. new[i] = t[n + 1 - cap + i]
      BY <1>1, <1>3, <1>6
    <3>2. CASE i = cap
      <4>1. n + 1 - cap + i = n + 1
        BY <1>1, <3>2
      <4>. QED
        BY <1>1, <1>4, <2>1, <3>1, <3>2, <4>1
    <3>3. CASE i < cap
      <4>1. longer[i + 1] = old[i + 1] /\ i + 1 \in 1 .. cap
        BY <1>4, <2>1, <3>3
      <4>2. old[i + 1] = s[n + 1 - cap + i]
        <5>1. CASE n > cap
          <6>1. n - cap + (i + 1) = n + 1 - cap + i
            BY <1>1
          <6>. QED
            BY <1>2, <4>1, <5>1, <6>1
        <5>2. CASE n = cap
          <6>1. n + 1 - cap + i = i + 1 /\ i + 1 \in 1 .. n
            BY <1>1, <4>1, <5>2
          <6>. QED
            BY <1>2, <4>1, <5>2, <6>1
        <5>. QED
          BY <1>1, <1>6, <5>1, <5>2
      <4>3. n + 1 - cap + i \in 1 .. n
        BY <1>1, <1>6, <3>3
      <4>. QED
        BY <1>1, <3>1, <4>1, <4>2, <4>3
    <3>. QED
      BY <3>2, <3>3
  <2>5. new = Tail(longer)
    BY <1>3, <2>1, <2>2, <2>3, <2>4, SeqEqual
  <2>6. Len(longer) > cap
    BY <2>1
  <2>. QED
    BY <2>5, <2>6, Zenon DEF DropOldest, longer, old, new, t
<1>. QED
  BY <1>1, <1>5, <1>6

-----------------------------------------------------------------------------
(* The frequency: where it may come from.                                  *)

Options == INSTANCE FoldLemmas WITH Op <- LAMBDA p, settings, arg : ApplyArg(settings, arg)
ByPeak ==
  INSTANCE FoldLemmas WITH Op <- LAMBDA p, kept, k : IF IsPeak(p, k) THEN Append(kept, k) ELSE kept
ByRange ==
  INSTANCE FoldLemmas WITH
    Op <- LAMBDA p, kept, f : IF MinHz <= f /\ f <= MaxHz THEN Append(kept, f) ELSE kept
ByDistance == INSTANCE FoldLemmas WITH Op <- LAMBDA p, f, peak : IF Far(peak, f) THEN peak ELSE f

\* A set of numbers has a least one.
LEMMA MinIsMember ==
  ASSUME NEW S \in SUBSET Nat, S # {}
  PROVE  Min(S) \in S /\ \A y \in S : Min(S) <= y
<1>1. IsWellFoundedOn(OpToRel(<, Nat), Nat)
  BY NatLessThanWellFounded
<1>2. PICK x \in S : \A y \in S : ~(<<y, x>> \in OpToRel(<, Nat))
  BY <1>1, WFMin, Zenon
<1>3. \A y \in Nat : y < x => <<y, x>> \in OpToRel(<, Nat)
  BY DEF OpToRel
<1>4. \A y \in S : ~(y < x)
  BY <1>2, <1>3
<1>5. \A y \in S : x =< y
  BY <1>4
<1>. QED
  BY <1>5, Zenon DEF Min

\* extractDouble returns a number of the file or the default.
LEMMA NumberIsInt ==
  ASSUME NEW T, NEW f \in Seq(T), \A t \in T : t.value \in Int, NEW key, NEW default \in Int
  PROVE  ExtractDouble(f, key, default) \in Int
<1>. DEFINE I == {i \in 1 .. Len(f) : f[i].quoted /\ f[i].text = key}
            at == Find(f, key)
            J == {i \in at + 1 .. Len(f) : LooksLike(f[i], "number")}
            found == Search(f, key, "number")
<1>1. at = IF I # {} THEN Min(I) ELSE 0
  BY Zenon DEF Find, SelectInSeq
<1>2. I \in SUBSET Nat /\ Len(f) \in Nat
  OBVIOUS
<1>3. at \in Nat
  <2>. HIDE DEF at
  <2>1. CASE I # {}
    <3>. HIDE DEF I
    <3>1. Min(I) \in I
      BY <1>2, <2>1, MinIsMember
    <3>. QED
      BY <1>1, <1>2, <2>1, <3>1
  <2>2. CASE I = {}
    <3>1. at = 0
      BY <1>1, <2>2, Zenon
    <3>. QED
      BY <3>1
  <2>. QED
    BY <2>1, <2>2
<1>4. found = IF at = 0 THEN 0 ELSE IF J # {} THEN Min(J) ELSE 0
  BY Zenon DEF Search, SelectInSubSeq, BehindColon
<1>5. J \in SUBSET (1 .. Len(f)) /\ J \in SUBSET Nat
  <2>. HIDE DEF at
  <2>1. \A i \in at + 1 .. Len(f) : i \in 1 .. Len(f) /\ i \in Nat
    BY <1>2, <1>3
  <2>. QED
    BY <2>1
<1>. HIDE DEF at, J, found
<1>6. found = 0 \/ found \in 1 .. Len(f)
  <2>1. CASE at # 0 /\ J # {}
    <3>1. Min(J) \in J
      BY <1>5, <2>1, MinIsMember
    <3>. QED
      BY <1>4, <1>5, <2>1, <3>1
  <2>. QED
    BY <1>4, <2>1
<1>7. found \in 1 .. Len(f) => f[found].value \in Int
  OBVIOUS
<1>. QED
  BY <1>6, <1>7, Zenon DEF ExtractDouble, found

\* Any file, or none, gives a frequency.
LEMMA ConfigHasFrequency ==
  ASSUME NEW f \in Files, NEW etc \in Files
  PROVE  AppConfig(f, etc).hz \in Nat
<1>1. ASSUME NEW T, NEW g \in Seq(T), \A t \in T : t.value \in Int
      PROVE  LoadFromFile(g).hz \in Nat
  <2>1. ExtractDouble(g, "frequency_hz", 0) \in Int
    BY <1>1, NumberIsInt
  <2>2. FrequencyHz(g, 403000000) \in Nat
    BY <2>1 DEF FrequencyHz
  <2>3. LoadFromFile(g).hz = FrequencyHz(g, 403000000)
    BY DEF LoadFromFile
  <2>. QED
    BY <2>2, <2>3
<1>2. ASSUME NEW g \in Files, g # NoFile PROVE LoadFromFile(g).hz \in Nat
  <2>1. g \in Seq(ToSet(g)) /\ \A t \in ToSet(g) : t.value \in Int
    BY <1>2, InputAssumption, Zenon
  <2>. QED
    BY <1>1, <2>1
<1>3. Unloaded.hz \in Nat
  <2>1. LoadFromFile(<<>>).hz \in Nat
    <3>. DEFINE g == <<>>
    <3>1. g \in Seq({}) /\ \A t \in {} : t.value \in Int
      OBVIOUS
    <3>. HIDE DEF g
    <3>2. LoadFromFile(g).hz \in Nat
      BY <1>1, <3>1
    <3>. QED
      BY <3>2 DEF g
  <2>2. Unloaded.hz = LoadFromFile(<<>>).hz
    BY DEF Unloaded, LoadFromFile
  <2>. QED
    BY <2>1, <2>2
<1>. QED
  BY <1>2, <1>3, Zenon DEF AppConfig

\* And so does any command line after that.
LEMMA CommandLineHasFrequency ==
  ASSUME NEW settings, settings.hz \in Nat, NEW args \in CommandLines
  PROVE  CommandLine(settings, args).hz \in Nat
<1>. DEFINE n == Len(args)
            Good(r) == r.hz \in Nat /\ DOMAIN r = DOMAIN Run(settings)
<1>1. /\ args \in Seq(ToSet(args)) /\ n \in Nat
      /\ \A k \in 1 .. n : args[k].option = "--freq" => args[k].value \in Nat
  <2>1. /\ args \in Seq(ToSet(args))
        /\ \A arg \in ToSet(args) : arg.option = "--freq" => arg.value \in Nat
    BY InputAssumption
  <2>2. n \in Nat /\ \A k \in 1 .. n : args[k] \in ToSet(args)
    BY <2>1
  <2>. QED
    BY <2>1, <2>2
<1>2. CommandLine(settings, args) = Options!Fold(0, Run(settings), args)
  BY Zenon DEF CommandLine, FoldLeft, MapThenFoldSet, Max, Options!Fold, Options!FoldLeft,
               Options!MapThenFoldSet, Options!Max
<1>3. Good(Run(settings))
  BY DEF Run
<1>4. "hz" \in DOMAIN Run(settings)
  BY DEF Run
<1>5. ASSUME NEW r, Good(r), NEW arg, arg.option = "--freq" => arg.value \in Nat
      PROVE  Good(ApplyArg(r, arg))
  <2>1. CASE arg.option = "--freq"
    <3>1. Hz(arg.value) \in Nat
      BY <1>5, <2>1 DEF Hz
    <3>2. ApplyArg(r, arg) = [r EXCEPT !.hz = Hz(arg.value), !.autoScan = FALSE]
      BY <2>1 DEF ApplyArg
    <3>. QED
      BY <1>4, <1>5, <3>1, <3>2
  <2>2. CASE arg.option # "--freq"
    <3>1. ApplyArg(r, arg).hz = r.hz /\ DOMAIN ApplyArg(r, arg) = DOMAIN r
      BY <2>2 DEF ApplyArg
    <3>. QED
      BY <1>5, <3>1
  <2>. QED
    BY <2>1, <2>2
<1>. HIDE DEF Good
<1>6. PICK f : /\ f[0] = Run(settings)
               /\ \A k \in 1 .. n : f[k] = ApplyArg(f[k - 1], args[k])
               /\ f[n] = Options!Fold(0, Run(settings), args)
  BY <1>1, Options!FoldTrace, Zenon
<1>. DEFINE S == {k \in Nat : k <= n => Good(f[k])}
<1>. HIDE DEF n
<1>7. 0 \in S
  BY <1>3, <1>6
<1>8. ASSUME NEW k \in Nat, k \in S PROVE k + 1 \in S
  <2>. SUFFICES ASSUME k + 1 <= n PROVE Good(f[k + 1])
    OBVIOUS
  <2>1. Good(f[k]) /\ k + 1 \in 1 .. n /\ (k + 1) - 1 = k
    BY <1>1, <1>8
  <2>2. f[k + 1] = ApplyArg(f[k], args[k + 1])
    BY <1>6, <2>1, Zenon
  <2>. QED
    BY <1>1, <1>5, <2>1, <2>2, Zenon
<1>9. n \in S
  BY <1>1, <1>7, <1>8, Options!NatSetInduction, Zenon
<1>10. Good(CommandLine(settings, args))
  BY <1>1, <1>2, <1>6, <1>9
<1>. QED
  BY <1>10 DEF Good

\* The scanner reports frequencies.
LEMMA PeaksAreFrequencies ==
  ASSUME NEW samples, NEW centre \in Nat, NEW build
  PROVE  AnalyzeBlock(samples, centre, build) \in Seq(Nat)
<1>. DEFINE spectrum == PowerSpectrum(IF build THEN Fftw(samples) ELSE CooleyTukey(samples))
            bins == [i \in 1 .. N - 4 |-> i + 1]
            found == Filter(bins, LAMBDA k : IsPeak(spectrum, k))
            tuned == [i \in 1 .. Len(found) |-> BinHz(found[i], centre)]
<1>1. bins \in Seq(Int)
  BY DEF N
<1>2. found \in Seq(Int)
  <2>. HIDE DEF bins, spectrum
  <2>1. found = ByPeak!Fold(spectrum, <<>>, bins)
    BY Zenon DEF Filter, FoldLeft, MapThenFoldSet, Max, ByPeak!Fold, ByPeak!FoldLeft,
                 ByPeak!MapThenFoldSet, ByPeak!Max
  <2>2. <<>> \in Seq(Int)
    OBVIOUS
  <2>3. \A kept \in Seq(Int), k \in Int :
          (IF IsPeak(spectrum, k) THEN Append(kept, k) ELSE kept) \in Seq(Int)
    OBVIOUS
  <2>4. ByPeak!Fold(spectrum, <<>>, bins) \in Seq(Int)
    BY <1>1, <2>2, <2>3, ByPeak!FoldInvariant, Zenon
  <2>. QED
    BY <2>1, <2>4, Zenon
<1>3. tuned \in Seq(Int)
  <2>. HIDE DEF found
  <2>1. \A k \in Int : BinHz(k, centre) \in Int
    <3>1. SampleRate \div N \in Int /\ N \div 2 \in Int
      BY SessionAssumption DEF N
    <3>2. \A k, d, h \in Int : centre + (k - h) * d \in Int
      OBVIOUS
    <3>. QED
      BY <3>1, <3>2, Zenon DEF BinHz
  <2>2. Len(found) \in Nat /\ \A i \in 1 .. Len(found) : found[i] \in Int
    BY <1>2
  <2>3. \A i \in 1 .. Len(found) : BinHz(found[i], centre) \in Int
    BY <2>1, <2>2, Zenon
  <2>4. tuned \in [1 .. Len(found) -> Int]
    BY <2>3, Zenon
  <2>. HIDE DEF tuned
  <2>. QED
    BY <2>2, <2>4
<1>4. AnalyzeBlock(samples, centre, build) = Filter(tuned, LAMBDA f : MinHz <= f /\ f <= MaxHz)
  BY Zenon DEF AnalyzeBlock
<1>. HIDE DEF tuned
<1>5. Filter(tuned, LAMBDA f : MinHz <= f /\ f <= MaxHz) = ByRange!Fold(0, <<>>, tuned)
  BY Zenon DEF Filter, FoldLeft, MapThenFoldSet, Max, ByRange!Fold, ByRange!FoldLeft,
               ByRange!MapThenFoldSet, ByRange!Max
<1>6. \A kept \in Seq(Nat), f \in Int :
        (IF MinHz <= f /\ f <= MaxHz THEN Append(kept, f) ELSE kept) \in Seq(Nat)
  BY SessionAssumption
<1>7. <<>> \in Seq(Nat)
  OBVIOUS
<1>8. ByRange!Fold(0, <<>>, tuned) \in Seq(Nat)
  BY <1>3, <1>6, <1>7, ByRange!FoldInvariant, Zenon
<1>. QED
  BY <1>4, <1>5, <1>8, Zenon

\* What the peaks of a block leave the frequency at.
LEMMA ScanHasFrequency ==
  ASSUME hz \in Nat
  PROVE  FoldLeft(LAMBDA f, p : IF Far(p, f) THEN p ELSE f, hz, Peaks) \in Nat
<1>1. Peaks \in Seq(Nat)
  BY PeaksAreFrequencies, Zenon DEF Peaks
<1>2. FoldLeft(LAMBDA f, p : IF Far(p, f) THEN p ELSE f, hz, Peaks) = ByDistance!Fold(0, hz, Peaks)
  BY Zenon DEF FoldLeft, MapThenFoldSet, Max, ByDistance!Fold, ByDistance!FoldLeft,
               ByDistance!MapThenFoldSet, ByDistance!Max
<1>3. \A f \in Nat, p \in Nat : (IF Far(p, f) THEN p ELSE f) \in Nat
  OBVIOUS
<1>4. ByDistance!Fold(0, hz, Peaks) \in Nat
  BY <1>1, <1>3, ByDistance!FoldInvariant, Zenon
<1>. QED
  BY <1>2, <1>4, Zenon

\* A sequence is what was there before its last element, and that.
LEMMA DeliveredGrows ==
  ASSUME NEW T, NEW s \in Seq(T), s # <<>>
  PROVE  Front(s) \in Seq(T) /\ Last(s) \in T /\ s = Append(Front(s), Last(s))
  BY DEF Front, Last

\* And the other way round.
LEMMA FrontOfAppend ==
  ASSUME NEW T, NEW s \in Seq(T), NEW e \in T
  PROVE  Front(Append(s, e)) = s /\ Last(Append(s, e)) = e
  BY DEF Front, Last

-----------------------------------------------------------------------------
(* What the browser reads: points and commas.                              *)

\* How FlattenSeq comes about, element by element.
LEMMA FlattenTrace ==
  ASSUME NEW T, NEW seqs \in Seq(T), seqs # <<>>
  PROVE  \E f : /\ f[1] = seqs[1]
                /\ \A i \in 2 .. Len(seqs) : f[i] = f[i - 1] \o seqs[i]
                /\ f[Len(seqs)] = FlattenSeq(seqs)
<1>. DEFINE n == Len(seqs)
            Flatten(f, m) == f = [i \in 1 .. m |-> IF i = 1 THEN seqs[i] ELSE f[i - 1] \o seqs[i]]
            flatten == CHOOSE f : Flatten(f, n)
            S == {m \in Nat : \E f : Flatten(f, m)}
<1>0. n \in Nat /\ n # 0
  OBVIOUS
<1>1. FlattenSeq(seqs) = flatten[n]
  BY <1>0, Zenon DEF FlattenSeq
<1>. HIDE DEF n, flatten, Flatten, S
<1>2. 0 \in S
  <2>. DEFINE f == [i \in 1 .. 0 |-> IF i = 1 THEN seqs[i] ELSE <<>>]
  <2>1. f = [i \in 1 .. 0 |-> IF i = 1 THEN seqs[i] ELSE f[i - 1] \o seqs[i]]
    OBVIOUS
  <2>2. Flatten(f, 0)
    BY <2>1, Zenon DEF Flatten
  <2>. QED
    BY <2>2 DEF S
<1>3. ASSUME NEW m \in Nat, m \in S PROVE m + 1 \in S
  <2>1. PICK f : Flatten(f, m)
    BY <1>3, Zenon DEF S
  <2>. DEFINE g == [i \in 1 .. m + 1 |-> IF i <= m THEN f[i]
                                         ELSE IF i = 1 THEN seqs[i] ELSE f[i - 1] \o seqs[i]]
  <2>2. ASSUME NEW i \in 1 .. m + 1
        PROVE  g[i] = IF i = 1 THEN seqs[i] ELSE g[i - 1] \o seqs[i]
    <3>1. i # 1 => i - 1 \in 1 .. m + 1 /\ i - 1 <= m
      OBVIOUS
    <3>2. i # 1 => g[i - 1] = f[i - 1]
      BY <3>1
    <3>3. CASE i <= m
      <4>1. i \in 1 .. m
        BY <3>3
      <4>2. f[i] = IF i = 1 THEN seqs[i] ELSE f[i - 1] \o seqs[i]
        BY <2>1, <4>1, Zenon DEF Flatten
      <4>3. g[i] = f[i]
        BY <3>3
      <4>. QED
        BY <3>2, <4>2, <4>3, Zenon
    <3>4. CASE ~(i <= m)
      BY <3>2, <3>4
    <3>. QED
      BY <3>3, <3>4
  <2>3. g = [i \in 1 .. m + 1 |-> g[i]]
    OBVIOUS
  <2>. HIDE DEF g
  <2>4. Flatten(g, m + 1)
    BY <2>2, <2>3, Zenon DEF Flatten
  <2>5. m + 1 \in Nat
    OBVIOUS
  <2>. QED
    BY <2>4, <2>5, Zenon DEF S
<1>4. Nat \subseteq S
  BY <1>2, <1>3, Walk!NatSetInduction, Zenon
<1>5. Flatten(flatten, n)
  <2>1. \E f : Flatten(f, n)
    BY <1>0, <1>4 DEF S
  <2>. QED
    BY <2>1, Zenon DEF flatten
<1>6. ASSUME NEW i \in 1 .. n
      PROVE  flatten[i] = IF i = 1 THEN seqs[i] ELSE flatten[i - 1] \o seqs[i]
  BY <1>5, Zenon DEF Flatten
<1>7. 1 \in 1 .. n /\ \A i \in 2 .. n : i \in 1 .. n /\ i # 1
  BY <1>0
<1>8. flatten[1] = seqs[1] /\ \A i \in 2 .. n : flatten[i] = flatten[i - 1] \o seqs[i]
  BY <1>6, <1>7, Zenon
<1>. QED
  BY <1>1, <1>8, Zenon DEF n

\* What a path is made of.
Signs == {"point", ","}

\* Points and commas, from a point to a comma.
Pairs(path) ==
  /\ path \in Seq(Signs) /\ Len(path) % 2 = 0
  /\ \A i \in 1 .. Len(path) : path[i] = IF i % 2 = 1 THEN "point" ELSE ","

\* Another pair leaves pairs; a point without a comma ends the path.
LEMMA PairsGrow ==
  ASSUME NEW path, Pairs(path)
  PROVE  /\ Pairs(path \o <<"point", ",">>)
         /\ path \o <<>> = path
         /\ WellFormed(path \o <<"point">>)
<1>. DEFINE n == Len(path)
            pair == <<"point", ",">>
            one == <<"point">>
            even == path \o pair
            odd == path \o one
<1>1. path \in Seq(Signs) /\ n \in Nat /\ n % 2 = 0
  <2>1. path \in Seq(Signs) /\ n % 2 = 0
    BY Zenon DEF Pairs
  <2>. QED
    BY <2>1
<1>2. /\ pair \in Seq(Signs) /\ Len(pair) = 2 /\ pair[1] = "point" /\ pair[2] = ","
      /\ one \in Seq(Signs) /\ Len(one) = 1 /\ one[1] = "point"
  BY DEF Signs
<1>3. path \o <<>> = path
  BY <1>1, ConcatEmptySeq
<1>4. \A i \in 1 .. n : path[i] = IF i % 2 = 1 THEN "point" ELSE ","
  BY DEF Pairs
<1>. HIDE DEF pair, one
<1>5. /\ even \in Seq(Signs) /\ Len(even) = n + 2
      /\ \A i \in 1 .. n + 2 : even[i] = IF i <= n THEN path[i] ELSE pair[i - n]
  <2>1. /\ even \in Seq(Signs) /\ Len(even) = Len(path) + Len(pair)
        /\ \A i \in 1 .. Len(path) + Len(pair) :
             even[i] = IF i <= Len(path) THEN path[i] ELSE pair[i - Len(path)]
    BY <1>1, <1>2, ConcatProperties, Zenon
  <2>. QED
    BY <1>2, <2>1, Zenon
<1>6. /\ odd \in Seq(Signs) /\ Len(odd) = n + 1
      /\ \A i \in 1 .. n + 1 : odd[i] = IF i <= n THEN path[i] ELSE one[i - n]
  <2>1. /\ odd \in Seq(Signs) /\ Len(odd) = Len(path) + Len(one)
        /\ \A i \in 1 .. Len(path) + Len(one) :
             odd[i] = IF i <= Len(path) THEN path[i] ELSE one[i - Len(path)]
    BY <1>1, <1>2, ConcatProperties, Zenon
  <2>. QED
    BY <1>2, <2>1, Zenon
<1>. HIDE DEF n, even, odd
<1>7. (n + 2) % 2 = 0 /\ (n + 1) % 2 = 1
  BY <1>1
<1>8. ASSUME NEW i \in 1 .. n + 2 PROVE even[i] = IF i % 2 = 1 THEN "point" ELSE ","
  <2>1. CASE i \in 1 .. n
    <3>1. i <= n
      BY <1>1, <2>1
    <3>. QED
      BY <1>4, <1>5, <2>1, <3>1, Zenon
  <2>2. CASE i = n + 1 \/ i = n + 2
    <3>1. ~(i <= n) /\ (i = n + 1 => i - n = 1) /\ (i = n + 2 => i - n = 2)
      BY <1>1, <2>2
    <3>2. even[i] = pair[i - n]
      BY <1>5, <3>1, Zenon
    <3>3. CASE i = n + 1
      <4>1. i % 2 = 1 /\ even[i] = "point"
        BY <1>2, <1>7, <3>1, <3>2, <3>3, Zenon
      <4>. QED
        BY <4>1, Zenon
    <3>4. CASE i = n + 2
      <4>1. i % 2 = 0 /\ even[i] = ","
        BY <1>2, <1>7, <3>1, <3>2, <3>4, Zenon
      <4>2. 0 # 1
        OBVIOUS
      <4>. QED
        BY <4>1, <4>2, Zenon
    <3>. QED
      BY <2>2, <3>3, <3>4, Zenon
  <2>3. i \in 1 .. n \/ i = n + 1 \/ i = n + 2
    BY <1>1
  <2>. QED
    BY <2>1, <2>2, <2>3, Zenon
<1>9. ASSUME NEW i \in 1 .. n + 1 PROVE odd[i] = IF i % 2 = 1 THEN "point" ELSE ","
  <2>1. CASE i \in 1 .. n
    <3>1. i <= n
      BY <1>1, <2>1
    <3>. QED
      BY <1>4, <1>6, <2>1, <3>1, Zenon
  <2>2. CASE i = n + 1
    <3>1. odd[i] = one[i - n] /\ i - n = 1
      BY <1>1, <1>6, <2>2
    <3>2. i % 2 = 1 /\ odd[i] = "point"
      BY <1>2, <1>7, <2>2, <3>1, Zenon
    <3>. QED
      BY <3>2, Zenon
  <2>3. i \in 1 .. n \/ i = n + 1
    BY <1>1
  <2>. QED
    BY <2>1, <2>2, <2>3, Zenon
<1>10. Pairs(even)
  BY <1>5, <1>7, <1>8, Zenon DEF Pairs
<1>11. WellFormed(odd)
  BY <1>6, <1>7, <1>9, Zenon DEF WellFormed
<1>. QED
  BY <1>3, <1>10, <1>11, Zenon DEF pair, one, even, odd

\* getFlightPathJson: a path whose last frame has a position ends in a point.
LEMMA PathIsWellFormed ==
  ASSUME NEW T, NEW frames \in Seq(T), frames # <<>>, GpsValid(Last(frames))
  PROVE  WellFormed(FlightPath(frames))
<1>. DEFINE n == Len(frames)
            Item(i) == IF ~GpsValid(frames[i]) THEN <<>>
                       ELSE IF NotLast(i, frames) THEN <<"point", ",">> ELSE <<"point">>
            items == [i \in 1 .. n |-> Item(i)]
<1>1. n \in Nat /\ n # 0 /\ GpsValid(frames[n])
  BY DEF Last
<1>2. FlightPath(frames) = FlattenSeq(items)
  BY Zenon DEF FlightPath
<1>3. \A i \in 1 .. n - 1 : Item(i) \in {<<>>, <<"point", ",">>}
  <2>1. \A i \in 1 .. n - 1 : i < n
    BY <1>1
  <2>. QED
    BY <2>1, Zenon DEF NotLast
<1>4. Item(n) = <<"point">>
  <2>1. ~(n < n)
    BY <1>1
  <2>. QED
    BY <1>1, <2>1, Zenon DEF NotLast
<1>5. /\ items \in Seq(Seq(Signs)) /\ Len(items) = n /\ items # <<>>
      /\ \A i \in 1 .. n : items[i] \in Seq(Signs)
  <2>1. <<>> \in Seq(Signs) /\ <<"point", ",">> \in Seq(Signs) /\ <<"point">> \in Seq(Signs)
    BY DEF Signs
  <2>2. \A i \in 1 .. n : Item(i) \in Seq(Signs)
    BY <2>1, Zenon
  <2>. HIDE DEF Item, n
  <2>3. items \in [1 .. n -> Seq(Signs)]
    BY <2>2, Zenon
  <2>. HIDE DEF items
  <2>. QED
    BY <1>1, <2>3
<1>. HIDE DEF Item, n
<1>6. \A i \in 1 .. n : items[i] = Item(i)
  OBVIOUS
<1>. HIDE DEF items
<1>7. PICK f : /\ f[1] = items[1]
               /\ \A i \in 2 .. n : f[i] = f[i - 1] \o items[i]
               /\ f[n] = FlattenSeq(items)
  BY <1>5, FlattenTrace, Zenon
<1>8. Pairs(<<>>)
  BY DEF Pairs
<1>. DEFINE before == [i \in Nat |-> IF i = 0 THEN <<>> ELSE f[i]]
<1>9. ASSUME NEW i \in 1 .. n PROVE f[i] = before[i - 1] \o items[i] 
  <2>1. CASE i = 1
    <3>1. before[i - 1] = <<>>
      BY <2>1
    <3>2. f[i] = items[1] /\ items[i] = items[1]
      BY <1>7, <2>1
    <3>3. items[1] \in Seq(Signs)
      BY <1>5, <2>1, Zenon
    <3>5. <<>> \o items[1] = items[1]
      BY <3>3, ConcatEmptySeq
    <3>. QED
      BY <3>1, <3>2, <3>5, Zenon
  <2>2. CASE i # 1
    <3>1. i \in 2 .. n /\ i - 1 \in Nat /\ i - 1 # 0
      BY <1>1, <2>2
    <3>2. before[i - 1] = f[i - 1]
      BY <3>1
    <3>. QED
      BY <1>7, <3>1, <3>2, Zenon
  <2>. QED
    BY <2>1, <2>2
<1>. DEFINE S == {i \in Nat : i < n => Pairs(before[i])}
<1>10. 0 \in S
  BY <1>8
<1>11. ASSUME NEW i \in Nat, i \in S PROVE i + 1 \in S
  <2>. SUFFICES ASSUME i + 1 < n PROVE Pairs(before[i + 1])
    OBVIOUS
  <2>1. i + 1 \in 1 .. n - 1 /\ i + 1 \in 1 .. n /\ (i + 1) - 1 = i /\ i < n
    BY <1>1
  <2>2. before[i + 1] = f[i + 1]
    OBVIOUS
  <2>3. f[i + 1] = before[i] \o items[i + 1]
    BY <1>9, <2>1
  <2>4. items[i + 1] \in {<<>>, <<"point", ",">>}
    BY <1>3, <1>6, <2>1, Zenon
  <2>5. Pairs(before[i])
    BY <1>11, <2>1
  <2>. HIDE DEF before
  <2>. QED
    BY <2>2, <2>3, <2>4, <2>5, PairsGrow, Zenon
<1>12. Nat \subseteq S
  <2>. HIDE DEF S
  <2>. QED
    BY <1>10, <1>11, Walk!NatSetInduction, Zenon
<1>13. Pairs(before[n - 1])
  BY <1>1, <1>12
<1>14. f[n] = before[n - 1] \o <<"point">>
  <2>1. n \in 1 .. n
    BY <1>1
  <2>. HIDE DEF before
  <2>. QED
    BY <1>4, <1>6, <1>9, <2>1, Zenon
<1>. HIDE DEF before
<1>. QED
  BY <1>2, <1>7, <1>13, <1>14, PairsGrow, ZenonT(40)

-----------------------------------------------------------------------------
(* The predicted descent.                                                  *)

\* Division leaves less than the divisor.
LEMMA Division ==
  \A x \in Nat, y \in Nat \ {0} :
    x \div y \in Nat /\ y * (x \div y) <= x /\ x < y * (x \div y) + y
  OBVIOUS
\* Multiplication keeps the order.
LEMMA Monotonic == \A i, j, d \in Nat : i <= j => i * d <= j * d
  OBVIOUS
\* A multiple more.
LEMMA OneMore == \A i, d \in Int : (i + 1) * d = i * d + d /\ 0 * d = 0
  OBVIOUS
\* The predictor's tenths.
LEMMA Tenfold ==
  \A r, m \in Nat \ {0} :
    r * (10 * m) = 10 * (r * m) /\ (10 * (r * m)) \div 10 = r * m /\ r * m \in Nat \ {0}
  OBVIOUS
\* No remainder.
LEMMA Multiple == \A x \in Nat, y \in Nat \ {0} : x % y = 0 => x = (x \div y) * y
  OBVIOUS

\* How far up k steps of the fall leave the sonde.
Height(alt, drop, k) == IF k * drop < alt THEN alt - k * drop ELSE 0

\* A step of predictLanding lowers the sonde by that.
LEMMA HeightFalls ==
  ASSUME NEW alt \in Nat \ {0}, NEW drop \in Nat \ {0}
  PROVE  /\ Height(alt, drop, 0) = alt
         /\ \A k \in Nat \ {0} : Height(alt, drop, k) = Lowered(Height(alt, drop, k - 1), drop, 0)
<1>1. Height(alt, drop, 0) = alt
  BY OneMore DEF Height
<1>2. ASSUME NEW k \in Nat \ {0}
      PROVE  Height(alt, drop, k) = Lowered(Height(alt, drop, k - 1), drop, 0)
  <2>. DEFINE p == (k - 1) * drop
  <2>1. p \in Nat
    OBVIOUS
  <2>2. k * drop = p + drop
    <3>1. (k - 1) + 1 = k
      OBVIOUS
    <3>. QED
      BY <3>1, OneMore
  <2>. HIDE DEF p
  <2>3. Height(alt, drop, k) = IF p + drop < alt THEN alt - (p + drop) ELSE 0
    BY <2>2, Zenon DEF Height
  <2>4. Height(alt, drop, k - 1) = IF p < alt THEN alt - p ELSE 0
    BY Zenon DEF Height, p
  <2>. QED
    BY <2>1, <2>3, <2>4 DEF Lowered
<1>. QED
  BY <1>1, <1>2

\* The function that Descent defines is that.
LEMMA FallIsHeight ==
  ASSUME NEW alt \in Nat \ {0}, NEW drop \in Nat \ {0}
  PROVE  LET fall[k \in Nat] == IF k = 0 THEN alt ELSE Lowered(fall[k - 1], drop, 0)
         IN \A k \in Nat : fall[k] = Height(alt, drop, k)
<1>. DEFINE IsFall(f) == f = [k \in Nat |-> IF k = 0 THEN alt ELSE Lowered(f[k - 1], drop, 0)]
            fall == CHOOSE f : IsFall(f)
            h == [k \in Nat |-> Height(alt, drop, k)]
<1>1. ASSUME NEW k \in Nat
      PROVE  h[k] = IF k = 0 THEN alt ELSE Lowered(h[k - 1], drop, 0)
  <2>1. CASE k = 0
    BY <2>1, HeightFalls
  <2>2. CASE k # 0
    <3>1. k \in Nat \ {0} /\ k - 1 \in Nat
      BY <2>2
    <3>. QED
      BY <2>2, <3>1, HeightFalls, Zenon
  <2>. QED
    BY <2>1, <2>2
<1>2. h = [k \in Nat |-> h[k]]
  OBVIOUS
<1>. HIDE DEF h
<1>3. IsFall(h)
  BY <1>1, <1>2, Zenon
<1>4. IsFall(fall)
  BY <1>3, Zenon
<1>. HIDE DEF fall
<1>5. ASSUME NEW k \in Nat
      PROVE  fall[k] = IF k = 0 THEN alt ELSE Lowered(fall[k - 1], drop, 0)
  BY <1>4, Zenon
<1>. HIDE DEF IsFall
<1>. DEFINE S == {k \in Nat : fall[k] = Height(alt, drop, k)}
<1>6. 0 \in S
  BY <1>5, HeightFalls
<1>7. ASSUME NEW k \in Nat, k \in S PROVE k + 1 \in S
  <2>1. k + 1 \in Nat \ {0} /\ k + 1 \in Nat /\ k + 1 # 0 /\ (k + 1) - 1 = k
    OBVIOUS
  <2>2. fall[k + 1] = Lowered(fall[k], drop, 0)
    BY <1>5, <2>1, Zenon
  <2>3. Height(alt, drop, k + 1) = Lowered(Height(alt, drop, k), drop, 0)
    BY <2>1, HeightFalls
  <2>. QED
    BY <1>7, <2>1, <2>2, <2>3, Zenon
<1>8. Nat \subseteq S
  <2>. HIDE DEF S
  <2>. QED
    BY <1>6, <1>7, Walk!NatSetInduction, Zenon
<1>9. \A k \in Nat : fall[k] = Height(alt, drop, k)
  BY <1>8
<1>. QED
  BY <1>9, Zenon DEF fall, IsFall

\* The step on which a fall reaches the ground.
LEMMA GroundIsReached ==
  ASSUME NEW alt \in Nat \ {0}, NEW drop \in Nat \ {0}
  PROVE  LET c == Ceiling(10 * alt, 10 * drop)
         IN c \in Nat /\ \A k \in Nat : k * drop < alt <=> k < c
<1>. DEFINE c == Ceiling(10 * alt, 10 * drop)
            x == 10 * alt + 10 * drop - 1
            y == 10 * drop
            p == c * drop
<1>1. c = x \div y
  BY DEF Ceiling
<1>2. x \in Nat /\ y \in Nat \ {0}
  OBVIOUS
<1>3. c \in Nat /\ y * c <= x /\ x < y * c + y
  <2>. HIDE DEF x, y, c
  <2>. QED
    BY <1>1, <1>2, Division
<1>. HIDE DEF c
<1>4. y * c = 10 * p /\ p \in Nat
  BY <1>3
<1>5. p < alt + drop /\ alt <= p
  <2>. HIDE DEF p
  <2>. QED
    BY <1>3, <1>4
<1>6. ASSUME NEW k \in Nat PROVE k * drop < alt <=> k < c
  <2>. DEFINE q == k * drop
  <2>1. q \in Nat
    OBVIOUS
  <2>2. CASE k < c
    <3>1. k + 1 <= c
      BY <1>3, <2>2
    <3>2. (k + 1) * drop <= p
      BY <1>3, <3>1, Monotonic
    <3>3. (k + 1) * drop = q + drop
      BY OneMore
    <3>. HIDE DEF p, q
    <3>4. q < alt
      BY <1>4, <1>5, <2>1, <3>2, <3>3
    <3>. QED
      BY <2>2, <3>4 DEF q
  <2>3. CASE ~(k < c)
    <3>1. c <= k
      BY <1>3, <2>3
    <3>2. p <= q
      BY <1>3, <3>1, Monotonic
    <3>. HIDE DEF p, q
    <3>3. ~(q < alt)
      BY <1>4, <1>5, <2>1, <3>2
    <3>. QED
      BY <2>3, <3>3 DEF q
  <2>. QED
    BY <2>2, <2>3
<1>7. c \in Nat /\ \A k \in Nat : k * drop < alt <=> k < c
  BY <1>3, <1>6
<1>. QED
  BY <1>7, Zenon DEF c

\* A predicted descent takes the steps the fall takes, or those the predictor
\* looks ahead.
LEMMA DescentLands ==
  ASSUME NEW alt \in Nat \ {0}, NEW rate \in Nat \ {0}
  PROVE  LET path == Descent(alt, rate, 0)
             land == Ceiling(10 * alt, rate * StepSec) * StepSec
         IN path # <<>> =>
              /\ \A k \in 1 .. Len(path) - 1 : path[k].alt > 0
              /\ IF land <= MaxSec THEN Last(path) = [alt |-> 0, sec |-> land]
                                   ELSE Last(path).alt > 0 /\ Last(path).sec >= MaxSec
<1>. DEFINE drop == (rate * StepSec) \div 10
            fall == CHOOSE f : f = [k \in Nat |-> IF k = 0 THEN alt ELSE Lowered(f[k - 1], drop, 0)]
            Goes(k) == fall[k] > 0 /\ k * StepSec < MaxSec
            most == MaxSec \div StepSec
            steps == CHOOSE k \in 0 .. most + 1 : ~Goes(k) /\ \A j \in 0 .. k - 1 : Goes(j)
            path == [k \in 1 .. steps |-> [alt |-> fall[k], sec |-> k * StepSec]]
            c == Ceiling(10 * alt, rate * StepSec)
<1>1. path = Descent(alt, rate, 0)
  BY Zenon DEF Descent
<1>2. drop \in Nat \ {0} /\ rate * StepSec = 10 * drop
  <2>. DEFINE m == StepSec \div 10
  <2>1. StepSec \in Nat \ {0} /\ StepSec % 10 = 0
    BY SessionAssumption
  <2>2. m \in Nat \ {0} /\ StepSec = 10 * m
    BY <2>1
  <2>. HIDE DEF m
  <2>3. /\ rate * StepSec = 10 * (rate * m) /\ (rate * StepSec) \div 10 = rate * m
        /\ rate * m \in Nat \ {0}
    BY <2>2, Tenfold
  <2>. QED
    BY <2>3
<1>3. \A k \in Nat : fall[k] = Height(alt, drop, k)
  <2>. HIDE DEF drop
  <2>. QED
    BY <1>2, FallIsHeight, Zenon
<1>4. MaxSec = most * StepSec /\ most \in Nat /\ StepSec \in Nat \ {0}
  BY SessionAssumption, Multiple
<1>5. c \in Nat /\ \A k \in Nat : k * drop < alt <=> k < c
  <2>. HIDE DEF drop
  <2>1. c = Ceiling(10 * alt, 10 * drop)
    BY <1>2, Zenon
  <2>. QED
    BY <1>2, <2>1, GroundIsReached, Zenon
<1>. HIDE DEF drop, fall, most, c, steps
<1>6. ASSUME NEW k \in Nat PROVE fall[k] \in Nat /\ (fall[k] > 0 <=> k < c)
  <2>. DEFINE p == k * drop
  <2>1. p \in Nat
    BY <1>2
  <2>2. fall[k] = (IF p < alt THEN alt - p ELSE 0) /\ (p < alt <=> k < c)
    BY <1>3, <1>5, Zenon DEF Height
  <2>. HIDE DEF p
  <2>. QED
    BY <2>1, <2>2
<1>7. ASSUME NEW k \in Nat, NEW j \in Nat PROVE k * StepSec < j * StepSec <=> k < j
  <2>1. CASE k < j
    <3>1. (k + 1) * StepSec <= j * StepSec
      <4>1. k + 1 <= j /\ k + 1 \in Nat
        BY <2>1
      <4>. QED
        BY <1>4, <4>1, Monotonic
    <3>2. (k + 1) * StepSec = k * StepSec + StepSec
      BY <1>4, OneMore
    <3>3. k * StepSec \in Nat /\ j * StepSec \in Nat
      BY <1>4
    <3>. QED
      BY <1>4, <2>1, <3>1, <3>2, <3>3
  <2>2. CASE ~(k < j)
    <3>1. j * StepSec <= k * StepSec
      BY <1>4, <2>2, Monotonic
    <3>2. k * StepSec \in Nat /\ j * StepSec \in Nat
      BY <1>4
    <3>. QED
      BY <2>2, <3>1, <3>2
  <2>. QED
    BY <2>1, <2>2
<1>8. \A k \in Nat : Goes(k) <=> k < c /\ k < most
  BY <1>4, <1>6, <1>7, Zenon
<1>. HIDE DEF Goes
<1>9. steps \in Nat /\ ~Goes(steps) /\ \A j \in 0 .. steps - 1 : Goes(j)
  <2>. DEFINE k == IF c <= most THEN c ELSE most
  <2>1. k \in 0 .. most + 1 /\ ~Goes(k) /\ \A j \in 0 .. k - 1 : Goes(j)
    BY <1>4, <1>5, <1>8
  <2>. HIDE DEF k
  <2>2. steps \in 0 .. most + 1 /\ ~Goes(steps) /\ \A j \in 0 .. steps - 1 : Goes(j)
    BY <2>1, Zenon DEF steps
  <2>. QED
    BY <1>4, <2>2
<1>10. steps = IF c <= most THEN c ELSE most
  <2>1. steps > 0 => steps - 1 < c /\ steps - 1 < most
    <3>1. steps > 0 => steps - 1 \in 0 .. steps - 1 /\ steps - 1 \in Nat
      BY <1>9
    <3>. QED
      BY <1>8, <1>9, <3>1
  <2>2. ~(steps < c /\ steps < most)
    BY <1>8, <1>9
  <2>. QED
    BY <1>4, <1>5, <1>9, <2>1, <2>2
<1>11. SUFFICES ASSUME path # <<>>
                PROVE  /\ \A k \in 1 .. Len(path) - 1 : path[k].alt > 0
                       /\ IF c * StepSec <= MaxSec
                            THEN Last(path) = [alt |-> 0, sec |-> c * StepSec]
                            ELSE Last(path).alt > 0 /\ Last(path).sec >= MaxSec
  BY <1>1, Zenon DEF c
<1>12. path \in Seq({path[k] : k \in 1 .. steps}) /\ Len(path) = steps /\ steps # 0
  BY <1>9, <1>11
<1>13. \A k \in 1 .. steps : path[k].alt = fall[k] /\ path[k].sec = k * StepSec
                             /\ path[k] = [alt |-> fall[k], sec |-> k * StepSec]
  OBVIOUS
<1>14. Last(path) = path[steps] /\ steps \in 1 .. steps
  BY <1>9, <1>12 DEF Last
<1>. HIDE DEF path
<1>15. ASSUME NEW k \in 1 .. steps - 1 PROVE path[k].alt > 0
  <2>1. k \in 0 .. steps - 1 /\ k \in Nat /\ k \in 1 .. steps
    BY <1>9
  <2>2. fall[k] > 0
    BY <1>6, <1>8, <1>9, <2>1, Zenon
  <2>. QED
    BY <1>13, <2>1, <2>2
<1>16. c * StepSec <= MaxSec <=> c <= most
  BY <1>4, <1>5, <1>7
<1>17. CASE c <= most
  BY <1>5, <1>6, <1>10, <1>12, <1>13, <1>14, <1>15, <1>16, <1>17
<1>18. CASE ~(c <= most)
  BY <1>4, <1>5, <1>6, <1>10, <1>12, <1>13, <1>14, <1>15, <1>16, <1>18
<1>. QED
  BY <1>17, <1>18

-----------------------------------------------------------------------------
(* The invariant.                                                           *)

\* The threads: what each may be doing when.
Threads ==
  /\ main \in {"boot", "configured", "running", "stopping", "stopped", "writing", "exited"}
  /\ dsp \in {"idle", "dashboard", "record"}
  /\ main \in {"boot", "configured", "stopped", "writing", "exited"} => dsp = "idle"
  /\ fftw \in BOOLEAN /\ locked \in BOOLEAN

\* The frequency, from the configuration on.
Frequency ==
  /\ hz \in Nat
  /\ main = "configured" => config.hz \in Nat
  /\ latest = [x \in Fields |-> latest[x]] /\ latest.frequencyHz = hz

\* What was delivered, and the frame in the hands of the DSP thread.
Delivered ==
  /\ delivered \in Seq(Frames) /\ Len(delivered) <= MaxFrames
  /\ main \in {"boot", "configured"} => delivered = <<>>
  /\ IF dsp = "idle" THEN frame = Unknown
                     ELSE delivered # <<>> /\ frame = Last(delivered)

\* The frames before the one in hand.
Earlier == Front(delivered)

\* How far each sink has come, step by step of the callback.
Shown(frames) == history = Newest(frames, HistoryCap)

Logged(frames) ==
  /\ points = Newest(Filter(frames, GpsValid), PointCap)
  /\ log = Filter(frames, Loggable)

Sinks ==
  /\ Shown(IF dsp = "dashboard" THEN Earlier ELSE delivered)
  /\ Logged(IF dsp = "idle" THEN delivered ELSE Earlier)
  /\ delivered # <<>> /\ dsp # "dashboard" => [latest EXCEPT !.frequencyHz = 0] = Last(delivered)
  /\ delivered # <<>> /\ dsp = "idle" /\ run.aeroHub =>
       record.crcValid = GpsValid(Last(delivered))

SessionInv == Threads /\ Frequency /\ Delivered /\ Sinks

\* A frame that is shown under another frequency is still that frame.
LEMMA Relabelled ==
  ASSUME NEW t, t = [x \in Fields |-> t[x]], NEW f, NEW u, u = [t EXCEPT !.frequencyHz = f]
  PROVE  /\ u = [x \in Fields |-> u[x]] /\ u.frequencyHz = f
         /\ [u EXCEPT !.frequencyHz = 0] = [t EXCEPT !.frequencyHz = 0]
<1>1. "frequencyHz" \in Fields
  BY DEF Fields
<1>. QED
  BY <1>1

\* The invariant holds of a program that starts.
LEMMA SessionInit == Init => SessionInv
<1>. SUFFICES ASSUME Init PROVE SessionInv
  OBVIOUS
<1>1. Threads
  BY DEF Init, Threads
<1>2. Frequency
  BY DEF Init, Frequency, Unknown, Fields
<1>3. Delivered
  <2>1. delivered = <<>> /\ dsp = "idle" /\ frame = Unknown
    BY DEF Init
  <2>2. <<>> \in Seq(Frames) /\ Len(<<>>) = 0
    OBVIOUS
  <2>3. 0 <= MaxFrames
    BY SessionAssumption
  <2>. QED
    BY <2>1, <2>2, <2>3, Zenon DEF Delivered
<1>4. Sinks
  <2>1. \A cap \in Nat \ {0} : Newest(<<>>, cap) = <<>>
    BY DEF Newest
  <2>2. Newest(<<>>, HistoryCap) = <<>> /\ Newest(<<>>, PointCap) = <<>>
    BY <2>1, SessionAssumption, Zenon
  <2>3. dsp = "idle" /\ history = <<>> /\ points = <<>> /\ log = <<>> /\ delivered = <<>>
    BY DEF Init
  <2>4. "idle" # "dashboard"
    OBVIOUS
  <2>5. Shown(delivered) /\ Logged(delivered)
    BY <2>2, <2>3, FilterOfNothing, Zenon DEF Shown, Logged
  <2>. QED
    BY <2>3, <2>4, <2>5, Zenon DEF Sinks
<1>. QED
  BY <1>1, <1>2, <1>3, <1>4 DEF SessionInv

\* A retune, by whomever, relabels the frame that is shown and nothing else.
LEMMA RetuneKeepsSinks ==
  ASSUME Frequency, Sinks, NEW f \in Nat, SetCurrentFrequency(f),
         UNCHANGED <<dsp, history, points, log, record, delivered>>,
         UNCHANGED run \/ delivered = <<>>
  PROVE  /\ hz' \in Nat /\ latest' = [x \in Fields |-> latest'[x]] /\ latest'.frequencyHz = hz'
         /\ Sinks'
<1>1. hz' = f /\ latest' = [latest EXCEPT !.frequencyHz = f]
  BY DEF SetCurrentFrequency
<1>2. latest = [x \in Fields |-> latest[x]]
  BY DEF Frequency
<1>3. /\ latest' = [x \in Fields |-> latest'[x]] /\ latest'.frequencyHz = f
      /\ [latest' EXCEPT !.frequencyHz = 0] = [latest EXCEPT !.frequencyHz = 0]
  BY <1>1, <1>2, Relabelled, Zenon
<1>4. Earlier' = Earlier
  BY Zenon DEF Earlier
<1>5. Sinks'
  BY <1>3, <1>4, Zenon DEF Sinks, Shown, Logged
<1>. QED
  BY <1>1, <1>3, <1>5, Zenon

\* main(): the configuration.
LEMMA LoadConfigKeeps == SessionInv /\ LoadConfig => SessionInv'
<1>. SUFFICES ASSUME SessionInv, LoadConfig PROVE SessionInv'
  OBVIOUS
<1>1. PICK f \in Files, etc \in Files : config' = AppConfig(f, etc)
  BY Zenon DEF LoadConfig
<1>2. config'.hz \in Nat
  BY <1>1, ConfigHasFrequency, Zenon
<1>3. /\ main = "boot" /\ main' = "configured"
      /\ UNCHANGED <<run, fftw, hz, locked, dsp, frame, latest, history, points, log, record,
                     delivered>>
  BY Zenon DEF LoadConfig, radioVars, sinkVars
<1>4. Threads /\ Frequency /\ Delivered /\ Sinks
  BY Zenon DEF SessionInv
<1>5. Threads' /\ Delivered'
  BY <1>3, <1>4 DEF Threads, Delivered
<1>6. Sinks'
  BY <1>3, <1>4, Zenon DEF Sinks, Shown, Logged, Earlier
<1>7. Frequency'
  BY <1>2, <1>3, <1>4, Zenon DEF Frequency
<1>. QED
  BY <1>5, <1>6, <1>7, Zenon DEF SessionInv

\* main(): the command line.
LEMMA StartKeeps == SessionInv /\ Start => SessionInv'
<1>. SUFFICES ASSUME SessionInv, Start PROVE SessionInv'
  OBVIOUS
<1>1. PICK args \in CommandLines : SetCurrentFrequency(CommandLine(config, args).hz)
  BY Zenon DEF Start
<1>2. /\ main = "configured" /\ main' = "running"
      /\ UNCHANGED <<fftw, locked, dsp, frame, history, points, log, record, delivered>>
  BY Zenon DEF Start
<1>3. Threads /\ Frequency /\ Delivered /\ Sinks
  BY Zenon DEF SessionInv
<1>4. CommandLine(config, args).hz \in Nat
  BY <1>2, <1>3, CommandLineHasFrequency, Zenon DEF Frequency
<1>5. delivered = <<>>
  BY <1>2, <1>3 DEF Delivered
<1>6. /\ hz' \in Nat /\ latest' = [x \in Fields |-> latest'[x]] /\ latest'.frequencyHz = hz'
      /\ Sinks'
  BY <1>1, <1>2, <1>3, <1>4, <1>5, RetuneKeepsSinks, Zenon
<1>7. Threads' /\ Delivered'
  BY <1>2, <1>3 DEF Threads, Delivered
<1>8. Frequency'
  BY <1>2, <1>6 DEF Frequency
<1>. QED
  BY <1>6, <1>7, <1>8, Zenon DEF SessionInv

\* A user, a sweep or a peak of the scanner retunes.
LEMMA RetuningKeeps == SessionInv /\ (Retune \/ ScanBlock) => SessionInv'
<1>. SUFFICES ASSUME SessionInv, Retune \/ ScanBlock PROVE SessionInv'
  OBVIOUS
<1>1. Threads /\ Frequency /\ Delivered /\ Sinks
  BY Zenon DEF SessionInv
<1>2. /\ main # "boot" /\ main # "configured"
      /\ UNCHANGED <<main, run, fftw, locked, dsp, frame, history, points, log, record, delivered>>
  BY DEF Retune, ScanBlock, Scanning, Started, bootVars
<1>3. \E f \in Nat : SetCurrentFrequency(f)
  <2>1. CASE Retune
    <3>1. \A f \in TuneHz : f \in Nat
      BY SessionAssumption
    <3>. QED
      BY <2>1, <3>1 DEF Retune
  <2>2. CASE ScanBlock
    BY <1>1, <2>2, ScanHasFrequency, Zenon DEF ScanBlock, Frequency
  <2>. QED
    BY <2>1, <2>2
<1>4. /\ hz' \in Nat /\ latest' = [x \in Fields |-> latest'[x]] /\ latest'.frequencyHz = hz'
      /\ Sinks'
  BY <1>1, <1>2, <1>3, RetuneKeepsSinks, Zenon
<1>5. Threads' /\ Delivered'
  BY <1>1, <1>2, Zenon DEF Threads, Delivered
<1>6. Frequency'
  BY <1>2, <1>4, Zenon DEF Frequency
<1>. QED
  BY <1>4, <1>5, <1>6, Zenon DEF SessionInv

\* A frame enters onTelemetryReceived: no sink has it yet.
LEMMA ReceiveFrameKeeps == SessionInv /\ ReceiveFrame => SessionInv'
<1>. SUFFICES ASSUME SessionInv, ReceiveFrame PROVE SessionInv'
  OBVIOUS
<1>1. Threads /\ Frequency /\ Delivered /\ Sinks
  BY Zenon DEF SessionInv
<1>2. /\ dsp = "idle" /\ dsp' = "dashboard" /\ locked' = TRUE /\ Len(delivered) < MaxFrames
      /\ delivered' = Append(delivered, frame')
      /\ UNCHANGED <<main, file, config, run, fftw, hz, latest, history, points, log, record>>
  BY Zenon DEF ReceiveFrame, bootVars
<1>3. Started
  BY Zenon DEF ReceiveFrame
<1>4. frame' \in Frames
  BY Zenon DEF ReceiveFrame, Frames
<1>5. delivered \in Seq(Frames)
  BY <1>1, Zenon DEF Delivered
<1>6. /\ delivered' \in Seq(Frames) /\ delivered' # <<>> /\ Len(delivered') = Len(delivered) + 1
  BY <1>2, <1>4, <1>5
<1>7. Front(delivered') = delivered /\ Last(delivered') = frame'
  BY <1>2, <1>4, <1>5, FrontOfAppend, Zenon
<1>8. Threads'
  BY <1>1, <1>2, <1>3 DEF Threads, Started
<1>9. Frequency'
  BY <1>1, <1>2, Zenon DEF Frequency
<1>10. Delivered'
  <2>1. Len(delivered') <= MaxFrames
    BY <1>2, <1>5, <1>6, SessionAssumption
  <2>2. main' \notin {"boot", "configured"} /\ dsp' # "idle"
    BY <1>2, <1>3 DEF Started
  <2>. QED
    BY <1>6, <1>7, <2>1, <2>2, Zenon DEF Delivered
<1>11. Sinks'
  <2>1. Shown(delivered) /\ Logged(delivered)
    BY <1>1, <1>2 DEF Sinks
  <2>2. Earlier' = delivered
    BY <1>7, Zenon DEF Earlier
  <2>3. Shown(Earlier)' /\ Logged(Earlier)'
    BY <1>2, <2>1, <2>2, Zenon DEF Shown, Logged
  <2>4. dsp' = "dashboard" /\ dsp' # "idle"
    BY <1>2
  <2>. QED
    BY <2>3, <2>4, Zenon DEF Sinks
<1>. QED
  BY <1>8, <1>9, <1>10, <1>11, Zenon DEF SessionInv

\* The dashboard has it.
LEMMA UpdateTelemetryKeeps == SessionInv /\ UpdateTelemetry => SessionInv'
<1>. SUFFICES ASSUME SessionInv, UpdateTelemetry PROVE SessionInv'
  OBVIOUS
<1>1. Threads /\ Frequency /\ Delivered /\ Sinks
  BY Zenon DEF SessionInv
<1>2. /\ dsp = "dashboard" /\ dsp' = "record"
      /\ latest' = [frame EXCEPT !.frequencyHz = IF @ = 0 THEN hz ELSE @]
      /\ history' = DropOldest(Append(history, frame), HistoryCap)
      /\ UNCHANGED <<main, file, config, run, fftw, hz, locked, frame, points, log, record,
                     delivered>>
  BY Zenon DEF UpdateTelemetry, bootVars, radioVars
<1>3. /\ delivered \in Seq(Frames) /\ delivered # <<>> /\ frame = Last(delivered)
      /\ dsp # "idle" /\ dsp' # "idle" /\ dsp' # "dashboard"
  BY <1>1, <1>2 DEF Delivered
<1>4. /\ Earlier \in Seq(Frames) /\ frame \in Frames /\ delivered = Append(Earlier, frame)
      /\ Earlier' = Earlier
  BY <1>2, <1>3, DeliveredGrows, Zenon DEF Earlier
<1>5. IsFrame(frame)
  BY <1>4, FramesAreFrames, Zenon
<1>6. /\ latest' = [x \in Fields |-> latest'[x]] /\ latest'.frequencyHz = hz
      /\ [latest' EXCEPT !.frequencyHz = 0] = frame
  <2>1. frame = [x \in Fields |-> frame[x]] /\ frame.frequencyHz = 0
    BY <1>5, Zenon DEF IsFrame
  <2>2. latest' = [frame EXCEPT !.frequencyHz = hz]
    BY <1>2, <2>1
  <2>3. [frame EXCEPT !.frequencyHz = 0] = frame
    BY <2>1
  <2>. QED
    BY <2>1, <2>2, <2>3, Relabelled, Zenon
<1>7. Threads'
  BY <1>1, <1>2 DEF Threads
<1>8. Frequency'
  BY <1>1, <1>2, <1>6, Zenon DEF Frequency
<1>9. Delivered'
  BY <1>1, <1>2, <1>3, Zenon DEF Delivered
<1>10. Sinks'
  <2>1. Shown(Earlier) /\ Logged(Earlier)
    BY <1>1, <1>2, <1>3, Zenon DEF Sinks
  <2>2. history' = Newest(delivered, HistoryCap)
    <3>1. Newest(Append(Earlier, frame), HistoryCap)
            = DropOldest(Append(Newest(Earlier, HistoryCap), frame), HistoryCap)
      BY <1>4, NewestOfGrowing, SessionAssumption
    <3>. QED
      BY <1>2, <1>4, <2>1, <3>1, Zenon DEF Shown
  <2>3. Shown(delivered)' /\ Logged(Earlier)'
    BY <1>2, <1>4, <2>1, <2>2, Zenon DEF Shown, Logged
  <2>. QED
    BY <1>2, <1>3, <1>6, <2>3, Zenon DEF Sinks
<1>. QED
  BY <1>7, <1>8, <1>9, <1>10, Zenon DEF SessionInv

\* Predictor, log and AeroHub have it.
LEMMA RecordFrameKeeps == SessionInv /\ RecordFrame => SessionInv'
<1>. SUFFICES ASSUME SessionInv, RecordFrame PROVE SessionInv'
  OBVIOUS
<1>1. Threads /\ Frequency /\ Delivered /\ Sinks
  BY Zenon DEF SessionInv
<1>2. /\ dsp = "record" /\ dsp' = "idle" /\ frame' = Unknown
      /\ points' = AddPoint(points, frame) /\ log' = LogFrame(log, frame)
      /\ record' = IF run.aeroHub THEN AeroHubRecord(frame) ELSE record
      /\ UNCHANGED <<main, file, config, run, fftw, hz, locked, latest, history, delivered>>
  BY Zenon DEF RecordFrame, bootVars, radioVars
<1>3. /\ delivered \in Seq(Frames) /\ delivered # <<>> /\ frame = Last(delivered)
      /\ dsp # "idle" /\ dsp # "dashboard" /\ dsp' # "dashboard"
  BY <1>1, <1>2 DEF Delivered
<1>4. Earlier \in Seq(Frames) /\ frame \in Frames /\ delivered = Append(Earlier, frame)
  BY <1>3, DeliveredGrows, Zenon DEF Earlier
<1>5. HasSerial(frame) \/ GpsValid(frame)
  BY <1>4, FramesAreFrames, Zenon
<1>6. Threads'
  BY <1>1, <1>2 DEF Threads
<1>7. Frequency'
  BY <1>1, <1>2, Zenon DEF Frequency
<1>8. Delivered'
  BY <1>1, <1>2, Zenon DEF Delivered
<1>9. Sinks'
  <2>1. /\ Shown(delivered) /\ Logged(Earlier)
        /\ [latest EXCEPT !.frequencyHz = 0] = Last(delivered)
    BY <1>1, <1>2, <1>3, Zenon DEF Sinks
  <2>2. points' = Newest(Filter(delivered, GpsValid), PointCap)
    <3>1. Filter(delivered, GpsValid) = IF GpsValid(frame)
                                          THEN Append(Filter(Earlier, GpsValid), frame)
                                          ELSE Filter(Earlier, GpsValid)
      BY <1>4, FilterGrows, Zenon
    <3>2. ASSUME GpsValid(frame)
          PROVE  Newest(Append(Filter(Earlier, GpsValid), frame), PointCap)
                   = DropOldest(Append(Newest(Filter(Earlier, GpsValid), PointCap), frame), PointCap)
      <4>1. Filter(Earlier, GpsValid) \in Seq({t \in Frames : GpsValid(t)})
        BY <1>4, FilterIsSeq, Zenon
      <4>2. frame \in {t \in Frames : GpsValid(t)}
        BY <1>4, <3>2
      <4>3. PointCap \in Nat \ {0}
        BY SessionAssumption
      <4>. QED
        BY <4>1, <4>2, <4>3, NewestOfGrowing, Zenon
    <3>. QED
      BY <1>2, <2>1, <3>1, <3>2, Zenon DEF AddPoint, Logged
  <2>3. log' = Filter(delivered, Loggable)
    <3>1. Filter(delivered, Loggable) = IF Loggable(frame)
                                          THEN Append(Filter(Earlier, Loggable), frame)
                                          ELSE Filter(Earlier, Loggable)
      BY <1>4, FilterGrows, Zenon
    <3>. QED
      BY <1>2, <2>1, <3>1, Zenon DEF LogFrame, Logged
  <2>4. run.aeroHub => record'.crcValid = GpsValid(frame)
    <3>1. AeroHubRecord(frame) = [serial |-> frame.serial, crcValid |-> GpsValid(frame)]
      BY <1>5, Zenon DEF AeroHubRecord
    <3>2. AeroHubRecord(frame).crcValid = GpsValid(frame)
      BY <3>1
    <3>. QED
      BY <1>2, <3>2, Zenon
  <2>5. Shown(delivered)' /\ Logged(delivered)'
    BY <1>2, <2>1, <2>2, <2>3, Zenon DEF Shown, Logged
  <2>. QED
    BY <1>2, <1>3, <2>1, <2>4, <2>5, Zenon DEF Sinks
<1>. QED
  BY <1>6, <1>7, <1>8, <1>9, Zenon DEF SessionInv

\* Everything else: the sweep's Unlock, the end of main(), and stuttering.
LEMMA OthersKeep ==
  SessionInv /\ (Unlock \/ Signal \/ StopReceiver \/ OpenCsv \/ WriteCsv \/ UNCHANGED vars)
    => SessionInv'
<1>. SUFFICES ASSUME SessionInv,
                     Unlock \/ Signal \/ StopReceiver \/ OpenCsv \/ WriteCsv \/ UNCHANGED vars
              PROVE  SessionInv'
  OBVIOUS
<1>1. Threads /\ Frequency /\ Delivered /\ Sinks
  BY Zenon DEF SessionInv
<1>2. /\ UNCHANGED <<config, run, fftw, hz, dsp, frame, latest, history, points, log, record,
                     delivered>>
      /\ locked' \in {locked, FALSE}
      /\ \/ main' = main
         \/ main' = "stopping"
         \/ main' \in {"stopped", "writing", "exited"} /\ (main = "stopping" => CallbackDone)
            /\ main \in {"stopping", "stopped", "writing"}
  BY DEF Unlock, Signal, StopReceiver, OpenCsv, WriteCsv, vars, bootVars, radioVars, sinkVars
<1>3. Threads'
  BY <1>1, <1>2 DEF Threads, CallbackDone
<1>4. main' \in {"boot", "configured"} => main' = main
  BY <1>2
<1>5. Frequency'
  BY <1>1, <1>2, <1>4 DEF Frequency
<1>6. Delivered'
  BY <1>1, <1>2, <1>4, Zenon DEF Delivered
<1>7. Sinks'
  BY <1>1, <1>2, Zenon DEF Sinks, Shown, Logged, Earlier
<1>. QED
  BY <1>3, <1>5, <1>6, <1>7, Zenon DEF SessionInv

-----------------------------------------------------------------------------
(* The theorems.                                                           *)

\* The invariant holds in every run, whatever the files, options, frames and caps.
THEOREM SessionInvariant == Spec => []SessionInv
<1>1. SessionInv /\ [Next]_vars => SessionInv'
  BY LoadConfigKeeps, StartKeeps, RetuningKeeps, ReceiveFrameKeeps, UpdateTelemetryKeeps,
     RecordFrameKeeps, OthersKeep, Zenon DEF Next
<1>. QED
  BY <1>1, SessionInit, PTL DEF Spec

\* What is in the sinks are frames, and those of the predictor have a position.
LEMMA SinksHoldFrames ==
  ASSUME SessionInv
  PROVE  /\ delivered \in Seq(Frames) /\ log \in Seq(Frames)
         /\ history \in Seq(Frames) /\ Len(history) <= HistoryCap
         /\ points \in Seq({t \in Frames : GpsValid(t)}) /\ Len(points) <= PointCap
<1>1. Threads /\ Frequency /\ Delivered /\ Sinks
  BY Zenon DEF SessionInv
<1>2. delivered \in Seq(Frames) /\ (delivered # <<>> => Earlier \in Seq(Frames))
  BY <1>1, DeliveredGrows, Zenon DEF Delivered, Earlier
<1>3. dsp # "idle" => delivered # <<>>
  BY <1>1, Zenon DEF Delivered
<1>4. dsp = "dashboard" => dsp # "idle"
  OBVIOUS
<1>5. PICK shown \in Seq(Frames) : Shown(shown)
  BY <1>1, <1>2, <1>3, <1>4, Zenon DEF Sinks
<1>6. PICK logged \in Seq(Frames) : Logged(logged)
  BY <1>1, <1>2, <1>3, Zenon DEF Sinks
<1>7. ASSUME NEW T, NEW s \in Seq(T), NEW cap \in Nat \ {0}
      PROVE  Newest(s, cap) \in Seq(T) /\ Len(Newest(s, cap)) <= cap
  <2>1. /\ Newest(s, cap) \in Seq(T)
        /\ Len(Newest(s, cap)) = IF Len(s) > cap THEN cap ELSE Len(s)
    BY NewestElements
  <2>2. Len(s) \in Nat
    OBVIOUS
  <2>. QED
    BY <2>1, <2>2
<1>8. HistoryCap \in Nat \ {0} /\ PointCap \in Nat \ {0}
  BY SessionAssumption
<1>9. history \in Seq(Frames) /\ Len(history) <= HistoryCap
  BY <1>5, <1>7, <1>8, Zenon DEF Shown
<1>10. points \in Seq({t \in Frames : GpsValid(t)}) /\ Len(points) <= PointCap
  BY <1>6, <1>7, <1>8, FilterIsSeq, Zenon DEF Logged
<1>11. log \in Seq(Frames)
  <2>1. log \in Seq({t \in Frames : Loggable(t)})
    BY <1>6, FilterIsSeq, Zenon DEF Logged
  <2>. QED
    BY <2>1
<1>. QED
  BY <1>2, <1>9, <1>10, <1>11

\* Every variable keeps its type: the frequency is a number wherever it came
\* from, the DSP thread is idle once the receiver stopped, and no history is
\* longer than its cap.
THEOREM SessionTypeCorrect == Spec => []TypeOK
<1>1. SessionInv => TypeOK
  <2>. SUFFICES ASSUME SessionInv PROVE TypeOK
    OBVIOUS
  <2>1. Threads /\ Frequency /\ Delivered
    BY Zenon DEF SessionInv
  <2>2. /\ history \in Seq(Frames) /\ Len(history) <= HistoryCap
        /\ points \in Seq({t \in Frames : GpsValid(t)}) /\ Len(points) <= PointCap
        /\ log \in Seq(Frames) /\ delivered \in Seq(Frames)
    BY SinksHoldFrames, Zenon
  <2>3. points \in Seq(Frames)
    BY <2>2
  <2>4. \A t \in Frames : DOMAIN t = DOMAIN Unknown
    <3>1. \A t \in Frames : t = [x \in Fields |-> t[x]]
      BY FramesAreFrames, Zenon DEF IsFrame
    <3>. QED
      BY <3>1, UnknownIsFrame
  <2>5. ASSUME NEW s \in {history, points, log, delivered}, NEW i \in 1 .. Len(s)
        PROVE  DOMAIN s[i] = DOMAIN Unknown
    <3>1. s \in Seq(Frames)
      BY <2>2, <2>3, Zenon
    <3>2. s[i] \in Frames
      BY <3>1
    <3>. QED
      BY <2>4, <3>2, Zenon
  <2>. QED
    BY <2>1, <2>2, <2>5, Zenon DEF TypeOK, Threads, Frequency, Delivered
<1>. QED
  BY <1>1, SessionInvariant, PTL

\* Between two frames, dashboard, predictor and AeroHub record agree on what was
\* delivered, whatever was delivered and however often the radio was retuned.
THEOREM SinksAgreeBetweenFrames == Spec => []SinksAgree
<1>1. SessionInv => SinksAgree
  BY Zenon DEF SessionInv, Sinks, Shown, Logged, SinksAgree
<1>. QED
  BY <1>1, SessionInvariant, PTL

\* The file that main() exports holds every frame with a position and a serial:
\* stop() waits for the callback, and nothing is delivered after it.
THEOREM FlightSurvivesTheRun == Spec => FlightSurvives
<1>1. SessionInv /\ [Next]_vars =>
        [main = "writing" /\ main' = "exited" => disk' = Filter(delivered, Loggable)]_vars
  <2>. SUFFICES ASSUME SessionInv, Next, main = "writing", main' = "exited"
                PROVE  disk' = Filter(delivered, Loggable)
    BY Zenon
  <2>1. dsp = "idle"
    BY DEF SessionInv, Threads
  <2>2. log = Filter(delivered, Loggable)
    BY <2>1, Zenon DEF SessionInv, Sinks, Logged
  <2>3. disk' = log
    BY DEF Next, LoadConfig, Start, Retune, ScanBlock, Scanning, Started, ReceiveFrame,
           UpdateTelemetry, RecordFrame, Unlock, Signal, StopReceiver, OpenCsv, WriteCsv
  <2>. QED
    BY <2>2, <2>3
<1>. QED
  BY <1>1, SessionInvariant, PTL DEF Spec, FlightSurvives

\* No position of an RS41 comes from a block that is not whole, whatever the
\* lengths in the blocks are.
THEOREM PositionsAreReadWhole == Spec => []PositionsAreWhole
<1>1. SessionInv => PositionsAreWhole
  <2>. SUFFICES ASSUME SessionInv, frame.type = "RS41", GpsValid(frame) PROVE PositionsAreWhole
    BY Zenon DEF PositionsAreWhole
  <2>1. frame # Unknown
    BY UnknownIsFrame, Zenon
  <2>2. frame \in Frames
    <3>1. delivered \in Seq(Frames) /\ delivered # <<>> /\ frame = Last(delivered)
      BY <2>1, Zenon DEF SessionInv, Delivered
    <3>. QED
      BY <3>1, DeliveredGrows, Zenon
  <2>3. PICK raw \in {r \in RawFrames : r.sonde = "RS41"} :
          ReadWhole(frame, raw, IF raw.ok THEN raw.corrected ELSE raw.received)
    BY <2>2, FramesAreFrames, Zenon
  <2>. QED
    BY <2>3, Zenon DEF ReadWhole, PositionsAreWhole
<1>. QED
  BY <1>1, SessionInvariant, PTL

\* The flight path is an array a browser can parse while the newest frame has a
\* position, whatever the frames before it lack.
THEOREM PathAlwaysParses == Spec => []PathParses
<1>1. SessionInv => PathParses
  BY SinksHoldFrames, PathIsWellFormed, Zenon DEF PathParses
<1>. QED
  BY <1>1, SessionInvariant, PTL

\* A predicted descent ends on the ground at the time the rate says, or in the air
\* where the predictor stops looking, for every height and rate.
THEOREM EveryPredictionLands == Spec => []PredictionLands
<1>1. SessionInv => PredictionLands
  <2>. SUFFICES ASSUME SessionInv PROVE PredictionLands
    OBVIOUS
  <2>. DEFINE t == Last(points)
              path == PredictLanding(points, 0)
              land == Ceiling(10 * t.alt, -t.climb * StepSec) * StepSec
              Lands == /\ \A k \in 1 .. Len(path) - 1 : path[k].alt > 0
                       /\ IF land <= MaxSec THEN Last(path) = [alt |-> 0, sec |-> land]
                                            ELSE Last(path).alt > 0 /\ Last(path).sec >= MaxSec
  <2>1. SUFFICES ASSUME path # <<>> PROVE Lands
    BY Zenon DEF PredictionLands
  <2>2. /\ points # <<>> /\ ~(t.climb >= -5) /\ ~(t.alt <= 0)
        /\ path = Descent(t.alt, -t.climb, 0)
    BY <2>1, Zenon DEF PredictLanding
  <2>3. t \in {u \in Frames : GpsValid(u)}
    <3>1. points \in Seq({u \in Frames : GpsValid(u)})
      BY SinksHoldFrames, Zenon
    <3>. QED
      BY <2>2, <3>1, DeliveredGrows, Zenon
  <2>4. t.alt \in Int /\ t.climb \in Int
    <3>1. t \in Frames /\ GpsValid(t)
      BY <2>3
    <3>. QED
      BY <3>1, FramesAreFrames, Zenon DEF IsFrame, IsPosition, GpsValid
  <2>. HIDE DEF t
  <2>5. t.alt \in Nat \ {0} /\ -t.climb \in Nat \ {0}
    BY <2>2, <2>4
  <2>6. (-t.climb) * StepSec = -t.climb * StepSec
    BY <2>4, SessionAssumption
  <2>. HIDE DEF path
  <2>. QED
    BY <2>1, <2>2, <2>5, <2>6, DescentLands, Zenon
<1>. QED
  BY <1>1, SessionInvariant, PTL

-----------------------------------------------------------------------------
(* The settings.                                                            *)

\* The least element, when it is known.
LEMMA MinIs ==
  ASSUME NEW S \in SUBSET Nat, NEW m \in S, \A y \in S : m <= y
  PROVE  Min(S) = m
<1>1. Min(S) \in S /\ \A y \in S : Min(S) <= y
  BY MinIsMember, Zenon
<1>2. Min(S) <= m /\ m <= Min(S)
  BY <1>1, Zenon
<1>3. Min(S) \in Nat /\ m \in Nat
  BY <1>1
<1>. QED
  BY <1>2, <1>3

\* The search behind a key that occurs once.
LEMMA SearchIs ==
  ASSUME NEW T, NEW f \in Seq(T), NEW key, NEW kind
  PROVE  /\ At(f, key) = {} => Search(f, key, kind) = 0
         /\ \A i, n : /\ At(f, key) = {i} /\ n \in i + 1 .. Len(f) /\ LooksLike(f[n], kind)
                      /\ \A m \in i + 1 .. n - 1 : ~LooksLike(f[m], kind)
                      => Search(f, key, kind) = n
<1>. DEFINE at == Find(f, key)
            J == {j \in at + 1 .. Len(f) : LooksLike(f[j], kind)}
            found == Search(f, key, kind)
<1>1. at = IF At(f, key) # {} THEN Min(At(f, key)) ELSE 0
  BY Zenon DEF Find, SelectInSeq, At
<1>2. found = IF at = 0 THEN 0 ELSE IF J # {} THEN Min(J) ELSE 0
  BY Zenon DEF Search, SelectInSubSeq, BehindColon
<1>3. At(f, key) = {} => found = 0
  BY <1>1, <1>2, Zenon
<1>4. ASSUME NEW i, NEW n, At(f, key) = {i}, n \in i + 1 .. Len(f), LooksLike(f[n], kind),
             \A m \in i + 1 .. n - 1 : ~LooksLike(f[m], kind)
      PROVE  found = n
  <2>1. i \in At(f, key) /\ i \in 1 .. Len(f) /\ i \in Nat /\ i # 0 /\ Len(f) \in Nat
    BY <1>4 DEF At
  <2>2. At(f, key) \in SUBSET Nat /\ \A y \in At(f, key) : i <= y
    BY <1>4, <2>1
  <2>3. Min(At(f, key)) = i
    BY <2>1, <2>2, MinIs
  <2>4. at = i
    BY <1>1, <2>1, <2>3, Zenon
  <2>. HIDE DEF at
  <2>5. n \in J /\ J \in SUBSET Nat
    BY <1>4, <2>1, <2>4
  <2>6. ASSUME NEW y \in J PROVE n <= y
    <3>1. y \in i + 1 .. Len(f) /\ LooksLike(f[y], kind)
      BY <2>4, <2>6, Zenon
    <3>2. y \notin i + 1 .. n - 1
      BY <1>4, <3>1, Zenon
    <3>3. y \in Int /\ n \in Int /\ i + 1 <= y
      BY <1>4, <2>1, <3>1
    <3>. QED
      BY <1>4, <2>1, <3>2, <3>3
  <2>. HIDE DEF J
  <2>7. Min(J) = n
    BY <2>5, <2>6, MinIs
  <2>. QED
    BY <1>2, <2>1, <2>4, <2>5, <2>7
<1>. QED
  BY <1>3, <1>4, Zenon

\* Found right behind the key.
LEMMA SearchNext ==
  ASSUME NEW T, NEW f \in Seq(T), NEW key, NEW kind, NEW i \in 1 .. Len(f), At(f, key) = {i},
         i < Len(f), LooksLike(f[i + 1], kind)
  PROVE  Search(f, key, kind) = i + 1 /\ i + 1 # 0
<1>1. i + 1 \in i + 1 .. Len(f) /\ i + 1 # 0 /\ \A m \in i + 1 .. (i + 1) - 1 : FALSE
  OBVIOUS
<1>2. \A m \in i + 1 .. (i + 1) - 1 : ~LooksLike(f[m], kind)
  BY <1>1, Zenon
<1>. QED
  BY <1>1, <1>2, SearchIs, Zenon

\* A key that occurs at most once is missing or occurs once.
LEMMA OnceOrNever ==
  ASSUME NEW T, NEW f \in Seq(T), NEW key, Cardinality(At(f, key)) <= 1
  PROVE  At(f, key) = {} \/ \E i \in 1 .. Len(f) : At(f, key) = {i}
<1>1. IsFiniteSet(At(f, key)) /\ At(f, key) \subseteq 1 .. Len(f)
  BY FS_Interval, FS_Subset DEF At
<1>. DEFINE A == At(f, key)
<1>. HIDE DEF A
<1>2. ASSUME NEW i \in A PROVE A = {i}
  <2>1. IsFiniteSet(A) /\ Cardinality(A) \in Nat
    BY <1>1, FS_CardinalityType DEF A
  <2>2. IsFiniteSet(A \ {i}) /\ Cardinality(A \ {i}) = Cardinality(A) - 1
    BY <2>1, FS_RemoveElement
  <2>3. Cardinality(A \ {i}) \in Nat
    BY <2>2, FS_CardinalityType
  <2>4. Cardinality(A \ {i}) = 0
    BY <2>1, <2>2, <2>3 DEF A
  <2>5. A \ {i} = {}
    BY <2>2, <2>4, FS_EmptySet
  <2>. QED
    BY <2>5
<1>. QED
  BY <1>1, <1>2 DEF A

\* Where a key that occurs stands.
Place(f, key) == CHOOSE i \in At(f, key) : TRUE

\* That is the one place, if there is one.
LEMMA PlaceIs ==
  ASSUME NEW f, NEW key, NEW i, At(f, key) = {i}
  PROVE  Place(f, key) = i
BY DEF Place

\* What a token looks like.
LEMMA Kinds ==
  \A t : /\ LooksLike(t, "string") <=> t.quoted
         /\ LooksLike(t, "number") <=> t.digits # "no"
         /\ LooksLike(t, "flag") <=> t.letter # "-"
BY DEF LooksLike

\* A string key that occurs once gets its own value.
LEMMA StringRead ==
  ASSUME NEW f \in Files, f # NoFile, NEW key \in DOMAIN Strings, Cardinality(At(f, key)) <= 1,
         NEW default
  PROVE  ExtractString(f, key, default) =
           IF At(f, key) = {} THEN default ELSE f[Place(f, key) + 1].text
<1>1. PICK T : f \in Seq(T)
  BY InputAssumption
<1>2. ASSUME At(f, key) = {} PROVE ExtractString(f, key, default) = default
  <2>1. Search(f, key, "string") = 0
    BY <1>1, <1>2, SearchIs, Zenon
  <2>. QED
    BY <1>2, <2>1, Zenon DEF ExtractString
<1>3. ASSUME NEW i \in 1 .. Len(f), At(f, key) = {i}
      PROVE  ExtractString(f, key, default) = f[i + 1].text
  <2>0. i \in At(f, key) /\ f \in Files \ {NoFile}
    BY <1>3, Zenon
  <2>1. i < Len(f) /\ f[i + 1].quoted
    BY <2>0, FileAssumption, Zenon
  <2>2. LooksLike(f[i + 1], "string")
    BY <2>1, Kinds, Zenon
  <2>3. Search(f, key, "string") = i + 1 /\ i + 1 # 0
    BY <1>1, <1>3, <2>1, <2>2, SearchNext, Zenon
  <2>. QED
    BY <2>3, Zenon DEF ExtractString
<1>4. ASSUME NEW i \in 1 .. Len(f), At(f, key) = {i} PROVE Place(f, key) = i /\ At(f, key) # {}
  BY <1>4, PlaceIs
<1>5. At(f, key) = {} \/ \E i \in 1 .. Len(f) : At(f, key) = {i}
  BY <1>1, OnceOrNever, Zenon
<1>. QED
  BY <1>2, <1>3, <1>4, <1>5

\* So does a number.
LEMMA NumberRead ==
  ASSUME NEW f \in Files, f # NoFile, NEW key \in DOMAIN Numbers, Cardinality(At(f, key)) <= 1,
         NEW default
  PROVE  /\ ExtractDouble(f, key, default) =
              IF At(f, key) = {} THEN default ELSE f[Place(f, key) + 1].value
         /\ key = "port" /\ At(f, key) # {} => Narrow(f[Place(f, key) + 1].value) = f[Place(f, key) + 1].value
<1>1. PICK T : f \in Seq(T)
  BY InputAssumption
<1>2. ASSUME At(f, key) = {} PROVE ExtractDouble(f, key, default) = default
  <2>1. Search(f, key, "number") = 0
    BY <1>1, <1>2, SearchIs, Zenon
  <2>. QED
    BY <1>2, <2>1, Zenon DEF ExtractDouble
<1>3. ASSUME NEW i \in 1 .. Len(f), At(f, key) = {i}
      PROVE  /\ ExtractDouble(f, key, default) = f[i + 1].value
             /\ key = "port" => Narrow(f[i + 1].value) = f[i + 1].value
  <2>0. i \in At(f, key) /\ f \in Files \ {NoFile}
    BY <1>3, Zenon
  <2>1. /\ i < Len(f) /\ f[i + 1].digits = "number"
        /\ key = "port" => Narrow(f[i + 1].value) = f[i + 1].value
    BY <2>0, FileAssumption, Zenon
  <2>2. LooksLike(f[i + 1], "number") /\ f[i + 1].digits # "junk"
    <3>1. \A d : d = "number" => d # "no" /\ d # "junk"
      OBVIOUS
    <3>. QED
      BY <2>1, <3>1, Kinds, Zenon
  <2>3. Search(f, key, "number") = i + 1 /\ i + 1 # 0
    BY <1>1, <1>3, <2>1, <2>2, SearchNext, Zenon
  <2>. QED
    BY <2>1, <2>2, <2>3, Zenon DEF ExtractDouble
<1>4. ASSUME NEW i \in 1 .. Len(f), At(f, key) = {i} PROVE Place(f, key) = i /\ At(f, key) # {}
  BY <1>4, PlaceIs
<1>5. At(f, key) = {} \/ \E i \in 1 .. Len(f) : At(f, key) = {i}
  BY <1>1, OnceOrNever, Zenon
<1>. QED
  BY <1>2, <1>3, <1>4, <1>5

\* So does a flag that is not a section.
LEMMA FlagRead ==
  ASSUME NEW f \in Files, f # NoFile, NEW key \in DOMAIN Flags \ Sections,
         Cardinality(At(f, key)) <= 1, NEW default
  PROVE  ExtractBool(f, key, default) =
           IF At(f, key) = {} THEN default ELSE f[Place(f, key) + 1].letter = "t"
<1>1. PICK T : f \in Seq(T)
  BY InputAssumption
<1>2. ASSUME At(f, key) = {} PROVE ExtractBool(f, key, default) = default
  <2>1. Search(f, key, "flag") = 0
    BY <1>1, <1>2, SearchIs, Zenon
  <2>. QED
    BY <1>2, <2>1, Zenon DEF ExtractBool
<1>3. ASSUME NEW i \in 1 .. Len(f), At(f, key) = {i}
      PROVE  ExtractBool(f, key, default) = (f[i + 1].letter = "t")
  <2>0. i \in At(f, key) /\ f \in Files \ {NoFile}
    BY <1>3, Zenon
  <2>1. i < Len(f) /\ f[i + 1].letter # "-"
    BY <2>0, FileAssumption, Zenon
  <2>2. LooksLike(f[i + 1], "flag")
    BY <2>1, Kinds, Zenon
  <2>3. Search(f, key, "flag") = i + 1 /\ i + 1 # 0
    BY <1>1, <1>3, <2>1, <2>2, SearchNext, Zenon
  <2>. QED
    BY <2>3, Zenon DEF ExtractBool
<1>4. ASSUME NEW i \in 1 .. Len(f), At(f, key) = {i} PROVE Place(f, key) = i /\ At(f, key) # {}
  BY <1>4, PlaceIs
<1>5. At(f, key) = {} \/ \E i \in 1 .. Len(f) : At(f, key) = {i}
  BY <1>1, OnceOrNever, Zenon
<1>. QED
  BY <1>2, <1>3, <1>4, <1>5

\* A section that starts with "enabled" is switched by the flag behind that: the
\* search passes the word, which has no t and no f in it.
LEMMA SectionRead ==
  ASSUME NEW f \in Files, f # NoFile, NEW key \in Sections, At(f, key) # {}, NEW default,
         f[Place(f, key) + 1].text = "enabled"
  PROVE  ExtractBool(f, key, default) = (f[Place(f, key) + 2].letter = "t")
<1>1. PICK T : f \in Seq(T)
  BY InputAssumption
<1>2. PICK i : i \in At(f, key) /\ At(f, key) = {i}
  <2>1. PICK i : i \in At(f, key)
    OBVIOUS
  <2>2. f \in Files \ {NoFile}
    OBVIOUS
  <2>3. At(f, key) = {i}
    BY <2>1, <2>2, FileAssumption, Zenon
  <2>. QED
    BY <2>1, <2>3, Zenon
<1>3. Place(f, key) = i
  BY <1>2, PlaceIs, Zenon
<1>4. i \in 1 .. Len(f) /\ i + 2 <= Len(f) /\ f[i + 1].letter = "-" /\ f[i + 2].letter # "-"
  <2>1. i \in 1 .. Len(f)
    BY <1>2 DEF At
  <2>2. f \in Files \ {NoFile} /\ f[i + 1].text = "enabled"
    BY <1>3
  <2>. QED
    BY <1>2, <2>1, <2>2, FileAssumption, Zenon
<1>5. Len(f) \in Nat
  BY <1>1
<1>6. i + 2 \in i + 1 .. Len(f) /\ i + 2 # 0 /\ \A m \in i + 1 .. (i + 2) - 1 : m = i + 1
  BY <1>4, <1>5
<1>7. LooksLike(f[i + 2], "flag") /\ ~LooksLike(f[i + 1], "flag")
  BY <1>4, Kinds, Zenon
<1>8. \A m \in i + 1 .. (i + 2) - 1 : ~LooksLike(f[m], "flag")
  BY <1>6, <1>7, Zenon
<1>9. Search(f, key, "flag") = i + 2
  BY <1>1, <1>2, <1>6, <1>7, <1>8, SearchIs, Zenon
<1>. QED
  BY <1>3, <1>6, <1>9, Zenon DEF ExtractBool

\* Whenever the configuration has been loaded, it is that of a file, or there
\* was none.
Loaded == main = "configured" /\ file # NoFile => file \in Files /\ config = LoadFromFile(file)

\* The default port is one.
LEMMA DefaultPort == Narrow(Numbers["port"]) = Numbers["port"]
<1>1. Numbers["port"] = 8080
  BY SMT DEF Numbers
<1>2. Narrow(8080) = 8080
  BY SMT DEF Narrow
<1>. QED
  BY <1>1, <1>2, SMT

\* Only loading configures; the start uses the configuration up.
LEMMA LoadedStays == ASSUME Loaded, [Next]_vars PROVE Loaded'
<1>1. CASE LoadConfig
  <2>1. PICK f \in Files, etc \in Files :
           file' = (IF f = NoFile THEN etc ELSE f) /\ config' = AppConfig(f, etc)
    BY <1>1, Zenon DEF LoadConfig
  <2>. QED
    BY <2>1, Zenon DEF Loaded, AppConfig
<1>2. CASE main' # "configured"
  BY <1>2 DEF Loaded
<1>3. CASE UNCHANGED <<main, file, config>>
  BY <1>3, Zenon DEF Loaded
<1>4. Start \/ Signal \/ StopReceiver \/ OpenCsv \/ WriteCsv => main' # "configured"
  BY DEF Start, Signal, StopReceiver, OpenCsv, WriteCsv
<1>5. /\ Retune \/ ScanBlock \/ ReceiveFrame \/ UpdateTelemetry \/ RecordFrame \/ Unlock
            => UNCHANGED <<main, file, config>>
      /\ UNCHANGED vars => UNCHANGED <<main, file, config>>
  BY Zenon DEF Retune, ScanBlock, ReceiveFrame, UpdateTelemetry, RecordFrame, Unlock, vars, bootVars
<1>. QED
  BY <1>1, <1>2, <1>3, <1>4, <1>5, Zenon DEF Next

\* Whatever the order of the sections, a key that occurs once gets its own value,
\* a section that starts with "enabled" is switched by it, and a key that is
\* missing gets its default, though Config.hpp does not parse.
THEOREM SettingsAreHonoured == Spec => []SettingsHonoured
<1>1. Init => Loaded
  BY DEF Init, Loaded
<1>2. Loaded => SettingsHonoured
  <2>. SUFFICES ASSUME Loaded, main = "configured", file # NoFile PROVE SettingsHonoured
    BY DEF SettingsHonoured
  <2>1. file \in Files /\ config = LoadFromFile(file)
    BY DEF Loaded
  <2>2. \A k : Occurrences(k) = At(file, k) /\ Written(k) = file[Place(file, k) + 1]
    BY DEF Occurrences, At, Written, Place
  <2>3. /\ \A k \in DOMAIN Strings : config.strings[k] = ExtractString(file, k, Strings[k])
        /\ \A k \in DOMAIN Numbers :
             LET number == ExtractDouble(file, k, Numbers[k])
             IN  config.numbers[k] = IF k = "port" THEN Narrow(number) ELSE number
        /\ \A k \in DOMAIN Flags : config.flags[k] = ExtractBool(file, k, Flags[k])
    <3>. DEFINE strings == [k \in DOMAIN Strings |-> ExtractString(file, k, Strings[k])]
                numbers == [k \in DOMAIN Numbers |-> ExtractDouble(file, k, Numbers[k])]
                flags == [k \in DOMAIN Flags |-> ExtractBool(file, k, Flags[k])]
    <3>1. /\ config.strings = strings /\ config.flags = flags
          /\ config.numbers = [numbers EXCEPT !.port = Narrow(@)]
      BY <2>1 DEF LoadFromFile
    <3>. QED
      BY <3>1
  <2>4. ASSUME NEW k \in DOMAIN Strings, Cardinality(Occurrences(k)) <= 1
        PROVE  config.strings[k] = IF Occurrences(k) = {} THEN Strings[k] ELSE Written(k).text
    BY <2>1, <2>2, <2>3, <2>4, StringRead, Zenon
  <2>5. ASSUME NEW k \in DOMAIN Numbers, Cardinality(Occurrences(k)) <= 1
        PROVE  config.numbers[k] = IF Occurrences(k) = {} THEN Numbers[k] ELSE Written(k).value
    <3>. DEFINE number == ExtractDouble(file, k, Numbers[k])
    <3>1. /\ number = IF Occurrences(k) = {} THEN Numbers[k] ELSE Written(k).value
          /\ k = "port" /\ Occurrences(k) # {} => Narrow(Written(k).value) = Written(k).value
      BY <2>1, <2>2, <2>5, NumberRead, Zenon
    <3>2. config.numbers[k] = IF k = "port" THEN Narrow(number) ELSE number
      BY <2>3
    <3>. HIDE DEF number
    <3>3. k = "port" => Narrow(number) = number
      BY <3>1, DefaultPort
    <3>. QED
      BY <3>2, <3>3, <3>1
  <2>6. ASSUME NEW k \in DOMAIN Flags \ Sections, Cardinality(Occurrences(k)) <= 1
        PROVE  config.flags[k] = IF Occurrences(k) = {} THEN Flags[k] ELSE Written(k).letter = "t"
    <3>1. k \in DOMAIN Flags
      OBVIOUS
    <3>. QED
      BY <2>1, <2>2, <2>3, <2>6, <3>1, FlagRead, Zenon
  <2>7. ASSUME NEW k \in Sections, Occurrences(k) # {},
               file[Place(file, k) + 1].text = "enabled"
        PROVE  config.flags[k] = (file[Place(file, k) + 2].letter = "t")
    <3>1. k \in DOMAIN Flags
      BY DEF Flags, Sections
    <3>. QED
      BY <2>1, <2>2, <2>3, <2>7, <3>1, SectionRead, Zenon
  <2>8. \A k : Place(file, k) = CHOOSE i \in Occurrences(k) : TRUE
    BY <2>2, Zenon DEF Place
  <2>. QED
    BY <2>4, <2>5, <2>6, <2>7, <2>8, Zenon DEF SettingsHonoured
<1>. QED
  BY <1>1, <1>2, LoadedStays, PTL DEF Spec

-----------------------------------------------------------------------------
(* The scanner.  A sample is a sum of powers of w, the eighth root of unity;   *)
(* what the transforms do to it shows in its components, of which there are    *)
(* infinitely many, but component j + 4 is that of j with the other sign.      *)

\* Samples.
Vec == [1 .. 4 -> Int]

\* The component of a sample in the direction w^j, for any j: w^4 = -1.
Ext(x, j) == IF j % 8 < 4 THEN x[(j % 8) + 1] ELSE -x[(j % 8) - 3]

\* Half a circle on, a component has the other sign; a whole circle on, it is back.
LEMMA ExtTyped ==
  ASSUME NEW x \in Vec, NEW j \in Int
  PROVE  /\ Ext(x, j) \in Int
         /\ Ext(x, j + 4) = -Ext(x, j)
         /\ \A i \in Int : i % 8 = j % 8 => Ext(x, i) = Ext(x, j)
<1>1. j % 8 \in 0 .. 7
  OBVIOUS
<1>2. j % 8 < 4 => (j % 8) + 1 \in 1 .. 4 /\ (j + 4) % 8 = (j % 8) + 4
  OBVIOUS
<1>3. ~(j % 8 < 4) => (j % 8) - 3 \in 1 .. 4 /\ (j + 4) % 8 = (j % 8) - 4
  OBVIOUS
<1>4. Ext(x, j) \in Int
  BY <1>1, <1>2, <1>3 DEF Vec, Ext
<1>5. Ext(x, j + 4) = -Ext(x, j)
  <2>1. CASE j % 8 < 4
    <3>1. ~((j + 4) % 8 < 4) /\ ((j + 4) % 8) - 3 = (j % 8) + 1
      BY <1>2, <2>1
    <3>. QED
      BY <2>1, <3>1 DEF Ext
  <2>2. CASE ~(j % 8 < 4)
    <3>1. (j + 4) % 8 < 4 /\ ((j + 4) % 8) + 1 = (j % 8) - 3
      BY <1>1, <1>3, <2>2
    <3>2. x[(j % 8) - 3] \in Int
      BY <1>3, <2>2 DEF Vec
    <3>3. Ext(x, j) = -x[(j % 8) - 3] /\ Ext(x, j + 4) = x[(j % 8) - 3]
      BY <2>2, <3>1 DEF Ext
    <3>. QED
      BY <3>2, <3>3
  <2>. QED
    BY <2>1, <2>2
<1>6. \A i \in Int : i % 8 = j % 8 => Ext(x, i) = Ext(x, j)
  BY Zenon DEF Ext
<1>. QED
  BY <1>4, <1>5, <1>6

\* The first four are what the sample is written with.
LEMMA ExtAt ==
  ASSUME NEW x \in Vec, NEW i \in 1 .. 4
  PROVE  Ext(x, i - 1) = x[i] /\ i - 1 \in Int
<1>1. (i - 1) % 8 = i - 1 /\ i - 1 < 4 /\ (i - 1) + 1 = i /\ i - 1 \in Int
  OBVIOUS
<1>. QED
  BY <1>1, Zenon DEF Ext

\* Two samples are equal when their components are.
LEMMA ExtEqual ==
  ASSUME NEW x \in Vec, NEW y \in Vec, \A j \in Int : Ext(x, j) = Ext(y, j)
  PROVE  x = y
<1>1. \A i \in 1 .. 4 : x[i] = y[i]
  BY ExtAt
<1>. QED
  BY <1>1 DEF Vec

\* Sums and differences, component by component.
LEMMA SumTyped ==
  ASSUME NEW x \in Vec, NEW y \in Vec
  PROVE  /\ Plus(x, y) \in Vec /\ Minus(x, y) \in Vec
         /\ \A j \in Int : /\ Ext(Plus(x, y), j) = Ext(x, j) + Ext(y, j)
                           /\ Ext(Minus(x, y), j) = Ext(x, j) - Ext(y, j)
<1>1. /\ Plus(x, y) = [i \in 1 .. 4 |-> x[i] + y[i]]
      /\ Minus(x, y) = [i \in 1 .. 4 |-> x[i] - y[i]]
  BY DEF Plus, Minus
<1>2. \A i \in 1 .. 4 : x[i] \in Int /\ y[i] \in Int
  BY DEF Vec
<1>3. Plus(x, y) \in Vec /\ Minus(x, y) \in Vec
  BY <1>1, <1>2 DEF Vec
<1>4. \A i \in 1 .. 4 : Plus(x, y)[i] = x[i] + y[i] /\ Minus(x, y)[i] = x[i] - y[i]
  BY <1>1
<1>5. ASSUME NEW j \in Int
      PROVE  /\ Ext(Plus(x, y), j) = Ext(x, j) + Ext(y, j)
             /\ Ext(Minus(x, y), j) = Ext(x, j) - Ext(y, j)
  <2>1. CASE j % 8 < 4
    <3>1. (j % 8) + 1 \in 1 .. 4
      BY <2>1
    <3>. QED
      BY <1>4, <2>1, <3>1 DEF Ext
  <2>2. CASE ~(j % 8 < 4)
    <3>1. (j % 8) - 3 \in 1 .. 4
      BY <2>2
    <3>2. /\ Ext(x, j) = -x[(j % 8) - 3] /\ Ext(y, j) = -y[(j % 8) - 3]
          /\ Ext(Plus(x, y), j) = -(x[(j % 8) - 3] + y[(j % 8) - 3])
          /\ Ext(Minus(x, y), j) = -(x[(j % 8) - 3] - y[(j % 8) - 3])
      BY <1>4, <2>2, <3>1 DEF Ext
    <3>3. x[(j % 8) - 3] \in Int /\ y[(j % 8) - 3] \in Int
      BY <1>2, <3>1
    <3>. QED
      BY <3>2, <3>3
  <2>. QED
    BY <2>1, <2>2
<1>. QED
  BY <1>3, <1>5

\* A rotation moves the components along.
LEMMA RotateTyped ==
  ASSUME NEW x \in Vec, NEW n \in Int
  PROVE  Rotate(x, n) \in Vec /\ \A j \in Int : Ext(Rotate(x, n), j) = Ext(x, j - n)
<1>1. Rotate(x, n) = [i \in 1 .. 4 |-> Ext(x, i - 1 - n)]
  BY DEF Rotate, Ext, N
<1>2. \A i \in 1 .. 4 : i - 1 - n \in Int
  OBVIOUS
<1>3. \A i \in 1 .. 4 : Ext(x, i - 1 - n) \in Int
  BY <1>2, ExtTyped
<1>4. Rotate(x, n) \in Vec
  BY <1>1, <1>3 DEF Vec
<1>5. \A i \in 1 .. 4 : Rotate(x, n)[i] = Ext(x, i - 1 - n)
  BY <1>1
<1>6. ASSUME NEW j \in Int PROVE Ext(Rotate(x, n), j) = Ext(x, j - n)
  <2>1. CASE j % 8 < 4
    <3>1. (j % 8) + 1 \in 1 .. 4 /\ ((j % 8) + 1) - 1 - n \in Int /\ j - n \in Int
      BY <2>1
    <3>2. (((j % 8) + 1) - 1 - n) % 8 = (j - n) % 8
      OBVIOUS
    <3>3. Ext(Rotate(x, n), j) = Ext(x, ((j % 8) + 1) - 1 - n)
      BY <1>5, <2>1, <3>1, Zenon DEF Ext
    <3>. QED
      BY <3>1, <3>2, <3>3, ExtTyped, Zenon
  <2>2. CASE ~(j % 8 < 4)
    <3>. DEFINE i == ((j % 8) - 3) - 1 - n
    <3>1. (j % 8) - 3 \in 1 .. 4 /\ i \in Int /\ j - n \in Int /\ i + 4 \in Int
      BY <2>2
    <3>2. (i + 4) % 8 = (j - n) % 8
      OBVIOUS
    <3>3. Ext(Rotate(x, n), j) = -Ext(x, i)
      BY <1>5, <2>2, <3>1, Zenon DEF Ext
    <3>. HIDE DEF i
    <3>4. Ext(x, i + 4) = -Ext(x, i)
      BY <3>1, ExtTyped
    <3>5. Ext(x, i + 4) = Ext(x, j - n)
      BY <3>1, <3>2, ExtTyped
    <3>. QED
      BY <3>3, <3>4, <3>5, Zenon
  <2>. QED
    BY <2>1, <2>2
<1>. QED
  BY <1>4, <1>6

\* Nothing, and an amplitude.
LEMMA ZeroTyped ==
  /\ Zero \in Vec /\ \A j \in Int : Ext(Zero, j) = 0
  /\ \A a \in Int : /\ <<a, 0, 0, 0>> \in Vec
                    /\ \A j \in Int : Ext(<<a, 0, 0, 0>>, j) =
                         IF j % 8 = 0 THEN a ELSE IF j % 8 = 4 THEN -a ELSE 0
<1>1. ASSUME NEW a \in Int PROVE <<a, 0, 0, 0>> \in Vec
  BY DEF Vec
<1>2. ASSUME NEW a \in Int, NEW j \in Int
      PROVE  Ext(<<a, 0, 0, 0>>, j) = IF j % 8 = 0 THEN a ELSE IF j % 8 = 4 THEN -a ELSE 0
  <2>. DEFINE r == j % 8
              x == <<a, 0, 0, 0>>
  <2>1. r = 0 \/ r = 1 \/ r = 2 \/ r = 3 \/ r = 4 \/ r = 5 \/ r = 6 \/ r = 7
    OBVIOUS
  <2>2. x[1] = a /\ x[2] = 0 /\ x[3] = 0 /\ x[4] = 0
    OBVIOUS
  <2>3. Ext(x, j) = IF r < 4 THEN x[r + 1] ELSE -x[r - 3]
    BY DEF Ext
  <2>4. \A m \in Int : m + (-m) = 0 /\ (-m) \in Int /\ 0 + m = m
    OBVIOUS
  <2>5. -0 = 0
    <3>1. 0 \in Int
      OBVIOUS
    <3>. QED
      BY <2>4, <3>1, Zenon
  <2>. HIDE DEF r, x
  <2>6. Ext(x, j) = IF r = 0 THEN a ELSE IF r = 4 THEN -a ELSE 0
    BY <2>1, <2>2, <2>3, <2>5
  <2>. QED
    BY <2>6 DEF r, x
<1>3. Zero \in Vec /\ \A j \in Int : Ext(Zero, j) = 0
  <2>1. 0 \in Int
    OBVIOUS
  <2>2. \A j \in Int : Ext(Zero, j) = IF j % 8 = 0 THEN 0 ELSE IF j % 8 = 4 THEN -0 ELSE 0
    BY <1>2, <2>1, Zenon DEF Zero
  <2>3. -0 = 0
    <3>1. \A m \in Int : m + (-m) = 0 /\ (-m) \in Int /\ 0 + m = m
      OBVIOUS
    <3>. QED
      BY <2>1, <3>1, Zenon
  <2>. QED
    BY <1>1, <2>1, <2>2, <2>3, Zenon DEF Zero
<1>. QED
  BY <1>1, <1>2, <1>3

BySample == INSTANCE FoldLemmas WITH Op <- LAMBDA p, s, i : Plus(s, p[i - 1])
ByRound == INSTANCE FoldLemmas WITH Op <- LAMBDA p, a, len : Butterflies(a, len)

SampleBlock == [Bins -> Vec]

\* A line of the spectrum: what a carrier k eighths of a circle back per sample
\* has in common with the samples.
Line(a, k, j) ==
    (Ext(a[0], j) + Ext(a[1], j + k) + Ext(a[2], j + 2 * k) + Ext(a[3], j + 3 * k))
  + (Ext(a[4], j + 4 * k) + Ext(a[5], j + 5 * k) + Ext(a[6], j + 6 * k) + Ext(a[7], j + 7 * k))

\* The sum of eight samples.
LEMMA TotalIs ==
  ASSUME NEW f \in SampleBlock
  PROVE  Total(f) \in Vec /\ \A j \in Int : Ext(Total(f), j) = Line(f, 0, j)
<1>. DEFINE s == [i \in 1 .. N |-> i]
<1>1. s \in Seq(Nat) /\ Len(s) = 8 /\ \A i \in 1 .. 8 : s[i] = i
  BY DEF N
<1>2. Total(f) = BySample!Fold(f, Zero, s)
  BY Zenon DEF Total, FoldLeft, MapThenFoldSet, Max, BySample!Fold, BySample!FoldLeft,
               BySample!MapThenFoldSet, BySample!Max
<1>. HIDE DEF s
<1>3. PICK g : /\ g[0] = Zero
               /\ \A i \in 1 .. Len(s) : g[i] = Plus(g[i - 1], f[s[i] - 1])
               /\ g[Len(s)] = BySample!Fold(f, Zero, s)
  BY <1>1, BySample!FoldTrace, Zenon
<1>4. g[8] = Total(f) /\ \A i \in 1 .. 8 : g[i] = Plus(g[i - 1], f[i - 1])
  <2>1. \A i \in 1 .. 8 : g[i] = Plus(g[i - 1], f[s[i] - 1])
    BY <1>1, <1>3, Zenon
  <2>. QED
    BY <1>1, <1>2, <1>3, <2>1, Zenon
<1>5. \A i \in 0 .. 7 : f[i] \in Vec
  BY DEF SampleBlock, Bins, N
<1>6. ASSUME NEW i \in 1 .. 8, g[i - 1] \in Vec
      PROVE  g[i] \in Vec /\ \A j \in Int : Ext(g[i], j) = Ext(g[i - 1], j) + Ext(f[i - 1], j)
  <2>1. f[i - 1] \in Vec /\ g[i] = Plus(g[i - 1], f[i - 1])
    BY <1>4, <1>5
  <2>. QED
    BY <1>6, <2>1, SumTyped
<1>7. g[1] \in Vec /\ \A j \in Int : Ext(g[1], j) = Ext(f[0], j)
  <2>1. g[1] \in Vec /\ \A j \in Int : Ext(g[1], j) = Ext(g[0], j) + Ext(f[0], j)
    <3>1. 1 \in 1 .. 8 /\ 1 - 1 = 0
      OBVIOUS
    <3>2. g[1 - 1] \in Vec
      BY <1>3, <3>1, ZeroTyped, Zenon
    <3>. QED
      BY <1>6, <3>1, <3>2, Zenon
  <2>2. ASSUME NEW j \in Int PROVE Ext(g[1], j) = Ext(f[0], j)
    <3>1. Ext(g[0], j) = 0
      BY <1>3, ZeroTyped, Zenon
    <3>2. f[0] \in Vec
      BY <1>5
    <3>3. Ext(f[0], j) \in Int
      BY <3>2, ExtTyped
    <3>. QED
      BY <2>1, <3>1, <3>3
  <2>. QED
    BY <2>1, <2>2
<1>8. ASSUME NEW i \in 2 .. 8, g[i - 1] \in Vec
      PROVE  g[i] \in Vec /\ \A j \in Int : Ext(g[i], j) = Ext(g[i - 1], j) + Ext(f[i - 1], j)
  BY <1>6, <1>8
<1>. DEFINE Added(i) == g[i] \in Vec /\ \A j \in Int : Ext(g[i], j) = Ext(g[i - 1], j) + Ext(f[i - 1], j)
<1>. HIDE DEF Added
<1>9. /\ Added(2) /\ Added(3) /\ Added(4) /\ Added(5)
      /\ Added(6) /\ Added(7) /\ Added(8)
  <2>1. \A i \in 2 .. 8 : g[i - 1] \in Vec => Added(i) /\ g[i] \in Vec
    BY <1>8, Zenon DEF Added
  <2>2. Added(2) /\ g[2] \in Vec
    BY <1>7, <2>1
  <2>3. Added(3) /\ g[3] \in Vec
    BY <2>1, <2>2
  <2>4. Added(4) /\ g[4] \in Vec
    BY <2>1, <2>3
  <2>5. Added(5) /\ g[5] \in Vec
    BY <2>1, <2>4
  <2>6. Added(6) /\ g[6] \in Vec
    BY <2>1, <2>5
  <2>7. Added(7) /\ g[7] \in Vec
    BY <2>1, <2>6
  <2>8. Added(8)
    BY <2>1, <2>7
  <2>. QED
    BY <2>2, <2>3, <2>4, <2>5, <2>6, <2>7, <2>8
<1>10. ASSUME NEW j \in Int PROVE Ext(g[8], j) = Line(f, 0, j)
  <2>1. /\ Ext(g[1], j) = Ext(f[0], j)
        /\ Ext(g[2], j) = Ext(g[1], j) + Ext(f[1], j)
        /\ Ext(g[3], j) = Ext(g[2], j) + Ext(f[2], j)
        /\ Ext(g[4], j) = Ext(g[3], j) + Ext(f[3], j)
        /\ Ext(g[5], j) = Ext(g[4], j) + Ext(f[4], j)
        /\ Ext(g[6], j) = Ext(g[5], j) + Ext(f[5], j)
        /\ Ext(g[7], j) = Ext(g[6], j) + Ext(f[6], j)
        /\ Ext(g[8], j) = Ext(g[7], j) + Ext(f[7], j)
    BY <1>7, <1>9 DEF Added
  <2>2. \A i \in 0 .. 7 : Ext(f[i], j) \in Int
    BY <1>5, ExtTyped
  <2>3. /\ Ext(f[0], j) \in Int /\ Ext(f[1], j) \in Int /\ Ext(f[2], j) \in Int
        /\ Ext(f[3], j) \in Int /\ Ext(f[4], j) \in Int /\ Ext(f[5], j) \in Int
        /\ Ext(f[6], j) \in Int /\ Ext(f[7], j) \in Int
    BY <2>2
  <2>4. j + 0 = j /\ \A i \in Int : j + i * 0 = j
    OBVIOUS
  <2>5. Line(f, 0, j) =
            (Ext(f[0], j) + Ext(f[1], j) + Ext(f[2], j) + Ext(f[3], j))
          + (Ext(f[4], j) + Ext(f[5], j) + Ext(f[6], j) + Ext(f[7], j))
    BY <2>4 DEF Line
  <2>. QED
    BY <2>1, <2>3, <2>5
<1>. QED
  BY <1>4, <1>9, <1>10 DEF Added

\* FFTW's spectrum is made of these lines.
LEMMA FftwIs ==
  ASSUME NEW a \in SampleBlock, NEW k \in Bins
  PROVE  Fftw(a)[k] \in Vec /\ \A j \in Int : Ext(Fftw(a)[k], j) = Line(a, k, j)
<1>. DEFINE f == [n \in Bins |-> Rotate(a[n], -k * n)]
<1>1. Fftw(a)[k] = Total(f)
  BY DEF Fftw
<1>2. k \in Int /\ Bins = 0 .. 7 /\ \A n \in 0 .. 7 : n \in Bins /\ n \in Int /\ a[n] \in Vec
  BY DEF Bins, N, SampleBlock
<1>3. ASSUME NEW n \in 0 .. 7
      PROVE  f[n] \in Vec /\ \A j \in Int : Ext(f[n], j) = Ext(a[n], j + n * k)
  <2>1. f[n] = Rotate(a[n], -k * n) /\ -k * n \in Int
    BY <1>2
  <2>2. f[n] \in Vec /\ \A j \in Int : Ext(f[n], j) = Ext(a[n], j - (-k * n))
    BY <1>2, <2>1, RotateTyped, Zenon
  <2>3. \A j \in Int : j - (-k * n) = j + n * k
    BY <1>2
  <2>. QED
    BY <2>2, <2>3, Zenon
<1>. HIDE DEF f
<1>4. f \in SampleBlock
  <2>1. f = [n \in Bins |-> f[n]]
    BY DEF f
  <2>. QED
    BY <1>2, <1>3, <2>1 DEF SampleBlock
<1>5. Total(f) \in Vec /\ \A j \in Int : Ext(Total(f), j) = Line(f, 0, j)
  BY <1>4, TotalIs
<1>6. ASSUME NEW j \in Int PROVE Line(f, 0, j) = Line(a, k, j)
  <2>1. \A n \in 0 .. 7 : Ext(f[n], j) = Ext(a[n], j + n * k)
    BY <1>3
  <2>2. /\ Ext(f[0], j) = Ext(a[0], j) /\ Ext(f[1], j) = Ext(a[1], j + k)
        /\ Ext(f[2], j) = Ext(a[2], j + 2 * k) /\ Ext(f[3], j) = Ext(a[3], j + 3 * k)
        /\ Ext(f[4], j) = Ext(a[4], j + 4 * k) /\ Ext(f[5], j) = Ext(a[5], j + 5 * k)
        /\ Ext(f[6], j) = Ext(a[6], j + 6 * k) /\ Ext(f[7], j) = Ext(a[7], j + 7 * k)
    <3>1. j + 0 * k = j /\ j + 1 * k = j + k
      BY <1>2
    <3>. QED
      BY <2>1, <3>1
  <2>3. j + 0 = j /\ \A i \in Int : j + i * 0 = j
    OBVIOUS
  <2>4. Line(f, 0, j) =
            (Ext(f[0], j) + Ext(f[1], j) + Ext(f[2], j) + Ext(f[3], j))
          + (Ext(f[4], j) + Ext(f[5], j) + Ext(f[6], j) + Ext(f[7], j))
    BY <2>3 DEF Line
  <2>. QED
    BY <2>2, <2>4, Zenon DEF Line
<1>. QED
  BY <1>1, <1>5, <1>6, Zenon

\* One round of butterflies: the difference is the sum half a circle on.
LEMMA RoundIs ==
  ASSUME NEW a \in SampleBlock, NEW len \in {2, 4, 8}
  PROVE  /\ Butterflies(a, len) \in SampleBlock
         /\ \A i \in Bins : \A j \in Int :
              LET lo == IF i % len < len \div 2 THEN i ELSE i - len \div 2
              IN  Ext(Butterflies(a, len)[i], j)
                    = Ext(a[lo], j) + Ext(a[lo + len \div 2], j - (i % len) * (8 \div len))
<1>. DEFINE b == Butterflies(a, len)
            half == len \div 2
            turn(i) == (i % len) * (8 \div len)
<1>1. Bins = 0 .. 7 /\ \A n \in 0 .. 7 : n \in Bins /\ n \in Int /\ a[n] \in Vec
  BY DEF Bins, N, SampleBlock
<1>2. ASSUME NEW i \in 0 .. 7, i % len < half
      PROVE  /\ b[i] \in Vec
             /\ \A j \in Int : Ext(b[i], j) = Ext(a[i], j) + Ext(a[i + half], j - turn(i))
  <2>1. i + half \in 0 .. 7 /\ turn(i) \in Int
    BY <1>2
  <2>2. b[i] = Plus(a[i], Rotate(a[i + half], turn(i)))
    BY <1>1, <1>2 DEF Butterflies, Twiddle, N
  <2>. HIDE DEF b, half, turn
  <2>3. /\ Rotate(a[i + half], turn(i)) \in Vec
        /\ \A j \in Int : Ext(Rotate(a[i + half], turn(i)), j) = Ext(a[i + half], j - turn(i))
    BY <1>1, <2>1, RotateTyped, Zenon
  <2>. QED
    BY <1>1, <2>2, <2>3, SumTyped
<1>3. ASSUME NEW i \in 0 .. 7, ~(i % len < half)
      PROVE  /\ b[i] \in Vec
             /\ \A j \in Int : Ext(b[i], j) = Ext(a[i - half], j) + Ext(a[i], j - turn(i))
  <2>. DEFINE back == ((i % len) - half) * (8 \div len)
  <2>1. i - half \in 0 .. 7 /\ back \in Int /\ back + 4 = turn(i)
    <3>1. CASE len = 2
      BY <1>3, <3>1
    <3>2. CASE len = 4
      BY <1>3, <3>2
    <3>3. CASE len = 8
      BY <1>3, <3>3
    <3>. QED
      BY <3>1, <3>2, <3>3
  <2>2. b[i] = Minus(a[i - half], Rotate(a[i], back))
    BY <1>1, <1>3 DEF Butterflies, Twiddle, N
  <2>. HIDE DEF b, half, turn, back
  <2>3. /\ Rotate(a[i], back) \in Vec
        /\ \A j \in Int : Ext(Rotate(a[i], back), j) = Ext(a[i], j - back)
    BY <1>1, <2>1, RotateTyped, Zenon
  <2>4. /\ b[i] \in Vec
        /\ \A j \in Int : Ext(b[i], j) = Ext(a[i - half], j) - Ext(a[i], j - back)
    BY <1>1, <2>1, <2>2, <2>3, SumTyped
  <2>5. ASSUME NEW j \in Int
        PROVE  Ext(b[i], j) = Ext(a[i - half], j) + Ext(a[i], j - turn(i))
    <3>1. j - turn(i) \in Int /\ (j - turn(i)) + 4 = j - back
      BY <2>1
    <3>2. a[i] \in Vec /\ a[i - half] \in Vec
      BY <1>1, <2>1
    <3>3. Ext(a[i], (j - turn(i)) + 4) = -Ext(a[i], j - turn(i))
      BY <3>1, <3>2, ExtTyped
    <3>4. Ext(a[i], j - turn(i)) \in Int /\ Ext(a[i - half], j) \in Int
      BY <3>1, <3>2, ExtTyped
    <3>. QED
      BY <2>4, <3>1, <3>3, <3>4
  <2>. QED
    BY <2>4, <2>5
<1>4. b \in SampleBlock
  <2>1. b = [i \in Bins |-> b[i]]
    BY DEF Butterflies
  <2>2. \A i \in Bins : b[i] \in Vec
    BY <1>1, <1>2, <1>3
  <2>. QED
    BY <2>1, <2>2 DEF SampleBlock
<1>5. ASSUME NEW i \in Bins, NEW j \in Int
      PROVE  LET lo == IF i % len < half THEN i ELSE i - half
             IN  Ext(b[i], j) = Ext(a[lo], j) + Ext(a[lo + half], j - turn(i))
  <2>1. CASE i % len < half
    BY <1>1, <1>2, <2>1
  <2>2. CASE ~(i % len < half)
    <3>1. (i - half) + half = i
      BY <1>1
    <3>. QED
      BY <1>1, <1>3, <2>2, <3>1
  <2>. QED
    BY <2>1, <2>2
<1>. QED
  BY <1>4, <1>5

\* The other transform has the same lines, the other way round.
LEMMA CooleyTukeyIs ==
  ASSUME NEW a \in SampleBlock, NEW k \in Bins
  PROVE  CooleyTukey(a)[k] \in Vec /\ \A j \in Int : Ext(CooleyTukey(a)[k], j) = Line(a, -k, j)
<1>. DEFINE s == <<2, 4, 8>>
            b0 == BitReversal(a)
            b1 == Butterflies(b0, 2)
            b2 == Butterflies(b1, 4)
            b3 == Butterflies(b2, 8)
<1>1. CooleyTukey(a) = b3
  <2>1. CooleyTukey(a) = ByRound!Fold(0, b0, s)
    BY Zenon DEF CooleyTukey, FoldLeft, MapThenFoldSet, Max, ByRound!Fold, ByRound!FoldLeft,
                 ByRound!MapThenFoldSet, ByRound!Max
  <2>2. s \in Seq(Nat) /\ Len(s) = 3 /\ s[1] = 2 /\ s[2] = 4 /\ s[3] = 8
    OBVIOUS
  <2>. HIDE DEF s, b0
  <2>3. PICK g : /\ g[0] = b0
                 /\ \A i \in 1 .. Len(s) : g[i] = Butterflies(g[i - 1], s[i])
                 /\ g[Len(s)] = ByRound!Fold(0, b0, s)
    BY <2>2, ByRound!FoldTrace, Zenon
  <2>4. g[1] = Butterflies(g[0], 2) /\ g[2] = Butterflies(g[1], 4) /\ g[3] = Butterflies(g[2], 8)
    BY <2>2, <2>3
  <2>. QED
    BY <2>1, <2>2, <2>3, <2>4, Zenon
<1>2. Bins = 0 .. 7 /\ \A n \in 0 .. 7 : n \in Bins /\ n \in Int /\ a[n] \in Vec
  BY DEF Bins, N, SampleBlock
<1>3. /\ b0[0] = a[0] /\ b0[1] = a[4] /\ b0[2] = a[2] /\ b0[3] = a[6]
      /\ b0[4] = a[1] /\ b0[5] = a[5] /\ b0[6] = a[3] /\ b0[7] = a[7]
  BY <1>2 DEF BitReversal
<1>4. b0 \in SampleBlock
  <2>1. \A i \in Bins : 4 * (i % 2) + 2 * ((i \div 2) % 2) + i \div 4 \in 0 .. 7
    BY <1>2
  <2>. QED
    BY <1>2, <2>1 DEF BitReversal, SampleBlock
<1>. HIDE DEF b0
<1>5. /\ b1 \in SampleBlock
      /\ \A i \in Bins : \A j \in Int :
           LET lo == IF i % 2 < 2 \div 2 THEN i ELSE i - 2 \div 2
           IN  Ext(b1[i], j) = Ext(b0[lo], j) + Ext(b0[lo + 2 \div 2], j - (i % 2) * (8 \div 2))
  BY <1>4, RoundIs
<1>. HIDE DEF b1
<1>6. /\ b2 \in SampleBlock
      /\ \A i \in Bins : \A j \in Int :
           LET lo == IF i % 4 < 4 \div 2 THEN i ELSE i - 4 \div 2
           IN  Ext(b2[i], j) = Ext(b1[lo], j) + Ext(b1[lo + 4 \div 2], j - (i % 4) * (8 \div 4))
  BY <1>5, RoundIs
<1>. HIDE DEF b2
<1>7. /\ b3 \in SampleBlock
      /\ \A i \in Bins : \A j \in Int :
           LET lo == IF i % 8 < 8 \div 2 THEN i ELSE i - 8 \div 2
           IN  Ext(b3[i], j) = Ext(b2[lo], j) + Ext(b2[lo + 8 \div 2], j - (i % 8) * (8 \div 8))
  BY <1>6, RoundIs
<1>. HIDE DEF b3
<1>. DEFINE k2 == k % 2
            k4 == k % 4
<1>8. ASSUME NEW j \in Int
      PROVE  Ext(b3[k], j) = Ext(b2[k4], j) + Ext(b2[k4 + 4], j - k)
  <2>1. /\ (IF k % 8 < 8 \div 2 THEN k ELSE k - 8 \div 2) = k4
        /\ 8 \div 2 = 4 /\ (k % 8) * (8 \div 8) = k
    BY <1>2
  <2>. QED
    BY <1>7, <2>1, Zenon
<1>9. ASSUME NEW j \in Int
      PROVE  /\ Ext(b2[k4], j) = Ext(b1[k2], j) + Ext(b1[k2 + 2], j - 2 * k4)
             /\ Ext(b2[k4 + 4], j) = Ext(b1[k2 + 4], j) + Ext(b1[k2 + 6], j - 2 * k4)
  <2>1. /\ k4 \in Bins /\ k4 + 4 \in Bins
        /\ (IF k4 % 4 < 4 \div 2 THEN k4 ELSE k4 - 4 \div 2) = k2
        /\ (IF (k4 + 4) % 4 < 4 \div 2 THEN k4 + 4 ELSE (k4 + 4) - 4 \div 2) = k2 + 4
        /\ 4 \div 2 = 2 /\ (k4 % 4) * (8 \div 4) = 2 * k4 /\ ((k4 + 4) % 4) * (8 \div 4) = 2 * k4
        /\ (k2 + 4) + 2 = k2 + 6
    BY <1>2
  <2>. HIDE DEF k2, k4
  <2>. QED
    BY <1>6, <2>1
<1>10. ASSUME NEW j \in Int
       PROVE  /\ Ext(b1[k2], j) = Ext(b0[0], j) + Ext(b0[1], j - 4 * k2)
              /\ Ext(b1[k2 + 2], j) = Ext(b0[2], j) + Ext(b0[3], j - 4 * k2)
              /\ Ext(b1[k2 + 4], j) = Ext(b0[4], j) + Ext(b0[5], j - 4 * k2)
              /\ Ext(b1[k2 + 6], j) = Ext(b0[6], j) + Ext(b0[7], j - 4 * k2)
  <2>1. k2 = 0 \/ k2 = 1
    BY <1>2
  <2>2. /\ 0 \in Bins /\ 1 \in Bins /\ 2 \in Bins /\ 3 \in Bins
        /\ 4 \in Bins /\ 5 \in Bins /\ 6 \in Bins /\ 7 \in Bins
    BY <1>2
  <2>. HIDE DEF k2
  <2>3. CASE k2 = 0
    BY <1>5, <2>2, <2>3
  <2>4. CASE k2 = 1
    BY <1>5, <2>2, <2>4
  <2>. QED
    BY <2>1, <2>3, <2>4
<1>11. ASSUME NEW j \in Int PROVE Ext(b3[k], j) = Line(a, -k, j)
  <2>. DEFINE E(n, d) == Ext(a[n], j - d)
  <2>1. k \in Int /\ k2 \in Int /\ k4 \in Int
    BY <1>2
  <2>2. /\ j - k \in Int /\ j - 2 * k4 \in Int /\ (j - k) - 2 * k4 \in Int
        /\ (j - 2 * k4) - 4 * k2 \in Int /\ j - 4 * k2 \in Int /\ (j - k) - 4 * k2 \in Int
        /\ ((j - k) - 2 * k4) - 4 * k2 \in Int
    BY <2>1
  <2>3. \A n \in 0 .. 7 : \A i \in Int : Ext(a[n], i) \in Int
    BY <1>2, ExtTyped
  <2>4. \A n \in 0 .. 7 : \A i \in Int, m \in Int : i % 8 = m % 8 => Ext(a[n], i) = Ext(a[n], m)
    BY <1>2, ExtTyped, Zenon
  <2>5. /\ (j - 4 * k2) % 8 = (j + 4 * (-k)) % 8
        /\ (j - 2 * k4) % 8 = (j + 2 * (-k)) % 8
        /\ ((j - 2 * k4) - 4 * k2) % 8 = (j + 6 * (-k)) % 8
        /\ ((j - k) - 4 * k2) % 8 = (j + 5 * (-k)) % 8
        /\ ((j - k) - 2 * k4) % 8 = (j + 3 * (-k)) % 8
        /\ (((j - k) - 2 * k4) - 4 * k2) % 8 = (j + 7 * (-k)) % 8
        /\ j - k = j + (-k)
    <3>1. \A r \in Int, m \in Int : r % 8 = (r + 8 * m) % 8
      OBVIOUS
    <3>2. PICK p \in Int, q \in Int : k = 2 * p + k2 /\ k = 4 * q + k4
      <4>1. k = 2 * (k \div 2) + k2 /\ k = 4 * (k \div 4) + k4 /\ k \div 2 \in Int /\ k \div 4 \in Int
        BY <2>1
      <4>. QED
        BY <4>1
    <3>. HIDE DEF k2, k4
    <3>3. /\ j - 4 * k2 = (j + 4 * (-k)) + 8 * p
          /\ j - 2 * k4 = (j + 2 * (-k)) + 8 * q
          /\ (j - 2 * k4) - 4 * k2 = (j + 6 * (-k)) + 8 * (p + q)
          /\ (j - k) - 4 * k2 = (j + 5 * (-k)) + 8 * p
          /\ (j - k) - 2 * k4 = (j + 3 * (-k)) + 8 * q
          /\ ((j - k) - 2 * k4) - 4 * k2 = (j + 7 * (-k)) + 8 * (p + q)
      BY <2>1, <3>2
    <3>4. \A n \in 0 .. 7 : j + n * (-k) \in Int
      BY <2>1
    <3>5. p + q \in Int /\ j - k = j + (-k)
      BY <2>1
    <3>. QED
      BY <3>1, <3>3, <3>4, <3>5
  <2>. HIDE DEF k2, k4
  <2>6. /\ Ext(a[4], j - 4 * k2) = Ext(a[4], j + 4 * (-k))
        /\ Ext(a[2], j - 2 * k4) = Ext(a[2], j + 2 * (-k))
        /\ Ext(a[6], (j - 2 * k4) - 4 * k2) = Ext(a[6], j + 6 * (-k))
        /\ Ext(a[1], j - k) = Ext(a[1], j + (-k))
        /\ Ext(a[5], (j - k) - 4 * k2) = Ext(a[5], j + 5 * (-k))
        /\ Ext(a[3], (j - k) - 2 * k4) = Ext(a[3], j + 3 * (-k))
        /\ Ext(a[7], ((j - k) - 2 * k4) - 4 * k2) = Ext(a[7], j + 7 * (-k))
    <3>1. \A n \in 0 .. 7 : j + n * (-k) \in Int
      BY <2>1
    <3>. QED
      BY <2>2, <2>4, <2>5, <3>1
  <2>7. Ext(b3[k], j) = Ext(b2[k4], j) + Ext(b2[k4 + 4], j - k)
    BY <1>8
  <2>8. /\ Ext(b2[k4], j) = Ext(b1[k2], j) + Ext(b1[k2 + 2], j - 2 * k4)
        /\ Ext(b2[k4 + 4], j - k) = Ext(b1[k2 + 4], j - k) + Ext(b1[k2 + 6], (j - k) - 2 * k4)
    BY <1>9, <2>2, Zenon
  <2>9. /\ Ext(b1[k2], j) = Ext(a[0], j) + Ext(a[4], j - 4 * k2)
        /\ Ext(b1[k2 + 2], j - 2 * k4)
             = Ext(a[2], j - 2 * k4) + Ext(a[6], (j - 2 * k4) - 4 * k2)
        /\ Ext(b1[k2 + 4], j - k) = Ext(a[1], j - k) + Ext(a[5], (j - k) - 4 * k2)
        /\ Ext(b1[k2 + 6], (j - k) - 2 * k4)
             = Ext(a[3], (j - k) - 2 * k4) + Ext(a[7], ((j - k) - 2 * k4) - 4 * k2)
    BY <1>3, <1>10, <2>2, Zenon
  <2>10. \A n \in 0 .. 7 : j + n * (-k) \in Int /\ j + (-k) \in Int
    BY <2>1
  <2>11. /\ Ext(a[0], j) \in Int /\ Ext(a[1], j + (-k)) \in Int
         /\ Ext(a[2], j + 2 * (-k)) \in Int /\ Ext(a[3], j + 3 * (-k)) \in Int
         /\ Ext(a[4], j + 4 * (-k)) \in Int /\ Ext(a[5], j + 5 * (-k)) \in Int
         /\ Ext(a[6], j + 6 * (-k)) \in Int /\ Ext(a[7], j + 7 * (-k)) \in Int
    BY <2>3, <2>10
  <2>. QED
    BY <2>6, <2>7, <2>8, <2>9, <2>11 DEF Line
<1>. QED
  BY <1>1, <1>2, <1>7, <1>11 DEF SampleBlock

\* computeCooleyTukeyFft is a Fourier transform, but not FFTW's: of any block it
\* gives the spectrum of FFTW read backwards.
THEOREM StandInMirrorsTheSpectrum ==
  ASSUME NEW a \in SampleBlock, NEW k \in Bins
  PROVE  (8 - k) % 8 \in Bins /\ CooleyTukey(a)[k] = Fftw(a)[(8 - k) % 8]
<1>. DEFINE m == (8 - k) % 8
<1>1. Bins = 0 .. 7 /\ \A n \in 0 .. 7 : n \in Bins /\ n \in Int /\ a[n] \in Vec
  BY DEF Bins, N, SampleBlock
<1>2. m \in Bins /\ k \in Int /\ m \in Int /\ (m = -k \/ m = -k + 8)
  BY <1>1
<1>. HIDE DEF m
<1>3. ASSUME NEW j \in Int PROVE Line(a, m, j) = Line(a, -k, j)
  <2>1. \A n \in 0 .. 7 : /\ j + n * m \in Int /\ j + n * (-k) \in Int
                          /\ (j + n * m) % 8 = (j + n * (-k)) % 8
    <3>. SUFFICES ASSUME NEW n \in 0 .. 7
                  PROVE  /\ j + n * m \in Int /\ j + n * (-k) \in Int
                         /\ (j + n * m) % 8 = (j + n * (-k)) % 8
      OBVIOUS
    <3>1. j + n * m \in Int /\ j + n * (-k) \in Int
      BY <1>2
    <3>2. CASE m = -k
      BY <3>1, <3>2
    <3>3. CASE m = -k + 8
      <4>1. n * m = n * (-k) + 8 * n
        BY <1>2, <3>3
      <4>2. \A r \in Int, q \in Int : r % 8 = (r + 8 * q) % 8
        OBVIOUS
      <4>3. j + n * m = (j + n * (-k)) + 8 * n
        BY <1>2, <4>1
      <4>. QED
        BY <3>1, <4>2, <4>3
    <3>. QED
      BY <1>2, <3>1, <3>2, <3>3
  <2>2. \A n \in 0 .. 7 : Ext(a[n], j + n * m) = Ext(a[n], j + n * (-k))
    BY <1>1, <2>1, ExtTyped
  <2>3. /\ Ext(a[1], j + m) = Ext(a[1], j + (-k))
        /\ Ext(a[2], j + 2 * m) = Ext(a[2], j + 2 * (-k))
        /\ Ext(a[3], j + 3 * m) = Ext(a[3], j + 3 * (-k))
        /\ Ext(a[4], j + 4 * m) = Ext(a[4], j + 4 * (-k))
        /\ Ext(a[5], j + 5 * m) = Ext(a[5], j + 5 * (-k))
        /\ Ext(a[6], j + 6 * m) = Ext(a[6], j + 6 * (-k))
        /\ Ext(a[7], j + 7 * m) = Ext(a[7], j + 7 * (-k))
    <3>1. j + 1 * m = j + m /\ j + 1 * (-k) = j + (-k)
      BY <1>2
    <3>. QED
      BY <2>2, <3>1
  <2>. QED
    BY <2>3, Zenon DEF Line
<1>4. Fftw(a)[m] \in Vec /\ \A j \in Int : Ext(Fftw(a)[m], j) = Line(a, m, j)
  BY <1>2, FftwIs
<1>5. CooleyTukey(a)[k] \in Vec /\ \A j \in Int : Ext(CooleyTukey(a)[k], j) = Line(a, -k, j)
  BY CooleyTukeyIs
<1>6. CooleyTukey(a)[k] = Fftw(a)[m]
  BY <1>3, <1>4, <1>5, ExtEqual
<1>. QED
  BY <1>2, <1>6 DEF m

ByCarrier ==
  INSTANCE FoldLemmas WITH
    Op <- LAMBDA p, s, f : Plus(s, Rotate(<<Carriers[f], 0, 0, 0>>,
                                          p[1] * (BinOf(f, p[2]) - N \div 2)))

\* Steps of e eighths of a circle: all eight are the same, or they cancel out.
LEMMA Circle ==
  ASSUME NEW x \in Vec, NEW e \in Int, NEW j \in Int
  PROVE    (Ext(x, j) + Ext(x, j + e) + Ext(x, j + 2 * e) + Ext(x, j + 3 * e))
         + (Ext(x, j + 4 * e) + Ext(x, j + 5 * e) + Ext(x, j + 6 * e) + Ext(x, j + 7 * e))
         = IF e % 8 = 0 THEN 8 * Ext(x, j) ELSE 0
<1>. DEFINE E(n) == Ext(x, j + n * e)
<1>1. \A n \in 0 .. 7 : j + n * e \in Int
  OBVIOUS
<1>2. \A n \in 0 .. 7 : E(n) \in Int
  BY <1>1, ExtTyped
<1>3. \A n \in 0 .. 7, m \in 0 .. 7 :
        /\ (j + n * e) % 8 = (j + m * e) % 8 => E(n) = E(m)
        /\ (j + n * e) % 8 = ((j + m * e) + 4) % 8 => E(n) = -E(m)
  <2>. SUFFICES ASSUME NEW n \in 0 .. 7, NEW m \in 0 .. 7
                PROVE  /\ (j + n * e) % 8 = (j + m * e) % 8 => E(n) = E(m)
                       /\ (j + n * e) % 8 = ((j + m * e) + 4) % 8 => E(n) = -E(m)
    OBVIOUS
  <2>. DEFINE a == j + n * e
              b == j + m * e
  <2>1. a \in Int /\ b \in Int /\ b + 4 \in Int
    BY <1>1
  <2>. HIDE DEF a, b
  <2>2. /\ a % 8 = b % 8 => Ext(x, a) = Ext(x, b)
        /\ a % 8 = (b + 4) % 8 => Ext(x, a) = Ext(x, b + 4)
        /\ Ext(x, b + 4) = -Ext(x, b)
    BY <2>1, ExtTyped
  <2>. QED
    BY <2>2 DEF a, b
<1>4. E(0) = Ext(x, j) /\ E(1) = Ext(x, j + e)
  <2>1. j + 0 * e = j /\ j + 1 * e = j + e
    OBVIOUS
  <2>. QED
    BY <2>1
<1>. HIDE DEF E
<1>5. (E(0) + E(1) + E(2) + E(3)) + (E(4) + E(5) + E(6) + E(7))
        = IF e % 8 = 0 THEN 8 * E(0) ELSE 0
  <2>0. PICK q \in Int, r \in 0 .. 7 : e = 8 * q + r
    <3>1. e = 8 * (e \div 8) + (e % 8) /\ e \div 8 \in Int /\ e % 8 \in 0 .. 7
      BY SMT
    <3>. QED
      BY <3>1
  <2>1. \A u \in Int, v \in Int : (u + 8 * v) % 8 = u % 8
    OBVIOUS
  <2>2. \A n \in 0 .. 7 : (j + n * e) % 8 = (j + n * r) % 8
    <3>. SUFFICES ASSUME NEW n \in 0 .. 7 PROVE (j + n * e) % 8 = (j + n * r) % 8
      OBVIOUS
    <3>1. j + n * e = (j + n * r) + 8 * (n * q) /\ j + n * r \in Int /\ n * q \in Int
      BY <2>0
    <3>. QED
      BY <2>1, <3>1
  <2>3. \A m \in 0 .. 7 : ((j + m * e) + 4) % 8 = ((j + m * r) + 4) % 8
    <3>. SUFFICES ASSUME NEW n \in 0 .. 7 PROVE ((j + n * e) + 4) % 8 = ((j + n * r) + 4) % 8
      OBVIOUS
    <3>1. (j + n * e) + 4 = ((j + n * r) + 4) + 8 * (n * q) /\ (j + n * r) + 4 \in Int /\ n * q \in Int
      BY <2>0
    <3>. QED
      BY <2>1, <3>1
  <2>4. \A n \in 0 .. 7, m \in 0 .. 7 :
          /\ (j + n * r) % 8 = (j + m * r) % 8 => E(n) = E(m)
          /\ (j + n * r) % 8 = ((j + m * r) + 4) % 8 => E(n) = -E(m)
    BY <1>3, <2>2, <2>3
  <2>5. e % 8 = r
    BY <2>0
  <2>6. /\ E(0) \in Int /\ E(1) \in Int /\ E(2) \in Int /\ E(3) \in Int
        /\ E(4) \in Int /\ E(5) \in Int /\ E(6) \in Int /\ E(7) \in Int
    BY <1>2
  <2>7. CASE r = 0
    <3>1. \A n \in 0 .. 7 : E(n) = E(0)
      BY <2>4, <2>7
    <3>. QED
      BY <2>5, <2>6, <2>7, <3>1
  <2>8. CASE r \in {1, 3, 5, 7}
    <3>1. \A m \in 0 .. 3 : (j + (m + 4) * r) % 8 = ((j + m * r) + 4) % 8
      <4>1. CASE r = 1
        BY <4>1
      <4>2. CASE r = 3
        BY <4>2
      <4>3. CASE r = 5
        BY <4>3
      <4>4. CASE r = 7
        BY <4>4
      <4>. QED
        BY <2>8, <4>1, <4>2, <4>3, <4>4
    <3>2. E(4) = -E(0) /\ E(5) = -E(1) /\ E(6) = -E(2) /\ E(7) = -E(3)
      BY <2>4, <3>1
    <3>. QED
      BY <2>5, <2>6, <2>8, <3>2
  <2>9. CASE r \in {2, 6}
    <3>1. \A m \in {0, 1, 4, 5} : (j + (m + 2) * r) % 8 = ((j + m * r) + 4) % 8
      <4>1. CASE r = 2
        BY <4>1
      <4>2. CASE r = 6
        BY <4>2
      <4>. QED
        BY <2>9, <4>1, <4>2
    <3>2. E(2) = -E(0) /\ E(3) = -E(1) /\ E(6) = -E(4) /\ E(7) = -E(5)
      BY <2>4, <3>1
    <3>3. (E(0) + E(1) + E(2) + E(3)) + (E(4) + E(5) + E(6) + E(7)) = 0
      BY <2>6, <3>2
    <3>. QED
      BY <2>5, <2>9, <3>3
  <2>10. CASE r = 4
    <3>1. \A m \in {0, 2, 4, 6} : (j + (m + 1) * r) % 8 = ((j + m * r) + 4) % 8
      BY <2>10
    <3>2. E(1) = -E(0) /\ E(3) = -E(2) /\ E(5) = -E(4) /\ E(7) = -E(6)
      BY <2>4, <3>1
    <3>. QED
      BY <2>5, <2>6, <2>10, <3>2
  <2>. QED
    BY <2>0, <2>7, <2>8, <2>9, <2>10
<1>. QED
  BY <1>4, <1>5 DEF E

\* A tone is one line.
LEMMA ToneLine ==
  ASSUME NEW x \in Vec, NEW d \in Int, NEW a \in SampleBlock, NEW k \in Int, NEW j \in Int,
         \A n \in Bins : a[n] = Rotate(x, n * d)
  PROVE  Line(a, k, j) = IF (k - d) % 8 = 0 THEN 8 * Ext(x, j) ELSE 0
<1>1. ASSUME NEW n \in 0 .. 7 PROVE Ext(a[n], j + n * k) = Ext(x, j + n * (k - d))
  <2>1. n \in Bins /\ n * d \in Int /\ j + n * k \in Int
    BY DEF Bins, N
  <2>2. Ext(a[n], j + n * k) = Ext(x, (j + n * k) - n * d)
    BY <2>1, RotateTyped
  <2>3. (j + n * k) - n * d = j + n * (k - d)
    OBVIOUS
  <2>. QED
    BY <2>2, <2>3, Zenon
<1>2. /\ Ext(a[0], j) = Ext(x, j) /\ Ext(a[1], j + k) = Ext(x, j + (k - d))
      /\ Ext(a[2], j + 2 * k) = Ext(x, j + 2 * (k - d))
      /\ Ext(a[3], j + 3 * k) = Ext(x, j + 3 * (k - d))
      /\ Ext(a[4], j + 4 * k) = Ext(x, j + 4 * (k - d))
      /\ Ext(a[5], j + 5 * k) = Ext(x, j + 5 * (k - d))
      /\ Ext(a[6], j + 6 * k) = Ext(x, j + 6 * (k - d))
      /\ Ext(a[7], j + 7 * k) = Ext(x, j + 7 * (k - d))
  <2>1. /\ j + 0 * k = j /\ j + 1 * k = j + k
        /\ j + 0 * (k - d) = j /\ j + 1 * (k - d) = j + (k - d)
    OBVIOUS
  <2>. QED
    BY <1>1, <2>1
<1>3. k - d \in Int
  OBVIOUS
<1>4.   (Ext(x, j) + Ext(x, j + (k - d)) + Ext(x, j + 2 * (k - d)) + Ext(x, j + 3 * (k - d)))
      + (Ext(x, j + 4 * (k - d)) + Ext(x, j + 5 * (k - d)) + Ext(x, j + 6 * (k - d))
           + Ext(x, j + 7 * (k - d)))
      = IF (k - d) % 8 = 0 THEN 8 * Ext(x, j) ELSE 0
  BY <1>3, Circle, Zenon
<1>. QED
  BY <1>2, <1>4, Zenon DEF Line

\* The carriers in a sequence, each once.
LEMMA ListIs ==
  ASSUME NEW S, IsFiniteSet(S)
  PROVE  /\ SetToSeq(S) \in Seq(S)
         /\ \A i \in 1 .. Len(SetToSeq(S)), m \in 1 .. Len(SetToSeq(S)) :
              SetToSeq(S)[i] = SetToSeq(S)[m] => i = m
         /\ \A e \in S : \E i \in 1 .. Len(SetToSeq(S)) : SetToSeq(S)[i] = e
<1>. DEFINE c == Cardinality(S)
            q == SetToSeq(S)
<1>1. c \in Nat /\ ExistsBijection(1 .. c, S)
  BY FS_CardinalityType
<1>. HIDE DEF c
<1>2. \E f \in [1 .. c -> S] : IsInjective(f)
  BY <1>1 DEF ExistsBijection, Bijection, Injection
<1>3. q \in [1 .. c -> S] /\ IsInjective(q)
  BY <1>2, Zenon DEF SetToSeq, c
<1>. HIDE DEF q
<1>4. q \in Seq(S) /\ Len(q) = c
  BY <1>1, <1>3
<1>5. q \in Injection(1 .. c, S)
  BY <1>3 DEF Injection
<1>6. Cardinality(1 .. c) = Cardinality(S)
  BY <1>1, FS_Interval DEF c
<1>7. q \in Surjection(1 .. c, S)
  BY <1>5, <1>6, FS_Injection
<1>8. \A e \in S : \E i \in 1 .. c : q[i] = e
  BY <1>7 DEF Surjection
<1>9. \A i \in 1 .. c, m \in 1 .. c : q[i] = q[m] => i = m
  BY <1>3 DEF IsInjective
<1>. QED
  BY <1>4, <1>8, <1>9 DEF q

Width == SampleRate \div N

\* Where a carrier is, in bins from the centre.
Step(f, centre) == BinOf(f, centre) - 4

\* Multiples of a width, and how many it is.
LEMMA Multiples ==
  ASSUME NEW w \in Nat \ {0}
  PROVE  /\ \A d \in Int : d % w = 0 => d \div w \in Int /\ d = w * (d \div w)
         /\ \A x \in Int : (w * x) \div w = x /\ (w * x) % w = 0
  OBVIOUS

\* A carrier on the grid is a whole number of bins away, and that is the bin it is in.
LEMMA BinIs ==
  ASSUME NEW centre \in Nat, OnGrid(centre), NEW f \in DOMAIN Carriers
  PROVE  Step(f, centre) \in Int /\ f = centre + Width * Step(f, centre)
<1>. DEFINE u == (f - centre) \div Width
<1>0. f \in Nat /\ SampleRate \in Nat /\ SampleRate >= 8
  BY SessionAssumption, ScannerAssumption DEF N
<1>1. Width \in Nat \ {0}
  BY <1>0 DEF Width, N
<1>2. f - centre \in Int /\ (f - centre) % Width = 0
  BY <1>0 DEF OnGrid, Width
<1>3. u \in Int /\ f - centre = Width * u
  BY <1>1, <1>2, Multiples, Zenon
<1>4. Step(f, centre) = (u + 8 \div 2) - 4
  BY DEF Step, BinOf, Width, N
<1>. HIDE DEF u
<1>5. Step(f, centre) = u
  BY <1>3, <1>4
<1>. DEFINE x == Width * u
<1>6. x = f - centre => f = centre + x
  <2>. HIDE DEF x
  <2>. QED
    BY <1>0
<1>. QED
  BY <1>3, <1>5, <1>6, Zenon

\* Two carriers that are heard are three to five bins apart.
LEMMA Apart ==
  ASSUME NEW centre \in Nat, OnGrid(centre), NEW f \in Heard(centre), NEW g \in Heard(centre),
         f # g
  PROVE  /\ Step(f, centre) \in -4 .. 3 /\ Step(g, centre) \in -4 .. 3
         /\ Step(f, centre) - Step(g, centre) \in 3 .. 5
              \/ Step(g, centre) - Step(f, centre) \in 3 .. 5
<1>1. ASSUME NEW a \in Heard(centre), NEW b \in Heard(centre), a > b
      PROVE  /\ Step(a, centre) \in -4 .. 3 /\ Step(b, centre) \in -4 .. 3
             /\ Step(a, centre) - Step(b, centre) \in 3 .. 5
  <2>. DEFINE u == Step(a, centre)
              v == Step(b, centre)
  <2>1. a \in DOMAIN Carriers /\ b \in DOMAIN Carriers /\ a \in Nat /\ b \in Nat
    BY SessionAssumption DEF Heard
  <2>2. /\ u \in Int /\ a = centre + Width * u
        /\ v \in Int /\ b = centre + Width * v
    BY <2>1, BinIs
  <2>3. BinOf(a, centre) \in 0 .. 7 /\ BinOf(b, centre) \in 0 .. 7
    BY DEF Heard, Bins, N
  <2>4. u \in -4 .. 3 /\ v \in -4 .. 3
    BY <2>2, <2>3 DEF Step
  <2>5. Width \in Nat \ {0}
    BY SessionAssumption, ScannerAssumption DEF Width, N
  <2>. HIDE DEF u, v
  <2>6. a - b = Width * (u - v) /\ u - v \in Int
    BY <2>2, <2>5
  <2>7. (a - b) \div Width = u - v
    BY <2>5, <2>6, Multiples
  <2>8. (a - b) \div Width \in 3 .. 5 \/ (a - b) \div Width >= 8
    BY <1>1, <2>1, ScannerAssumption DEF Width, N
  <2>9. u - v \in 3 .. 5
    BY <2>4, <2>7, <2>8
  <2>. QED
    BY <2>4, <2>9 DEF u, v
<1>2. f > g \/ g > f
  <2>1. f \in Nat /\ g \in Nat
    BY SessionAssumption DEF Heard
  <2>. QED
    BY <2>1
<1>3. CASE f > g
  BY <1>1, <1>3
<1>4. CASE g > f
  BY <1>1, <1>4
<1>. QED
  BY <1>2, <1>3, <1>4

\* A sample is the sum of what each carrier adds to it.
LEMMA SampleIs ==
  ASSUME NEW p, p[1] \in Bins
  PROVE  Samples(p[2])[p[1]] = ByCarrier!Fold(p, Zero, SetToSeq(Heard(p[2])))
  BY Zenon DEF Samples, FoldLeft, MapThenFoldSet, Max, ByCarrier!Fold, ByCarrier!FoldLeft,
               ByCarrier!MapThenFoldSet, ByCarrier!Max

\* The line a carrier is on; as the transform counts, from the centre up.
Hits(f, centre, k) == (k - Step(f, centre)) % 8 = 0

\* Two carriers are never on one line.
LEMMA OnlyOneHits ==
  ASSUME NEW centre \in Nat, OnGrid(centre), NEW f \in Heard(centre), NEW g \in Heard(centre),
         NEW k \in Bins, Hits(f, centre, k), Hits(g, centre, k)
  PROVE  f = g
<1>. SUFFICES ASSUME f # g PROVE FALSE
  OBVIOUS
<1>. DEFINE u == Step(f, centre)
            v == Step(g, centre)
<1>1. /\ u \in -4 .. 3 /\ v \in -4 .. 3
      /\ u - v \in 3 .. 5 \/ v - u \in 3 .. 5
  BY Apart
<1>2. (k - u) % 8 = 0 /\ (k - v) % 8 = 0 /\ k \in Int
  BY DEF Hits, Bins, N
<1>. HIDE DEF u, v
<1>. QED
  BY <1>1, <1>2

\* The lines of a block of samples.
LEMMA SamplesAre ==
  ASSUME NEW centre \in Nat, OnGrid(centre)
  PROVE  /\ Samples(centre) \in SampleBlock
         /\ \A k \in Bins, j \in Int :
              /\ \A f \in Heard(centre) :
                   Hits(f, centre, k) =>
                     Line(Samples(centre), k, j) = 8 * Ext(<<Carriers[f], 0, 0, 0>>, j)
              /\ (\A f \in Heard(centre) : ~Hits(f, centre, k)) =>
                     Line(Samples(centre), k, j) = 0
<1>. DEFINE H == Heard(centre)
            q == SetToSeq(H)
            c == Len(q)
            x(f) == <<Carriers[f], 0, 0, 0>>
            Tone(f) == [n \in Bins |-> Rotate(x(f), n * Step(f, centre))]
<1>1. H \subseteq DOMAIN Carriers /\ IsFiniteSet(H)
  <2>1. H \subseteq DOMAIN Carriers
    BY DEF Heard
  <2>. QED
    BY <2>1, ScannerAssumption, FS_Subset
<1>2. /\ q \in Seq(H) /\ c \in Nat /\ \A i \in 1 .. c : q[i] \in H
      /\ \A i \in 1 .. c, m \in 1 .. c : q[i] = q[m] => i = m
      /\ \A f \in H : \E i \in 1 .. c : q[i] = f
  <2>1. /\ q \in Seq(H)
        /\ \A i \in 1 .. c, m \in 1 .. c : q[i] = q[m] => i = m
        /\ \A f \in H : \E i \in 1 .. c : q[i] = f
    BY <1>1, ListIs
  <2>2. c \in Nat /\ \A i \in 1 .. c : q[i] \in H
    BY <2>1
  <2>. QED
    BY <2>1, <2>2
<1>3. ASSUME NEW f \in H PROVE Step(f, centre) \in Int /\ x(f) \in Vec
  <2>1. Step(f, centre) \in Int
    BY <1>1, BinIs
  <2>2. Carriers[f] \in Int
    BY <1>1, ScannerAssumption
  <2>. QED
    BY <2>1, <2>2, ZeroTyped
<1>4. ASSUME NEW f \in H PROVE Tone(f) \in SampleBlock
  <2>1. \A n \in Bins : n * Step(f, centre) \in Int
    <3>1. \A n \in Bins : n \in Int
      BY DEF Bins, N
    <3>2. \A n \in Int, d \in Int : n * d \in Int
      OBVIOUS
    <3>. QED
      BY <1>3, <3>1, <3>2, Zenon
  <2>2. \A n \in Bins : Rotate(x(f), n * Step(f, centre)) \in Vec
    BY <1>3, <2>1, RotateTyped, Zenon
  <2>. QED
    BY <2>2 DEF SampleBlock
<1>5. ASSUME NEW f \in H, NEW k \in Bins, NEW j \in Int
      PROVE  Line(Tone(f), k, j) = IF Hits(f, centre, k) THEN 8 * Ext(x(f), j) ELSE 0
  <2>. DEFINE a == Tone(f)
              d == Step(f, centre)
  <2>1. a \in SampleBlock /\ d \in Int /\ x(f) \in Vec /\ k \in Int
    BY <1>3, <1>4 DEF Bins, N
  <2>2. \A n \in Bins : a[n] = Rotate(x(f), n * d)
    OBVIOUS
  <2>. HIDE DEF a
  <2>3. Line(a, k, j) = IF (k - d) % 8 = 0 THEN 8 * Ext(x(f), j) ELSE 0
    BY <2>1, <2>2, ToneLine, Zenon
  <2>. QED
    BY <2>3, Zenon DEF Hits, a
<1>. DEFINE Sum(g, n) == /\ g[0] = Zero
                         /\ \A i \in 1 .. c : g[i] = Plus(g[i - 1], Tone(q[i])[n])
                         /\ g[c] = Samples(centre)[n]
            G == [n \in Bins |-> CHOOSE g : Sum(g, n)]
<1>6. ASSUME NEW n \in Bins PROVE \E g : Sum(g, n)
  <2>. DEFINE p == <<n, centre>>
  <2>1. p[1] = n /\ p[2] = centre
    OBVIOUS
  <2>. HIDE DEF p
  <2>2. Samples(centre)[n] = ByCarrier!Fold(p, Zero, q)
    BY <2>1, SampleIs, Zenon
  <2>3. PICK g : /\ g[0] = Zero
                 /\ \A i \in 1 .. c : g[i] = Plus(g[i - 1], Rotate(x(q[i]), p[1] * (BinOf(q[i], p[2]) - N \div 2)))
                 /\ g[c] = ByCarrier!Fold(p, Zero, q)
    BY <1>2, ByCarrier!FoldTrace, Zenon
  <2>4. N \div 2 = 4
    BY DEF N
  <2>5. \A f : Rotate(x(f), p[1] * (BinOf(f, p[2]) - N \div 2)) = Tone(f)[n]
    BY <2>1, <2>4, Zenon DEF Step
  <2>6. Sum(g, n)
    BY <2>2, <2>3, <2>5, Zenon
  <2>. QED
    BY <2>6
<1>7. \A n \in Bins : Sum(G[n], n)
  BY <1>6, Zenon
<1>. HIDE DEF G, q, c, H, Tone, x
<1>. DEFINE A(i) == [n \in Bins |-> G[n][i]]
            Lit(i, k) == \E m \in 1 .. i : Hits(q[m], centre, k)
            Inv(i) ==
              /\ A(i) \in SampleBlock
              /\ \A k \in Bins, j \in Int :
                   /\ \A m \in 1 .. i :
                        Hits(q[m], centre, k) => Line(A(i), k, j) = 8 * Ext(x(q[m]), j)
                   /\ (\A m \in 1 .. i : ~Hits(q[m], centre, k)) => Line(A(i), k, j) = 0
            S == {i \in Nat : i <= c => Inv(i)}
<1>8. 0 \in S
  <2>1. \A n \in Bins : A(0)[n] = Zero
    BY <1>7
  <2>2. A(0) \in SampleBlock
    BY <1>7, ZeroTyped DEF SampleBlock
  <2>3. 0 \in Bins /\ 1 \in Bins /\ 2 \in Bins /\ 3 \in Bins /\ 4 \in Bins /\ 5 \in Bins
        /\ 6 \in Bins /\ 7 \in Bins
    BY DEF Bins, N
  <2>. DEFINE a == A(0)
  <2>. HIDE DEF a
  <2>4. ASSUME NEW k \in Bins, NEW j \in Int PROVE Line(a, k, j) = 0
    <3>1. \A n \in Bins : \A i \in Int : Ext(a[n], i) = 0
      BY <2>1, ZeroTyped DEF a
    <3>2. k \in Int
      BY DEF Bins, N
    <3>3. /\ j + k \in Int /\ j + 2 * k \in Int /\ j + 3 * k \in Int /\ j + 4 * k \in Int
          /\ j + 5 * k \in Int /\ j + 6 * k \in Int /\ j + 7 * k \in Int
      BY <3>2
    <3>. QED
      BY <2>3, <3>1, <3>3 DEF Line
  <2>. QED
    BY <2>2, <2>4 DEF a
<1>9. ASSUME NEW i \in Nat, i \in S PROVE i + 1 \in S
  <2>. SUFFICES ASSUME i + 1 <= c PROVE Inv(i + 1)
    OBVIOUS
  <2>. DEFINE f == q[i + 1]
              a == A(i)
              b == A(i + 1)
  <2>1. i + 1 \in 1 .. c /\ (i + 1) - 1 = i /\ f \in H
    BY <1>2
  <2>2. Inv(i)
    <3>1. i <= c
      BY <1>2
    <3>. HIDE DEF Inv
    <3>. QED
      BY <1>9, <3>1
  <2>3. Tone(f) \in SampleBlock
    BY <1>4, <2>1
  <2>4. \A n \in Bins : b[n] = Plus(a[n], Tone(f)[n])
    BY <1>7, <2>1
  <2>5. \A n \in Bins : b[n] \in Vec /\ \A j \in Int : Ext(b[n], j) = Ext(a[n], j) + Ext(Tone(f)[n], j)
    <3>1. \A n \in Bins : a[n] \in Vec /\ Tone(f)[n] \in Vec
      BY <2>2, <2>3 DEF SampleBlock
    <3>. HIDE DEF a, b, f
    <3>. QED
      BY <2>4, <3>1, SumTyped
  <2>6. b \in SampleBlock
    <3>1. b = [n \in Bins |-> b[n]]
      OBVIOUS
    <3>. HIDE DEF a, b, f
    <3>. QED
      BY <2>5, <3>1 DEF SampleBlock
  <2>7. a \in SampleBlock
    BY <2>2
  <2>. DEFINE t == Tone(f)
  <2>. HIDE DEF t
  <2>8. ASSUME NEW k \in Bins, NEW j \in Int
        PROVE  Line(b, k, j) = Line(a, k, j) + Line(t, k, j) /\ Line(a, k, j) \in Int
    <3>. HIDE DEF a, b, f
    <3>1. k \in Int /\ Bins = 0 .. 7
      BY DEF Bins, N
    <3>2. /\ j + k \in Int /\ j + 2 * k \in Int /\ j + 3 * k \in Int /\ j + 4 * k \in Int
          /\ j + 5 * k \in Int /\ j + 6 * k \in Int /\ j + 7 * k \in Int
      BY <3>1
    <3>3. \A n \in 0 .. 7 : \A m \in Int :
            /\ Ext(b[n], m) = Ext(a[n], m) + Ext(t[n], m)
            /\ Ext(a[n], m) \in Int /\ Ext(t[n], m) \in Int
      BY <2>3, <2>5, <2>7, <3>1, ExtTyped DEF SampleBlock, t
    <3>4. /\ Ext(b[0], j) = Ext(a[0], j) + Ext(t[0], j)
          /\ Ext(b[1], j + k) = Ext(a[1], j + k) + Ext(t[1], j + k)
          /\ Ext(b[2], j + 2 * k) = Ext(a[2], j + 2 * k) + Ext(t[2], j + 2 * k)
          /\ Ext(b[3], j + 3 * k) = Ext(a[3], j + 3 * k) + Ext(t[3], j + 3 * k)
          /\ Ext(b[4], j + 4 * k) = Ext(a[4], j + 4 * k) + Ext(t[4], j + 4 * k)
          /\ Ext(b[5], j + 5 * k) = Ext(a[5], j + 5 * k) + Ext(t[5], j + 5 * k)
          /\ Ext(b[6], j + 6 * k) = Ext(a[6], j + 6 * k) + Ext(t[6], j + 6 * k)
          /\ Ext(b[7], j + 7 * k) = Ext(a[7], j + 7 * k) + Ext(t[7], j + 7 * k)
      BY <3>2, <3>3
    <3>5. /\ Ext(a[0], j) \in Int /\ Ext(a[1], j + k) \in Int /\ Ext(a[2], j + 2 * k) \in Int
          /\ Ext(a[3], j + 3 * k) \in Int /\ Ext(a[4], j + 4 * k) \in Int
          /\ Ext(a[5], j + 5 * k) \in Int /\ Ext(a[6], j + 6 * k) \in Int
          /\ Ext(a[7], j + 7 * k) \in Int
          /\ Ext(t[0], j) \in Int /\ Ext(t[1], j + k) \in Int /\ Ext(t[2], j + 2 * k) \in Int
          /\ Ext(t[3], j + 3 * k) \in Int /\ Ext(t[4], j + 4 * k) \in Int
          /\ Ext(t[5], j + 5 * k) \in Int /\ Ext(t[6], j + 6 * k) \in Int
          /\ Ext(t[7], j + 7 * k) \in Int
      BY <3>2, <3>3
    <3>. QED
      BY <3>4, <3>5 DEF Line
  <2>9. ASSUME NEW k \in Bins, NEW j \in Int
        PROVE  Line(t, k, j) = IF Hits(f, centre, k) THEN 8 * Ext(x(f), j) ELSE 0
    BY <1>5, <2>1, Zenon DEF t
  <2>10. ASSUME NEW k \in Bins, NEW j \in Int
         PROVE  /\ \A m \in 1 .. i + 1 :
                     Hits(q[m], centre, k) => Line(b, k, j) = 8 * Ext(x(q[m]), j)
                /\ (\A m \in 1 .. i + 1 : ~Hits(q[m], centre, k)) => Line(b, k, j) = 0
    <3>1. /\ \A m \in 1 .. i :
               Hits(q[m], centre, k) => Line(a, k, j) = 8 * Ext(x(q[m]), j)
          /\ (\A m \in 1 .. i : ~Hits(q[m], centre, k)) => Line(a, k, j) = 0
      BY <2>2, Zenon
    <3>2. /\ Line(b, k, j) = Line(a, k, j) + Line(t, k, j) /\ Line(a, k, j) \in Int
          /\ Line(t, k, j) = IF Hits(f, centre, k) THEN 8 * Ext(x(f), j) ELSE 0
      BY <2>8, <2>9
    <3>3. Ext(x(f), j) \in Int
      BY <1>3, <2>1, ExtTyped
    <3>4. \A m \in 1 .. i + 1 : /\ m \in 1 .. c /\ q[m] \in H
                                /\ m = i + 1 \/ m \in 1 .. i
      BY <1>2, <2>1
    <3>5. i + 1 \in 1 .. i + 1 /\ \A m \in 1 .. i : m \in 1 .. i + 1 /\ m # i + 1
      OBVIOUS
    <3>. HIDE DEF a, b
    <3>6. CASE Hits(f, centre, k)
      <4>1. \A m \in 1 .. i : ~Hits(q[m], centre, k)
        <5>. SUFFICES ASSUME NEW m \in 1 .. i, Hits(q[m], centre, k) PROVE FALSE
          OBVIOUS
        <5>1. m \in 1 .. c /\ q[m] \in H /\ m # i + 1
          BY <3>4, <3>5
        <5>2. q[m] = f
          BY <2>1, <3>6, <5>1, OnlyOneHits DEF H
        <5>. QED
          BY <1>2, <2>1, <5>1, <5>2
      <4>2. Line(b, k, j) = 8 * Ext(x(f), j)
        BY <3>1, <3>2, <3>3, <3>6, <4>1
      <4>. QED
        BY <3>4, <3>5, <3>6, <4>1, <4>2, Zenon
    <3>7. CASE ~Hits(f, centre, k)
      <4>1. Line(b, k, j) = Line(a, k, j)
        BY <3>2, <3>7
      <4>. QED
        BY <3>1, <3>4, <3>5, <3>7, <4>1, Zenon
    <3>. QED
      BY <3>6, <3>7
  <2>. QED
    BY <2>6, <2>10
<1>10. Inv(c)
  <2>. HIDE DEF Inv
  <2>1. c \in S
    BY <1>2, <1>8, <1>9, ByRound!NatSetInduction, Zenon
  <2>. QED
    BY <1>2, <2>1
<1>11. A(c) = Samples(centre)
  <2>1. Samples(centre) = [n \in Bins |-> Samples(centre)[n]]
    BY DEF Samples
  <2>2. \A n \in Bins : G[n][c] = Samples(centre)[n]
    BY <1>7
  <2>. QED
    BY <2>1, <2>2
<1>12. ASSUME NEW k \in Bins, NEW j \in Int, NEW f \in H, Hits(f, centre, k)
       PROVE  Line(A(c), k, j) = 8 * Ext(x(f), j)
  <2>1. PICK m \in 1 .. c : q[m] = f
    BY <1>2
  <2>. QED
    BY <1>10, <1>12, <2>1, Zenon
<1>13. ASSUME NEW k \in Bins, NEW j \in Int, \A f \in H : ~Hits(f, centre, k)
       PROVE  Line(A(c), k, j) = 0
  BY <1>2, <1>10, <1>13
<1>14. A(c) \in SampleBlock
  BY <1>10
<1>. HIDE DEF A
<1>. QED
  BY <1>11, <1>12, <1>13, <1>14 DEF H, x

ByPower == INSTANCE FoldLemmas WITH Op <- LAMBDA p, s, i : s + p[i - 1]

Fft(centre, build) == IF build THEN Fftw(Samples(centre)) ELSE CooleyTukey(Samples(centre))

\* The line of the spectrum that ends up in bin k.
Source(build, k) == IF build THEN Shifted(k) ELSE (8 - Shifted(k)) % 8

\* A carrier that is seen in bin k.
Lights(f, centre, build, k) == Hits(f, centre, Source(build, k))

\* The transform of a block: a carrier's amplitude where one is seen, nothing elsewhere.
LEMMA FftIs ==
  ASSUME NEW centre \in Nat, OnGrid(centre), NEW build \in BOOLEAN, NEW k \in Bins
  PROVE  /\ \A f \in Heard(centre) :
              Lights(f, centre, build, k) =>
                Fft(centre, build)[Shifted(k)] = <<8 * Carriers[f], 0, 0, 0>>
         /\ (\A f \in Heard(centre) : ~Lights(f, centre, build, k)) =>
              Fft(centre, build)[Shifted(k)] = Zero
<1>. DEFINE a == Samples(centre)
            s == Source(build, k)
            z == Fft(centre, build)[Shifted(k)]
<1>1. Shifted(k) \in Bins /\ s \in Bins
  BY DEF Shifted, Source, Bins, N
<1>2. a \in SampleBlock
  BY SamplesAre
<1>3. z = Fftw(a)[s]
  <2>1. CASE build
    BY <2>1 DEF Fft, Source
  <2>2. CASE ~build
    <3>1. CooleyTukey(a)[Shifted(k)] = Fftw(a)[(8 - Shifted(k)) % 8]
      BY <1>1, <1>2, StandInMirrorsTheSpectrum
    <3>. QED
      BY <2>2, <3>1, Zenon DEF Fft, Source
  <2>. QED
    BY <2>1, <2>2
<1>. HIDE DEF z, s, a
<1>4. z \in Vec /\ \A j \in Int : Ext(z, j) = Line(a, s, j)
  BY <1>1, <1>2, <1>3, FftwIs, Zenon
<1>5. ASSUME NEW f \in Heard(centre), Hits(f, centre, s)
      PROVE  z = <<8 * Carriers[f], 0, 0, 0>>
  <2>. DEFINE c == Carriers[f]
  <2>1. c \in Int /\ 8 * c \in Int
    BY ScannerAssumption DEF Heard
  <2>. HIDE DEF c
  <2>. DEFINE x == <<c, 0, 0, 0>>
              y == <<8 * c, 0, 0, 0>>
  <2>2. y \in Vec /\ \A j \in Int : Ext(y, j) = 8 * Ext(x, j)
    <3>1. /\ y \in Vec
          /\ \A j \in Int : /\ Ext(y, j) = IF j % 8 = 0 THEN 8 * c ELSE IF j % 8 = 4 THEN -(8 * c) ELSE 0
                            /\ Ext(x, j) = IF j % 8 = 0 THEN c ELSE IF j % 8 = 4 THEN -c ELSE 0
      BY <2>1, ZeroTyped, Zenon
    <3>. HIDE DEF x, y
    <3>2. -(8 * c) = 8 * (-c) /\ 8 * 0 = 0
      BY <2>1
    <3>. QED
      BY <3>1, <3>2, Zenon
  <2>3. \A j \in Int : Line(a, s, j) = 8 * Ext(x, j)
    BY <1>1, <1>5, SamplesAre DEF a, c
  <2>. HIDE DEF x, y
  <2>4. z = y
    BY <1>4, <2>2, <2>3, ExtEqual
  <2>. QED
    BY <2>4 DEF y, c
<1>6. ASSUME \A f \in Heard(centre) : ~Hits(f, centre, s) PROVE z = Zero
  <2>1. \A j \in Int : Line(a, s, j) = 0
    BY <1>1, <1>6, SamplesAre DEF a
  <2>. QED
    BY <1>4, <2>1, ZeroTyped, ExtEqual
<1>. QED
  BY <1>5, <1>6 DEF Lights, s, z

\* Its power, in dB.
LEMMA SpectrumIs ==
  ASSUME NEW centre \in Nat, OnGrid(centre), NEW build \in BOOLEAN, NEW k \in Bins
  PROVE  /\ PowerSpectrum(Fft(centre, build))[k] \in {-120, 0, 6}
         /\ PowerSpectrum(Fft(centre, build))[k] # -120 <=>
              \E f \in Heard(centre) : Lights(f, centre, build, k)
<1>. DEFINE z == Fft(centre, build)[Shifted(k)]
            p == PowerSpectrum(Fft(centre, build))[k]
<1>1. p = Db(MagSq(z))
  BY DEF PowerSpectrum
<1>. HIDE DEF z, p
<1>2. CASE \E f \in Heard(centre) : Lights(f, centre, build, k)
  <2>1. PICK f \in Heard(centre) : Lights(f, centre, build, k)
    BY <1>2
  <2>2. z = <<8 * Carriers[f], 0, 0, 0>>
    BY <2>1, FftIs DEF z
  <2>3. Carriers[f] \in {1, 2}
    BY ScannerAssumption DEF Heard
  <2>4. CASE Carriers[f] = 1
    <3>1. z = <<8, 0, 0, 0>>
      BY <2>2, <2>4
    <3>2. MagSq(z) = 1
      BY <3>1 DEF MagSq, N
    <3>. QED
      BY <1>1, <1>2, <3>2 DEF Db, p
  <2>5. CASE Carriers[f] = 2
    <3>1. z = <<16, 0, 0, 0>>
      BY <2>2, <2>5
    <3>2. MagSq(z) = 4
      BY <3>1 DEF MagSq, N
    <3>. QED
      BY <1>1, <1>2, <3>2 DEF Db, p
  <2>. QED
    BY <2>3, <2>4, <2>5
<1>3. CASE \A f \in Heard(centre) : ~Lights(f, centre, build, k)
  <2>1. z = Zero
    BY <1>3, FftIs DEF z
  <2>2. MagSq(z) = 0
    BY <2>1 DEF MagSq, Zero, N
  <2>. QED
    BY <1>1, <1>3, <2>2 DEF Db, p
<1>. QED
  BY <1>2, <1>3

\* A bin that is neither at the edge nor within two of another one lit is a peak
\* if it is lit, and only then.
LEMMA PeakIs ==
  ASSUME NEW p, \A i \in 0 .. 7 : p[i] \in {-120, 0, 6}, NEW k \in 2 .. 5,
         p[k] # -120 => \A i \in {k - 2, k - 1, k + 1, k + 2} : p[i] = -120
  PROVE  IsPeak(p, k) <=> p[k] # -120
<1>. DEFINE s == [i \in 1 .. N |-> i]
            total == FoldLeft(LAMBDA t, i : t + p[i - 1], 0, s)
<1>1. s \in Seq(Nat) /\ Len(s) = 8 /\ \A i \in 1 .. 8 : s[i] = i
  BY DEF N
<1>2. IsPeak(p, k) <=> /\ N * p[k] - total >= N * ThresholdDb
                       /\ \A j \in {k - 2, k - 1, k + 1, k + 2} : p[k] > p[j]
  BY Zenon DEF IsPeak
<1>. HIDE DEF s
<1>3. total = ByPower!Fold(p, 0, s)
  BY Zenon DEF FoldLeft, MapThenFoldSet, Max, ByPower!Fold, ByPower!FoldLeft,
               ByPower!MapThenFoldSet, ByPower!Max
<1>. HIDE DEF total
<1>4. PICK g : /\ g[0] = 0
               /\ \A i \in 1 .. Len(s) : g[i] = g[i - 1] + p[s[i] - 1]
               /\ g[Len(s)] = ByPower!Fold(p, 0, s)
  BY <1>1, ByPower!FoldTrace, Zenon
<1>5. \A i \in 1 .. 8 : g[i] = g[i - 1] + p[i - 1]
  BY <1>1, <1>4, Zenon
<1>6. /\ p[0] \in Int /\ p[1] \in Int /\ p[2] \in Int /\ p[3] \in Int
      /\ p[4] \in Int /\ p[5] \in Int /\ p[6] \in Int /\ p[7] \in Int
  <2>1. \A i \in 0 .. 7 : p[i] \in Int
    OBVIOUS
  <2>. QED
    BY <2>1
<1>7. total = p[0] + p[1] + p[2] + p[3] + p[4] + p[5] + p[6] + p[7]
  <2>1. /\ g[1] = g[0] + p[0] /\ g[2] = g[1] + p[1] /\ g[3] = g[2] + p[2] /\ g[4] = g[3] + p[3]
        /\ g[5] = g[4] + p[4] /\ g[6] = g[5] + p[5] /\ g[7] = g[6] + p[6] /\ g[8] = g[7] + p[7]
    BY <1>5
  <2>2. g[8] = total
    BY <1>1, <1>3, <1>4, Zenon
  <2>. QED
    BY <1>4, <1>6, <2>1, <2>2
<1>8. CASE p[k] = -120
  <2>1. k - 1 \in 0 .. 7
    OBVIOUS
  <2>2. ~(p[k] > p[k - 1])
    BY <1>8, <2>1
  <2>. QED
    BY <1>2, <1>8, <2>2
<1>9. CASE p[k] # -120
  <2>1. p[k] \in {0, 6} /\ \A j \in {k - 2, k - 1, k + 1, k + 2} : p[k] > p[j]
    <3>1. k \in 0 .. 7
      OBVIOUS
    <3>2. p[k] \in {0, 6}
      BY <1>9, <3>1
    <3>. QED
      BY <1>9, <3>2
  <2>2. \A i \in 0 .. 7 : p[i] <= 6
    OBVIOUS
  <2>3. /\ p[0] <= 6 /\ p[1] <= 6 /\ p[2] <= 6 /\ p[3] <= 6
        /\ p[4] <= 6 /\ p[5] <= 6 /\ p[6] <= 6 /\ p[7] <= 6
    BY <2>2
  <2>4. total <= p[k] + 18 - 480
    <3>1. \A i \in {k - 2, k - 1, k + 1, k + 2} : p[i] = -120
      BY <1>9
    <3>2. CASE k = 2
      <4>1. p[0] = -120 /\ p[1] = -120 /\ p[3] = -120 /\ p[4] = -120
        BY <3>1, <3>2
      <4>. QED
        BY <1>6, <1>7, <2>3, <3>2, <4>1
    <3>3. CASE k = 3
      <4>1. p[1] = -120 /\ p[2] = -120 /\ p[4] = -120 /\ p[5] = -120
        BY <3>1, <3>3
      <4>. QED
        BY <1>6, <1>7, <2>3, <3>3, <4>1
    <3>4. CASE k = 4
      <4>1. p[2] = -120 /\ p[3] = -120 /\ p[5] = -120 /\ p[6] = -120
        BY <3>1, <3>4
      <4>. QED
        BY <1>6, <1>7, <2>3, <3>4, <4>1
    <3>5. CASE k = 5
      <4>1. p[3] = -120 /\ p[4] = -120 /\ p[6] = -120 /\ p[7] = -120
        BY <3>1, <3>5
      <4>. QED
        BY <1>6, <1>7, <2>3, <3>5, <4>1
    <3>. QED
      BY <3>2, <3>3, <3>4, <3>5
  <2>5. total \in Int
    BY <1>6, <1>7
  <2>6. N * p[k] - total >= N * ThresholdDb
    BY <2>1, <2>4, <2>5, ScannerAssumption DEF N
  <2>. QED
    BY <1>2, <1>9, <2>1, <2>6
<1>. QED
  BY <1>8, <1>9

\* Where a carrier lights up.
LEMMA LightIs ==
  ASSUME NEW centre \in Nat, OnGrid(centre), NEW build \in BOOLEAN, NEW f \in Heard(centre),
         NEW k \in Bins
  PROVE  /\ Step(f, centre) \in -4 .. 3
         /\ Lights(f, centre, build, k) <=>
              IF build THEN k = 4 + Step(f, centre)
              ELSE k = 4 - Step(f, centre) \/ (k = 0 /\ Step(f, centre) = -4)
<1>. DEFINE u == Step(f, centre)
<1>1. u \in -4 .. 3
  <2>1. u \in Int
    BY BinIs DEF Heard
  <2>2. BinOf(f, centre) \in 0 .. 7
    BY DEF Heard, Bins, N
  <2>. QED
    BY <2>1, <2>2 DEF Step
<1>2. k \in 0 .. 7
  BY DEF Bins, N
<1>3. Lights(f, centre, build, k) <=> (Source(build, k) - u) % 8 = 0
  BY DEF Lights, Hits
<1>4. Source(build, k) = IF build THEN (k + 4) % 8 ELSE (8 - ((k + 4) % 8)) % 8
  BY DEF Source, Shifted, N
<1>. HIDE DEF u
<1>5. CASE build
  <2>1. (((k + 4) % 8) - u) % 8 = 0 <=> k = 4 + u
    BY <1>1, <1>2
  <2>. QED
    BY <1>1, <1>3, <1>4, <1>5, <2>1 DEF u
<1>6. CASE ~build
  <2>1. (((8 - ((k + 4) % 8)) % 8) - u) % 8 = 0 <=> k = 4 - u \/ (k = 0 /\ u = -4)
    BY <1>1, <1>2
  <2>. QED
    BY <1>1, <1>3, <1>4, <1>6, <2>1 DEF u
<1>. QED
  BY <1>5, <1>6

\* What the scanner takes for a peak.
LEMMA PeaksAre ==
  ASSUME NEW centre \in Nat, OnGrid(centre), NEW build \in BOOLEAN, NEW k \in 2 .. 5
  PROVE  IsPeak(PowerSpectrum(Fft(centre, build)), k) <=>
           \E f \in Heard(centre) :
             k = IF build THEN 4 + Step(f, centre) ELSE 4 - Step(f, centre)
<1>. DEFINE p == PowerSpectrum(Fft(centre, build))
<1>1. Bins = 0 .. 7 /\ k \in Bins
  BY DEF Bins, N
<1>2. \A i \in 0 .. 7 : /\ p[i] \in {-120, 0, 6}
                        /\ p[i] # -120 <=> \E f \in Heard(centre) : Lights(f, centre, build, i)
  BY <1>1, SpectrumIs
<1>. HIDE DEF p
<1>3. p[k] # -120 => \A i \in {k - 2, k - 1, k + 1, k + 2} : p[i] = -120
  <2>. SUFFICES ASSUME p[k] # -120, NEW i \in {k - 2, k - 1, k + 1, k + 2}, p[i] # -120
                PROVE  FALSE
    OBVIOUS
  <2>1. i \in 0 .. 7
    OBVIOUS
  <2>2. PICK f \in Heard(centre) : Lights(f, centre, build, k)
    BY <1>1, <1>2
  <2>3. PICK g \in Heard(centre) : Lights(g, centre, build, i)
    BY <1>2, <2>1
  <2>. DEFINE u == Step(f, centre)
              v == Step(g, centre)
  <2>4. /\ u \in -4 .. 3
        /\ IF build THEN k = 4 + u ELSE k = 4 - u \/ (k = 0 /\ u = -4)
    BY <1>1, <2>2, LightIs
  <2>5. /\ v \in -4 .. 3
        /\ IF build THEN i = 4 + v ELSE i = 4 - v \/ (i = 0 /\ v = -4)
    BY <1>1, <2>1, <2>3, LightIs
  <2>6. f # g => u - v \in 3 .. 5 \/ v - u \in 3 .. 5
    BY Apart
  <2>7. f = g => u = v
    OBVIOUS
  <2>. HIDE DEF u, v
  <2>. QED
    BY <2>1, <2>4, <2>5, <2>6, <2>7
<1>4. IsPeak(p, k) <=> p[k] # -120
  BY <1>2, <1>3, PeakIs
<1>5. \A f \in Heard(centre) :
        Lights(f, centre, build, k) <=>
          k = IF build THEN 4 + Step(f, centre) ELSE 4 - Step(f, centre)
  BY <1>1, LightIs
<1>. QED
  BY <1>1, <1>2, <1>4, <1>5 DEF p

\* What a filter keeps.
LEMMA Selected ==
  \A T : \A s \in Seq(T) : \A Good, f :
    f[0] = <<>> /\ (\A i \in 1 .. Len(s) :
                      f[i] = IF s[i] \in Good THEN Append(f[i - 1], s[i]) ELSE f[i - 1])
    => /\ f[Len(s)] \in Seq(T)
       /\ \A e : e \in ToSet(f[Len(s)]) <=> e \in Good /\ \E i \in 1 .. Len(s) : e = s[i]
<1>. TAKE T
<1>. TAKE s \in Seq(T)
<1>. TAKE Good, f
<1>. HAVE f[0] = <<>> /\ (\A i \in 1 .. Len(s) :
                           f[i] = IF s[i] \in Good THEN Append(f[i - 1], s[i]) ELSE f[i - 1])
<1>. DEFINE n == Len(s)
            Has(t, e) == \E i \in 1 .. Len(t) : t[i] = e
            Inv(m) == /\ f[m] \in Seq(T)
                      /\ \A e : Has(f[m], e) <=> e \in Good /\ \E i \in 1 .. m : e = s[i]
            S == {m \in Nat : m <= n => Inv(m)}
<1>1. n \in Nat /\ \A i \in 1 .. n : s[i] \in T
  OBVIOUS
<1>2. ASSUME NEW t \in Seq(T), NEW x \in T
      PROVE  /\ Append(t, x) \in Seq(T)
             /\ \A e : Has(Append(t, x), e) <=> Has(t, e) \/ e = x
  <2>1. /\ Append(t, x) \in Seq(T) /\ Len(Append(t, x)) = Len(t) + 1 /\ Len(t) \in Nat
        /\ \A i \in 1 .. Len(t) : Append(t, x)[i] = t[i]
        /\ Append(t, x)[Len(t) + 1] = x
    OBVIOUS
  <2>2. \A i \in 1 .. Len(t) + 1 : i \in 1 .. Len(t) \/ i = Len(t) + 1
    BY <2>1
  <2>3. Len(t) + 1 \in 1 .. Len(t) + 1 /\ \A i \in 1 .. Len(t) : i \in 1 .. Len(t) + 1
    BY <2>1
  <2>. QED
    BY <2>1, <2>2, <2>3, Zenon
<1>3. 0 \in S
  <2>1. \A e : ~Has(<<>>, e)
    OBVIOUS
  <2>2. <<>> \in Seq(T) /\ 1 .. 0 = {}
    OBVIOUS
  <2>3. Inv(0)
    BY <2>1, <2>2, Zenon
  <2>. QED
    BY <2>3
<1>4. ASSUME NEW m \in Nat, m \in S PROVE m + 1 \in S
  <2>. SUFFICES ASSUME m + 1 <= n PROVE Inv(m + 1)
    OBVIOUS
  <2>. HIDE DEF n
  <2>1. m <= n /\ m + 1 \in 1 .. n /\ (m + 1) - 1 = m
    BY <1>1
  <2>2. Inv(m)
    <3>. HIDE DEF Inv
    <3>. QED
      BY <1>4, <2>1
  <2>3. f[m + 1] = IF s[m + 1] \in Good THEN Append(f[m], s[m + 1]) ELSE f[m]
    BY <2>1, Zenon DEF n
  <2>4. /\ m + 1 \in 1 .. m + 1 /\ \A i \in 1 .. m : i \in 1 .. m + 1
        /\ \A i \in 1 .. m + 1 : i \in 1 .. m \/ i = m + 1
    OBVIOUS
  <2>5. \A e : (\E i \in 1 .. m + 1 : e = s[i]) <=> (\E i \in 1 .. m : e = s[i]) \/ e = s[m + 1]
    BY <2>4, Zenon
  <2>6. s[m + 1] \in T
    BY <1>1, <2>1
  <2>. HIDE DEF Has
  <2>7. CASE s[m + 1] \in Good
    <3>1. f[m + 1] = Append(f[m], s[m + 1])
      BY <2>3, <2>7, Zenon
    <3>2. /\ f[m + 1] \in Seq(T)
          /\ \A e : Has(f[m + 1], e) <=> Has(f[m], e) \/ e = s[m + 1]
      BY <1>2, <2>2, <2>6, <3>1
    <3>. QED
      BY <2>2, <2>5, <2>7, <3>2, Zenon
  <2>8. CASE s[m + 1] \notin Good
    <3>1. f[m + 1] = f[m]
      BY <2>3, <2>8, Zenon
    <3>. QED
      BY <2>2, <2>5, <2>8, <3>1, Zenon
  <2>. QED
    BY <2>7, <2>8, Zenon
<1>5. Inv(n)
  <2>. HIDE DEF Inv, n
  <2>1. n \in S
    BY <1>1, <1>3, <1>4, ByRange!NatSetInduction, Zenon
  <2>. QED
    BY <1>1, <2>1
<1>6. \A e : e \in ToSet(f[n]) <=> Has(f[n], e)
  <2>1. DOMAIN f[n] = 1 .. Len(f[n])
    BY <1>5
  <2>. QED
    BY <2>1, Zenon DEF ToSet
<1>. HIDE DEF Has
<1>. QED
  BY <1>5, <1>6, Zenon DEF n

\* Where a carrier is reported.
LEMMA SeenIs ==
  ASSUME NEW centre \in Nat, OnGrid(centre), NEW build \in BOOLEAN, NEW f \in Heard(centre)
  PROVE  LET g == IF build THEN f ELSE 2 * centre - f
         IN  /\ g \in Int /\ BinOf(g, centre) \in Int /\ BinHz(BinOf(g, centre), centre) = g
             /\ BinOf(g, centre) = IF build THEN 4 + Step(f, centre) ELSE 4 - Step(f, centre)
<1>. DEFINE u == Step(f, centre)
            g == IF build THEN f ELSE 2 * centre - f
            v == IF build THEN u ELSE -u
<1>1. u \in Int /\ f = centre + Width * u /\ f \in Nat
  BY BinIs, SessionAssumption DEF Heard
<1>2. Width \in Nat \ {0}
  BY SessionAssumption, ScannerAssumption DEF Width, N
<1>. HIDE DEF u
<1>3. v \in Int /\ g \in Int /\ g - centre = Width * v /\ g = centre + Width * v
  <2>1. CASE build
    BY <1>1, <1>2, <2>1
  <2>2. CASE ~build
    <3>. DEFINE x == Width * u
    <3>1. x \in Int /\ Width * (-u) = -x
      BY <1>1, <1>2
    <3>2. f = centre + x
      BY <1>1
    <3>. HIDE DEF x
    <3>3. g = 2 * centre - f /\ v = -u
      BY <2>2
    <3>. HIDE DEF g, v
    <3>4. v \in Int /\ g \in Int /\ g - centre = -x /\ g = centre + (-x)
      BY <1>1, <3>1, <3>2, <3>3
    <3>. QED
      BY <3>1, <3>3, <3>4, Zenon
  <2>. QED
    BY <2>1, <2>2
<1>. HIDE DEF g, v
<1>4. (g - centre) \div Width = v
  BY <1>2, <1>3, Multiples, Zenon
<1>5. BinOf(g, centre) = v + 4
  BY <1>4 DEF BinOf, Width, N
<1>6. BinHz(BinOf(g, centre), centre) = g
  <2>1. (v + 4) - 4 = v /\ Width * v = v * Width
    BY <1>2, <1>3
  <2>2. BinHz(v + 4, centre) = centre + ((v + 4) - 4) * Width
    BY DEF BinHz, Width, N
  <2>. QED
    BY <1>3, <1>5, <2>1, <2>2, Zenon
<1>7. BinOf(g, centre) = IF build THEN 4 + u ELSE 4 - u
  BY <1>1, <1>5 DEF v
<1>. QED
  BY <1>3, <1>5, <1>6, <1>7 DEF g, u

\* SpectrumScanner::analyzeBlock reports the carriers, and nothing else.
LEMMA AnalyzeIs ==
  ASSUME NEW centre \in Nat, OnGrid(centre), NEW build \in BOOLEAN
  PROVE  ToSet(AnalyzeBlock(Samples(centre), centre, build)) =
           {g \in {IF build THEN f ELSE 2 * centre - f : f \in Heard(centre)} :
              BinOf(g, centre) \in 2 .. N - 3 /\ MinHz <= g /\ g <= MaxHz}
<1>. DEFINE samples == Samples(centre)
            spectrum == PowerSpectrum(IF build THEN Fftw(samples) ELSE CooleyTukey(samples))
            bins == [i \in 1 .. N - 4 |-> i + 1]
            found == Filter(bins, LAMBDA k : IsPeak(spectrum, k))
            tuned == [i \in 1 .. Len(found) |-> BinHz(found[i], centre)]
            kept == Filter(tuned, LAMBDA f : MinHz <= f /\ f <= MaxHz)
            InBand(g) == MinHz <= g /\ g <= MaxHz
            Reported(f) == IF build THEN f ELSE 2 * centre - f
<1>1. AnalyzeBlock(samples, centre, build) = kept
  BY Zenon DEF AnalyzeBlock
<1>2. bins \in Seq(Int) /\ Len(bins) = 4 /\ \A i \in 1 .. 4 : bins[i] = i + 1
  BY DEF N
<1>3. spectrum = PowerSpectrum(Fft(centre, build))
  BY Zenon DEF Fft
<1>. HIDE DEF bins, spectrum, samples
<1>4. /\ found \in Seq(Int)
      /\ \A e : e \in ToSet(found) <=> e \in 2 .. 5 /\ IsPeak(spectrum, e)
  <2>1. found = ByPeak!Fold(spectrum, <<>>, bins)
    BY Zenon DEF Filter, FoldLeft, MapThenFoldSet, Max, ByPeak!Fold, ByPeak!FoldLeft,
                 ByPeak!MapThenFoldSet, ByPeak!Max
  <2>. HIDE DEF found
  <2>2. PICK f : /\ f[0] = <<>>
                 /\ \A i \in 1 .. Len(bins) :
                      f[i] = IF IsPeak(spectrum, bins[i]) THEN Append(f[i - 1], bins[i]) ELSE f[i - 1]
                 /\ f[Len(bins)] = ByPeak!Fold(spectrum, <<>>, bins)
    BY <1>2, ByPeak!FoldTrace, Zenon
  <2>. DEFINE Good == {k \in 2 .. 5 : IsPeak(spectrum, k)}
  <2>3. \A i \in 1 .. Len(bins) : IsPeak(spectrum, bins[i]) <=> bins[i] \in Good
    <3>1. \A i \in 1 .. Len(bins) : bins[i] \in 2 .. 5
      BY <1>2
    <3>. QED
      BY <3>1, Zenon
  <2>4. \A e : e \in Good <=> e \in Good /\ \E i \in 1 .. Len(bins) : e = bins[i]
    <3>1. \A e \in 2 .. 5 : e - 1 \in 1 .. Len(bins) /\ bins[e - 1] = e
      BY <1>2
    <3>. QED
      BY <3>1, Zenon
  <2>5. \A e : e \in Good <=> e \in 2 .. 5 /\ IsPeak(spectrum, e)
    OBVIOUS
  <2>. HIDE DEF Good
  <2>6. \A i \in 1 .. Len(bins) :
          f[i] = IF bins[i] \in Good THEN Append(f[i - 1], bins[i]) ELSE f[i - 1]
    BY <2>2, <2>3, Zenon
  <2>7. /\ f[Len(bins)] \in Seq(Int)
        /\ \A e : e \in ToSet(f[Len(bins)]) <=> e \in Good /\ \E i \in 1 .. Len(bins) : e = bins[i]
    <3>1. bins \in Seq(Int)
      BY <1>2
    <3>2. f[0] = <<>>
      BY <2>2
    <3>3. \A good, h :
            h[0] = <<>> /\ (\A i \in 1 .. Len(bins) :
                              h[i] = IF bins[i] \in good THEN Append(h[i - 1], bins[i]) ELSE h[i - 1])
            => /\ h[Len(bins)] \in Seq(Int)
               /\ \A e : e \in ToSet(h[Len(bins)]) <=> e \in good /\ \E i \in 1 .. Len(bins) : e = bins[i]
      BY <3>1, Selected, Zenon
    <3>. QED
      BY <2>6, <3>2, <3>3, Zenon
  <2>. QED
    BY <2>1, <2>2, <2>4, <2>5, <2>7, Zenon
<1>. HIDE DEF found
<1>5. /\ tuned \in Seq(Int) /\ Len(tuned) = Len(found)
      /\ \A i \in 1 .. Len(tuned) : tuned[i] = BinHz(found[i], centre)
  <2>1. \A k \in Int : BinHz(k, centre) \in Int
    <3>1. SampleRate \div N \in Int /\ N \div 2 \in Int
      BY SessionAssumption DEF N
    <3>2. \A k, d, h \in Int : centre + (k - h) * d \in Int
      OBVIOUS
    <3>. QED
      BY <3>1, <3>2, Zenon DEF BinHz
  <2>2. Len(found) \in Nat /\ \A i \in 1 .. Len(found) : found[i] \in Int
    BY <1>4
  <2>3. \A i \in 1 .. Len(found) : BinHz(found[i], centre) \in Int
    BY <2>1, <2>2, Zenon
  <2>4. tuned \in [1 .. Len(found) -> Int] /\ \A i \in 1 .. Len(found) : tuned[i] = BinHz(found[i], centre)
    BY <2>3, Zenon
  <2>. HIDE DEF tuned
  <2>5. tuned \in Seq(Int) /\ Len(tuned) = Len(found)
    BY <2>2, <2>4
  <2>. QED
    BY <2>4, <2>5
<1>6. \A g : (\E i \in 1 .. Len(tuned) : g = tuned[i]) <=>
               \E k \in 2 .. 5 : IsPeak(spectrum, k) /\ g = BinHz(k, centre)
  <2>1. DOMAIN found = 1 .. Len(found)
    BY <1>4
  <2>2. \A k : k \in ToSet(found) <=> \E i \in 1 .. Len(found) : found[i] = k
    BY <2>1, Zenon DEF ToSet
  <2>. QED
    BY <1>4, <1>5, <2>2, Zenon
<1>. HIDE DEF tuned
<1>7. \A g : g \in ToSet(kept) <=> InBand(g) /\ \E i \in 1 .. Len(tuned) : g = tuned[i]
  <2>1. kept = ByRange!Fold(0, <<>>, tuned)
    BY Zenon DEF Filter, FoldLeft, MapThenFoldSet, Max, ByRange!Fold, ByRange!FoldLeft,
                 ByRange!MapThenFoldSet, ByRange!Max
  <2>. HIDE DEF kept
  <2>2. PICK f : /\ f[0] = <<>>
                 /\ \A i \in 1 .. Len(tuned) :
                      f[i] = IF InBand(tuned[i]) THEN Append(f[i - 1], tuned[i]) ELSE f[i - 1]
                 /\ f[Len(tuned)] = ByRange!Fold(0, <<>>, tuned)
    BY <1>5, ByRange!FoldTrace, Zenon
  <2>. HIDE DEF InBand
  <2>. DEFINE Good == {g \in Int : InBand(g)}
  <2>3. \A i \in 1 .. Len(tuned) : tuned[i] \in Int
    BY <1>5
  <2>4. \A i \in 1 .. Len(tuned) :
          f[i] = IF tuned[i] \in Good THEN Append(f[i - 1], tuned[i]) ELSE f[i - 1]
    BY <2>2, <2>3, Zenon
  <2>5. \A g \in Int : g \in Good <=> InBand(g)
    OBVIOUS
  <2>6. \A g : g \in Good => g \in Int
    OBVIOUS
  <2>. HIDE DEF Good
  <2>7. \A e : e \in ToSet(f[Len(tuned)]) <=> e \in Good /\ \E i \in 1 .. Len(tuned) : e = tuned[i]
    BY <1>5, <2>2, <2>4, Selected
  <2>. QED
    BY <2>1, <2>2, <2>3, <2>5, <2>6, <2>7, Zenon
<1>. HIDE DEF kept, InBand
<1>8. ASSUME NEW g
      PROVE  (\E k \in 2 .. 5 : IsPeak(spectrum, k) /\ g = BinHz(k, centre)) <=>
               /\ \E f \in Heard(centre) : g = Reported(f)
               /\ BinOf(g, centre) \in 2 .. 5
  <2>. DEFINE side(f) == IF build THEN 4 + Step(f, centre) ELSE 4 - Step(f, centre)
  <2>1. \A k \in 2 .. 5 : IsPeak(spectrum, k) <=> \E f \in Heard(centre) : k = side(f)
    BY <1>3, PeaksAre
  <2>2. \A f \in Heard(centre) : /\ BinHz(BinOf(Reported(f), centre), centre) = Reported(f)
                                 /\ BinOf(Reported(f), centre) = side(f)
    BY SeenIs
  <2>. HIDE DEF side, Reported
  <2>. QED
    BY <2>1, <2>2, Zenon
<1>9. N - 3 = 5
  BY DEF N
<1>10. \A g : g \in ToSet(kept) <=>
                /\ \E f \in Heard(centre) : g = Reported(f)
                /\ BinOf(g, centre) \in 2 .. 5 /\ InBand(g)
  BY <1>6, <1>7, <1>8, Zenon
<1>. QED
  BY <1>1, <1>9, <1>10, Zenon DEF InBand, samples

\* From the start on the frequency is on the grid: it comes from a configuration,
\* from whoever tunes, or from the scanner, which reports what it sees.
Gridded ==
  /\ main = "configured" => \E f, etc \in Files : config = AppConfig(f, etc)
  /\ main \notin {"boot", "configured"} => OnGrid(hz)

\* A carrier as the build sees it.
Seen(f) == IF fftw THEN f ELSE 2 * hz - f

\* What the scanner reports then.
LEMMA PeaksAreCarriers ==
  ASSUME SessionInv, OnGrid(hz)
  PROVE  /\ Peaks \in Seq(Nat)
         /\ ToSet(Peaks) = {g \in {Seen(f) : f \in Heard(hz)} :
                              BinOf(g, hz) \in 2 .. N - 3 /\ MinHz <= g /\ g <= MaxHz}
<1>1. hz \in Nat /\ fftw \in BOOLEAN
  BY Zenon DEF SessionInv, Frequency, Threads
<1>2. Peaks \in Seq(Nat)
  BY <1>1, PeaksAreFrequencies, Zenon DEF Peaks
<1>3. ToSet(AnalyzeBlock(Samples(hz), hz, fftw)) =
        {g \in {IF fftw THEN f ELSE 2 * hz - f : f \in Heard(hz)} :
           BinOf(g, hz) \in 2 .. N - 3 /\ MinHz <= g /\ g <= MaxHz}
  BY <1>1, AnalyzeIs
<1>. QED
  BY <1>2, <1>3, Zenon DEF Peaks, Seen

\* A carrier is as far from the centre as its mirror image.
LEMMA SeenOnGrid ==
  ASSUME hz \in Nat, OnGrid(hz), NEW f \in Heard(hz), Seen(f) \in Nat
  PROVE  OnGrid(Seen(f))
<1>. DEFINE w == SampleRate \div N
            s == Seen(f)
<1>1. w \in Nat \ {0} /\ w = Width
  BY SessionAssumption, ScannerAssumption DEF Width, N
<1>2. f \in DOMAIN Carriers
  BY DEF Heard
<1>3. ASSUME NEW g \in DOMAIN Carriers PROVE (g - s) % w = 0
  <2>. DEFINE u == Step(f, hz)
              v == Step(g, hz)
  <2>1. u \in Int /\ f = hz + w * u /\ v \in Int /\ g = hz + w * v
    BY <1>1, <1>2, BinIs
  <2>2. s = IF fftw THEN f ELSE 2 * hz - f
    BY DEF Seen
  <2>. HIDE DEF w, s, u, v
  <2>3. \E x \in Int : g - s = w * x
    <3>1. CASE fftw
      <4>1. g - s = w * (v - u) /\ v - u \in Int
        BY <1>1, <2>1, <2>2, <3>1
      <4>. QED
        BY <4>1, Zenon
    <3>2. CASE ~fftw
      <4>1. g - s = w * (v + u) /\ v + u \in Int
        BY <1>1, <2>1, <2>2, <3>2
      <4>. QED
        BY <4>1, Zenon
    <3>. QED
      BY <3>1, <3>2
  <2>. QED
    BY <1>1, <2>3, Multiples, Zenon
<1>. QED
  BY <1>3, Zenon DEF OnGrid

\* The frequency stays on the grid: a peak is a carrier or its mirror image.
LEMMA GriddedStays == ASSUME SessionInv, Gridded, [Next]_vars PROVE Gridded'
<1>1. CASE LoadConfig
  <2>1. main' = "configured" /\ \E f \in Files, etc \in Files : config' = AppConfig(f, etc)
    BY <1>1, Zenon DEF LoadConfig
  <2>. QED
    BY <2>1, Zenon DEF Gridded
<1>2. CASE Start
  <2>1. PICK args \in CommandLines : SetCurrentFrequency(CommandLine(config, args).hz)
    BY <1>2, Zenon DEF Start
  <2>2. PICK f \in Files, etc \in Files : config = AppConfig(f, etc)
    BY <1>2, Zenon DEF Start, Gridded
  <2>3. OnGrid(CommandLine(AppConfig(f, etc), args).hz)
    BY ScannerAssumption
  <2>4. OnGrid(hz') /\ main' # "configured"
    <3>1. hz' = CommandLine(config, args).hz
      BY <2>1 DEF SetCurrentFrequency
    <3>2. main' # "configured"
      BY <1>2 DEF Start
    <3>. QED
      BY <2>2, <2>3, <3>1, <3>2, Zenon
  <2>. QED
    BY <2>4, Zenon DEF Gridded, OnGrid
<1>3. CASE Retune
  <2>1. \E f \in TuneHz : hz' = f
    BY <1>3 DEF Retune, SetCurrentFrequency
  <2>2. OnGrid(hz')
    BY <2>1, ScannerAssumption, Zenon
  <2>3. UNCHANGED <<main, config>> /\ main # "configured"
    BY <1>3 DEF Retune, bootVars
  <2>. QED
    BY <2>2, <2>3, Zenon DEF Gridded, OnGrid
<1>4. CASE ScanBlock
  <2>1. UNCHANGED <<main, config>> /\ main \notin {"boot", "configured"}
    <3>1. UNCHANGED <<main, config>> /\ Started
      BY <1>4, Zenon DEF ScanBlock, Scanning, bootVars
    <3>. QED
      BY <3>1 DEF Started
  <2>2. hz \in Nat /\ OnGrid(hz)
    BY <2>1 DEF Gridded, SessionInv, Frequency
  <2>. DEFINE V == {f \in Nat : OnGrid(f)}
  <2>3. Peaks \in Seq(Nat) /\ \A g \in ToSet(Peaks) : \E f \in Heard(hz) : g = Seen(f)
    BY <2>2, PeaksAreCarriers, Zenon
  <2>4. Peaks \in Seq(V)
    <3>1. Len(Peaks) \in Nat /\ \A i \in 1 .. Len(Peaks) : Peaks[i] \in Nat /\ Peaks[i] \in ToSet(Peaks)
      BY <2>3 DEF ToSet
    <3>2. \A i \in 1 .. Len(Peaks) : Peaks[i] \in V
      BY <2>2, <2>3, <3>1, SeenOnGrid, Zenon
    <3>3. Peaks = [i \in 1 .. Len(Peaks) |-> Peaks[i]]
      BY <2>3
    <3>. HIDE DEF V
    <3>. QED
      BY <3>1, <3>2, <3>3
  <2>5. hz \in V
    BY <2>2
  <2>6. FoldLeft(LAMBDA f, p : IF Far(p, f) THEN p ELSE f, hz, Peaks) = ByDistance!Fold(0, hz, Peaks)
    BY Zenon DEF FoldLeft, MapThenFoldSet, Max, ByDistance!Fold, ByDistance!FoldLeft,
                 ByDistance!MapThenFoldSet, ByDistance!Max
  <2>7. \A f \in V, p \in V : (IF Far(p, f) THEN p ELSE f) \in V
    BY Zenon
  <2>8. hz' = FoldLeft(LAMBDA f, p : IF Far(p, f) THEN p ELSE f, hz, Peaks)
    BY <1>4, Zenon DEF ScanBlock, SetCurrentFrequency
  <2>9. \A f : f \in V => OnGrid(f)
    BY Zenon
  <2>. HIDE DEF V
  <2>10. hz' \in V
    BY <2>4, <2>5, <2>6, <2>7, <2>8, ByDistance!FoldInvariant, Zenon
  <2>. QED
    BY <2>1, <2>9, <2>10, Zenon DEF Gridded, OnGrid
<1>5. CASE UNCHANGED <<main, config, hz>>
  BY <1>5, Zenon DEF Gridded, OnGrid
<1>6. CASE Signal \/ StopReceiver \/ OpenCsv \/ WriteCsv
  <2>1. UNCHANGED hz /\ main \notin {"boot", "configured"} /\ main' \notin {"boot", "configured"}
    BY <1>6 DEF Signal, StopReceiver, OpenCsv, WriteCsv, radioVars
  <2>. QED
    BY <2>1, Zenon DEF Gridded, OnGrid
<1>7. /\ ReceiveFrame \/ UpdateTelemetry \/ RecordFrame \/ Unlock => UNCHANGED <<main, config, hz>>
      /\ UNCHANGED vars => UNCHANGED <<main, config, hz>>
  BY Zenon DEF ReceiveFrame, UpdateTelemetry, RecordFrame, Unlock, vars, bootVars, radioVars
<1>. QED
  BY <1>1, <1>2, <1>3, <1>4, <1>5, <1>6, <1>7, Zenon DEF Next

\* SpectrumScanner::analyzeBlock, as main() uses it in a build with FFTW: whatever
\* transmits in bins that can be told apart is reported, and nothing else is.
THEOREM ScannerReportsCarriers == Spec => []ScannerSeesCarriers
<1>1. Init => Gridded
  BY DEF Init, Gridded
<1>2. SessionInv /\ Gridded => ScannerSeesCarriers
  <2>. SUFFICES ASSUME SessionInv, Gridded, Scanning, fftw PROVE ScannerSeesCarriers
    BY Zenon DEF ScannerSeesCarriers
  <2>1. OnGrid(hz)
    BY DEF Gridded, Scanning, Started
  <2>2. ToSet(Peaks) = {g \in {Seen(f) : f \in Heard(hz)} :
                          BinOf(g, hz) \in 2 .. N - 3 /\ MinHz <= g /\ g <= MaxHz}
    BY <2>1, PeaksAreCarriers, Zenon
  <2>3. {Seen(f) : f \in Heard(hz)} = Heard(hz)
    BY Zenon DEF Seen
  <2>. QED
    BY <2>2, <2>3, Zenon DEF ScannerSeesCarriers
<1>3. SessionInv /\ Gridded /\ [Next]_vars => Gridded'
  BY GriddedStays
<1>. QED
  BY <1>1, <1>2, <1>3, SessionInvariant, PTL DEF Spec

\* The other half of "automatically tune to active peak frequency": a build with
\* FFTW tunes only to where somebody transmits.  Without FFTW it does not, which is
\* what the run for TunesToSignals shows.
THEOREM FftwTunesToSignals ==
  Spec => [][fftw /\ ScanBlock /\ hz' # hz => hz' \in DOMAIN Carriers]_vars
<1>1. Init => Gridded
  BY DEF Init, Gridded
<1>2. SessionInv /\ Gridded /\ [Next]_vars => Gridded'
  BY GriddedStays
<1>3. ASSUME SessionInv, Gridded, fftw, ScanBlock PROVE hz' # hz => hz' \in DOMAIN Carriers
  <2>1. OnGrid(hz)
    <3>1. main \in {"running", "stopping"}
      BY <1>3, Zenon DEF ScanBlock, Scanning, Started
    <3>. QED
      BY <1>3, <3>1 DEF Gridded
  <2>. DEFINE V == {hz} \cup DOMAIN Carriers
  <2>2. Peaks \in Seq(Nat) /\ \A g \in ToSet(Peaks) : g \in DOMAIN Carriers
    <3>1. Peaks \in Seq(Nat) /\ \A g \in ToSet(Peaks) : \E f \in Heard(hz) : g = Seen(f)
      BY <1>3, <2>1, PeaksAreCarriers, Zenon
    <3>2. \A f \in Heard(hz) : Seen(f) = f /\ f \in DOMAIN Carriers
      BY <1>3, Zenon DEF Seen, Heard
    <3>. QED
      BY <3>1, <3>2, Zenon
  <2>3. Peaks \in Seq(V)
    <3>1. Len(Peaks) \in Nat /\ \A i \in 1 .. Len(Peaks) : Peaks[i] \in ToSet(Peaks)
      BY <2>2 DEF ToSet
    <3>2. \A i \in 1 .. Len(Peaks) : Peaks[i] \in V
      BY <2>2, <3>1
    <3>3. Peaks = [i \in 1 .. Len(Peaks) |-> Peaks[i]]
      BY <2>2
    <3>. HIDE DEF V
    <3>. QED
      BY <3>1, <3>2, <3>3
  <2>4. FoldLeft(LAMBDA f, p : IF Far(p, f) THEN p ELSE f, hz, Peaks) = ByDistance!Fold(0, hz, Peaks)
    BY Zenon DEF FoldLeft, MapThenFoldSet, Max, ByDistance!Fold, ByDistance!FoldLeft,
                 ByDistance!MapThenFoldSet, ByDistance!Max
  <2>5. \A f \in V, p \in V : (IF Far(p, f) THEN p ELSE f) \in V
    BY Zenon
  <2>6. hz' = FoldLeft(LAMBDA f, p : IF Far(p, f) THEN p ELSE f, hz, Peaks)
    BY <1>3, Zenon DEF ScanBlock, SetCurrentFrequency
  <2>7. hz \in V /\ \A f \in V : f = hz \/ f \in DOMAIN Carriers
    OBVIOUS
  <2>. HIDE DEF V
  <2>8. hz' \in V
    BY <2>3, <2>4, <2>5, <2>6, <2>7, ByDistance!FoldInvariant, Zenon
  <2>. QED
    BY <2>7, <2>8, Zenon
<1>. QED
  BY <1>1, <1>2, <1>3, SessionInvariant, PTL DEF Spec
=============================================================================
