---------------------------- MODULE FramingProofs ----------------------------
(***************************************************************************)
(* Proofs about Framing, for frames and bytes of any length and for resets *)
(* that fall between any two steps of processBit.                          *)
(*                                                                         *)
(* Steps says which steps belong to which kind, Lengths that neither the   *)
(* buffer nor the bit counter outgrows its bound even when a store undoes  *)
(* a reset, and Marks what a step of a capture that no reset has touched   *)
(* may rely on.  Capture is the argument for whole frames: as long as it   *)
(* is undisturbed, what a capture has in its buffer, in its byte and in    *)
(* the numbers it has loaded adds up to the bits since the sync word.      *)
(* Hunt is the argument about the late marker: outside a capture the       *)
(* register has no marker that an earlier bit should have found.           *)
(***************************************************************************)
EXTENDS Framing, SequenceTheorems, TLAPS

ByteSteps == {"bit", "byte", "count", "full"}
PairSteps == {"half", "phase", "pair", "violation"}
EndSteps == {"push", "size", "frame", "process", "drop"}
HuntSteps == {"idle", "shift", "test", "sync", "header", "counters"}

\* The stores of a reset, by the member they are to.
StoreNames == {"shift", "buffer", "count", "byte", "inFrame", "phase", "last"}

Steps ==
  /\ pc \in HuntSteps \cup ByteSteps \cup PairSteps \cup EndSteps
  /\ pc \in ByteSteps => byteFramed
  /\ pc \in PairSteps => ~byteFramed
  /\ loaded \in Nat /\ count \in Nat /\ n \in Nat /\ quiet \in Nat
  /\ touched \in BOOLEAN
  /\ rpc \in Seq(StoreNames)

Lengths ==
  /\ Len(m_buffer) = FullLength => pc \in {"size", "frame", "process", "drop"}
  /\ pc = "push" => Len(taken) < FullLength /\ loaded <= ByteBits
  /\ m_bitCount = ByteBits => byteFramed /\ pc \in {"full", "push"}
  /\ count < ByteBits
  /\ pc = "byte" => loaded <= ByteBits
  /\ pc = "shift" => loaded \in 0 .. 15

\* RS41 stores m_inFrame last, so a reset that is over leaves no capture.
Marks ==
  /\ ~touched => rpc = <<>>
  /\ kind = "RS41" /\ rpc # <<>> => rpc[Len(rpc)] = "inFrame"
  /\ ~touched /\ pc \in ByteSteps \cup PairSteps \cup EndSteps => m_inFrame

Undisturbed == m_inFrame /\ IF kind = "RS41" THEN rpc = <<>> ELSE ~touched

\* The bits in the buffer of RS41 or M10 after the header.
Packed == (Len(m_buffer) - 1) * ByteBits

CaptureBytes ==
  /\ pc \in {"header", "counters"} => n = 0
  /\ pc = "counters" => m_buffer = <<ByteBits>>
  /\ pc \notin {"sync", "header"} =>
       Len(m_buffer) > 0 /\ \A i \in 1 .. Len(m_buffer) : m_buffer[i] = ByteBits
  /\ pc \in {"idle", "shift", "test", "full"} =>
       m_currentByte = m_bitCount /\ n = Packed + m_bitCount
  /\ pc \in {"bit", "byte"} => m_currentByte = m_bitCount /\ n = Packed + m_bitCount + 1
  /\ pc = "byte" => loaded = m_currentByte
  /\ pc \in {"byte", "count"} => count = m_bitCount
  /\ pc = "count" => m_currentByte = m_bitCount + 1 /\ n = Packed + m_bitCount + 1
  /\ pc = "push" => loaded = ByteBits /\ taken = m_buffer /\ n = Packed + ByteBits
  /\ pc = "size" => m_bitCount = 0 /\ m_currentByte = 0
  /\ pc \in {"size", "frame", "process"} => n = Packed
  /\ pc = "process" => taken = m_buffer

CapturePairs ==
  /\ pc \in {"header", "counters"} => n = 0
  /\ pc = "counters" => m_buffer = <<>>
  /\ pc \in {"idle", "shift", "test"} => n = 2 * Len(m_buffer) + IF m_manchesterPhase THEN 1 ELSE 0
  /\ pc = "half" => n = 2 * Len(m_buffer) + IF m_manchesterPhase THEN 2 ELSE 1
  /\ pc = "phase" => n = 2 * Len(m_buffer) + 1
  /\ pc \in {"pair", "push", "violation"} => n = 2 * Len(m_buffer) + 2
  /\ pc \in {"pair", "push", "size"} => ~m_manchesterPhase
  /\ pc = "push" => taken = m_buffer
  /\ pc \in {"size", "frame"} => n = 2 * Len(m_buffer)
  /\ pc = "frame" => Len(taken) = Len(m_buffer)
  /\ pc = "process" => n \in {2 * Len(taken), 2 * Len(taken) + 2}

Capture == Undisturbed => IF byteFramed THEN CaptureBytes ELSE CapturePairs

\* The last two values of the register were looked at, so the marker is not at
\* its end, nor was it a bit ago.
Looked(s) == s % 4 # 1 /\ (quiet >= 2 => (s \div 2) % 4 # 1)

Hunt ==
  kind = "RS41" /\ quiet > 0 =>
    /\ pc \in HuntSteps
    /\ pc = "idle" => m_inFrame \/ Looked(m_shiftRegister)
    /\ pc = "shift" => m_inFrame \/ Looked(loaded)
    /\ pc = "test" => m_inFrame \/ /\ (m_shiftRegister \div 2) % 4 # 1
                                   /\ quiet >= 2 => m_shiftRegister \div 4 # 1
    /\ pc \in {"header", "counters"} => m_inFrame

FramingInv == TypeOK /\ Steps /\ Lengths /\ Marks /\ Capture /\ Hunt

-----------------------------------------------------------------------------
(* The constants, and the arithmetic of the register and of packed bytes.  *)

LEMMA Constants ==
  /\ ByteBits \in Nat /\ ByteBits >= 2
  /\ FullLength \in Nat /\ FullLength >= 1
  /\ byteFramed => FullLength = FrameBytes /\ FullLength >= 2
  /\ ~byteFramed => FullLength = MaxBits
BY LengthsAssumption DEF FullLength

LEMMA Registers == 2^(2 * Word) = 16
BY DEF Word

\* Shifting a bit in moves the others up.
LEMMA ShiftedIn ==
  ASSUME NEW s \in 0 .. 15, NEW b \in Bit
  PROVE  LET t == (2 * s + b) % 16
         IN t \in 0 .. 15 /\ (t \div 2) % 4 = s % 4 /\ t \div 4 = (s \div 2) % 4
BY DEF Bit

\* A buffer of len bytes and some bits hold fewer bits than len + 1 bytes.
LEMMA PackedBits ==
  ASSUME NEW b \in Nat, NEW len \in Nat, NEW full \in Nat, len < full, NEW k \in Nat, k < b
  PROVE  /\ len * b + b = (len + 1) * b
         /\ (len - 1) * b + b = len * b
         /\ (len - 1) * b + k < full * b
         /\ len * b \in Nat
<1>. DEFINE d == full - len
<1>1. d \in Nat /\ d >= 1 /\ full = len + d
  OBVIOUS
<1>. HIDE DEF d
<1>2. full * b = len * b + d * b /\ d * b >= b
  BY <1>1
<1>3. len * b \in Nat /\ (len - 1) * b = len * b - b /\ len * b + b = (len + 1) * b
  OBVIOUS
<1>4. QED
  BY <1>2, <1>3

LEMMA Buffers ==
  /\ \A s : s = <<>> => s \in Seq(0 .. ByteBits) /\ Len(s) = 0
  /\ \A s : s = <<ByteBits>> => s \in Seq(0 .. ByteBits) /\ Len(s) = 1 /\ s[1] = ByteBits
<1>1. ASSUME NEW s, s = <<>> PROVE s \in Seq(0 .. ByteBits) /\ Len(s) = 0
  BY <1>1
<1>2. ASSUME NEW s, s = <<ByteBits>>
      PROVE  s \in Seq(0 .. ByteBits) /\ Len(s) = 1 /\ s[1] = ByteBits
  BY <1>2, Constants
<1>3. QED
  BY <1>1, <1>2


LEMMA SameDecoder == Next => kind' = kind /\ byteFramed' = byteFramed /\ FullLength' = FullLength
<1>1. Next => kind' = kind
  BY DEF Next, Dsp, Receive, Shift, Test, StartFrame, Header, Counters, LoadByte, StoreByte,
         StoreCount,
         LoadEnd, StoreEnd, FirstHalf, SetPhase, SecondHalf, Pair, AssembleBroken, TestSize, PassFrame,
         Process, Drop, WebReset, ResetStore, PeakReset
<1>2. QED
  BY <1>1 DEF byteFramed, FullLength

-----------------------------------------------------------------------------
LEMMA FramingInit == Init => FramingInv
<1>. SUFFICES ASSUME Init PROVE FramingInv
  OBVIOUS
<1>1. TypeOK
  <2>1. m_buffer \in Seq(0 .. ByteBits) /\ Len(m_buffer) = 0 /\ taken \in Seq(0 .. ByteBits)
    BY Buffers DEF Init
  <2>2. m_shiftRegister \in 0 .. 2^(2 * Word) - 1
    BY Registers DEF Init
  <2>3. m_manchesterPhase \in BOOLEAN /\ m_inFrame \in BOOLEAN
    BY DEF Init
  <2>4. /\ m_bitCount \in 0 .. ByteBits /\ m_currentByte \in 0 .. ByteBits
        /\ m_lastManchesterBit \in Bit /\ bit \in Bit /\ kind \in Kinds
    BY Constants DEF Init, Bit
  <2>5. QED
    BY <2>1, <2>2, <2>3, <2>4, Constants DEF TypeOK
<1>2. Steps /\ Lengths
  <2>1. <<>> \in Seq(StoreNames)
    OBVIOUS
  <2>2. rpc \in Seq(StoreNames)
    BY <2>1 DEF Init
  <2>3. Len(m_buffer) = 0
    BY Buffers DEF Init
  <2>4. Steps
    BY <2>2 DEF Init, Steps, HuntSteps, ByteSteps, PairSteps
  <2>5. Lengths
    BY <2>3, Constants DEF Init, Lengths
  <2>6. QED
    BY <2>4, <2>5
<1>3. Marks /\ Capture /\ Hunt
  BY DEF Init, Marks, Capture, Undisturbed, Hunt, HuntSteps, ByteSteps, PairSteps, EndSteps
<1>4. QED
  BY <1>1, <1>2, <1>3 DEF FramingInv

LEMMA ReceiveKeeps ==
  ASSUME FramingInv, Receive
  PROVE  FramingInv'
<1>. USE DEF FramingInv
<1>. kind' = kind /\ byteFramed' = byteFramed /\ FullLength' = FullLength
  BY SameDecoder DEF Next, Dsp
<1>1. TypeOK'
  BY DEF TypeOK, Receive, members
<1>2. Steps' /\ Lengths' /\ Marks'
  BY Registers DEF TypeOK, Steps, Lengths, ByteSteps, PairSteps, EndSteps, HuntSteps, Receive,
                   members, Touch, Marks
<1>3. Capture'
  BY DEF Capture, Undisturbed, CaptureBytes, CapturePairs, Packed, Receive, members, Touch, Fresh
<1>4. Hunt'
  BY DEF Hunt, Looked, HuntSteps, Receive, members
<1>5. QED
  BY <1>1, <1>2, <1>3, <1>4

LEMMA ShiftKeeps ==
  ASSUME FramingInv, Shift
  PROVE  FramingInv'
<1>. USE DEF FramingInv
<1>. kind' = kind /\ byteFramed' = byteFramed /\ FullLength' = FullLength
  BY SameDecoder DEF Next, Dsp
<1>1. TypeOK'
  BY Registers DEF TypeOK, Steps, Bit, Shift
<1>2. Steps' /\ Lengths' /\ Marks'
  BY DEF Steps, Lengths, ByteSteps, PairSteps, EndSteps, HuntSteps, Shift, history, Marks
<1>3. Capture'
  BY DEF Capture, Undisturbed, CaptureBytes, CapturePairs, Packed, Shift, history
<1>4. Hunt'
  <2>. DEFINE t == (2 * loaded + bit) % 16
  <2>1. /\ pc = "shift" /\ pc' = "test" /\ m_shiftRegister' = t
        /\ UNCHANGED <<kind, m_inFrame, quiet>>
    BY Registers DEF Shift, history
  <2>2. loaded \in 0 .. 15 /\ bit \in Bit
    BY <2>1 DEF Lengths, TypeOK
  <2>3. (t \div 2) % 4 = loaded % 4 /\ t \div 4 = (loaded \div 2) % 4
    BY <2>2, ShiftedIn
  <2>. HIDE DEF t
  <2>4. QED
    BY <2>1, <2>3 DEF Hunt, Looked, HuntSteps
<1>5. QED
  BY <1>1, <1>2, <1>3, <1>4

LEMMA TestKeeps ==
  ASSUME FramingInv, Test
  PROVE  FramingInv'
<1>. USE DEF FramingInv
<1>. kind' = kind /\ byteFramed' = byteFramed /\ FullLength' = FullLength
  BY SameDecoder DEF Next, Dsp
<1>1. /\ pc = "test" /\ UNCHANGED <<kind, members, rpc, touched>>
      /\ \/ /\ m_inFrame /\ UNCHANGED local /\ quiet' = 0
            /\ pc' = (IF byteFramed THEN "bit" ELSE "half")
            /\ n' = IF n < CountedBits THEN n + 1 ELSE n
         \/ ~m_inFrame /\ Sync(m_shiftRegister) /\ pc' = "sync" /\ UNCHANGED local /\ n' = 0
         \/ ~m_inFrame /\ ~Sync(m_shiftRegister) /\ Idle /\ n' = 0
      /\ ~m_inFrame => quiet' = IF kind # "RS41" \/ quiet > 2 THEN quiet ELSE quiet + 1
  BY DEF Test, Word
<1>2. TypeOK'
  BY <1>1, Buffers DEF TypeOK, members, local, Idle, Bit
<1>3. Steps'
  BY <1>1 DEF Steps, HuntSteps, ByteSteps, PairSteps, EndSteps, local, Idle
<1>4. Lengths'
  BY Constants DEF Lengths, Test, Idle, members, local
<1>5. Marks'
  BY DEF Marks, ByteSteps, PairSteps, EndSteps, Test, Idle, members
<1>6. Capture'
  <2>1. CASE ~m_inFrame
    BY <1>1, <2>1 DEF Capture, Undisturbed, members
  <2>2. CASE m_inFrame /\ byteFramed
    <3>1. CASE Undisturbed
      <4>1. CaptureBytes /\ Len(m_buffer) < FullLength /\ m_bitCount < ByteBits
        BY <1>1, <2>2, <3>1, Constants DEF Capture, Lengths, TypeOK
      <4>2. n < CountedBits
        <5>1. n = Packed + m_bitCount /\ Len(m_buffer) \in Nat /\ m_bitCount \in Nat
          BY <1>1, <4>1, Constants, Registers DEF CaptureBytes, TypeOK
        <5>2. (Len(m_buffer) - 1) * ByteBits + m_bitCount < FullLength * ByteBits
          BY <4>1, <5>1, PackedBits, Constants, Registers
        <5>3. QED
          BY <2>2, <5>1, <5>2, Constants DEF Packed, CountedBits
      <4>3. QED
        BY <1>1, <2>2, <4>1, <4>2 DEF Capture, CaptureBytes, Packed, members
    <3>2. CASE ~Undisturbed
      BY <1>1, <3>2 DEF Capture, Undisturbed, members
    <3>3. QED
      BY <3>1, <3>2
  <2>3. CASE m_inFrame /\ ~byteFramed
    <3>1. CASE Undisturbed
      <4>1. CapturePairs /\ Len(m_buffer) < FullLength /\ Len(m_buffer) \in Nat
        BY <1>1, <2>3, <3>1, Constants DEF Capture, Lengths, TypeOK
      <4>2. n < CountedBits
        BY <1>1, <2>3, <4>1, Constants DEF CapturePairs, CountedBits
      <4>3. QED
        BY <1>1, <2>3, <4>1, <4>2 DEF Capture, CapturePairs, members
    <3>2. CASE ~Undisturbed
      BY <1>1, <3>2 DEF Capture, Undisturbed, members
    <3>3. QED
      BY <3>1, <3>2
  <2>4. QED
    BY <2>1, <2>2, <2>3
<1>7. Hunt'
  <2>. DEFINE s == m_shiftRegister
  <2>1. CASE m_inFrame
    BY <1>1, <2>1 DEF Hunt
  <2>2. CASE ~m_inFrame /\ kind = "RS41" /\ ~Sync(s)
    <3>1. s % 4 # 1
      BY <2>2 DEF Sync, SyncRS41OnTime
    <3>2. quiet > 0 => (s \div 2) % 4 # 1
      BY <1>1, <2>2 DEF Hunt
    <3>3. /\ pc' = "idle" /\ m_shiftRegister' = s /\ quiet \in Nat
          /\ quiet' \in {quiet, quiet + 1} /\ (quiet = 0 => quiet' = 1)
      BY <1>1, <2>2 DEF Idle, members, Steps
    <3>4. quiet' >= 2 => quiet > 0
      BY <3>3
    <3>5. QED
      BY <3>1, <3>2, <3>3, <3>4 DEF Hunt, Looked, HuntSteps
  <2>3. CASE kind # "RS41" \/ pc' = "sync"
    BY <1>1, <2>3 DEF Hunt, HuntSteps
  <2>4. QED
    BY <1>1, <2>1, <2>2, <2>3
<1>8. QED
  BY <1>2, <1>3, <1>4, <1>5, <1>6, <1>7

LEMMA StartFrameKeeps ==
  ASSUME FramingInv, StartFrame
  PROVE  FramingInv'
<1>. USE DEF FramingInv
<1>. kind' = kind /\ byteFramed' = byteFramed /\ FullLength' = FullLength
  BY SameDecoder DEF Next, Dsp
<1>1. TypeOK'
  BY DEF TypeOK, StartFrame, local
<1>2. Steps' /\ Lengths' /\ Marks'
  BY DEF Steps, Lengths, ByteSteps, PairSteps, HuntSteps, StartFrame, local, Marks
<1>3. Capture'
  BY DEF Capture, CaptureBytes, CapturePairs, StartFrame
<1>4. Hunt'
  BY DEF Hunt, HuntSteps, StartFrame
<1>5. QED
  BY <1>1, <1>2, <1>3, <1>4

LEMMA HeaderKeeps ==
  ASSUME FramingInv, Header
  PROVE  FramingInv'
<1>. USE DEF FramingInv
<1>. kind' = kind /\ byteFramed' = byteFramed /\ FullLength' = FullLength
  BY SameDecoder DEF Next, Dsp
<1>1. TypeOK'
  <2>1. UNCHANGED <<kind, m_shiftRegister, m_bitCount, m_currentByte, m_manchesterPhase,
                    m_lastManchesterBit, m_inFrame, bit, taken>> /\ FullLength' = FullLength
    BY DEF Header, local
  <2>2. m_buffer' \in Seq(0 .. ByteBits) /\ Len(m_buffer') <= FullLength
    BY Buffers, Constants DEF Header
  <2>3. QED
    BY <2>1, <2>2 DEF TypeOK
<1>2. Steps' /\ Lengths' /\ Marks'
  BY Constants DEF Steps, Lengths, ByteSteps, PairSteps, EndSteps, HuntSteps, Header, local,
                   history, Marks
<1>3. Capture'
  BY DEF Capture, Undisturbed, CaptureBytes, CapturePairs, Header, history
<1>4. Hunt'
  BY DEF Hunt, HuntSteps, Header, history
<1>5. QED
  BY <1>1, <1>2, <1>3, <1>4

LEMMA CountersKeeps ==
  ASSUME FramingInv, Counters
  PROVE  FramingInv'
<1>. USE DEF FramingInv
<1>. kind' = kind /\ byteFramed' = byteFramed /\ FullLength' = FullLength
  BY SameDecoder DEF Next, Dsp
<1>1. TypeOK'
  <2>1. /\ UNCHANGED <<kind, m_shiftRegister, m_buffer, m_lastManchesterBit, m_inFrame>>
        /\ m_bitCount' \in {0, m_bitCount} /\ m_currentByte' \in {0, m_currentByte}
        /\ bit' = 0 /\ taken' = <<>> /\ FullLength' = FullLength
    BY DEF Counters, Idle
  <2>2. taken' \in Seq(0 .. ByteBits)
    BY <2>1
  <2>3. m_manchesterPhase' \in BOOLEAN
    BY DEF Counters, TypeOK
  <2>4. m_bitCount' \in 0 .. ByteBits /\ m_currentByte' \in 0 .. ByteBits
    BY <2>1, Constants, Registers DEF TypeOK
  <2>5. QED
    BY <2>1, <2>2, <2>3, <2>4 DEF TypeOK, Bit
<1>2. Steps' /\ Lengths' /\ Marks'
  BY Constants DEF Steps, Lengths, ByteSteps, PairSteps, EndSteps, HuntSteps, Counters, Idle,
                   history, Marks
<1>3. Capture'
  <2>1. /\ pc = "counters" /\ pc' = "idle" /\ UNCHANGED <<kind, m_buffer, m_inFrame, rpc, n, touched>>
       
        /\ IF byteFramed THEN m_bitCount' = 0 /\ m_currentByte' = 0 ELSE ~m_manchesterPhase'
    BY DEF Counters, Idle, history
  <2>2. (1 - 1) * ByteBits = 0
    BY Constants
  <2>3. QED
    BY <2>1, <2>2 DEF Capture, Undisturbed, CaptureBytes, CapturePairs, Packed
<1>4. Hunt'
  BY DEF Hunt, HuntSteps, Counters, Idle, history
<1>5. QED
  BY <1>1, <1>2, <1>3, <1>4

LEMMA LoadByteKeeps ==
  ASSUME FramingInv, LoadByte
  PROVE  FramingInv'
<1>. USE DEF FramingInv
<1>. kind' = kind /\ byteFramed' = byteFramed /\ FullLength' = FullLength
  BY SameDecoder DEF Next, Dsp
<1>1. TypeOK'
  BY DEF TypeOK, LoadByte, members
<1>2. Steps' /\ Lengths' /\ Marks'
  BY Constants DEF TypeOK, Steps, Lengths, ByteSteps, PairSteps, LoadByte, members, history, Marks
<1>3. Capture'
  BY DEF Capture, Undisturbed, CaptureBytes, CapturePairs, Packed, LoadByte, members, history
<1>4. Hunt'
  BY DEF Hunt, HuntSteps, LoadByte, history
<1>5. QED
  BY <1>1, <1>2, <1>3, <1>4

LEMMA StoreByteKeeps ==
  ASSUME FramingInv, StoreByte
  PROVE  FramingInv'
<1>. USE DEF FramingInv
<1>. kind' = kind /\ byteFramed' = byteFramed /\ FullLength' = FullLength
  BY SameDecoder DEF Next, Dsp
<1>1. TypeOK'
  BY Constants DEF TypeOK, Steps, StoreByte
<1>2. Steps' /\ Lengths' /\ Marks'
  BY DEF Steps, Lengths, ByteSteps, PairSteps, StoreByte, history, Marks
<1>3. Capture'
  BY DEF Lengths, Capture, Undisturbed, CaptureBytes, CapturePairs, Packed, StoreByte, history
<1>4. Hunt'
  BY DEF Hunt, HuntSteps, StoreByte, history
<1>5. QED
  BY <1>1, <1>2, <1>3, <1>4

LEMMA StoreCountKeeps ==
  ASSUME FramingInv, StoreCount
  PROVE  FramingInv'
<1>. USE DEF FramingInv
<1>. kind' = kind /\ byteFramed' = byteFramed /\ FullLength' = FullLength
  BY SameDecoder DEF Next, Dsp
<1>1. TypeOK'
  BY Constants DEF TypeOK, Steps, Lengths, StoreCount, local
<1>2. Steps' /\ Lengths' /\ Marks'
  BY DEF Steps, Lengths, ByteSteps, PairSteps, StoreCount, local, history, Marks
<1>3. Capture'
  BY Constants DEF Steps, Capture, Undisturbed, CaptureBytes, Packed, PairSteps, EndSteps,
                   HuntSteps, StoreCount, history
<1>4. Hunt'
  BY DEF Hunt, HuntSteps, StoreCount, history
<1>5. QED
  BY <1>1, <1>2, <1>3, <1>4

LEMMA LoadEndKeeps ==
  ASSUME FramingInv, LoadEnd
  PROVE  FramingInv'
<1>. USE DEF FramingInv
<1>. kind' = kind /\ byteFramed' = byteFramed /\ FullLength' = FullLength
  BY SameDecoder DEF Next, Dsp
<1>1. TypeOK'
  <2>1. /\ UNCHANGED <<kind, members>> /\ FullLength' = FullLength
        /\ bit' = 0 /\ taken' \in {<<>>, m_buffer}
    BY DEF LoadEnd, Idle
  <2>2. QED
    BY <2>1, Buffers DEF TypeOK, members, Bit
<1>2. Steps'
  BY DEF TypeOK, Steps, PairSteps, EndSteps, HuntSteps, LoadEnd, Idle, history
<1>3. Lengths'
  <2>1. /\ pc = "full" /\ pc' \in {"push", "idle"} /\ UNCHANGED members /\ count' = 0
        /\ byteFramed' = byteFramed /\ FullLength' = FullLength
        /\ pc' = "push" => taken' = m_buffer /\ loaded' = m_currentByte
        /\ m_bitCount = ByteBits => pc' = "push"
    BY DEF LoadEnd, Idle, ByteComplete
  <2>2. Len(m_buffer) < FullLength /\ m_currentByte <= ByteBits
    BY <2>1, Constants DEF Lengths, TypeOK
  <2>3. QED
    BY <2>1, <2>2, Constants DEF Lengths, members
<1>4. Marks'
  BY DEF Marks, ByteSteps, LoadEnd, members, history
<1>5. Capture'
  BY DEF Steps, Capture, Undisturbed, CaptureBytes, Packed, PairSteps, EndSteps, HuntSteps,
         LoadEnd, Idle, members, history, ByteComplete
<1>6. Hunt'
  BY DEF Hunt, HuntSteps, LoadEnd, history
<1>7. QED
  BY <1>1, <1>2, <1>3, <1>4, <1>5, <1>6

LEMMA StoreEndKeeps ==
  ASSUME FramingInv, StoreEnd
  PROVE  FramingInv'
<1>. USE DEF FramingInv
<1>. kind' = kind /\ byteFramed' = byteFramed /\ FullLength' = FullLength
  BY SameDecoder DEF Next, Dsp
<1>1. TypeOK'
  BY Constants DEF TypeOK, Steps, Lengths, StoreEnd
<1>2. Steps' /\ Lengths' /\ Marks'
  BY DEF Steps, Lengths, ByteSteps, PairSteps, EndSteps, StoreEnd, history, Marks
<1>3. Capture'
  <2>. SUFFICES ASSUME Undisturbed' PROVE IF byteFramed THEN CaptureBytes' ELSE CapturePairs'
    BY DEF Capture
  <2>1. /\ pc = "push" /\ pc' = "size" /\ UNCHANGED <<m_manchesterPhase, n>> /\ Undisturbed
        /\ m_buffer' = Append(taken, loaded)
        /\ byteFramed => m_bitCount' = 0 /\ m_currentByte' = 0
    BY DEF StoreEnd, Undisturbed, history
  <2>2. /\ taken \in Seq(0 .. ByteBits) /\ Len(taken) \in Nat /\ Len(m_buffer') = Len(taken) + 1
        /\ \A i \in 1 .. Len(taken) + 1 :
             m_buffer'[i] = IF i <= Len(taken) THEN taken[i] ELSE loaded
    BY <2>1, Constants, Registers DEF TypeOK
  <2>3. CASE byteFramed
    <3>1. /\ loaded = ByteBits /\ taken = m_buffer /\ n = Packed + ByteBits
          /\ \A i \in 1 .. Len(m_buffer) : m_buffer[i] = ByteBits
      BY <2>1, <2>3 DEF Capture, CaptureBytes
    <3>2. (Len(taken) - 1) * ByteBits + ByteBits = ((Len(taken) + 1) - 1) * ByteBits
      BY <2>2, Constants
    <3>3. n = (Len(m_buffer') - 1) * ByteBits
      BY <2>2, <3>1, <3>2 DEF Packed
    <3>4. QED
      BY <2>1, <2>2, <2>3, <3>1, <3>3 DEF CaptureBytes, Packed
  <2>4. CASE ~byteFramed
    BY <2>1, <2>2, <2>4 DEF Capture, CapturePairs
  <2>5. QED
    BY <2>3, <2>4
<1>4. Hunt'
  BY DEF Hunt, HuntSteps, StoreEnd, history
<1>5. QED
  BY <1>1, <1>2, <1>3, <1>4

LEMMA FirstHalfKeeps ==
  ASSUME FramingInv, FirstHalf
  PROVE  FramingInv'
<1>. USE DEF FramingInv
<1>. kind' = kind /\ byteFramed' = byteFramed /\ FullLength' = FullLength
  BY SameDecoder DEF Next, Dsp
<1>1. TypeOK'
  BY DEF TypeOK, FirstHalf, local
<1>2. Steps' /\ Lengths' /\ Marks'
  BY DEF Steps, Lengths, ByteSteps, PairSteps, FirstHalf, local, history, Marks
<1>3. Capture'
  BY DEF Capture, Undisturbed, CaptureBytes, CapturePairs, FirstHalf, history
<1>4. Hunt'
  BY DEF Hunt, HuntSteps, FirstHalf, history
<1>5. QED
  BY <1>1, <1>2, <1>3, <1>4

LEMMA SetPhaseKeeps ==
  ASSUME FramingInv, SetPhase
  PROVE  FramingInv'
<1>. USE DEF FramingInv
<1>. kind' = kind /\ byteFramed' = byteFramed /\ FullLength' = FullLength
  BY SameDecoder DEF Next, Dsp
<1>1. TypeOK'
  BY DEF TypeOK, Bit, SetPhase, Idle
<1>2. Steps' /\ Lengths' /\ Marks'
  BY Constants DEF Steps, Lengths, ByteSteps, EndSteps, HuntSteps, SetPhase, Idle, history, Marks
<1>3. Capture'
  BY DEF Steps, Capture, Undisturbed, CapturePairs, PairSteps, SetPhase, Idle, history
<1>4. Hunt'
  BY DEF Hunt, HuntSteps, SetPhase, history
<1>5. QED
  BY <1>1, <1>2, <1>3, <1>4

LEMMA SecondHalfKeeps ==
  ASSUME FramingInv, SecondHalf
  PROVE  FramingInv'
<1>. USE DEF FramingInv
<1>. kind' = kind /\ byteFramed' = byteFramed /\ FullLength' = FullLength
  BY SameDecoder DEF Next, Dsp
<1>1. TypeOK'
  BY DEF TypeOK, SecondHalf, local
<1>2. Steps' /\ Lengths' /\ Marks'
  BY DEF Steps, Lengths, ByteSteps, PairSteps, SecondHalf, local, history, Marks
<1>3. Capture'
  BY DEF Capture, Undisturbed, CaptureBytes, CapturePairs, SecondHalf, history
<1>4. Hunt'
  BY DEF Hunt, HuntSteps, SecondHalf, history
<1>5. QED
  BY <1>1, <1>2, <1>3, <1>4

LEMMA PairKeeps ==
  ASSUME FramingInv, Pair
  PROVE  FramingInv'
<1>. USE DEF FramingInv
<1>. kind' = kind /\ byteFramed' = byteFramed /\ FullLength' = FullLength
  BY SameDecoder DEF Next, Dsp
<1>1. TypeOK'
  BY DEF TypeOK, Bit, Pair, members
<1>2. Steps' /\ Lengths' /\ Marks'
  BY Constants DEF TypeOK, Steps, Lengths, Bit, ByteSteps, PairSteps, EndSteps, Pair, members,
                   history, AfterViolation, Marks
<1>3. Capture'
  <2>1. /\ pc = "pair" /\ pc' \in {"push", "violation", "drop"} /\ (pc' = "push" => taken' = m_buffer)
        /\ UNCHANGED <<members, rpc, n, touched, kind>> /\ byteFramed' = byteFramed
    BY DEF Pair, AfterViolation, history
  <2>2. ~byteFramed
    BY <2>1 DEF Steps, PairSteps
  <2>3. QED
    BY <2>1, <2>2 DEF Capture, CapturePairs, Undisturbed, members
<1>4. Hunt'
  BY DEF Hunt, HuntSteps, Pair, history
<1>5. QED
  BY <1>1, <1>2, <1>3, <1>4

LEMMA AssembleBrokenKeeps ==
  ASSUME FramingInv, AssembleBroken
  PROVE  FramingInv'
<1>. USE DEF FramingInv
<1>. kind' = kind /\ byteFramed' = byteFramed /\ FullLength' = FullLength
  BY SameDecoder DEF Next, Dsp
<1>1. TypeOK'
  BY DEF TypeOK, AssembleBroken, members
<1>2. Steps' /\ Lengths' /\ Marks'
  BY DEF Steps, Lengths, ByteSteps, EndSteps, HuntSteps, AssembleBroken, members, history, Marks
<1>3. Capture'
  BY DEF Steps, Capture, Undisturbed, CapturePairs, PairSteps, AssembleBroken, members, history
<1>4. Hunt'
  BY DEF Hunt, HuntSteps, AssembleBroken, history
<1>5. QED
  BY <1>1, <1>2, <1>3, <1>4

LEMMA TestSizeKeeps ==
  ASSUME FramingInv, TestSize
  PROVE  FramingInv'
<1>. USE DEF FramingInv
<1>. kind' = kind /\ byteFramed' = byteFramed /\ FullLength' = FullLength
  BY SameDecoder DEF Next, Dsp
<1>1. /\ pc = "size" /\ UNCHANGED <<kind, members, rpc, history>>
      /\ \/ Len(m_buffer) < FullLength /\ Idle
         \/ /\ Len(m_buffer) = FullLength /\ pc' = "frame" /\ UNCHANGED <<bit, loaded, count>>
            /\ taken' = SubSeq(m_buffer, 1, FullLength)
  BY Constants DEF TestSize, TypeOK
<1>2. TypeOK'
  <2>1. /\ UNCHANGED <<kind, members>> /\ FullLength' = FullLength
        /\ bit' \in {0, bit}
    BY <1>1 DEF Idle
  <2>2. taken' \in Seq(0 .. ByteBits)
    <3>1. CASE Idle
      BY <3>1 DEF Idle
    <3>2. CASE taken' = SubSeq(m_buffer, 1, FullLength) /\ Len(m_buffer) = FullLength
      BY <3>2, Constants DEF TypeOK
    <3>3. QED
      BY <1>1, <3>1, <3>2
  <2>3. QED
    BY <2>1, <2>2 DEF TypeOK, members, Bit
<1>3. Steps' /\ Lengths' /\ Marks'
  BY <1>1, Constants DEF Steps, Lengths, Marks, ByteSteps, PairSteps, EndSteps, HuntSteps, Idle,
                         members, history
<1>4. Capture'
  <2>. SUFFICES ASSUME Undisturbed' PROVE IF byteFramed THEN CaptureBytes' ELSE CapturePairs'
    BY DEF Capture
  <2>1. Undisturbed /\ UNCHANGED <<m_buffer, m_bitCount, m_currentByte, m_manchesterPhase, n>>
    BY <1>1 DEF Undisturbed, members, history
  <2>2. pc' = "frame" => Len(taken') = Len(m_buffer)
    BY <1>1 DEF Idle
  <2>3. CASE byteFramed
    BY <1>1, <2>1, <2>3, Constants DEF Capture, CaptureBytes, Packed, Idle
  <2>4. CASE ~byteFramed
    BY <1>1, <2>1, <2>2, <2>4 DEF Capture, CapturePairs, Idle
  <2>5. QED
    BY <2>3, <2>4
<1>5. Hunt'
  BY DEF Hunt, HuntSteps, TestSize, history
<1>6. QED
  BY <1>2, <1>3, <1>4, <1>5

LEMMA PassFrameKeeps ==
  ASSUME FramingInv, PassFrame
  PROVE  FramingInv'
<1>. USE DEF FramingInv
<1>. kind' = kind /\ byteFramed' = byteFramed /\ FullLength' = FullLength
  BY SameDecoder DEF Next, Dsp
<1>1. TypeOK'
  BY DEF TypeOK, PassFrame, members
<1>2. Steps' /\ Lengths' /\ Marks'
  BY DEF Steps, Lengths, ByteSteps, PairSteps, EndSteps, PassFrame, members, history, Marks
<1>3. Capture'
  BY DEF Capture, Undisturbed, CaptureBytes, CapturePairs, Packed, PassFrame, members, history
<1>4. Hunt'
  BY DEF Hunt, HuntSteps, PassFrame, history
<1>5. QED
  BY <1>1, <1>2, <1>3, <1>4

LEMMA ProcessKeeps ==
  ASSUME FramingInv, Process
  PROVE  FramingInv'
<1>. USE DEF FramingInv
<1>. kind' = kind /\ byteFramed' = byteFramed /\ FullLength' = FullLength
  BY SameDecoder DEF Next, Dsp
<1>1. TypeOK'
  BY DEF TypeOK, Process, members
<1>2. Steps' /\ Lengths' /\ Marks'
  BY DEF Steps, Lengths, ByteSteps, PairSteps, EndSteps, Process, members, history, Marks
<1>3. Capture'
  BY DEF Capture, Undisturbed, CaptureBytes, CapturePairs, Process, members, history
<1>4. Hunt'
  BY DEF Hunt, HuntSteps, Process, history
<1>5. QED
  BY <1>1, <1>2, <1>3, <1>4

LEMMA DropKeeps ==
  ASSUME FramingInv, Drop
  PROVE  FramingInv'
<1>. USE DEF FramingInv
<1>. kind' = kind /\ byteFramed' = byteFramed /\ FullLength' = FullLength
  BY SameDecoder DEF Next, Dsp
<1>1. TypeOK'
  <2>1. /\ UNCHANGED <<kind, m_shiftRegister, m_bitCount, m_currentByte, m_manchesterPhase,
                       m_lastManchesterBit>>
        /\ m_buffer' = <<>> /\ ~m_inFrame' /\ bit' = 0 /\ taken' = <<>> /\ FullLength' = FullLength
    BY DEF Drop, Idle
  <2>2. taken' \in Seq(0 .. ByteBits) /\ m_buffer' \in Seq(0 .. ByteBits) /\ Len(m_buffer') = 0
    BY <2>1
  <2>3. m_inFrame' \in BOOLEAN
    BY DEF Drop
  <2>4. Len(m_buffer') <= FullLength'
    BY <2>1, <2>2, Constants
  <2>5. QED
    BY <2>1, <2>2, <2>3, <2>4 DEF TypeOK, Bit
<1>2. Steps' /\ Lengths' /\ Marks'
  BY Constants DEF Steps, Lengths, ByteSteps, PairSteps, EndSteps, HuntSteps, Drop, Idle, Marks
<1>3. Capture'
  BY DEF Capture, Undisturbed, Drop
<1>4. Hunt'
  BY DEF Hunt, HuntSteps, Drop
<1>5. QED
  BY <1>1, <1>2, <1>3, <1>4

LEMMA WebResetKeeps ==
  ASSUME FramingInv, WebReset
  PROVE  FramingInv'
<1>. USE DEF FramingInv
<1>. kind' = kind /\ byteFramed' = byteFramed /\ FullLength' = FullLength
  BY SameDecoder DEF Next
<1>1. TypeOK'
  BY DEF TypeOK, WebReset, members, local
<1>2. Steps'
  <2>1. /\ <<"shift", "buffer", "count", "byte", "inFrame">> \in Seq(StoreNames)
        /\ <<"shift", "buffer", "inFrame", "count", "byte">> \in Seq(StoreNames)
        /\ <<"shift", "buffer", "inFrame", "phase", "last">> \in Seq(StoreNames)
    BY DEF StoreNames
  <2>2. kind \in {"RS41", "M10", "DFM"}
    BY LengthsAssumption DEF TypeOK
  <2>3. ResetOrder \in Seq(StoreNames)
    BY <2>1, <2>2 DEF ResetOrder
  <2>4. QED
    BY <2>3 DEF WebReset, Steps, local
<1>3. Lengths'
  BY DEF Lengths, WebReset, members, local
<1>4. Marks'
  BY DEF Marks, WebReset, ResetOrder
<1>5. Capture'
  BY DEF Capture, Undisturbed, WebReset, ResetOrder
<1>6. Hunt'
  BY DEF Hunt, WebReset
<1>7. QED
  BY <1>1, <1>2, <1>3, <1>4, <1>5, <1>6

LEMMA ResetStoreKeeps ==
  ASSUME FramingInv, ResetStore
  PROVE  FramingInv'
<1>. USE DEF FramingInv
<1>. kind' = kind /\ byteFramed' = byteFramed /\ FullLength' = FullLength
  BY SameDecoder DEF Next
<1>1. /\ UNCHANGED <<kind, pc, local, n, touched>> /\ FullLength' = FullLength /\ quiet' = 0
      /\ rpc # <<>> /\ rpc' = Tail(rpc)
      /\ m_shiftRegister' \in {0, m_shiftRegister} /\ m_buffer' \in {<<>>, m_buffer}
      /\ m_bitCount' \in {0, m_bitCount} /\ m_currentByte' \in {0, m_currentByte}
      /\ m_manchesterPhase' \in {FALSE, m_manchesterPhase}
      /\ m_lastManchesterBit' \in {0, m_lastManchesterBit}
      /\ m_inFrame' = IF rpc[1] = "inFrame" THEN FALSE ELSE m_inFrame
  BY DEF ResetStore, Stored
<1>2. TypeOK'
  <2>1. m_buffer' \in Seq(0 .. ByteBits) /\ Len(m_buffer') <= FullLength
    BY <1>1, Buffers, Constants DEF TypeOK
  <2>2. m_manchesterPhase' \in BOOLEAN /\ m_inFrame' \in BOOLEAN
    BY DEF ResetStore, Stored, TypeOK
  <2>3. m_shiftRegister' \in 0 .. 2^(2 * Word) - 1
    BY <1>1, Constants, Registers DEF TypeOK
  <2>4. /\ m_bitCount' \in 0 .. ByteBits /\ m_currentByte' \in 0 .. ByteBits
        /\ m_lastManchesterBit' \in Bit
    BY <1>1, Constants, Registers DEF TypeOK, Bit
  <2>5. UNCHANGED <<kind, bit, taken>>
    BY <1>1 DEF local
  <2>6. QED
    BY <1>1, <2>1, <2>2, <2>3, <2>4, <2>5 DEF TypeOK
<1>3. Steps' /\ Lengths' /\ Marks'
  <2>1. Len(m_buffer') = FullLength => m_buffer' = m_buffer
    BY <1>1, Buffers, Constants
  <2>2. m_bitCount' = ByteBits => m_bitCount' = m_bitCount
    BY <1>1, Constants
  <2>3. Lengths'
    BY <1>1, <2>1, <2>2 DEF Lengths, local
  <2>4. /\ rpc' \in Seq(StoreNames)
        /\ rpc' # <<>> => rpc'[Len(rpc')] = rpc[Len(rpc)]
    BY <1>1 DEF Steps
  <2>5. QED
    BY <1>1, <2>3, <2>4 DEF Steps, Marks, local
<1>4. Capture'
  <2>1. CASE kind = "RS41"
    <3>1. ASSUME rpc' = <<>> PROVE rpc[1] = "inFrame"
      <4>1. Tail(rpc) = <<>> /\ rpc # <<>>
        BY <1>1, <3>1
      <4>2. Len(rpc) \in Nat /\ Len(Tail(rpc)) = Len(rpc) - 1
        BY <4>1 DEF Steps
      <4>3. Len(Tail(rpc)) = 0
        BY <4>1, Buffers
      <4>4. Len(rpc) = 1
        BY <4>2, <4>3
      <4>5. QED
        BY <1>1, <2>1, <4>4 DEF Marks
    <3>2. QED
      BY <1>1, <2>1, <3>1 DEF Capture, Undisturbed
  <2>2. CASE kind # "RS41"
    BY <1>1, <2>2 DEF Marks, Capture, Undisturbed
  <2>3. QED
    BY <2>1, <2>2
<1>5. Hunt'
  BY DEF Hunt, ResetStore
<1>6. QED
  BY <1>2, <1>3, <1>4, <1>5

LEMMA PeakResetKeeps ==
  ASSUME FramingInv, PeakReset
  PROVE  FramingInv'
<1>. USE DEF FramingInv
<1>. kind' = kind /\ byteFramed' = byteFramed /\ FullLength' = FullLength
  BY SameDecoder DEF Next
<1>1. TypeOK'
  <2>1. /\ UNCHANGED <<kind, bit, taken>> /\ FullLength' = FullLength
        /\ m_shiftRegister' = 0 /\ m_buffer' = <<>> /\ m_bitCount' = 0 /\ m_currentByte' = 0
        /\ ~m_manchesterPhase' /\ m_manchesterPhase' \in BOOLEAN /\ m_lastManchesterBit' = 0
        /\ ~m_inFrame' /\ m_inFrame' \in BOOLEAN
    BY DEF PeakReset, local
  <2>2. QED
    BY <2>1, Constants, Registers DEF TypeOK, Bit
<1>2. Steps' /\ Lengths' /\ Marks'
  BY Constants DEF Steps, Lengths, ByteSteps, PairSteps, EndSteps, PeakReset, local, Marks
<1>3. Capture'
  BY DEF Capture, Undisturbed, PeakReset
<1>4. Hunt'
  BY DEF Hunt, PeakReset
<1>5. QED
  BY <1>1, <1>2, <1>3, <1>4

-----------------------------------------------------------------------------
LEMMA FramingNext == FramingInv /\ [Next]_vars => FramingInv'
<1>. SUFFICES ASSUME FramingInv, [Next]_vars PROVE FramingInv'
  OBVIOUS
<1>1. CASE Dsp
  BY <1>1, ReceiveKeeps, ShiftKeeps, TestKeeps, StartFrameKeeps, HeaderKeeps, CountersKeeps,
     LoadByteKeeps, StoreByteKeeps, StoreCountKeeps, LoadEndKeeps, StoreEndKeeps, FirstHalfKeeps,
     SetPhaseKeeps, SecondHalfKeeps, PairKeeps, AssembleBrokenKeeps, TestSizeKeeps, PassFrameKeeps,
     ProcessKeeps, DropKeeps
  DEF Dsp
<1>2. CASE WebReset \/ ResetStore \/ PeakReset
  BY <1>2, WebResetKeeps, ResetStoreKeeps, PeakResetKeeps
<1>3. CASE UNCHANGED vars
  <2>1. UNCHANGED <<kind, members, pc, local, rpc, history>>
    BY <1>3 DEF vars
  <2>2. byteFramed' = byteFramed /\ FullLength' = FullLength
    BY <2>1 DEF byteFramed, FullLength
  <2>3. TypeOK'
    BY <2>1, <2>2 DEF FramingInv, TypeOK, members, local
  <2>4. Steps' /\ Lengths' /\ Marks'
    BY <2>1, <2>2 DEF FramingInv, Steps, Lengths, Marks, members, local, history
  <2>5. Capture'
    BY <2>1, <2>2
    DEF FramingInv, Capture, Undisturbed, CaptureBytes, CapturePairs, Packed, members, local, history
  <2>6. Hunt'
    BY <2>1 DEF FramingInv, Hunt, Looked, members, local, history
  <2>7. QED
    BY <2>3, <2>4, <2>5, <2>6 DEF FramingInv
<1>4. QED
  BY <1>1, <1>2, <1>3 DEF Next

LEMMA FramingSafe == Spec => []FramingInv
BY FramingInit, FramingNext, PTL DEF Spec

-----------------------------------------------------------------------------
(* The properties.                                                         *)

\* Every variable keeps its type, whatever a reset stores and whatever store of
\* the decoder undoes it: the buffer never has more than a frame, the counter
\* of bits never more than a byte.
THEOREM FramingTypeCorrect == Spec => []TypeOK
<1>1. FramingInv => TypeOK
  BY DEF FramingInv
<1>2. QED
  BY <1>1, FramingSafe, PTL

\* A frame that is processed holds every bit since its sync word in its place,
\* unless a reset fell into its last bit (RS41) or into its capture (M10, DFM).
THEOREM FramesAreWhole == Spec => []WholeFrames
<1>1. ASSUME FramingInv PROVE WholeFrames
  <2>. SUFFICES ASSUME pc = "process", ~touched PROVE Whole
    BY DEF WholeFrames, Delivered
  <2>1. Undisturbed
    BY <1>1 DEF FramingInv, Marks, Undisturbed, EndSteps
  <2>2. CASE byteFramed
    <3>1. taken = m_buffer /\ n = Packed /\ \A i \in 1 .. Len(m_buffer) : m_buffer[i] = ByteBits
      BY <1>1, <2>1, <2>2 DEF FramingInv, Capture, CaptureBytes
    <3>2. DOMAIN taken = 1 .. Len(taken)
      BY <1>1 DEF FramingInv, TypeOK
    <3>3. QED
      BY <2>2, <3>1, <3>2 DEF Whole, Packed
  <2>3. CASE ~byteFramed
    BY <1>1, <2>1, <2>3 DEF FramingInv, Capture, CapturePairs, Whole
  <2>4. QED
    BY <2>2, <2>3
<1>2. QED
  BY <1>1, FramingSafe, PTL

\* A capture of RS41 starts a word late only when fewer than three bits were
\* looked at since a capture or a reset.
THEOREM LateMarkerFollowsCapture == Spec => LateOnlyAfterCapture
<1>. DEFINE Late == (pc = "test" /\ pc' = "sync" /\ kind = "RS41" /\ ~SyncRS41OnTime(m_shiftRegister))
                      => quiet' <= Word
<1>1. ASSUME FramingInv, [Next]_vars PROVE [Late]_vars
  <2>. SUFFICES ASSUME Next, pc = "test", pc' = "sync", kind = "RS41",
                       ~SyncRS41OnTime(m_shiftRegister)
                PROVE  quiet' <= 2
    BY <1>1 DEF Word
  <2>1. ~m_inFrame /\ Sync(m_shiftRegister) /\ quiet' = IF quiet > 2 THEN quiet ELSE quiet + 1
    BY DEF Next, Dsp, Receive, Shift, Test, StartFrame, Header, Counters, LoadByte, StoreByte,
           StoreCount, LoadEnd, StoreEnd, FirstHalf, SetPhase, SecondHalf, Pair, AssembleBroken,
           TestSize, PassFrame, Process, Drop, WebReset, ResetStore, PeakReset, Idle, Word, byteFramed
  <2>2. m_shiftRegister \div 4 = 1
    BY <2>1 DEF Sync, SyncRS41Late
  <2>3. quiet \in Nat /\ (quiet > 0 => ~(quiet >= 2))
    BY <1>1, <2>1, <2>2 DEF FramingInv, Steps, Hunt
  <2>4. QED
    BY <2>1, <2>3
<1>2. QED
  BY <1>1, FramingSafe, PTL DEF Spec, LateOnlyAfterCapture
=============================================================================
