------------------------------ MODULE Framing ------------------------------
(***************************************************************************)
(* The bit framing of the three decoders: processBit, run by the DSP       *)
(* thread for every bit a symbol synchroniser recovers, and reset, which   *)
(* the tuning callback of the dashboard calls from the server thread and   *)
(* the peak callback from the DSP thread itself.  Nothing orders the two   *)
(* threads, so every member the decoder reads or writes is a step.         *)
(*                                                                         *)
(* One decoder object is modelled, of any kind: the three share no state.  *)
(* Lengths are scaled (the code's values are next to the constants), the   *)
(* bytes of a frame are reduced to how many bits of the stream they hold.  *)
(***************************************************************************)
EXTENDS Integers, Sequences, SequencesExt

CONSTANTS Kinds,       \* the decoders to model, among "RS41", "M10", "DFM"
          ByteBits,    \* bits of a byte (8)
          FrameBytes,  \* RS41, M10: frame length, header as one byte (515, 100)
          MinBits,     \* DFM: no frame with so few bits or fewer (200)
          MaxBits      \* DFM: bits of a full frame (416)

ASSUME LengthsAssumption ==
  /\ Kinds \subseteq {"RS41", "M10", "DFM"}
  /\ ByteBits \in Nat \ {0, 1} /\ FrameBytes \in Nat \ {0, 1}
  /\ MinBits \in Nat /\ MinBits % ByteBits = 0
  /\ MaxBits \in Nat /\ MaxBits % ByteBits = 0 /\ MinBits < MaxBits

VARIABLES kind,                \* the class of the decoder
          m_shiftRegister,     \* the last four bits (64), newest in the unit
          m_buffer,            \* bytes received (m_byteBuffer), each as its
                               \* number of bits; DFM: bits (m_bitBuffer)
          m_bitCount, m_currentByte,               \* RS41, M10
          m_manchesterPhase, m_lastManchesterBit,  \* DFM
          m_inFrame,
          pc, bit,             \* the DSP thread: its step, its bit
          loaded, count,       \* numbers it has loaded to store them changed
          taken,               \* the vector it has loaded, or the frame
          rpc,                 \* the server thread: stores of reset left
          n,                   \* history: bits since the sync word
          quiet,               \* history: bits since a capture or a reset
          touched              \* history: a reset was seen, see Touch

members == <<m_shiftRegister, m_buffer, m_bitCount, m_currentByte,
             m_manchesterPhase, m_lastManchesterBit, m_inFrame>>
local == <<bit, loaded, count, taken>>
history == <<n, quiet, touched>>
vars == <<kind, members, pc, local, rpc, history>>

Word == 2       \* half of the shift register (32)
Bit == {0, 1}
byteFramed == kind \in {"RS41", "M10"}

\* bound of the history n: more bits than any whole frame takes
CountedBits == IF byteFramed THEN FrameBytes * ByteBits ELSE 2 * MaxBits + 3

-----------------------------------------------------------------------------
(* The sync words, on the scaled register.  RS41 has three conditions: the  *)
(* 64-bit marker 1101 without its low bits, the 32-bit marker 01 in the     *)
(* high half (where it is a word late) and the same in the low half.  M10   *)
(* looks for three or four bytes 66, DFM for 9A9A9A9A or its inverse.       *)

\* mutant: the 32-bit marker is not looked for at the end of the register
SyncRS41MarkerOnly(s) == s \div 2 = 6

SyncRS41OnTime(s) == s \div 2 = 6 \/ s % 4 = 1
SyncRS41Late(s) == s \div 4 = 1

SyncM10(s) == s % 8 = 7 \/ s = 15
SyncDFM(s) == s = 9 \/ s = 6

Sync(s) ==
  \/ kind = "RS41" /\ (SyncRS41OnTime(s) \/ SyncRS41Late(s))
  \/ kind = "M10" /\ SyncM10(s)
  \/ kind = "DFM" /\ SyncDFM(s)

-----------------------------------------------------------------------------
Init ==
  /\ kind \in Kinds
  /\ m_shiftRegister = 0 /\ m_buffer = <<>>
  /\ m_bitCount = 0 /\ m_currentByte = 0
  /\ m_manchesterPhase = FALSE /\ m_lastManchesterBit = 0
  /\ m_inFrame = FALSE
  /\ pc = "idle" /\ bit = 0
  /\ loaded = 0 /\ count = 0 /\ taken = <<>>
  /\ rpc = <<>>
  /\ n = 0 /\ quiet = 0 /\ touched = FALSE

(* A reset touches the bit being processed, and a capture in progress.  The *)
(* reset of RS41 ends with m_inFrame, so it leaves no capture behind: there *)
(* the mark lasts for the bit only.                                         *)
Fresh == kind = "RS41" \/ ~m_inFrame
Touch == touched' = ((rpc # <<>>) \/ (touched /\ ~Fresh))

\* processBit returns; its locals are forgotten
Idle ==
  /\ pc' = "idle"
  /\ bit' = 0 /\ loaded' = 0 /\ count' = 0 /\ taken' = <<>>

\* processBit: the synchroniser hands over a bit, the register is loaded
Receive ==
  /\ pc = "idle"
  /\ bit' \in Bit
  /\ loaded' = m_shiftRegister
  /\ pc' = "shift"
  /\ Touch
  /\ UNCHANGED <<kind, members, rpc, count, taken, n, quiet>>

Shift ==
  /\ pc = "shift"
  /\ m_shiftRegister' = (2 * loaded + bit) % 2^(2 * Word)
  /\ loaded' = 0
  /\ pc' = "test"
  /\ UNCHANGED <<kind, m_buffer, m_bitCount, m_currentByte, m_manchesterPhase,
                 m_lastManchesterBit, m_inFrame, bit, count, taken, rpc,
                 history>>

\* m_inFrame is read, and outside a frame the register is compared
Test ==
  /\ pc = "test"
  /\ IF m_inFrame
     THEN /\ pc' = IF byteFramed THEN "bit" ELSE "half"
          /\ n' = IF n < CountedBits THEN n + 1 ELSE n
          /\ quiet' = 0
          /\ UNCHANGED local
     ELSE /\ IF Sync(m_shiftRegister) THEN pc' = "sync" /\ UNCHANGED local
                                     ELSE Idle
          /\ quiet' = IF kind # "RS41" \/ quiet > Word THEN quiet ELSE quiet + 1
          /\ n' = 0
  /\ UNCHANGED <<kind, members, rpc, touched>>

-----------------------------------------------------------------------------
(* The sync word was found: four members are set, one after the other.      *)

StartFrame ==
  /\ pc = "sync"
  /\ m_inFrame' = TRUE
  /\ n' = 0
  /\ pc' = "header"
  /\ UNCHANGED <<kind, m_shiftRegister, m_buffer, m_bitCount, m_currentByte,
                 m_manchesterPhase, m_lastManchesterBit, local, rpc, quiet,
                 touched>>

\* clear(), then for the byte decoders the header as the first byte
Header ==
  /\ pc = "header"
  /\ m_buffer' = IF byteFramed THEN <<ByteBits>> ELSE <<>>
  /\ pc' = "counters"
  /\ UNCHANGED <<kind, m_shiftRegister, m_bitCount, m_currentByte,
                 m_manchesterPhase, m_lastManchesterBit, m_inFrame, local, rpc,
                 history>>

Counters ==
  /\ pc = "counters"
  /\ IF byteFramed
     THEN m_bitCount' = 0 /\ m_currentByte' = 0 /\ UNCHANGED m_manchesterPhase
     ELSE m_manchesterPhase' = FALSE /\ UNCHANGED <<m_bitCount, m_currentByte>>
  /\ Idle
  /\ UNCHANGED <<kind, m_shiftRegister, m_buffer, m_lastManchesterBit,
                 m_inFrame, rpc, history>>

-----------------------------------------------------------------------------
(* RS41 and M10 in a frame: bits are packed into bytes.                     *)

LoadByte ==
  /\ pc = "bit"
  /\ loaded' = m_currentByte /\ count' = m_bitCount
  /\ pc' = "byte"
  /\ UNCHANGED <<kind, members, bit, taken, rpc, history>>

\* the oldest bit is shifted out of a full byte
StoreByte ==
  /\ pc = "byte"
  /\ m_currentByte' = IF loaded < ByteBits THEN loaded + 1 ELSE ByteBits
  /\ loaded' = 0
  /\ pc' = "count"
  /\ UNCHANGED <<kind, m_shiftRegister, m_buffer, m_bitCount,
                 m_manchesterPhase, m_lastManchesterBit, m_inFrame, bit, count,
                 taken, rpc, history>>

StoreCount ==
  /\ pc = "count"
  /\ m_bitCount' = count + 1
  /\ pc' = "full"
  /\ UNCHANGED <<kind, m_shiftRegister, m_buffer, m_currentByte,
                 m_manchesterPhase, m_lastManchesterBit, m_inFrame, local, rpc,
                 history>>

\* mutant: off by one
ByteOverfull == m_bitCount > ByteBits

ByteComplete == m_bitCount = ByteBits

\* a complete byte goes to the buffer: push_back loads the end of the vector
LoadEnd ==
  /\ pc = "full"
  /\ IF ByteComplete
     THEN /\ pc' = "push" /\ loaded' = m_currentByte /\ taken' = m_buffer
          /\ bit' = 0 /\ count' = 0
     ELSE Idle
  /\ UNCHANGED <<kind, members, rpc, history>>

\* ... and stores it moved by one; a clear() in between is undone
StoreEnd ==
  /\ pc = "push"
  /\ m_buffer' = Append(taken, loaded)
  /\ IF byteFramed
     THEN m_bitCount' = 0 /\ m_currentByte' = 0
     ELSE UNCHANGED <<m_bitCount, m_currentByte>>
  /\ taken' = <<>> /\ loaded' = 0
  /\ pc' = "size"
  /\ UNCHANGED <<kind, m_shiftRegister, m_manchesterPhase,
                 m_lastManchesterBit, m_inFrame, bit, count, rpc, history>>

-----------------------------------------------------------------------------
(* DFM in a frame: bits are taken in pairs, 01 is a 0 and 10 a 1.           *)

\* the first half of a pair is kept, and marked as such in a second store
FirstHalf ==
  /\ pc = "half" /\ ~m_manchesterPhase
  /\ m_lastManchesterBit' = bit
  /\ pc' = "phase"
  /\ UNCHANGED <<kind, m_shiftRegister, m_buffer, m_bitCount, m_currentByte,
                 m_manchesterPhase, m_inFrame, local, rpc, history>>

SetPhase ==
  /\ pc = "phase"
  /\ m_manchesterPhase' = TRUE
  /\ Idle
  /\ UNCHANGED <<kind, m_shiftRegister, m_buffer, m_bitCount, m_currentByte,
                 m_lastManchesterBit, m_inFrame, rpc, history>>

SecondHalf ==
  /\ pc = "half" /\ m_manchesterPhase
  /\ m_manchesterPhase' = FALSE
  /\ pc' = "pair"
  /\ UNCHANGED <<kind, m_shiftRegister, m_buffer, m_bitCount, m_currentByte,
                 m_lastManchesterBit, m_inFrame, local, rpc, history>>

\* mutant: a violation in a short frame is skipped
SkipViolation == IF Len(m_buffer) > MinBits THEN "violation" ELSE "size"

AfterViolation == IF Len(m_buffer) > MinBits THEN "violation" ELSE "drop"

\* a pair of different bits is a data bit; a violation ends the frame, which
\* is worth processing when it has more than MinBits
Pair ==
  /\ pc = "pair"
  /\ IF m_lastManchesterBit # bit
     THEN pc' = "push" /\ loaded' = m_lastManchesterBit /\ taken' = m_buffer
     ELSE /\ pc' = AfterViolation
          /\ UNCHANGED <<loaded, taken>>
  /\ bit' = 0
  /\ UNCHANGED <<kind, members, count, rpc, history>>

\* the bits of the broken frame are read after their number was tested
AssembleBroken ==
  /\ pc = "violation"
  /\ taken' = m_buffer
  /\ pc' = "process"
  /\ UNCHANGED <<kind, members, bit, loaded, count, rpc, history>>

-----------------------------------------------------------------------------
(* The end of a frame.                                                      *)

FullLength == IF byteFramed THEN FrameBytes ELSE MaxBits

\* full, with its number of bytes tested; DFM then reads MaxBits bits, which
\* a clear() leaves in the memory of the vector
TestSize ==
  /\ pc = "size"
  /\ IF Len(m_buffer) >= FullLength
     THEN /\ pc' = "frame" /\ taken' = SubSeq(m_buffer, 1, FullLength)
          /\ UNCHANGED <<bit, loaded, count>>
     ELSE Idle
  /\ UNCHANGED <<kind, members, rpc, history>>

\* the byte decoders pass data() and size(), reading the size again
PassFrame ==
  /\ pc = "frame"
  /\ taken' = IF byteFramed THEN m_buffer ELSE taken
  /\ pc' = "process"
  /\ UNCHANGED <<kind, members, bit, loaded, count, rpc, history>>

\* processRawFrame works on taken, then the decoder hunts for the next frame
Process ==
  /\ pc = "process"
  /\ taken' = <<>>
  /\ pc' = "drop"
  /\ UNCHANGED <<kind, members, bit, loaded, count, rpc, history>>

\* the two stores of a reset too, so their order towards it does not matter
Drop ==
  /\ pc = "drop"
  /\ m_inFrame' = FALSE
  /\ m_buffer' = <<>>
  /\ n' = 0
  /\ Idle
  /\ UNCHANGED <<kind, m_shiftRegister, m_bitCount, m_currentByte,
                 m_manchesterPhase, m_lastManchesterBit, rpc, quiet, touched>>

-----------------------------------------------------------------------------
(* reset: the stores in the order each class makes them.                    *)

\* mutant: RS41 as M10
ResetFlagEarly ==
  IF kind = "DFM" THEN <<"shift", "buffer", "inFrame", "phase", "last">>
                  ELSE <<"shift", "buffer", "inFrame", "count", "byte">>

ResetOrder ==
  CASE kind = "RS41" -> <<"shift", "buffer", "count", "byte", "inFrame">>
    [] kind = "M10" -> <<"shift", "buffer", "inFrame", "count", "byte">>
    [] kind = "DFM" -> <<"shift", "buffer", "inFrame", "phase", "last">>

\* /api/tune, in the server thread
WebReset ==
  /\ rpc = <<>>
  /\ rpc' = ResetOrder
  /\ touched' = TRUE /\ quiet' = 0
  /\ UNCHANGED <<kind, members, pc, local, n>>

Stored(name, value, old) == IF Head(rpc) = name THEN value ELSE old

ResetStore ==
  /\ rpc # <<>>
  /\ rpc' = Tail(rpc)
  /\ m_shiftRegister' = Stored("shift", 0, m_shiftRegister)
  /\ m_buffer' = Stored("buffer", <<>>, m_buffer)
  /\ m_bitCount' = Stored("count", 0, m_bitCount)
  /\ m_currentByte' = Stored("byte", 0, m_currentByte)
  /\ m_manchesterPhase' = Stored("phase", FALSE, m_manchesterPhase)
  /\ m_lastManchesterBit' = Stored("last", 0, m_lastManchesterBit)
  /\ m_inFrame' = Stored("inFrame", FALSE, m_inFrame)
  /\ quiet' = 0
  /\ UNCHANGED <<kind, pc, local, n, touched>>

\* the peak callback, in the DSP thread between two bits; freqMutex keeps it
\* apart from the server thread's reset
PeakReset ==
  /\ pc = "idle" /\ rpc = <<>>
  /\ m_shiftRegister' = 0 /\ m_buffer' = <<>>
  /\ m_bitCount' = 0 /\ m_currentByte' = 0
  /\ m_manchesterPhase' = FALSE /\ m_lastManchesterBit' = 0
  /\ m_inFrame' = FALSE
  /\ quiet' = 0
  /\ UNCHANGED <<kind, pc, local, rpc, n, touched>>

-----------------------------------------------------------------------------
Dsp ==
  \/ Receive \/ Shift \/ Test \/ StartFrame \/ Header \/ Counters
  \/ LoadByte \/ StoreByte \/ StoreCount \/ LoadEnd \/ StoreEnd
  \/ FirstHalf \/ SetPhase \/ SecondHalf \/ Pair \/ AssembleBroken
  \/ TestSize \/ PassFrame \/ Process \/ Drop

Next == Dsp \/ WebReset \/ ResetStore \/ PeakReset

Spec == Init /\ [][Next]_vars

(* While the receiver streams, the DSP thread goes on with its bits.        *)
FairSpec == Spec /\ WF_vars(Dsp)

-----------------------------------------------------------------------------
TypeOK ==
  /\ kind \in Kinds
  /\ m_shiftRegister \in 0 .. 2^(2 * Word) - 1
  /\ m_buffer \in Seq(0 .. ByteBits) /\ Len(m_buffer) <= FullLength
  /\ m_bitCount \in 0 .. ByteBits /\ m_currentByte \in 0 .. ByteBits
  /\ m_manchesterPhase \in BOOLEAN /\ m_lastManchesterBit \in Bit
  /\ m_inFrame \in BOOLEAN
  /\ bit \in Bit /\ taken \in Seq(0 .. ByteBits)

\* what processRawFrame does not throw away as too short
Delivered ==
  /\ pc = "process"
  /\ IF byteFramed THEN Len(taken) >= FrameBytes
                   ELSE Len(taken) \div ByteBits > MinBits \div ByteBits

\* the frame holds every bit received since the sync word, in its place
Whole ==
  IF byteFramed
  THEN /\ n = (Len(taken) - 1) * ByteBits
       /\ \A i \in DOMAIN taken : taken[i] = ByteBits
  ELSE n \in {2 * Len(taken), 2 * Len(taken) + 2}

\* A frame that is processed is whole, however the resets of the other
\* thread fall between the loads and stores of processBit.  For RS41 only
\* a reset during the last bit of the frame is excepted: its reset stores
\* m_inFrame last, so no capture survives it.  M10 and DFM store m_inFrame
\* earlier; for them a reset at any time of the capture is excepted.
WholeFrames == Delivered => Whole \/ touched

\* The second sync condition of RS41, a marker in the high half of the
\* register, starts a capture one word late.  It happens only when the
\* marker arrived during another capture or a reset: otherwise the third
\* condition has seen it in time.
LateOnlyAfterCapture ==
  [][(pc = "test" /\ pc' = "sync" /\ kind = "RS41"
        /\ ~SyncRS41OnTime(m_shiftRegister)) => quiet' <= Word]_vars

\* A decoder never stays in a frame: as long as bits arrive a capture comes
\* to its end, also with resets at any time.
CaptureEnds == m_inFrame ~> ~m_inFrame

\* DFMDecoder.cpp assembles "bytes from bit buffer": every bit that is set
\* has its place in one of the bytes the frame was given.
AssemblyFits ==
  pc = "process" /\ kind = "DFM" =>
    \A i \in DOMAIN taken :
      taken[i] = 1 => (i - 1) \div ByteBits < Len(taken) \div ByteBits
=============================================================================
