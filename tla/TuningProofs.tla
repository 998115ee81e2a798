---------------------------- MODULE TuningProofs ----------------------------
(***************************************************************************)
(* Proofs about Tuning, for every hop list, band, number of dongles and    *)
(* clock width.                                                            *)
(*                                                                         *)
(* TunedConsistently is not inductive: while a thread is inside the loop   *)
(* over the devices they differ.  TuneInv says how far the loop has come   *)
(* (DeviceLoop), that nobody else is in one (MutualExclusion) and that     *)
(* outside of it every device follows frequencyHz (TunedOutsideLoop).      *)
(* ScanUnlocked is what makes the unprotected test of sondeLocked in the   *)
(* peak callback good enough.  Manual adds what --freq on the command line *)
(* buys: nobody but the user retunes, so a request stays in force from the *)
(* store of the dashboard's copy to the end of the critical section.       *)
(***************************************************************************)
EXTENDS Tuning, TLAPS

Tuned == \A d \in Devices : devHz[d] = frequencyHz

DeviceLoop ==
  \A t \in Threads : pc[t] = "device" =>
    /\ frequencyHz = target[t]
    /\ nextDev \in Devices
    /\ \A d \in Devices : d < nextDev => devHz[d] = frequencyHz

TunedOutsideLoop == (\A t \in Threads : pc[t] # "device") => Tuned

ScanUnlocked ==
  pc["dsp"] \in {"scan", "wait", "check", "store", "device", "show", "reset", "unlock"}
    => ~sondeLocked

TuneInv == TypeOK /\ MutualExclusion /\ DeviceLoop /\ TunedOutsideLoop /\ ScanUnlocked

-----------------------------------------------------------------------------
(* The arithmetic of the clock and of the hop index. *)

LEMMA ModInRange ==
  ASSUME NEW a \in Int, NEW n \in Nat, n > 0
  PROVE  a % n \in 0 .. n - 1
  OBVIOUS

LEMMA HopIsNat ==
  ASSUME NEW i \in 0 .. Len(SweepSteps) - 1
  PROVE  SweepSteps[i + 1] \in Nat
  BY FrequencyAssumption

-----------------------------------------------------------------------------
LEMMA InitTyped == Init => TypeOK
<1>. SUFFICES ASSUME Init PROVE TypeOK
  OBVIOUS
<1>. USE FrequencyAssumption, ClockAssumption DEF Init, Threads, Devices
<1>1. pc \in [Threads -> DspLabels \cup SweepLabels \cup WebLabels]
  BY DEF DspLabels, SweepLabels, WebLabels
<1>2. pc["dsp"] \in DspLabels /\ pc["sweep"] \in SweepLabels /\ pc["web"] \in WebLabels
  BY DEF DspLabels, SweepLabels, WebLabels
<1>3. target \in [Threads -> Nat] /\ devHz \in [Devices -> Nat]
  OBVIOUS
<1>4. stepIdx \in 0 .. Len(SweepSteps) - 1
  OBVIOUS
<1>5. lastFrameTimeMs \in 0 .. W - 1 /\ clock \in 0 .. W - 1 /\ nowMs \in 0 .. W - 1
  OBVIOUS
<1>6. autoScan \in BOOLEAN /\ sondeLocked \in BOOLEAN
  BY Zenon
<1>7. nextDev \in 1 .. NDevices + 1 /\ frequencyHz \in Nat /\ webHz \in Nat /\ centreHz \in Nat
  OBVIOUS
<1>8. /\ main \in {"booting", "hooked", "running"}
      /\ freqMutex \in Threads \cup {"none"}
      /\ block \subseteq Nat /\ heard \subseteq Nat
  OBVIOUS
<1>9. QED
  BY <1>1, <1>2, <1>3, <1>4, <1>5, <1>6, <1>7, <1>8, Zenon DEF TypeOK

(* What TypeOK says of pc, and that a thread which goes to a label of its  *)
(* own keeps it.                                                           *)
PcTyped ==
  /\ pc \in [Threads -> DspLabels \cup SweepLabels \cup WebLabels]
  /\ pc["dsp"] \in DspLabels /\ pc["sweep"] \in SweepLabels /\ pc["web"] \in WebLabels

LEMMA GotoTyped ==
  ASSUME PcTyped, NEW t \in Threads, NEW label, Goto(t, label),
         t = "dsp" => label \in DspLabels,
         t = "sweep" => label \in SweepLabels,
         t = "web" => label \in WebLabels
  PROVE  PcTyped'
<1>1. label \in DspLabels \cup SweepLabels \cup WebLabels
  BY DEF Threads
<1>2. QED
  BY <1>1 DEF PcTyped, Goto, Threads

LEMMA RetuneTyped ==
  ASSUME TuneInv, NEW t \in Threads, Acquire(t) \/ HoldMutex(t)
  PROVE  TypeOK'
<1>. USE FrequencyAssumption, ClockAssumption
     DEF TuneInv, TypeOK, PcTyped, lockVars, timeVars, dspVars, tuneVars
<1>0. PcTyped /\ t \in {"dsp", "sweep", "web"}
  BY DEF Threads
<1>1. CASE Acquire(t)
  <2>1. PcTyped'
    BY <1>0, <1>1, GotoTyped DEF Acquire, DspLabels, SweepLabels, WebLabels
  <2>2. QED
    BY <1>1, <2>1 DEF Acquire
<1>2. CASE StoreFrequency(t)
  <2>1. PcTyped'
    BY <1>0, <1>2, GotoTyped DEF StoreFrequency, DspLabels, SweepLabels, WebLabels
  <2>2. QED
    BY <1>2, <2>1 DEF StoreFrequency
<1>3. CASE SetDevice(t)
  <2>1. PcTyped'
    BY <1>0, <1>3, GotoTyped DEF SetDevice, DspLabels, SweepLabels, WebLabels
  <2>2. nextDev' \in 1 .. NDevices + 1
    BY <1>3 DEF SetDevice, DeviceLoop, Devices, At
  <2>3. devHz' \in [Devices -> Nat]
    BY <1>3 DEF SetDevice
  <2>4. QED
    BY <1>3, <2>1, <2>2, <2>3 DEF SetDevice
<1>4. CASE ShowFrequency(t)
  <2>1. PcTyped'
    BY <1>0, <1>4, GotoTyped DEF ShowFrequency, DspLabels, SweepLabels, WebLabels
  <2>2. QED
    BY <1>4, <2>1 DEF ShowFrequency
<1>5. CASE ResetDecoders(t)
  <2>1. PcTyped'
    BY <1>0, <1>5, GotoTyped DEF ResetDecoders, DspLabels, SweepLabels, WebLabels
  <2>2. QED
    BY <1>5, <2>1 DEF ResetDecoders
<1>6. CASE Release(t)
  <2>1. PcTyped'
    BY <1>0, <1>6, GotoTyped DEF Release, Resume, DspLabels, SweepLabels, WebLabels
  <2>2. target' \in [Threads -> Nat]
    BY <1>6 DEF Release, Forget
  <2>3. QED
    BY <1>6, <2>1, <2>2 DEF Release
<1>7. QED
  BY <1>1, <1>2, <1>3, <1>4, <1>5, <1>6 DEF HoldMutex

LEMMA SweepTyped ==
  ASSUME TuneInv, Sweep
  PROVE  TypeOK'
<1>. USE FrequencyAssumption, ClockAssumption
     DEF TuneInv, TypeOK, PcTyped, lockVars, timeVars, dspVars, tuneVars
<1>0. PcTyped /\ "sweep" \in Threads
  BY DEF Threads
<1>1. CASE Wake
  <2>1. PcTyped'
    BY <1>0, <1>1, GotoTyped DEF Wake, SweepLabels
  <2>2. QED
    BY <1>1, <2>1 DEF Wake
<1>2. CASE LoadLocked
  <2>1. PcTyped'
    <3>1. CASE sondeLocked
      BY <1>0, <1>2, <3>1, GotoTyped DEF LoadLocked, SweepLabels
    <3>2. CASE ~sondeLocked
      BY <1>0, <1>2, <3>2, GotoTyped DEF LoadLocked, SweepLabels
    <3>3. QED
      BY <3>1, <3>2
  <2>2. nowMs' \in 0 .. W - 1
    BY <1>2 DEF LoadLocked
  <2>3. QED
    BY <1>2, <2>1, <2>2 DEF LoadLocked
<1>3. CASE LoadLastFrame
  <2>1. PcTyped'
    BY <1>0, <1>3, GotoTyped DEF LoadLastFrame, SweepLabels
  <2>2. QED
    BY <1>3, <2>1 DEF LoadLastFrame
<1>4. CASE Unlock
  <2>1. PcTyped'
    BY <1>0, <1>4, GotoTyped DEF Unlock, SweepLabels
  <2>2. QED
    BY <1>4, <2>1 DEF Unlock
<1>5. CASE DecideHop
  <2>1. SweepSteps[stepIdx + 1] \in Nat
    BY HopIsNat
  <2>2. (stepIdx + 1) % Len(SweepSteps) \in 0 .. Len(SweepSteps) - 1
    BY ModInRange
  <2>3. PcTyped'
    <3>1. CASE sondeLocked
      BY <1>0, <1>5, <3>1, GotoTyped DEF DecideHop, SweepLabels
    <3>2. CASE ~sondeLocked
      BY <1>0, <1>5, <3>2, GotoTyped DEF DecideHop, SweepLabels
    <3>3. QED
      BY <3>1, <3>2
  <2>4. target' \in [Threads -> Nat] /\ stepIdx' \in 0 .. Len(SweepSteps) - 1
    BY <1>5, <2>1, <2>2 DEF DecideHop
  <2>5. QED
    BY <1>5, <2>3, <2>4 DEF DecideHop
<1>6. QED
  BY <1>1, <1>2, <1>3, <1>4, <1>5 DEF Sweep

LEMMA DspTyped ==
  ASSUME TuneInv, Dsp
  PROVE  TypeOK'
<1>. USE FrequencyAssumption, ClockAssumption DEF TuneInv, TypeOK, Threads, DspLabels, SweepLabels,
       WebLabels, Goto, At, Devices, lockVars, timeVars, dspVars, tuneVars
<1>1. CASE CaptureBlock
  <2>1. Range(devHz) \subseteq Nat
    BY DEF Range
  <2>2. QED
    BY <1>1, <2>1 DEF CaptureBlock
<1>2. CASE BeginBlock
  <2>1. CASE MayRetune
    <3>1. target' \in [Threads -> Nat] /\ centreHz' \in Nat
      BY <1>2, <2>1 DEF BeginBlock
    <3>2. pc' = [pc EXCEPT !["dsp"] = "scan"]
      BY <1>2, <2>1 DEF BeginBlock
    <3>3. QED
      BY <1>2, <3>1, <3>2 DEF BeginBlock
  <2>2. CASE ~MayRetune
    <3>1. PcTyped'
      BY <1>2, <2>2, GotoTyped DEF BeginBlock, PcTyped
    <3>2. QED
      BY <1>2, <2>2, <3>1 DEF BeginBlock, PcTyped
  <2>3. QED
    BY <2>1, <2>2
<1>3. ASSUME NEW p \in Peaks, FindPeak(p) PROVE TypeOK'
  <2>1. p \in Nat
    BY SMTT(30) DEF Peaks
  <2>2. QED
    BY <1>3, <2>1 DEF FindPeak
<1>4. CASE EndScan
  BY <1>4 DEF EndScan, Forget
<1>5. CASE CheckPeak
  BY <1>5 DEF CheckPeak
<1>6. ASSUME NEW frame \in BOOLEAN, DecodeBlock(frame) PROVE TypeOK'
  <2>1. PcTyped'
    <3>1. CASE frame
      BY <1>6, <3>1, GotoTyped DEF DecodeBlock, PcTyped
    <3>2. CASE ~frame
      BY <1>6, <3>2, GotoTyped DEF DecodeBlock, PcTyped
    <3>3. QED
      BY <3>1, <3>2
  <2>2. block' \subseteq Nat /\ heard' \subseteq Nat
    BY <1>6 DEF DecodeBlock
  <2>3. QED
    BY <1>6, <2>1, <2>2 DEF DecodeBlock, PcTyped
<1>7. CASE LockSonde
  BY <1>7 DEF LockSonde
<1>8. CASE StampFrame
  BY <1>8 DEF StampFrame
<1>9. QED
  BY <1>1, <1>2, <1>3, <1>4, <1>5, <1>6, <1>7, <1>8 DEF Dsp

LEMMA RestTyped ==
  ASSUME TuneInv, Main \/ Tick \/ Web \/ UNCHANGED vars
  PROVE  TypeOK'
<1>. USE FrequencyAssumption, ClockAssumption DEF TuneInv, TypeOK, Threads, DspLabels, SweepLabels,
       WebLabels, Goto, At, Devices, lockVars, timeVars, dspVars, tuneVars
<1>1. CASE Main
  BY <1>1 DEF Main, InstallTuneCallback, StartReceiver
<1>2. CASE Tick
  <2>1. (clock + 1) % W \in 0 .. W - 1
    BY ModInRange
  <2>2. QED
    <3>1. UNCHANGED <<autoScan, main, pc, target, tuneVars, webHz, stepIdx, lockVars, nowMs, dspVars>>
      BY <1>2 DEF Tick
    <3>2. clock' = (clock + 1) % W
      BY <1>2 DEF Tick
    <3>3. QED
      BY <2>1, <3>1, <3>2, SMTT(30)
<1>3. CASE Web
  <2>1. ASSUME NEW f \in WebHz, RequestTune(f) PROVE TypeOK'
    <3>1. f \in Nat
      OBVIOUS
    <3>2. target' \in [Threads -> Nat] /\ webHz' \in Nat
      BY <2>1, <3>1 DEF RequestTune
    <3>3. pc' \in [Threads -> DspLabels \cup SweepLabels \cup WebLabels]
      BY <2>1 DEF RequestTune
    <3>4. QED
      BY <2>1, <3>2, <3>3 DEF RequestTune
  <2>2. CASE CallTuneCallback
    <3>1. CASE main = "booting"
      <4>1. target' \in [Threads -> Nat]
        BY <2>2, <3>1 DEF CallTuneCallback, Forget
      <4>2. pc' = [pc EXCEPT !["web"] = "idle"]
        BY <2>2, <3>1 DEF CallTuneCallback
      <4>3. QED
        BY <2>2, <4>1, <4>2 DEF CallTuneCallback
    <3>2. CASE main # "booting"
      BY <2>2, <3>2 DEF CallTuneCallback
    <3>3. QED
      BY <3>1, <3>2
  <2>3. QED
    BY <1>3, <2>1, <2>2 DEF Web
<1>4. CASE UNCHANGED vars
  BY <1>4 DEF vars
<1>5. QED
  BY <1>1, <1>2, <1>3, <1>4

-----------------------------------------------------------------------------
(* The parts of the invariant that only a retune can disturb.              *)

RetuneInv == MutualExclusion /\ DeviceLoop /\ TunedOutsideLoop

LEMMA RetuneKeepsInv ==
  ASSUME TuneInv, NEW t \in Threads, Acquire(t) \/ HoldMutex(t)
  PROVE  RetuneInv'
<1>. USE DEF TuneInv, TypeOK, RetuneInv, MutualExclusion, DeviceLoop, TunedOutsideLoop, Tuned,
       Critical, Threads, Goto, At, Devices
<1>1. CASE Acquire(t)
  BY <1>1 DEF Acquire, MutexFree
<1>2. CASE StoreFrequency(t)
  <2>1. \A u \in Threads \ {t} : pc'[u] = pc[u] /\ ~Critical(u) /\ pc[u] # "device"
    BY <1>2 DEF StoreFrequency
  <2>2. pc'[t] = "device" /\ freqMutex' = t /\ frequencyHz' = target'[t] /\ nextDev' = 1
    BY <1>2 DEF StoreFrequency
  <2>3. 1 \in Devices /\ \A d \in Devices : ~(d < 1)
    BY FrequencyAssumption
  <2>4. MutualExclusion' /\ TunedOutsideLoop'
    BY <2>1, <2>2
  <2>5. DeviceLoop'
    BY <2>1, <2>2, <2>3
  <2>6. QED
    BY <2>4, <2>5
<1>3. CASE SetDevice(t)
  <2>1. /\ \A u \in Threads \ {t} : pc'[u] = pc[u] /\ ~Critical(u) /\ pc[u] # "device"
        /\ freqMutex' = t /\ frequencyHz' = frequencyHz /\ target' = target
        /\ frequencyHz = target[t] /\ nextDev \in Devices
    BY <1>3 DEF SetDevice
  <2>2. \A d \in Devices : d < nextDev' => devHz'[d] = frequencyHz'
    BY <1>3, <2>1 DEF SetDevice
  <2>3. CASE MoreDevices
    <3>1. pc'[t] = "device" /\ nextDev' \in Devices
      BY <1>3, <2>1, <2>3, FrequencyAssumption DEF SetDevice, MoreDevices
    <3>2. QED
      BY <2>1, <2>2, <3>1
  <2>4. CASE ~MoreDevices
    <3>1. pc'[t] \in {"reset", "show"}
      BY <1>3, <2>4 DEF SetDevice
    <3>2. nextDev' = nextDev + 1
      BY <1>3 DEF SetDevice
    <3>3. \A d \in Devices : d < nextDev'
      BY <2>1, <2>4, <3>2, FrequencyAssumption DEF MoreDevices
    <3>4. \A d \in Devices : devHz'[d] = frequencyHz'
      BY <2>2, <3>3
    <3>5. QED
      BY <2>1, <3>1, <3>4
  <2>5. QED
    BY <2>3, <2>4
<1>4. CASE ShowFrequency(t)
  BY <1>4 DEF ShowFrequency, tuneVars
<1>5. CASE ResetDecoders(t)
  BY <1>5 DEF ResetDecoders, tuneVars
<1>6. CASE Release(t)
  BY <1>6 DEF Release, Resume, Forget
<1>7. QED
  BY <1>1, <1>2, <1>3, <1>4, <1>5, <1>6 DEF HoldMutex

\* A step of a thread that is outside a retune and stays outside of it.
LEMMA OutsideKeepsInv ==
  ASSUME TuneInv, UNCHANGED tuneVars,
         \A t \in Threads : Critical(t)' <=> Critical(t),
         \A t \in Threads : Critical(t) => pc'[t] = pc[t] /\ target'[t] = target[t],
         \A t \in Threads : pc[t] # "device" => pc'[t] # "device"
  PROVE  RetuneInv'
  BY DEF TuneInv, RetuneInv, MutualExclusion, DeviceLoop, TunedOutsideLoop, Tuned, Critical,
         tuneVars, Devices

LEMMA SweepKeepsInv ==
  ASSUME TuneInv, Sweep
  PROVE  RetuneInv'
<1>. USE DEF TuneInv, TypeOK, Critical, Threads, Goto, At, tuneVars
<1>1. CASE Wake
  BY <1>1, OutsideKeepsInv DEF Wake
<1>2. CASE LoadLocked
  BY <1>2, OutsideKeepsInv DEF LoadLocked
<1>3. CASE LoadLastFrame
  BY <1>3, OutsideKeepsInv DEF LoadLastFrame
<1>4. CASE Unlock
  BY <1>4, OutsideKeepsInv DEF Unlock
<1>5. CASE DecideHop
  BY <1>5, OutsideKeepsInv DEF DecideHop
<1>6. QED
  BY <1>1, <1>2, <1>3, <1>4, <1>5 DEF Sweep
LEMMA DspKeepsInv ==
  ASSUME TuneInv, Dsp
  PROVE  RetuneInv'
<1>. USE DEF TuneInv, TypeOK, Critical, Threads, Goto, At, tuneVars
<1>1. CASE CaptureBlock
  BY <1>1, OutsideKeepsInv DEF CaptureBlock
<1>2. CASE BeginBlock
  <2>1. pc' = [pc EXCEPT !["dsp"] = "scan"] \/ pc' = [pc EXCEPT !["dsp"] = "decode"]
    BY <1>2 DEF BeginBlock
  <2>2. \A t \in Threads : t # "dsp" => target'[t] = target[t]
    BY <1>2 DEF BeginBlock
  <2>3. QED
    BY <1>2, <2>1, <2>2, OutsideKeepsInv DEF BeginBlock
<1>3. ASSUME NEW p \in Peaks, FindPeak(p) PROVE RetuneInv'
  <2>1. pc' = [pc EXCEPT !["dsp"] = "scan"] \/ pc' = [pc EXCEPT !["dsp"] = "wait"]
    BY <1>3 DEF FindPeak
  <2>2. QED
    BY <1>3, <2>1, OutsideKeepsInv DEF FindPeak
<1>4. CASE EndScan
  BY <1>4, OutsideKeepsInv DEF EndScan, Forget
<1>5. CASE CheckPeak
  BY <1>5 DEF CheckPeak, RetuneInv, MutualExclusion, DeviceLoop, TunedOutsideLoop, Tuned
<1>6. ASSUME NEW frame \in BOOLEAN, DecodeBlock(frame) PROVE RetuneInv'
  BY <1>6, OutsideKeepsInv DEF DecodeBlock
<1>7. CASE LockSonde
  BY <1>7, OutsideKeepsInv DEF LockSonde
<1>8. CASE StampFrame
  BY <1>8, OutsideKeepsInv DEF StampFrame
<1>9. QED
  BY <1>1, <1>2, <1>3, <1>4, <1>5, <1>6, <1>7, <1>8 DEF Dsp

LEMMA RestKeepsInv ==
  ASSUME TuneInv, Main \/ Tick \/ Web \/ UNCHANGED vars
  PROVE  RetuneInv'
<1>. USE DEF TuneInv, TypeOK, Critical, Threads, Goto, At, tuneVars
<1>1. CASE Main
  BY <1>1, OutsideKeepsInv DEF Main, InstallTuneCallback, StartReceiver
<1>2. CASE Tick
  BY <1>2, OutsideKeepsInv DEF Tick
<1>3. CASE Web
  <2>1. ASSUME NEW f \in WebHz, RequestTune(f) PROVE RetuneInv'
    BY <2>1, OutsideKeepsInv DEF RequestTune
  <2>2. CASE CallTuneCallback
    <3>1. pc' = [pc EXCEPT !["web"] = "idle"] \/ pc' = [pc EXCEPT !["web"] = "wait"]
      BY <2>2 DEF CallTuneCallback
    <3>2. \A t \in Threads : t # "web" => target'[t] = target[t]
      BY <2>2 DEF CallTuneCallback, Forget
    <3>3. QED
      BY <2>2, <3>1, <3>2, OutsideKeepsInv DEF CallTuneCallback
  <2>3. QED
    BY <1>3, <2>1, <2>2 DEF Web
<1>4. CASE UNCHANGED vars
  BY <1>4, OutsideKeepsInv DEF vars
<1>5. QED
  BY <1>1, <1>2, <1>3, <1>4

-----------------------------------------------------------------------------
(* The scan belongs to the thread that takes the lock.                     *)

LEMMA ScanStaysUnlocked ==
  ASSUME TuneInv, [Next]_vars
  PROVE  ScanUnlocked'
<1>. USE DEF TuneInv, TypeOK, ScanUnlocked, Threads, Goto, At, lockVars
<1>1. ASSUME NEW t \in Threads, Acquire(t) \/ HoldMutex(t) PROVE ScanUnlocked'
  BY <1>1 DEF HoldMutex, Acquire, StoreFrequency, SetDevice, ShowFrequency, ResetDecoders,
       Release, Resume
<1>2. CASE Dsp
  <2>1. CASE BeginBlock
    BY <2>1 DEF BeginBlock, MayRetune
  <2>2. ASSUME NEW p \in Peaks, FindPeak(p) PROVE ScanUnlocked'
    BY <2>2 DEF FindPeak
  <2>3. ASSUME NEW frame \in BOOLEAN, DecodeBlock(frame) PROVE ScanUnlocked'
    BY <2>3 DEF DecodeBlock
  <2>4. CASE CaptureBlock \/ EndScan \/ CheckPeak \/ LockSonde \/ StampFrame
    BY <2>4 DEF CaptureBlock, EndScan, CheckPeak, LockSonde, StampFrame
  <2>5. QED
    BY <1>2, <2>1, <2>2, <2>3, <2>4 DEF Dsp
<1>3. CASE Sweep
  BY <1>3 DEF Sweep, Wake, LoadLocked, LoadLastFrame, Unlock, DecideHop
<1>4. CASE Web
  BY <1>4 DEF Web, RequestTune, CallTuneCallback
<1>5. CASE Main \/ Tick \/ UNCHANGED vars
  BY <1>5 DEF Main, InstallTuneCallback, StartReceiver, Tick, vars
<1>6. QED
  BY <1>1, <1>2, <1>3, <1>4, <1>5 DEF Next

-----------------------------------------------------------------------------
LEMMA InvInit == Init => TuneInv
<1>. SUFFICES ASSUME Init PROVE TuneInv
  OBVIOUS
<1>1. TypeOK
  BY InitTyped
<1>2. MutualExclusion
  BY DEF Init, MutualExclusion, Critical, Threads
<1>3. DeviceLoop /\ ScanUnlocked
  BY DEF Init, DeviceLoop, ScanUnlocked, Threads
<1>4. TunedOutsideLoop
  BY DEF Init, TunedOutsideLoop, Tuned, Devices
<1>5. QED
  BY <1>1, <1>2, <1>3, <1>4 DEF TuneInv

LEMMA InvNext == TuneInv /\ [Next]_vars => TuneInv'
<1>. SUFFICES ASSUME TuneInv, [Next]_vars PROVE TuneInv'
  OBVIOUS
<1>1. TypeOK'
  BY RetuneTyped, SweepTyped, DspTyped, RestTyped DEF Next
<1>2. RetuneInv'
  BY RetuneKeepsInv, SweepKeepsInv, DspKeepsInv, RestKeepsInv DEF Next
<1>3. ScanUnlocked'
  BY ScanStaysUnlocked
<1>4. QED
  BY <1>1, <1>2, <1>3 DEF TuneInv, RetuneInv

THEOREM TuneInvariant == Spec => []TuneInv
<1>. QED
  BY InvInit, InvNext, PTL DEF Spec

\* Every variable of the tuning keeps its type.
THEOREM TypeCorrect == Spec => []TypeOK
<1>1. TuneInv => TypeOK
  BY DEF TuneInv
<1>. QED
  BY <1>1, TuneInvariant, PTL

\* freqMutex protects the retune: its owner is the one thread inside.
THEOREM RetuneIsExclusive == Spec => []MutualExclusion
<1>1. TuneInv => MutualExclusion
  BY DEF TuneInv
<1>. QED
  BY <1>1, TuneInvariant, PTL

\* Between retunes frequencyHz and every dongle agree.
THEOREM ReceiverAgrees == Spec => []TunedConsistently
<1>1. TuneInv => TunedConsistently
  <2>. SUFFICES ASSUME TuneInv, freqMutex = "none" PROVE Tuned
    BY DEF TunedConsistently, Tuned
  <2>1. \A t \in Threads : pc[t] # "device"
    BY DEF TuneInv, MutualExclusion, Critical, Threads
  <2>2. QED
    BY <2>1 DEF TuneInv, TunedOutsideLoop
<1>. QED
  BY <1>1, TuneInvariant, PTL

\* A spectrum peak never makes the receiver leave a sonde.
THEOREM ScannerKeepsSonde == Spec => PeakNeverLeavesSonde
<1>1. TuneInv /\ [Next]_vars => [StoreFrequency("dsp") => ~sondeLocked]_vars
  BY DEF TuneInv, ScanUnlocked, StoreFrequency, At
<1>. QED
  BY <1>1, TuneInvariant, PTL DEF Spec, PeakNeverLeavesSonde
-----------------------------------------------------------------------------
(* With auto-scan off the peak callback and the sweep never retune, and a  *)
(* request under way has already set what it sets first.                   *)

Manual ==
  ~autoScan =>
    /\ pc["sweep"] = "sleep"
    /\ pc["dsp"] \in {"idle", "block", "decode", "lock", "stamp"}
    /\ pc["web"] # "idle" => webHz = target["web"]
    /\ pc["web"] \in {"device", "reset", "unlock"} => frequencyHz = target["web"]

LEMMA ManualInit == Init => Manual
  BY DEF Init, Manual

LEMMA AutoScanIsFixed ==
  ASSUME [Next]_vars
  PROVE  UNCHANGED autoScan
<1>1. ASSUME NEW t \in Threads, Acquire(t) \/ HoldMutex(t) PROVE UNCHANGED autoScan
  BY <1>1 DEF HoldMutex, Acquire, StoreFrequency, SetDevice, ShowFrequency, ResetDecoders, Release
<1>2. CASE Dsp
  BY <1>2, Zenon DEF Dsp, CaptureBlock, BeginBlock, FindPeak, EndScan, CheckPeak, DecodeBlock,
     LockSonde, StampFrame
<1>3. CASE Sweep \/ Web
  BY <1>3, Zenon DEF Sweep, Wake, LoadLocked, LoadLastFrame, Unlock, DecideHop, Web, RequestTune,
     CallTuneCallback
<1>4. CASE Main \/ Tick \/ UNCHANGED vars
  BY <1>4 DEF Main, InstallTuneCallback, StartReceiver, Tick, vars
<1>5. QED
  BY <1>1, <1>2, <1>3, <1>4 DEF Next

LEMMA ManualNext == TuneInv /\ Manual /\ [Next]_vars => Manual'
<1>. SUFFICES ASSUME TuneInv, Manual, [Next]_vars PROVE Manual'
  OBVIOUS
<1>. SUFFICES ASSUME ~autoScan PROVE Manual'
  BY AutoScanIsFixed DEF Manual
<1>0. /\ pc["sweep"] = "sleep"
      /\ pc["dsp"] \in {"idle", "block", "decode", "lock", "stamp"}
      /\ pc \in [Threads -> DspLabels \cup SweepLabels \cup WebLabels]
      /\ target \in [Threads -> Nat]
  BY DEF Manual, TuneInv, TypeOK
<1>. USE DEF Manual, Threads, Goto, At
<1>1. ASSUME NEW t \in Threads, Acquire(t) \/ HoldMutex(t) PROVE Manual'
  <2>1. t = "web"
    BY <1>0, <1>1 DEF HoldMutex, Acquire, StoreFrequency, SetDevice, ShowFrequency, ResetDecoders, Release
  <2>2. CASE Acquire("web")
    BY <1>0, <2>2 DEF Acquire
  <2>3. CASE StoreFrequency("web")
    BY <1>0, <2>3 DEF StoreFrequency
  <2>4. CASE SetDevice("web")
    <3>1. pc' = [pc EXCEPT !["web"] = "device"] \/ pc' = [pc EXCEPT !["web"] = "reset"]
      BY <2>4 DEF SetDevice
    <3>2. QED
      BY <1>0, <2>4, <3>1 DEF SetDevice
  <2>5. CASE ShowFrequency("web")
    BY <1>0, <2>5 DEF ShowFrequency, TuneInv, TypeOK, WebLabels
  <2>6. CASE ResetDecoders("web")
    BY <1>0, <2>6 DEF ResetDecoders, tuneVars
  <2>7. CASE Release("web")
    BY <1>0, <2>7 DEF Release, Resume, Forget
  <2>8. QED
    BY <1>1, <2>1, <2>2, <2>3, <2>4, <2>5, <2>6, <2>7 DEF HoldMutex
<1>2. CASE Dsp
  BY <1>0, <1>2 DEF Dsp, CaptureBlock, BeginBlock, MayRetune, FindPeak, EndScan, CheckPeak,
     DecodeBlock, LockSonde, StampFrame, tuneVars
<1>3. CASE Sweep
  BY <1>0, <1>3 DEF Sweep, Wake, LoadLocked, LoadLastFrame, Unlock, DecideHop
<1>4. ASSUME NEW f \in WebHz, RequestTune(f) PROVE Manual'
  BY <1>0, <1>4 DEF RequestTune, tuneVars
<1>5. CASE CallTuneCallback
  <2>1. CASE main = "booting"
    BY <1>0, <1>5, <2>1 DEF CallTuneCallback, Forget
  <2>2. CASE main # "booting"
    BY <1>0, <1>5, <2>2 DEF CallTuneCallback, tuneVars
  <2>3. QED
    BY <2>1, <2>2
<1>6. CASE Main \/ Tick \/ UNCHANGED vars
  BY <1>6 DEF Main, InstallTuneCallback, StartReceiver, Tick, vars, tuneVars
<1>7. QED
  BY <1>1, <1>2, <1>3, <1>4, <1>5, <1>6 DEF Next, Web

\* With auto-scan off, a finished /api/tune leaves the dashboard, frequencyHz
\* and every dongle on the frequency that was asked for.
THEOREM TuneIsApplied == Spec => ManualTuneIsApplied
<1>1. TuneInv /\ Manual /\ [Next]_vars =>
        [Release("web") /\ ~autoScan =>
           /\ webHz = frequencyHz
           /\ \A d \in Devices : devHz[d] = target["web"]]_vars
  <2>. SUFFICES ASSUME TuneInv, Manual, Release("web"), ~autoScan
                PROVE  webHz = frequencyHz /\ \A d \in Devices : devHz[d] = target["web"]
    OBVIOUS
  <2>1. pc["web"] = "unlock" /\ webHz = target["web"] /\ frequencyHz = target["web"]
    BY DEF Release, At, Manual
  <2>2. \A t \in Threads : pc[t] # "device"
    BY <2>1 DEF Manual, Threads
  <2>3. Tuned
    BY <2>2 DEF TuneInv, TunedOutsideLoop
  <2>4. QED
    BY <2>1, <2>3 DEF Tuned
<1>. QED
  BY <1>1, TuneInvariant, ManualInit, ManualNext, PTL DEF Spec, ManualTuneIsApplied
=============================================================================
