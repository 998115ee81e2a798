------------------------------- MODULE Tuning -------------------------------
(***************************************************************************)
(* Who decides what frequency the radio listens on.                        *)
(*                                                                         *)
(* src/main.cpp runs three threads that retune one receiver: the DSP       *)
(* thread (a spectrum peak found in the block it is processing), the sweep *)
(* thread (a hop every second while no sonde is locked) and the web thread *)
(* (a user's /api/tune).  They share frequencyHz, the devices, the         *)
(* dashboard's copy of the frequency, the decoders, and the pair of        *)
(* atomics sondeLocked / lastFrameTimeMs, under one mutex, freqMutex,      *)
(* that covers the retune itself and none of the decisions that lead to    *)
(* it.  Every lock operation, atomic load, atomic store and device call    *)
(* that another thread can tell apart is a step here.                      *)
(***************************************************************************)
EXTENDS Integers, Sequences

CONSTANTS
  InitialHz,      \* the frequency of the configuration or of --freq
  SweepSteps,     \* sweepSteps, the hop list
  WebHz,          \* the frequencies users ask for through /api/tune
  SignalHz,       \* where sondes really transmit
  MinHz, MaxHz,   \* the scanner's minFrequencyHz and maxFrequencyHz
  PeakGuardHz,    \* 10000: a peak this close is not worth a retune
  NDevices,       \* dongles behind the DiversityReceiver
  Timeout,        \* 8000 ms
  W,              \* 2^64: the subtraction of two clock readings wraps
  Horizon         \* bound: the clock stops once every reading is this old

ASSUME FrequencyAssumption ==
  /\ InitialHz \in Nat
  /\ SweepSteps \in Seq(Nat) /\ Len(SweepSteps) > 0
  /\ WebHz \subseteq Nat
  /\ SignalHz \subseteq Nat
  /\ MinHz \in Nat /\ MaxHz \in Nat
  /\ PeakGuardHz \in Nat
  /\ NDevices \in Nat \ {0}

ASSUME ClockAssumption ==
  /\ Timeout \in Nat /\ Horizon \in Nat /\ W \in Nat
  /\ Timeout < Horizon
  /\ 2 * Horizon < W - Timeout

VARIABLES
  autoScan,         \* fixed at startup: --freq on the command line clears it
  main,             \* the main thread: booting, hooked or running
  pc,               \* where each of the other threads is
  target,           \* peak.frequencyHz, nextFreq and newFreqHz, thread by thread
  freqMutex,        \* its owner, or "none"
  frequencyHz,
  devHz,            \* m_config.frequencyHz of each device
  nextDev,          \* loop index of DiversityReceiver::setFrequency
  webHz,            \* m_currentFreqHz of the dashboard
  stepIdx,
  sondeLocked, lastFrameTimeMs,
  clock, nowMs,     \* the system clock, and the sweep thread's reading of it
  block,            \* the frequencies the block in hand was captured on
  centreHz,         \* the centre frequency analyzeBlock was given
  heard             \* the frequencies the decoders hold bits from

lockVars == <<sondeLocked, lastFrameTimeMs>>
timeVars == <<clock, nowMs>>
dspVars == <<block, centreHz, heard>>
tuneVars == <<freqMutex, frequencyHz, devHz, nextDev>>
vars == <<autoScan, main, pc, target, tuneVars, webHz, stepIdx, lockVars, timeVars, dspVars>>

Threads == {"dsp", "sweep", "web"}
Devices == 1 .. NDevices

Range(f) == {f[x] : x \in DOMAIN f}

\* The unsigned difference of two clock readings, and how old a reading is.
Minus(a, b) == (a - b) % W
Age(reading) == Minus(clock, reading)

Init ==
  /\ autoScan \in BOOLEAN
  /\ main = "booting"
  /\ pc = [dsp |-> "idle", sweep |-> "sleep", web |-> "idle"]
  /\ target = [t \in Threads |-> 0]
  /\ freqMutex = "none"
  /\ frequencyHz = InitialHz
  /\ devHz = [d \in Devices |-> InitialHz]
  /\ nextDev = 1
  /\ webHz = InitialHz
  /\ stepIdx = 0
  /\ sondeLocked = FALSE
  /\ lastFrameTimeMs = 0
  /\ clock = Horizon
  /\ nowMs = 0
  /\ block = {}
  /\ centreHz = 0
  /\ heard = {}

Goto(t, label) == pc' = [pc EXCEPT ![t] = label]
At(t, label) == pc[t] = label

\* A local that goes out of scope is forgotten.
Forget(t) == target' = [target EXCEPT ![t] = 0]

-----------------------------------------------------------------------------
(* The main thread.  The dashboard serves requests before any of this.     *)

InstallTuneCallback ==
  /\ main = "booting"
  /\ main' = "hooked"
  /\ UNCHANGED <<autoScan, pc, target, tuneVars, webHz, stepIdx, lockVars, timeVars, dspVars>>

StartReceiver ==
  /\ main = "hooked"
  /\ main' = "running"
  /\ UNCHANGED <<autoScan, pc, target, tuneVars, webHz, stepIdx, lockVars, timeVars, dspVars>>

\* Time passes until a reading still in use is Horizon old: nothing in the code
\* tells older readings apart.
Tick ==
  /\ Age(lastFrameTimeMs) < Horizon
  /\ pc["sweep"] \in {"locked?", "age?"} => Age(nowMs) < Horizon
  /\ clock' = (clock + 1) % W
  /\ UNCHANGED <<autoScan, main, pc, target, tuneVars, webHz, stepIdx, lockVars, nowMs, dspVars>>

-----------------------------------------------------------------------------
(* A retune: what each thread does from lock_guard to the end of its scope. *)

\* Slip: the guard object is a temporary, so nothing is locked.
AlwaysFree == TRUE

MutexFree == freqMutex = "none"

\* lock_guard<std::mutex> lock(freqMutex)
Acquire(t) ==
  /\ At(t, "wait")
  /\ MutexFree
  /\ freqMutex' = t
  /\ Goto(t, IF t = "dsp" THEN "check" ELSE "store")
  /\ UNCHANGED <<autoScan, main, target, frequencyHz, devHz, nextDev, webHz, stepIdx,
                 lockVars, timeVars, dspVars>>

FarFrom(f, g) == f - g > PeakGuardHz \/ g - f > PeakGuardHz

\* Only the peak callback looks at the tuning before it changes it.
CheckPeak ==
  /\ At("dsp", "check")
  /\ Goto("dsp", IF FarFrom(target["dsp"], frequencyHz) THEN "store" ELSE "unlock")
  /\ UNCHANGED <<autoScan, main, target, tuneVars, webHz, stepIdx, lockVars, timeVars, dspVars>>

StoreFrequency(t) ==
  /\ At(t, "store")
  /\ frequencyHz' = target[t]
  /\ nextDev' = 1
  /\ Goto(t, "device")
  /\ UNCHANGED <<autoScan, main, target, freqMutex, devHz, webHz, stepIdx, lockVars, timeVars, dspVars>>

\* Slip: <= in the loop over the devices.
MoreDevicesPastEnd == nextDev <= NDevices

\* Slip: only the primary dongle is retuned.
NoMoreDevices == FALSE

MoreDevices == nextDev < NDevices

\* One round of the loop in DiversityReceiver::setFrequency.  The drivers store
\* the frequency in m_config whatever the hardware then answers.
SetDevice(t) ==
  /\ At(t, "device")
  /\ devHz' = [devHz EXCEPT ![nextDev] = target[t]]
  /\ nextDev' = nextDev + 1
  /\ Goto(t, IF MoreDevices THEN "device"
             ELSE IF t = "web" THEN "reset" ELSE "show")
  /\ UNCHANGED <<autoScan, main, target, freqMutex, frequencyHz, webHz, stepIdx, lockVars, timeVars, dspVars>>

\* webDashboard.setCurrentFrequency, inside the critical section for the peak
\* callback and the sweep only.
ShowFrequency(t) ==
  /\ At(t, "show")
  /\ webHz' = target[t]
  /\ Goto(t, "reset")
  /\ UNCHANGED <<autoScan, main, target, tuneVars, stepIdx, lockVars, timeVars, dspVars>>

\* The filter and the AFC hold no bits; the sweep resets nothing else.
ResetDecoders(t) ==
  /\ At(t, "reset")
  /\ heard' = IF t = "sweep" THEN heard ELSE {}
  /\ Goto(t, "unlock")
  /\ UNCHANGED <<autoScan, main, target, tuneVars, webHz, stepIdx, lockVars, timeVars, block, centreHz>>

\* Slip: a finished request is applied again, for ever.
ResumeRetuning == [dsp |-> "scan", sweep |-> "sleep", web |-> "wait"]

\* Where the thread was when it called.
Resume == [dsp |-> "scan", sweep |-> "sleep", web |-> "idle"]

Release(t) ==
  /\ At(t, "unlock")
  /\ freqMutex' = "none"
  /\ Goto(t, Resume[t])
  /\ IF t = "dsp" THEN UNCHANGED target ELSE Forget(t)
  /\ UNCHANGED <<autoScan, main, frequencyHz, devHz, nextDev, webHz, stepIdx,
                 lockVars, timeVars, dspVars>>

HoldMutex(t) == StoreFrequency(t) \/ SetDevice(t) \/ ShowFrequency(t) \/ ResetDecoders(t) \/ Release(t)

-----------------------------------------------------------------------------
(* The web thread: GET /api/tune.                                          *)

\* Slip: the dashboard is left to show the last frequency it was told.
RequestTuneUnshown(f) ==
  /\ At("web", "idle")
  /\ target' = [target EXCEPT !["web"] = f]
  /\ Goto("web", "hooked?")
  /\ UNCHANGED <<autoScan, main, tuneVars, webHz, stepIdx, lockVars, timeVars, dspVars>>

\* The dashboard's copy changes at once.
RequestTune(f) ==
  /\ At("web", "idle")
  /\ webHz' = f
  /\ target' = [target EXCEPT !["web"] = f]
  /\ Goto("web", "hooked?")
  /\ UNCHANGED <<autoScan, main, tuneVars, stepIdx, lockVars, timeVars, dspVars>>

\* if (m_tuneCallback): without one the request is answered "ok" all the same.
CallTuneCallback ==
  /\ At("web", "hooked?")
  /\ IF main = "booting" THEN Goto("web", "idle") /\ Forget("web")
                         ELSE Goto("web", "wait") /\ UNCHANGED target
  /\ UNCHANGED <<autoScan, main, tuneVars, webHz, stepIdx, lockVars, timeVars, dspVars>>

-----------------------------------------------------------------------------
(* The sweep thread: one iteration a second.                                *)

Wake ==
  /\ main = "running" /\ autoScan
  /\ At("sweep", "sleep")
  /\ nowMs' = clock
  /\ Goto("sweep", "locked?")
  /\ UNCHANGED <<autoScan, main, target, tuneVars, webHz, stepIdx, lockVars, clock, dspVars>>

LoadLocked ==
  /\ At("sweep", "locked?")
  /\ IF sondeLocked THEN Goto("sweep", "age?") /\ UNCHANGED nowMs
                     ELSE Goto("sweep", "free?") /\ nowMs' = 0
  /\ UNCHANGED <<autoScan, main, target, tuneVars, webHz, stepIdx, lockVars, clock, dspVars>>

\* Slip: microseconds compared with milliseconds.
ExpiredInWrongUnit == Minus(nowMs, lastFrameTimeMs) > Timeout * 1000

\* int64 minus uint64 is unsigned: nowMs - lastFrameTimeMs > 8000
Expired == Minus(nowMs, lastFrameTimeMs) > Timeout

LoadLastFrame ==
  /\ At("sweep", "age?")
  /\ Goto("sweep", IF Expired THEN "expire" ELSE "free?")
  /\ nowMs' = 0
  /\ UNCHANGED <<autoScan, main, target, tuneVars, webHz, stepIdx, lockVars, clock, dspVars>>

Unlock ==
  /\ At("sweep", "expire")
  /\ sondeLocked' = FALSE
  /\ Goto("sweep", "free?")
  /\ UNCHANGED <<autoScan, main, target, tuneVars, webHz, stepIdx, lastFrameTimeMs, timeVars, dspVars>>

\* if (!sondeLocked) the hop is decided here, the mutex taken later.
DecideHop ==
  /\ At("sweep", "free?")
  /\ IF sondeLocked
       THEN Goto("sweep", "sleep") /\ UNCHANGED <<target, stepIdx>>
       ELSE /\ Goto("sweep", "wait")
            /\ target' = [target EXCEPT !["sweep"] = SweepSteps[stepIdx + 1]]
            /\ stepIdx' = (stepIdx + 1) % Len(SweepSteps)
  /\ UNCHANGED <<autoScan, main, tuneVars, webHz, lockVars, timeVars, dspVars>>

-----------------------------------------------------------------------------
(* The DSP thread: one block at a time.                                     *)

\* The device (both of them, in diversity mode) fills a block where it is tuned.
CaptureBlock ==
  /\ main = "running"
  /\ At("dsp", "idle")
  /\ block' = Range(devHz)
  /\ Goto("dsp", "block")
  /\ UNCHANGED <<autoScan, main, target, tuneVars, webHz, stepIdx, lockVars, timeVars, centreHz, heard>>

\* Slip: the lock is not consulted.
MayAlwaysRetune == autoScan

MayRetune == autoScan /\ ~sondeLocked

\* The sample callback scans an unlocked block around the frequency it reads,
\* without the mutex, from frequencyHz.
BeginBlock ==
  /\ At("dsp", "block")
  /\ IF MayRetune
       THEN /\ Goto("dsp", "scan")
            /\ centreHz' = frequencyHz
            /\ target' = [target EXCEPT !["dsp"] = 0]
       ELSE Goto("dsp", "decode") /\ UNCHANGED <<centreHz, target>>
  /\ UNCHANGED <<autoScan, main, tuneVars, webHz, stepIdx, lockVars, timeVars, block, heard>>

\* A signal s shows up in a block captured on b at the offset s - b, and is
\* reported at that offset from the centre.  Only the band is reported.
Peaks == {p \in {centreHz + s - b : s \in SignalHz, b \in block} : MinHz <= p /\ p <= MaxHz}

\* analyzeBlock walks the bins upwards and calls the peak callback for each peak.
FindPeak(p) ==
  /\ At("dsp", "scan")
  /\ p > target["dsp"]
  /\ target' = [target EXCEPT !["dsp"] = p]
  /\ Goto("dsp", IF MayRetune THEN "wait" ELSE "scan")
  /\ UNCHANGED <<autoScan, main, tuneVars, webHz, stepIdx, lockVars, timeVars, dspVars>>

\* Noise may hide any peak, so the walk can end at any time.
EndScan ==
  /\ At("dsp", "scan")
  /\ Goto("dsp", "decode")
  /\ Forget("dsp")
  /\ centreHz' = 0
  /\ UNCHANGED <<autoScan, main, tuneVars, webHz, stepIdx, lockVars, timeVars, block, heard>>

\* The bits of the block go to the decoders, which may complete a frame.
DecodeBlock(frame) ==
  /\ At("dsp", "decode")
  /\ heard' = heard \cup block
  /\ IF frame THEN Goto("dsp", "lock") /\ UNCHANGED block
              ELSE Goto("dsp", "idle") /\ block' = {}
  /\ UNCHANGED <<autoScan, main, target, tuneVars, webHz, stepIdx, lockVars, timeVars, centreHz>>

\* onTelemetryReceived locks first and stamps the frame afterwards.
LockSonde ==
  /\ At("dsp", "lock")
  /\ sondeLocked' = TRUE
  /\ Goto("dsp", "stamp")
  /\ UNCHANGED <<autoScan, main, target, tuneVars, webHz, stepIdx, lastFrameTimeMs, timeVars, dspVars>>

\* The decoder starts the next frame with the rest of the block.
StampFrame ==
  /\ At("dsp", "stamp")
  /\ lastFrameTimeMs' = clock
  /\ heard' = block
  /\ Goto("dsp", "decode")
  /\ UNCHANGED <<autoScan, main, target, tuneVars, webHz, stepIdx, sondeLocked, timeVars, block, centreHz>>

-----------------------------------------------------------------------------
Main == InstallTuneCallback \/ StartReceiver
Web == (\E f \in WebHz : RequestTune(f)) \/ CallTuneCallback
Sweep == Wake \/ LoadLocked \/ LoadLastFrame \/ Unlock \/ DecideHop
Dsp ==
  \/ CaptureBlock
  \/ BeginBlock
  \/ \E p \in Peaks : FindPeak(p)
  \/ EndScan
  \/ CheckPeak
  \/ \E frame \in BOOLEAN : DecodeBlock(frame)
  \/ LockSonde
  \/ StampFrame

Next ==
  \/ Main
  \/ Tick
  \/ Web
  \/ Sweep
  \/ Dsp
  \/ \E t \in Threads : Acquire(t) \/ HoldMutex(t)

Spec == Init /\ [][Next]_vars

\* Time passes, a running thread keeps running, and a thread waiting for a
\* mutex that keeps being released gets it.  Nothing makes a block, a frame or
\* a request arrive.
Fairness ==
  /\ WF_vars(Tick)
  /\ WF_vars(Main)
  /\ WF_vars(Sweep)
  /\ WF_vars(CheckPeak)
  /\ WF_vars(CallTuneCallback)
  /\ \A t \in Threads : SF_vars(Acquire(t)) /\ WF_vars(HoldMutex(t))

FairSpec == Spec /\ Fairness

-----------------------------------------------------------------------------
DspLabels == {"idle", "block", "scan", "wait", "check", "store", "device", "show", "reset",
              "unlock", "decode", "lock", "stamp"}
SweepLabels == {"sleep", "locked?", "age?", "expire", "free?", "wait", "store", "device", "show",
                "reset", "unlock"}
WebLabels == {"idle", "hooked?", "wait", "store", "device", "reset", "unlock"}

\* Every variable keeps its type: in particular the device loop never indexes
\* past the device list and the hop index never past the hop list.
TypeOK ==
  /\ autoScan \in BOOLEAN
  /\ main \in {"booting", "hooked", "running"}
  /\ pc \in [Threads -> DspLabels \cup SweepLabels \cup WebLabels]
  /\ pc["dsp"] \in DspLabels /\ pc["sweep"] \in SweepLabels /\ pc["web"] \in WebLabels
  /\ target \in [Threads -> Nat]
  /\ freqMutex \in Threads \cup {"none"}
  /\ frequencyHz \in Nat
  /\ devHz \in [Devices -> Nat]
  /\ nextDev \in 1 .. NDevices + 1
  /\ webHz \in Nat
  /\ stepIdx \in 0 .. Len(SweepSteps) - 1
  /\ sondeLocked \in BOOLEAN
  /\ lastFrameTimeMs \in 0 .. W - 1
  /\ clock \in 0 .. W - 1
  /\ nowMs \in 0 .. W - 1
  /\ block \subseteq Nat
  /\ centreHz \in Nat
  /\ heard \subseteq Nat

Critical(t) == pc[t] \in {"check", "store", "device", "show", "reset", "unlock"}

\* The mutex has the owner it says, and only that thread is in a retune.
MutualExclusion == \A t \in Threads : Critical(t) <=> freqMutex = t

\* Outside a retune the program's idea of the frequency and that of every
\* dongle are the same, whichever threads retuned and in whatever order.
TunedConsistently == freqMutex = "none" => \A d \in Devices : devHz[d] = frequencyHz

\* The scanner's peak callback never retunes a receiver that is locked on a
\* sonde, although it decides before it has the mutex: the lock is only ever
\* taken by its own thread.
PeakNeverLeavesSonde == [][StoreFrequency("dsp") => ~sondeLocked]_vars

\* With auto-scan off, a finished /api/tune leaves the dashboard, frequencyHz
\* and every dongle on one frequency.
ManualTuneIsApplied ==
  [][Release("web") /\ ~autoScan =>
       /\ webHz = frequencyHz
       /\ \A d \in Devices : devHz[d] = target["web"]]_vars

\* Auto-scan never stays locked on a silent frequency.
SilenceUnlocks == []<>~sondeLocked \/ []<><<StampFrame>>_vars \/ [](~autoScan)

\* A /api/tune that reached the callback gets its turn at the receiver.
TuneRequestsComplete == At("web", "wait") ~> At("web", "idle")

\* What the comment in the sweep thread says, that the lock is dropped only if no
\* frame was received for more than eight seconds, at the moment the age is
\* computed: a stamp newer than the sweep's own clock reading is not old.
ExpiryIsJustified ==
  [][LoadLastFrame /\ Expired => Age(lastFrameTimeMs) > Timeout]_vars

\* The sweep hops only "when unlocked".
SweepOnlyWhenUnlocked == [][StoreFrequency("sweep") => ~sondeLocked]_vars

\* The peaks of a block are signals that exist at the reported frequency.
PeaksAreSignals == At("dsp", "wait") => target["dsp"] \in SignalHz

\* A frame reported as locked at a frequency was received there.
FrameFromTunedFrequency == At("dsp", "stamp") => heard \subseteq {frequencyHz}
=============================================================================
