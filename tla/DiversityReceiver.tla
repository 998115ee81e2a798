-------------------------- MODULE DiversityReceiver --------------------------
(***************************************************************************)
(* The receiver and its dongles, from open() to close().                   *)
(*                                                                         *)
(* Every dongle has a worker thread that captures blocks.  With one dongle *)
(* the worker calls the sample callback itself.  With more, it leaves its  *)
(* block in the dongle's channel buffer under m_mutex, and the worker that *)
(* completes a set combines the set and calls the callback, still under    *)
(* m_mutex.  The main thread opens, starts, stops, joins and closes the    *)
(* dongles one after the other.                                            *)
(*                                                                         *)
(* Behind the callback is the channel filter, which keeps one sample in    *)
(* Decimation.  One retune, by the dashboard, by the sweep or by a peak    *)
(* found in the callback, may come at any time.                            *)
(***************************************************************************)
EXTENDS Integers, Sequences, FiniteSetsExt, SdrDrivers

Combiner == INSTANCE Combiner

CONSTANTS
  Dongles,     \* how many are configured
  Names,       \* the drivers a configuration may name; all dongles use one
  Decimation,  \* 50
  Wave,        \* the signal on the air: the samples of one block
  Amplitudes,  \* at which a dongle may hear it, 0 being not at all
  Capacity,    \* of m_combinedBuffer: 131072, more than any driver's block
  MaxBlock     \* bound: the blocks a dongle captures

ASSUME ReceiverAssumption ==
  /\ Dongles \in Nat \ {0}
  /\ Decimation \in Nat \ {0}
  /\ MaxBlock \in Nat

\* An FM signal has one amplitude, whatever it carries; here it goes by quarter
\* turns.
ASSUME SignalAssumption ==
  /\ Wave \in Seq({<<1, 0>>, <<0, 1>>, <<-1, 0>>, <<0, -1>>}) /\ Wave # <<>>
  /\ Amplitudes \subseteq Nat
  /\ Capacity \in Nat \ {0}

VARIABLES
  driver,      \* fixed at startup
  main,        \* the main thread: opening, ..., closed, or failed
  next,        \* the dongle its loop is at
  dev,         \* what each driver holds
  devices,     \* m_devices: the dongles that opened
  running,     \* m_running of each
  worker,      \* its worker thread
  async,       \* what librtlsdr knows: inactive, running or canceling
  captured,    \* the blocks it has captured, counted
  mutex,       \* the dongle whose worker owns m_mutex, or 0
  buffers,     \* m_channelBuffers: the block each channel holds, or 0
  taken,       \* the blocks given to the callback last
  tuner,       \* the retune: its state, the dongle it is at, and who does it
  since,       \* history variable: the last block a dongle began before it was retuned
  stale,       \* history variable: the sets with such a block since the retune
  filter       \* m_decimationPhase, and what went in and came out since a reset

setup == <<driver, dev, devices>>
threadVars == <<running, worker, async>>
channelVars == <<mutex, buffers, taken, stale>>
tuneVars == <<tuner, since, filter>>
vars == <<setup, main, next, threadVars, captured, channelVars, tuneVars>>

Dongle == 1 .. Dongles
Active == {devices[i] : i \in 1 .. Len(devices)}

Fresh == [phase |-> 0, fed |-> 0, out |-> 0]

\* Slip: <= in the loops over m_devices.
LastPastEnd(i) == i > Len(devices)

Last(i) == i >= Len(devices)

Init ==
  /\ driver \in {CreateSdrDevice(name) : name \in Names}
  /\ main = "open" /\ next = 1
  /\ dev = [d \in Dongle |-> NoDevice] /\ devices = <<>>
  /\ running = [d \in Dongle |-> FALSE]
  /\ worker = [d \in Dongle |-> "none"]
  /\ async = [d \in Dongle |-> "inactive"]
  /\ captured = [d \in Dongle |-> 0]
  /\ mutex = 0
  /\ buffers = [d \in Dongle |-> 0]
  /\ taken = [d \in Dongle |-> 0]
  /\ tuner = [state |-> "none", at |-> 0, by |-> 0]
  /\ since = [d \in Dongle |-> 0] /\ stale = 0
  /\ filter = Fresh

-----------------------------------------------------------------------------
(* The main thread.                                                        *)

\* After the last dongle the program goes on with those that opened, or stops.
AfterOpen(opened) ==
  IF next < Dongles THEN main' = "open" /\ next' = next + 1
                    ELSE main' = (IF opened = <<>> THEN "failed" ELSE "start") /\ next' = 1

\* A device that does not open is destroyed, and closed by that.
OpenDongle ==
  /\ main = "open"
  /\ \E result \in Open(driver) :
       IF result.ok THEN /\ devices' = Append(devices, next)
                         /\ dev' = [dev EXCEPT ![next] = result.device]
                    ELSE UNCHANGED <<devices, dev>>
  /\ AfterOpen(devices')
  /\ UNCHANGED <<driver, threadVars, captured, channelVars, tuneVars>>

Real(d) == dev[d].handle /\ ~dev[d].simulation

\* The result of startAsync is not looked at.
StartDongle ==
  /\ main = "start"
  /\ LET d == devices[next] IN
       \E result \in Start(driver, dev[d]) :
         /\ dev' = [dev EXCEPT ![d] = result.device]
         /\ IF result.ok THEN /\ running' = [running EXCEPT ![d] = TRUE]
                              /\ worker' = [worker EXCEPT ![d] = "begin"]
                         ELSE UNCHANGED <<running, worker>>
  /\ IF Last(next) THEN main' = "running" /\ next' = 1 ELSE next' = next + 1 /\ UNCHANGED main
  /\ UNCHANGED <<driver, devices, async, captured, channelVars, tuneVars>>

Signal ==
  /\ main = "running"
  /\ main' = "stop"
  /\ UNCHANGED <<setup, next, threadVars, captured, channelVars, tuneVars>>

\* stopAsync, up to the join.
StopDongle ==
  /\ main = "stop"
  /\ LET d == devices[next] IN
       IF running[d]
         THEN /\ running' = [running EXCEPT ![d] = FALSE]
              /\ async' = [async EXCEPT ![d] = Cancel(driver, @)]
              /\ main' = "join"
              /\ UNCHANGED next
         ELSE /\ IF Last(next) THEN main' = "close" /\ next' = 1
                               ELSE next' = next + 1 /\ UNCHANGED main
              /\ UNCHANGED <<running, async>>
  /\ UNCHANGED <<setup, worker, captured, channelVars, tuneVars>>

\* Slip: the thread is detached.
Detached(d) == TRUE

Ended(d) == worker[d] = "ended"

JoinWorker ==
  /\ main = "join"
  /\ Ended(devices[next])
  /\ IF Last(next) THEN main' = "close" /\ next' = 1 ELSE main' = "stop" /\ next' = next + 1
  /\ UNCHANGED <<setup, threadVars, captured, channelVars, tuneVars>>

\* m_devices is cleared; the dongles cannot be used any more.  No retune is
\* under way: a user who tunes at this moment is not modelled.
Close ==
  /\ main = "close" /\ tuner.state # "tuning"
  /\ main' = "closed"
  /\ devices' = <<>>
  /\ dev' = [d \in Dongle |-> Closed(driver, dev[d])]
  /\ UNCHANGED <<driver, next, threadVars, captured, channelVars, tuneVars>>

-----------------------------------------------------------------------------
(* The worker of dongle d.                                                 *)

GotoW(d, label) == worker' = [worker EXCEPT ![d] = label]

RtlHardware(d) == driver = "rtlsdr" /\ Real(d)

\* rtlsdr_read_async marks the device as running and never looks at m_running.
Begin(d) ==
  /\ worker[d] = "begin"
  /\ IF RtlHardware(d) THEN /\ GotoW(d, "read")
                            /\ async' = [async EXCEPT ![d] = "running"]
                       ELSE GotoW(d, "loop") /\ UNCHANGED async
  /\ UNCHANGED <<setup, main, next, running, captured, channelVars, tuneVars>>

\* Slip: while (true).
AlwaysRunning(d) == TRUE

StillRunning(d) == running[d]

\* while (m_running)
Loop(d) ==
  /\ worker[d] = "loop"
  /\ GotoW(d, IF StillRunning(d) THEN "read" ELSE "ended")
  /\ UNCHANGED <<setup, main, next, running, async, captured, channelVars, tuneVars>>

AfterBlock(d) == IF RtlHardware(d) THEN "read" ELSE "loop"

\* A block is there.  rtlsdrCallback drops it when m_running is clear.
Capture(d) ==
  /\ worker[d] = "read" /\ captured[d] < MaxBlock
  /\ async[d] # "canceling"
  /\ captured' = [captured EXCEPT ![d] = @ + 1]
  /\ GotoW(d, IF RtlHardware(d) /\ ~running[d] THEN "read" ELSE "deliver")
  /\ UNCHANGED <<setup, main, next, running, async, channelVars, tuneVars>>

\* bladerf_sync_rx times out.  At the bound, the blocks of every dongle whose
\* worker has a loop of its own are left out.
TimeOut(d) ==
  /\ worker[d] = "read" /\ ~RtlHardware(d)
  /\ (driver = "bladerf" /\ Real(d)) \/ captured[d] = MaxBlock
  /\ GotoW(d, "loop")
  /\ UNCHANGED <<setup, main, next, running, async, captured, channelVars, tuneVars>>

\* The library gives up: the device fails or, for librtlsdr, was cancelled.
StreamEnds(d) ==
  /\ worker[d] = "read" /\ Real(d)
  /\ GotoW(d, "ended")
  /\ async' = [async EXCEPT ![d] = "inactive"]
  /\ UNCHANGED <<setup, main, next, running, captured, channelVars, tuneVars>>

\* Slip: the temporary guard again.
AlwaysFree == TRUE

MutexFree == mutex = 0

\* Stale sets are counted from the end of the retune.  What a dongle began before
\* is forgotten with the first newer block it hands over.
Counted ==
  IF tuner.state = "done" /\ \E d \in Active : taken'[d] <= since[d] THEN stale + 1 ELSE 0

Forget(d) == since' = [since EXCEPT ![d] = IF captured[d] > @ THEN 0 ELSE @]

\* A single dongle's worker calls the callback directly.
DeliverAlone(d) ==
  /\ worker[d] = "deliver" /\ Len(devices) = 1
  /\ taken' = [taken EXCEPT ![d] = captured[d]]
  /\ stale' = Counted /\ Forget(d)
  /\ GotoW(d, "callback")
  /\ UNCHANGED <<setup, main, next, running, async, captured, mutex, buffers, tuner, filter>>

\* Slip: a block that was not combined yet is kept and the new one dropped.
KeepOld(d) == [buffers EXCEPT ![d] = IF @ = 0 THEN captured[d] ELSE @]

\* A block that was not combined yet is overwritten.
Assign(d) == [buffers EXCEPT ![d] = captured[d]]

\* onChannelSamples, step by step from the lock_guard to the callback.
AssignBlock(d) ==
  /\ worker[d] = "deliver" /\ Len(devices) > 1
  /\ MutexFree
  /\ mutex' = d
  /\ buffers' = Assign(d) /\ Forget(d)
  /\ GotoW(d, "assigned")
  /\ UNCHANGED <<setup, main, next, running, async, captured, taken, stale, tuner, filter>>

CombineBlocks(d) ==
  /\ worker[d] = "assigned"
  /\ IF \A e \in Active : buffers[e] > 0
       THEN taken' = buffers /\ stale' = Counted /\ GotoW(d, "combined") /\ UNCHANGED mutex
       ELSE mutex' = 0 /\ GotoW(d, AfterBlock(d)) /\ UNCHANGED <<taken, stale>>
  /\ UNCHANGED <<setup, main, next, running, async, captured, buffers, tuneVars>>

\* Slip: only the worker's own buffer is cleared.
ClearOwn(d) == [buffers EXCEPT ![d] = 0]

ClearBuffers(d) == [e \in Dongle |-> 0]

CallBack(d) ==
  /\ worker[d] = "combined"
  /\ buffers' = ClearBuffers(d)
  /\ GotoW(d, "callback")
  /\ UNCHANGED <<setup, main, next, running, async, captured, mutex, taken, stale, tuneVars>>

\* Slip: every block starts at phase 0.
FromZero(f, i) == i % Decimation

PhaseAt(f, i) == (f.phase + i) % Decimation

\* processBlockDecimateZeroAlloc: a sample comes out at every phase 0.
Decimated(f, n) ==
  LET first == (Decimation - PhaseAt(f, 0)) % Decimation
  IN [phase |-> PhaseAt(f, n),
      fed   |-> f.fed + n,
      out   |-> f.out + IF first < n THEN (n - 1 - first) \div Decimation + 1 ELSE 0]

\* What the callback is given: the shortest block.
SetSize == Min({BlockSize(driver, dev[d]) : d \in Active})

\* The rest of the callback, after a peak's retune if there was one.
EndCallback(d) ==
  /\ worker[d] = "callback"
  /\ ~(tuner.state = "tuning" /\ tuner.by = d)
  /\ filter' = Decimated(filter, SetSize)
  /\ mutex' = IF mutex = d THEN 0 ELSE mutex
  /\ GotoW(d, AfterBlock(d))
  /\ UNCHANGED <<setup, main, next, running, async, captured, buffers, taken, stale, tuner, since>>

-----------------------------------------------------------------------------
(* A retune, dongle by dongle, and the reset of the filter after it.       *)

\* By the dashboard or the sweep (0), or by the worker that runs the callback.
BeginRetune ==
  /\ tuner.state = "none" /\ main \in {"start", "running", "stop", "join"}
  /\ \E by \in {0} \cup {d \in Active : worker[d] = "callback"} :
       tuner' = [state |-> "tuning", at |-> 1, by |-> by]
  /\ UNCHANGED <<setup, main, next, threadVars, captured, channelVars, since, filter>>

\* What a driver answers is not looked at.
TuneDongle ==
  /\ tuner.state = "tuning" /\ tuner.at <= Len(devices)
  /\ LET d == devices[tuner.at]
         begun == captured[d] + IF worker[d] = "read" THEN 1 ELSE 0
     IN \E result \in SetFrequency(driver, dev[d]) :
          since' = IF result = "tuned" THEN [since EXCEPT ![d] = begun] ELSE since
  /\ tuner' = [tuner EXCEPT !.at = @ + 1]
  /\ UNCHANGED <<setup, main, next, threadVars, captured, channelVars, filter>>

\* The filter has no lock: a block that is being filtered may undo the reset.
ResetFilter ==
  /\ tuner.state = "tuning" /\ tuner.at > Len(devices)
  /\ \/ filter' = Fresh
     \/ (\E d \in Active : worker[d] = "callback" /\ d # tuner.by) /\ UNCHANGED filter
  /\ tuner' = [state |-> "done", at |-> 0, by |-> 0]
  /\ UNCHANGED <<setup, main, next, threadVars, captured, channelVars, since>>

-----------------------------------------------------------------------------
Retune == TuneDongle \/ ResetFilter

Main == OpenDongle \/ StartDongle \/ StopDongle \/ JoinWorker \/ Close

\* What a worker does without waiting for a device or for another worker.
Work(d) == Begin(d) \/ Loop(d) \/ DeliverAlone(d) \/ CombineBlocks(d) \/ CallBack(d)
           \/ EndCallback(d)

Next ==
  \/ Main
  \/ Signal
  \/ BeginRetune \/ Retune
  \/ \E d \in Dongle :
       Work(d) \/ Capture(d) \/ TimeOut(d) \/ StreamEnds(d) \/ AssignBlock(d)

Spec == Init /\ [][Next]_vars

\* Threads keep running and get a mutex that keeps being released.  A bladeRF
\* read returns after a second at most, a simulated one after 10 ms, and a
\* cancelled librtlsdr stream ends.
Fairness ==
  /\ WF_vars(Main)
  /\ WF_vars(Retune)
  /\ \A d \in Dongle :
       /\ WF_vars(Work(d))
       /\ SF_vars(AssignBlock(d))
       /\ WF_vars(~RtlHardware(d) /\ (Capture(d) \/ TimeOut(d)))
       /\ WF_vars(async[d] = "canceling" /\ StreamEnds(d))

FairSpec == Spec /\ Fairness

-----------------------------------------------------------------------------
\* Every variable keeps its type: in particular the main thread's loops never
\* leave m_devices.
TypeOK ==
  /\ driver \in {"rtlsdr", "bladerf", "sdrplay"}
  /\ main \in {"open", "start", "running", "stop", "join", "close", "closed", "failed"}
  /\ next \in Dongle
  /\ main \in {"start", "stop", "join"} => next <= Len(devices)
  /\ dev \in [Dongle -> [handle : BOOLEAN, simulation : BOOLEAN]]
  /\ \A d \in Dongle \ Active : driver # "sdrplay" => dev[d] = NoDevice
  /\ devices \in Seq(Dongle)
  /\ running \in [Dongle -> BOOLEAN]
  /\ worker \in [Dongle -> {"none", "begin", "loop", "read", "deliver", "assigned", "combined",
                         "callback", "ended"}]
  /\ async \in [Dongle -> {"inactive", "running", "canceling"}]
  /\ captured \in [Dongle -> 0 .. MaxBlock]
  /\ mutex \in Dongle \cup {0}
  /\ buffers \in [Dongle -> 0 .. MaxBlock]
  /\ taken \in [Dongle -> 0 .. MaxBlock]
  /\ tuner \in [state : {"none", "tuning", "done"}, at : 0 .. Dongles + 1, by : Dongle \cup {0}]
  /\ since \in [Dongle -> 0 .. MaxBlock + 1]
  /\ stale \in Nat
  /\ filter.phase \in 0 .. Decimation - 1

\* The sample callback, whose filters and decoders have no lock of their own,
\* is never run by two workers at once.
OneCallbackAtATime ==
  \A d, e \in Dongle : worker[d] = "callback" /\ worker[e] = "callback" => d = e

\* Once the receiver stopped, no worker is left that could call back into
\* objects the main thread goes on to destroy, or use a closed dongle; and once
\* it closed no library has anything open, but for the session of an SDRplay
\* device that turned to simulation in startAsync.
QuietAfterStop ==
  /\ main \in {"close", "closed"} => \A d \in Dongle : worker[d] \in {"none", "ended"}
  /\ main = "closed" /\ driver # "sdrplay" => \A d \in Dongle : ~dev[d].handle

HandedOver(d) == IF worker[d] = "deliver" THEN captured[d] - 1 ELSE captured[d]

\* A combined set is made of the newest block of every channel: the channels
\* never drift apart, however much faster one dongle delivers.
CombinesNewest ==
  [][taken' # taken => \A d \in Active : taken'[d] = HandedOver(d)']_vars

\* Dongles are retuned while their blocks are on the way.  After a retune at
\* most two sets still have samples in them from before: one of what was in the
\* buffers and one of what the workers were at.  (From where the driver hands
\* its blocks over; what its library queues comes on top.  A dongle that refuses
\* the frequency stays where it was.)
RetuneTakesEffect == stale <= 2

\* The demodulator gets one sample in Decimation, although no block has a
\* multiple of that, since the last reset of the filter.
DecimatorKeepsRate == filter.out = (filter.fed + Decimation - 1) \div Decimation

\* A channel that hears Wave.
Heard(amplitude, turn) ==
  [i \in 1 .. Len(Wave) |-> Combiner!Scaled(amplitude, Combiner!Turned(Wave[i], turn))]

\* What combineBlocks makes of channels that hear it, and how many samples it
\* has to.
Combined(mode, amp, turn) ==
  Combiner!CombineBlocks(mode, [d \in Dongle |-> Heard(amp[d], turn[d])], Capacity)

Count == Min({Len(Wave), Capacity})

\* The sum is a multiple of what dongle d hears.
Along(sum, gain, turn) ==
  sum.samples = [i \in 1 .. Count |-> Combiner!Scaled(gain, Combiner!Turned(Wave[i], turn))]

\* The channel the others are turned to: the first, or the only one there is.
Leads(amp, d) == amp[d] > 0 /\ (d = 1 \/ \A c \in Dongle \ {d} : amp[c] = 0)

AlignsAll ==
  \A amp \in [Dongle -> Amplitudes], turn \in [Dongle -> 0 .. 3], mode \in Combiner!Modes :
    LET sum == Combined(mode, amp, turn)
        all == {amp[d] : d \in Dongle}
    IN IF mode = "SelectionCombining"
         THEN \E d \in Dongle : amp[d] = Max(all) /\ Along(sum, amp[d], turn[d])
         ELSE \A d \in Dongle : Leads(amp, d) =>
                \E gain \in Min(all) * sum.scale .. Max(all) * sum.scale :
                  gain > 0 /\ Along(sum, gain, turn[d])

\* Whatever the amplitudes and phases at which the dongles hear a signal, the
\* combined set has the signal: the strongest channel or, if the first channel or
\* no more than one of the others hears it, a sum in phase with that channel, with
\* a gain that is neither more than the strongest nor less than the weakest.  Not
\* if several hear it and the first one does not: then they are summed as they
\* come (see NeverCancels).
AlignedSum == (\E d \in Dongle : worker[d] = "combined") => AlignsAll

\* "Phase-aligns and sums channels": a signal that some channel hears is in the
\* sum.  False of three channels of which the first is silent.
NeverCancels ==
  (\E d \in Dongle : worker[d] = "combined") =>
    \A amp \in [Dongle -> Amplitudes], turn \in [Dongle -> 0 .. 3], mode \in Combiner!Modes :
      (\E d \in Dongle : amp[d] > 0) =>
        LET samples == Combined(mode, amp, turn).samples
        IN \E i \in DOMAIN samples : samples[i] # <<0, 0>>

\* "Weights channels proportional to SNR": a stronger channel never weighs less.
\* False of the first channel.
WeightsFollowStrength ==
  (\E d \in Dongle : worker[d] = "combined") =>
    \A amp \in [Dongle -> Amplitudes], c, d \in Dongle :
      LET heard == [e \in Dongle |-> Heard(amp[e], 0)]
          weight(e) == Combiner!ChannelWeight("MaximalRatioCombining", heard, e)
      IN amp[c] < amp[d] => weight(c) <= weight(d)

\* Asked to stop, the receiver stops and closes.  With librtlsdr it may not: a
\* cancellation that comes before the worker has reached rtlsdr_read_async is
\* lost, and only time, not the code, keeps the two apart.
StopEnds == main = "stop" /\ driver # "rtlsdr" ~> main = "closed"
=============================================================================
