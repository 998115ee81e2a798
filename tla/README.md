# RadiosondePI in TLA+

RadiosondePI is a C++ program for a Raspberry Pi that receives weather balloons
(radiosondes) with one or more SDR dongles, decodes their telemetry, shows it in
a browser and logs the flight.  This directory holds TLA+ models of its
concurrent core and of its algorithms, the TLC configurations that check them,
and proofs of their safety properties for every value of the constants.

Everything is translated from the source: `main.cpp`, `Config.hpp`,
`DiversityReceiver.hpp` and the three drivers, `DiversityCombiner.hpp`,
`RingBuffer.hpp`, `FirFilter.hpp`, the spectrum scanner, the three decoders,
`WebDashboard.hpp`, the landing predictor, the flight logger and the AeroHub
record.  Each definition's lines are listed in `PROJECT.json` under `map`.

## The system

| Part | State | Operations | Interacts with |
|---|---|---|---|
| Tuning control (`main.cpp`) | `frequencyHz`, `freqMutex`, `sondeLocked`, `lastFrameTimeMs`, `stepIdx` | peak callback, tune callback, sweep loop, telemetry callback | every other part |
| Dongles and receiver (`DiversityReceiver`, `RtlSdrDevice`, `BladeRfDevice`, `SdrplayDevice`) | `m_devices`, `m_running`, worker threads, channel buffers, `m_mutex` | open, start, `onChannelSamples`, setFrequency, stop, close | calls the sample callback; retuned by three threads |
| Signal chain (`FirFilter`, `Afc`, `FmDiscriminator`, `SymbolSync`) | filter histories | process a block, reset | fed by the sample callback, reset by the tuning threads |
| Spectrum scanner | FFT plan, buffers | `analyzeBlock` | calls the peak callback once per peak, lowest frequency first |
| Decoders RS41, DFM, M10 | shift register, frame buffer | `processBit`, `reset` | call the telemetry callback; reset from the web and DSP threads |
| Dashboard (`WebDashboard`) | latest frame, history, socket pool, listener, server thread | start, stop, serve a request, broadcast | DSP thread broadcasts; server thread tunes |
| Flight log, landing predictor | frames | append, export at exit | telemetry callback |
| Configuration, APRS, AeroHub/SondeHub | none or strings | parse, format | start-up; results mostly unused |
| Ring buffer | two indices and an array | write, read, clear | constructed by `RtlSdrDevice`, which never writes or reads it; only `test_sprint1`, in one thread, does |

Threads: *main* (start-up, waits for a signal, shuts everything down), one
*worker* per dongle (runs the whole signal chain: "the DSP thread"), the *sweep*
thread and the dashboard's *server* thread.

What is hard to get right: three threads retune the same devices and decide to
do so outside the mutex that protects the retune; blocking socket calls under a
mutex the DSP thread needs; shutdown with requests and broadcasts in flight;
worker threads that outlive what they call; two dongles of different pace
feeding one combiner; wrapped indices and unsigned clock arithmetic.  The
`hazards` of `PROJECT.json` list every such place with its line, and the
properties that watch it.

### What makes each part correct

* Tuning: retunes exclude each other; when none is under way all devices are on
  `frequencyHz`; the scanner never leaves a locked sonde; a user's request is
  carried out; silence unlocks.
* Receiver: the sample callback is serial; what it combines is new and in order;
  after `stop()` nothing runs; `stop()` ends.
* Dashboard: only open sockets are in the pool; nobody changes the pool under an
  iteration; a connected browser misses no frame; broadcasts and the shutdown end.
* Ring buffer: it is a FIFO of `capacity - 1` items, without data races between
  one producer and one consumer.  The two threads are what the class is written
  for; nothing in the program runs it with any.
* Decoders: no access outside a frame buffer, no frame across a reset.  A
  delivered position was read from a whole block.
* Configuration: a key that occurs once gets its own value, whatever the order.
* Combiner: channels at any phases add up and never cancel, as long as the first
  channel or no more than one other hears the signal.
* Filter: one sample in fifty comes out, across blocks of any size.
* Scanner: the peaks are the carriers, in a build with FFTW.
* Landing predictor: a descent ends on the ground and at the right time.
* Sinks: dashboard, predictor and AeroHub record agree on what was delivered; the
  flight path is a list a browser can parse while the newest frame has a position.
* Flight log: every frame with a position and a serial is recorded and survives
  a shutdown that reaches its end.

## Modules

| Module | Models | Companions |
|---|---|---|
| `Tuning` | the three retuning threads, the lock on a sonde, the wrap of the clock difference | `MCTuning`, `TuningProofs` |
| `RingBuffer` | `RingBuffer.hpp` slot by slot | `BoundedFifo` (what it promises), `MCRingBuffer`, `RingBufferProofs` |
| `WebDashboard` | server thread, broadcasts, socket pool, shutdown order | `MCWebDashboard`, `WebDashboardProofs` |
| `DiversityReceiver` | dongle lifecycle, worker threads, channel buffers, a retune in their midst, the decimating filter behind them | `SdrDrivers`, `Combiner`, `MCDiversityReceiver`, `DiversityReceiverProofs`, `FoldLemmas` |
| `SdrDrivers` | what each driver makes of open, setFrequency, startAsync, stopAsync, close | used by `DiversityReceiver` |
| `Combiner` | `DiversityCombiner` in exact arithmetic | used by `DiversityReceiver` |
| `Framing` | `processBit` and `reset` of the three decoders, load by load and store by store | `MCFraming`, `FramingProofs` |
| `ReedSolomon` | `RS41Decoder::decodeReedSolomon`, loop by loop, over any field GF(2^M) | `MCReedSolomon`, `ReedSolomonProofs`, `FoldLemmas` |
| `Session` | a run of the program from its configuration to its log file, and the sinks of a frame | `ConfigFile`, `Scanner`, `FrameParser`, `MCSession`, `SessionProofs`, `FoldLemmas` |
| `ConfigFile` | `Config.hpp` over the tokens of a file, and the command line | used by `Session` |
| `Scanner` | `analyzeBlock` with both transforms | used by `Session` |
| `FrameParser` | `processRawFrame` of the three decoders | used by `Session` |

### Tuning

`pc` holds the place of each thread; a label stands for the statement the thread
executes next.  `Acquire` is the `lock_guard`, then one step stores
`frequencyHz`, one step per device retunes it (`DiversityReceiver::setFrequency`
is a loop another thread can observe), one tells the dashboard, one resets
filters and decoders, one releases.  The web thread tells the dashboard before
it has the mutex, as `handleHttpRequest` does.  The decisions that lead to a
retune (`FindPeak`, `DecideHop`, `RequestTune`) are steps of their own outside
the mutex.  `main` tells a dashboard that already serves requests from a
callback that is not installed yet.  Frequencies are small numbers; a block is
the set of frequencies its dongles were tuned to; the decoders' bits are the set
of frequencies they came from.  The clock is taken modulo `W`, which stands for
2^64, so that `nowMs - lastFrameTimeMs` wraps as in the code.

### RingBuffer and BoundedFifo

Writer and reader each run load, copy slot by slot, publish.  `BoundedFifo` is
the abstract queue; `RingBuffer` maps its contents to the published slots and
implements it.

### WebDashboard

`pc["server"]` follows `serverLoop` and `handleHttpRequest`, `pc["dsp"]` follows
`updateTelemetry`, `main` the end of `main()` and `stop()`.  Telemetry frames are
numbered; a connection is a client that connects once.  `Deliver` blocks while
the client's buffers are full.  A send to a client that left is absorbed, fails,
or raises SIGPIPE and ends the process (`Die`): the code neither passes
`MSG_NOSIGNAL` nor ignores the signal.  `FdSetAborts` is the outcome of
`FD_SET(-1)` when `stop()` overwrites `m_serverSock` between its test and its use.
Sections under `m_mutex` never block and are one step.  Answers to plain
requests fit in the socket buffers.

### DiversityReceiver

`OpenDongle` gives each dongle hardware, a simulation or a failure.  A worker
goes through begin, loop, read, deliver, assigned, combined, callback; the steps
from `AssignBlock` to `EndCallback` are one critical section of `m_mutex`.
librtlsdr is modelled by what the code relies on: `rtlsdr_cancel_async` only
affects a read that runs, and a read ignores `m_running`.

`SdrDrivers` reduces a device to whether its library has something open for it
and whether it is simulated.  An SDRplay device always ends up simulated: no
member function gives `m_deviceHandle` a value, so `sdrplay_api_Init` fails.

One retune may come while blocks are on the way, from the dashboard, from the
sweep (`by = 0`) or from the callback of a worker; it tunes dongle by dongle and
then resets the filter, which a block that is being filtered may undo.  `since`
is the last block a dongle began before it was tuned, `stale` the number of
combined sets that still have such blocks; both are histories.
`RetuneTakesEffect` counts from where the driver hands a block over: what a
library queues comes on top.  The filter is its decimation phase, with what went
in and out; samples per block are those the drivers ask for, never a multiple of
fifty.

What a signal becomes in `Combiner` is a function, and `AlignedSum` speaks of all
its arguments while a worker combines: `Wave` is the signal, samples of constant
amplitude that go by quarter turns, `Amplitudes` the set of amplitudes (in
thousandths) at which a dongle may hear it, 0 being not at all, `Capacity` the room
in the output; the quarter turns and the mode are any.  `Leads` says which channel the
others are turned to: the first, if it hears anything, or the only one that does.
If the first is silent and several others are not, nothing aligns them: the summing
modes are then outside of `AlignedSum`, and `NeverCancels` fails.

### Framing

One decoder object of any of the three classes: they share no state, so each is
checked alone.  The DSP thread goes through `processBit` (`Receive`, `Shift`,
`Test`, then the sync steps or the steps of a bit in a frame), the server thread
through the stores of `reset` in the order its class makes them.  A
read-modify-write such as `m_bitCount++` or `push_back` is a load and a store, so
a store of `reset` in between is lost, as it may be in the program.  The sync
conditions keep the code's masks on a register of four bits instead of 64 (DFM and
M10: 32), with false syncs as in noise.  A received byte is reduced to the number
of stream bits it holds; DFM keeps its bits.  `n`, `quiet` and `touched` are
histories.  `WholeFrames` separates the classes: RS41 stores `m_inFrame` last and
a completed reset leaves no capture behind; M10 and DFM store it earlier and can
lose bits of a frame that starts during their reset.

### ReedSolomon

The decoder as a state machine over its loops, with the field, the block length
and the number of parity symbols as parameters (`M`, `Poly`, `N`, `NPAR`; 8, 0x11D,
255 and 24 in the code).  A symbol is the set of its bits that are 1, so that a XOR
is a symmetric difference and a shift adds one to each bit.  `hits` are the errors
added to `sent`.  The assumptions say what makes the tables of the code those of a
field: the polynomial has degree M and a constant term (`FieldAssumption`), the
powers of 2 are all symbols but 0, each once (`PrimitiveAssumption`); and that what is
sent is a codeword (`CodewordAssumption`).  With the values of the code they all
hold, and on the input of `test_sprint1` the invariants hold and `Corrects` does
not: checked once, with a larger stack than TLC has by default, and not a run.

### Session, ConfigFile, Scanner, FrameParser

`Session` follows `main()` from `LoadConfig` and `Start` to `WriteCsv` and
`onTelemetryReceived` from a decoder to the sinks in its order: dashboard,
predictor, log, AeroHub.  What races in between is left to `Tuning` and
`WebDashboard`; here a retune or an unlock is one step.
What a file, a command line and the air may hold are constants;
`InputAssumption` says what the code relies on: numbers are integers, the length
of an RS41 block is a byte, and only a full frame has a check that may succeed.
`FileAssumption` is what `config.example.json` looks like: behind each key a value of
its kind, no value spelled like a key, each section once.  `ScannerAssumption` says
which carriers eight samples can tell apart: each in the middle of a bin, whatever
the program is told to tune to, any two of them three bins or more from each other
on either side, and a threshold of at most 57 dB, which the weaker amplitude exceeds.

`ConfigFile` sees a file as tokens (a key or text, a flag, a number), because
`Config.hpp` does not parse: it searches for a quoted key and takes the first
thing behind it that looks like a value.  For a flag that is the first `t` or
`f`, even inside the next key; a token carries that letter.

`Scanner` works on blocks of eight samples, whose eighth roots of unity make the
sums of both transforms exact, and searches peaks as the code does.
`FrameParser` has the walk over the blocks of an RS41 frame with the lengths as
they came off the air, and which DFM and M10 frames have a position or a serial.
`Descent` is the height of `predictLanding`, step by step, in tenths of m/s.

## Runs

| Run | Checks | Bounds |
|---|---|---|
| `tuning` | types, exclusion, consistency, what peaks and user requests may do; silence unlocks; tune requests end | two dongles, one hop, a user and a sonde at one frequency, clock horizon 2 with a timeout of 1, modulus 6 |
| `ring_buffer` | types, no data race, refinement of the FIFO | capacity 4, two items, transfers of 1, 3 and 4 |
| `receiver` | serial callback, newest blocks, quiet after stop, no handle left, a retune takes effect, channels add up, the decimator keeps its rate, stop ends | two dongles, a name for each of the three drivers, three blocks each, one retune, decimation by 50 with the drivers' block sizes, amplitudes 0, 1 and 3, a wave of four samples with room for three |
| `web` | socket pool, no missed frame, broadcasts and shutdown end | two clients, two frames, room for one frame per connection |
| `framing` | types, whole frames under racing resets, late syncs, captures end | bytes of 2 bits, frames of 3 bytes (DFM: broken above 2 bits, full at 6), any bits, any number of resets |
| `fec` | types, the invariant of Berlekamp and Massey, errors are located, a failure changes nothing | GF(8), 6 parity symbols, blocks of 7, two codewords, up to 4 wrong symbols where 3 can be corrected |
| `session` | types, settings, peaks, whole positions, sinks agree, flight path, landing, the log survives | 24 orders of the sections with the flags either way, an empty and a missing file; three command lines; five raw frames of which three are received; windows of two; two carriers in eight bins, three centre frequencies, with and without FFTW |
| `sweep_expiry`, `sweep_hop`, `web_silent`, `framing_broken`, `fec_test` | one property each that a comment or a test of the repository states and the code violates | as above; one silent client; DFM alone; up to 2 wrong symbols |

Why these bounds suffice for the interesting cases: two devices let a retune be
seen half done; frequencies 1 and 3 with a guard of 1 give near and far peaks;
the horizon exceeds the timeout, so both outcomes of the age test and the wrap
occur; capacity 4 with transfers of 1, 3 and 4 wraps, truncates and splits; two
clients let one leave in the middle of an iteration while the other is greeted,
and one frame of room makes sends block; two bits are the
fewest that put a byte boundary inside a frame and three bytes the fewest with a
boundary between two received bytes; four wrong symbols reach both rejections
(too many errors, too few roots) and the polynomials with multiple roots.  Errors
are enumerated up to a constant factor, with which every step of the decoder
commutes.  Three blocks let one dongle run two
blocks ahead of the other, and put a block before, during and after a retune.
Three frames overflow windows of two.  The orders put each section before and
behind every other, which is all that a search for the first occurrence can
tell apart; the raw frames have a block of length 0, one too short, one that
leaves the frame, a failed and a successful correction.  Eight bins have a bin
that is searched on both sides of the centre and edges that are not.

`Tick`, `captured`, `latest`, `delivered` stop at their bounds (`Horizon`,
`MaxBlock`, `MaxFrame`, `MaxFrames`).  `WebDashboard`, `DiversityReceiver` and
`Session` may deadlock by design: the program ends.

### Findings

* `sweep_expiry`: a frame stamped after the sweep thread read the clock makes
  the unsigned age wrap, and a sonde heard a moment ago is unlocked.
* `sweep_hop`: the lock is tested before the mutex is taken and not again after.
* `fec_test`: the Reed-Solomon decoder locates wrong bytes and returns true, but
  repairs only the last byte of a block: the Forney formula lacks the factor that
  syndromes starting at alpha^0 need.  On the input of the repository's own `test_sprint1`
  the decoder leaves 132 and 218 where the test asserts zeros.
* `framing_broken`: the DFM frame assembled after a Manchester violation is given
  size / 8 bytes, and bits behind the last full byte are written past its end.
* `web_silent`: a client that sends nothing holds the server thread in `recv`,
  and the shutdown waits for it for ever.

### Stated and false

Properties that a document states and the code violates, and that no run is spent on:
each is violated in a few steps and by one place in the code.  They are defined in the
modules; put in place of the properties of its module's configuration, TLC refutes each.

* `TunesToSignals` (`Session`, an action property): where the scanner tunes to,
  somebody transmits (`SPRINT_PLAN.md:74`, "Automatically tune to active peak
  frequency").  False of a build without FFTW: `computeCooleyTukeyFft` has the
  opposite exponent (`SpectrumScanner.cpp:115`; it is called under the comment "Compute
  Fast Fourier Transform", line 141), so every peak is mirrored about the centre frequency.
  `StandInMirrorsTheSpectrum` proves that of any block, `FftwTunesToSignals` the
  property of builds with FFTW.
* `PacketsPersisted` (`Session`): a delivered frame with a serial is logged
  (`SPRINT_PLAN.md:111`, "Persist all received packets").  False: `FlightLogger.hpp:17`
  drops a frame without a position, and a DFM frame never has both.
* `ScannerSwitchIsItsOwn` (`Session`): the `enabled` in the section `scanner` switches
  the scanner.  False: `Config.hpp:139` takes the first `enabled` of the file.  In
  `config.example.json` that is the one of `diversity`, and the scanner is left off
  although its own section, lines 23-24, says on.
* `NeverCancels` (`DiversityReceiver`, with three dongles): a signal that some channel
  hears is in the sum (`DiversityCombiner.hpp:17`, "Phase-aligns and sums channels").
  False: phases are taken against the first channel (line 90), and when that one hears
  nothing the others are summed as they come.
* `WeightsFollowStrength` (`DiversityReceiver`): in MaximalRatioCombining a stronger
  channel does not weigh less (`DiversityCombiner.hpp:18`, "weights channels
  proportional to SNR").  False: the first channel weighs 1 (line 87), the others
  what their amplitude is.

### Observations

Seen while modelling, and not settled by a run: the repository says nothing that a
property could quote, or what it says is about values the modules abstract.

* `ConfigFile`: `port`, too, may occur in several sections, and the first in the file
  decides for the dashboard.  A file that cannot be opened and an empty file give different defaults.
* `Session`: `getFlightPathJson` ends in a comma when the newest frame has no
  position; `PathParses` says when it does not.  A run that
  logged a frame overwrites the log of the run before.
* `FrameParser`: an RS41 frame whose correction failed is parsed and delivered like any
  other.  `computeCrc16` of the DFM decoder is never called, although
  `SPRINT_PLAN.md:67` and `RadioSondePI_Plan.md:71` speak of a CRC check; frames have no
  data bits in the model for a checksum to be about.
* `SdrDrivers`: the session of an SDRplay device that turns to simulation in
  `startAsync` is never closed (`SdrplayDevice.cpp:141`).  The bias tee of
  `RtlSdrDevice.cpp:121` is behind `#if defined` of a function, never true.
* `Combiner`: dongles of which one is simulated deliver blocks of different
  lengths, and what the longer one has in excess is dropped.
* `Tuning`: `PeaksAreSignals` and `FrameFromTunedFrequency` are stated there and
  false in the code: a block scanned after a retune reports peaks that are not
  there, and decoders keep bits over a hop.  `setFrequency`'s result is ignored.
* The climb rate of an RS41 frame is the z component of an earth-centred
  velocity (`RS41Decoder.cpp:382`), and the AFC estimate is never updated.

## Fairness

Threads are scheduled (weak fairness on their steps) and a thread waiting for a
mutex that keeps being released gets it (strong fairness on the acquisition).
The clock advances.  Nothing makes samples, frames, requests or signals arrive.
`CaptureEnds` alone assumes that bits arrive: the DSP thread of `Framing` goes on
as long as the receiver streams; resets are not assumed to end.  Clients of
`WebDashboard` send a request or leave, and read, unless named in
`Silent` or `Deaf`: the passing run assumes that none is, `web_silent` shows why
it has to.  Simulated and bladeRF reads return in bounded time, as their
time-outs say; a librtlsdr read ends once cancelled.  A retune that began goes
on.  `Close` waits for it: the dashboard still answers `/api/tune` while the
receiver closes (`main.cpp:337`), and iterating over destroyed devices has no
outcome to enumerate.  `StopEnds` leaves
librtlsdr out: a cancellation that precedes the read is lost, and only the
second for which the sweep thread sleeps keeps the two apart.

## Proofs

Each module of proofs has one inductive invariant, the conjunction of named
parts, and a lemma for each action that it keeps them.  Where a property needs
more, what it needs is an invariant of its own on top of that one (`Manual`, `LocatedInv`,
`Loaded`, `Gridded`).  TLC checked every
invariant on a small instance before it was proved; the sizes are given below.
The theorems worth knowing are listed in `PROJECT.json`.

**`TuningProofs`**, for any number of devices, hops, frequencies and any
clock parameters that satisfy the assumptions: `TypeOK`, `MutualExclusion`,
`TunedConsistently`, `PeakNeverLeavesSonde` and `ManualTuneIsApplied`.
The invariant adds to the types
that the mutex owner is the one thread in its critical section, that during a
retune `frequencyHz` and the devices before `nextDev` already have the target,
and that a peak callback in its critical section finds the receiver unlocked:
only its own thread ever locks it.  Without the middle part consistency is not
inductive: the last device step would have to be believed.  `Manual` serves the
last property alone: without the scanner nobody but the user retunes, so between the
store of the dashboard's copy and the release nothing overtakes the request
(3 293 368 states with two frequencies to ask for).

**`RingBufferProofs`**, for every capacity: types are kept, writer
and reader never touch one slot, and the ring implements `BoundedFifo`.  The
invariant relates the published region to the queue contents and bounds the two
copies in progress by the indices that were loaded.

**`WebDashboardProofs`**, for any clients and any number of frames: `TypeOK`,
`PoolIsSound`, `FreshWhenQuiet` and `PoolIsStable`.  `Owners` ties `m_wsMutex` to
the one thread that iterates; `Serving` says that the descriptor the server
thread has in hand is open and not in the pool yet, which is why a handshake never
enters a socket twice; `Owed` says who may lack the newest frame: behind the position of
a broadcast nobody, and once the decoder is done only the client being
greeted, the last of the pool.  Without `Owed` freshness is not inductive, since the last
step of a broadcast would have to be trusted to have served all before it.
(Two clients and two frames: 77 183 states; three and one: 745 264.)

**`DiversityReceiverProofs`**, for any number of dongles, any driver, any block sizes and
decimation: `TypeOK`, `OneCallbackAtATime`, `QuietAfterStop`, `RetuneTakesEffect`,
`DecimatorKeepsRate` and, of steps, `CombinesNewest`.  `Opening` and `Stopping`
follow the main thread through `m_devices`: a worker that may act is one
not stopped yet or the one being joined.  `Handover` says that a channel
buffer holds the newest block its dongle handed over, which takes in how the
driver was cancelled: a librtlsdr worker that was stopped and still holds a block has a
cancelled read behind it.  `Old` counts the blocks of before a retune that
are on their way, at most one in the buffer and one with the worker of each
dongle, so never more than two sets have any; the bound the run shows for two dongles holds for all.
(One dongle: 3 537 states; two: 596 329; three with one block each: 1 464 252.)
`AlignedSum` holds for any number of channels, any wave and amplitudes as in
`SignalAssumption`, any quarter turns and any capacity: the blocks are cut to one length,
whose every sample has the power of the amplitude; the sums of `Combiner` are folds, what
each channel adds is a multiple of the leading one's direction, the gain lies between the
least and the greatest amplitude, and selection takes the first channel of the greatest
power, as squares are in the order of what is squared.  The root of the power is
an amplitude again, so nothing is rounded.  The theorem has the exception of
the property: a silent first channel with several others that are not.

**`ReedSolomonProofs`**, for any field, block length, number of parity symbols, codewords
and errors: `TypeOK`, `RegisterPredicts`, `LocatesErrors`, `FailureIsHarmless`.  The
prover has no library of algebra, so the module starts from the tables: every
symbol but 0 is a power, doubling is linear, hence products distribute over sums;
sums in the field can be split, swapped and shifted.  `RegisterInv` is the invariant of
Berlekamp and Massey and speaks of two registers: the one in use
predicts the syndromes read so far, and the one it last replaced predicted all
but its last.  Without the second the first is not inductive, as the correction of a
wrong prediction is a multiple of it.  `SearchInv` and `LocatedInv` follow the Chien search
and the repair: a polynomial has at most as many zeros as its degree, and one
with that many shares none with its derivative, so that the division of the Forney
formula never has a 0 below; the syndromes are the moments of the errors, and moments
of few places that vanish have shares that vanish (Vandermonde), so the
register has a zero at each wrong place, and no other.
(The instance of `fec`: 264 646 states.)

**`FramingProofs`**, for frames and bytes of any length and resets between any two
steps of `processBit`: `TypeOK`, `WholeFrames`, `LateOnlyAfterCapture`.
`Lengths` bounds buffer and bit counter even where a late store
undoes a reset.  `Marks` and `Capture` carry the argument for whole frames: as long
as no reset has touched a capture, what is in the buffer, in the byte and in the
numbers just loaded adds up to the bits since the sync word.  For RS41 a
completed reset needs no such condition, as `m_inFrame` is its last store.
`Hunt` says which markers the register can no longer hold.
(Bytes of 2 bits and frames of 3 bytes: 733 561 states; 3 and 4: 1 671 621.)

**`SessionProofs`**, for any files, command lines, raw frames, window
sizes and carriers within the assumptions: `TypeOK`, `SinksAgree`,
`PositionsAreWhole`, `PathParses`, `PredictionLands`, `SettingsHonoured`,
`ScannerSeesCarriers` (which speaks of builds with FFTW) and, of steps, `FlightSurvives`.
`FftwTunesToSignals` is `TunesToSignals` for these builds.  `Sinks` says for
each step of the callback which sinks know the newest frame and which still stand at the
one before.  What the steps compute are folds over sequences, and the facts about them need
induction over data.  The library's induction theorems cannot be
instantiated here, but the least element of a well-founded set (`WFMin`) does the
same work: `FoldLemmas` derives induction over the numbers from it
(`NatSetInduction`) and, for any operation, that a fold exists, what it makes of one
more element and which sets it never leaves.  The proofs take an instance for
each operation: the walk over the blocks of a frame (a position comes from a block
whose last byte is inside), `Filter` and `Newest` (a log only grows, a window keeps the
last ones), the text of the flight path, and the integer descent, which
falls by the same height in each step until it is on the ground.  `Filter` is such a
fold; the community's `SelectSeq` has a definition that the provers cannot open.
`SettingsHonoured` follows the search of `Config.hpp` from each key: for a file as in
`FileAssumption` the first thing behind a key that looks like a value of its kind is its value.

The scanner's part is a Fourier analysis in integers.  A sample is a sum of
powers of the eighth root of unity, whose fourth power is -1.  The eight terms of a tone
are equal at its own bin and cancel at every other (`Line`, `Circle`).
Three rounds of butterflies, unfolded one by one, make of any block the spectrum of FFTW
read backwards (`StandInMirrorsTheSpectrum`).  The carriers are added up by
induction over their number, at most one to a bin by
`ScannerAssumption`, and a lit bin with dark neighbours is a peak.  The invariant `Gridded`
says that the program never leaves the frequencies that put carriers in the middle of bins: it
tunes to what files, command lines and users name, and to peaks, which are carriers or,
without FFTW, their mirror images.
(The run's instance: 45 710 states.)

Assumptions beyond types: the step of the predictor is a whole number of tens of
seconds and divides its limit, as 10 and 7200 in the code do, so that the height of a descent
is exact; `MinHz` and the frequencies a user may ask for are not negative, nor is
that of `--freq`.  No code checks the last one: a negative value on
the command line is outside the theorems.  `SettingsHonoured` needs `FileAssumption` and leaves out the keys that occur more than
once: it is false of arbitrary tokens, and `ScannerSwitchIsItsOwn` says what becomes of
`enabled`.
`AlignedSum` needs `SignalAssumption`: the wave has one amplitude and goes by quarter
turns, and amplitudes are whole thousandths.
`ScannerSeesCarriers` needs `ScannerAssumption`, and the block of eight samples is
fixed in `Scanner`: a longer one has other roots of unity.  `ReedSolomonProofs` needs that
the polynomial is primitive and that what was sent is a codeword.  TLC evaluates
each assumption in the passing run of its module.

Every safety invariant and action property of a passing run is stated by a theorem.
Left to TLC is liveness (`SilenceUnlocks`,
`TuneRequestsComplete`, `BroadcastEnds`, `ShutdownEnds`, `StopEnds`, `CaptureEnds`), which needs
fairness and `ENABLED`.  `Corrects` and the other properties of violated runs have no
theorem because they are false, and neither have those above that are stated and false.

## Plan

1. `Tuning`, `RingBuffer`, `WebDashboard`, `DiversityReceiver`, `Framing`,
   `ReedSolomon` (done).
2. From frame to sinks, and the algorithms against reference definitions:
   `Session` with `ConfigFile`, `Scanner`, `FrameParser`; `SdrDrivers`, `Combiner`
   and the decimator in `DiversityReceiver` (done).
3. Proofs of the safety properties of `Tuning`, `RingBuffer`, `WebDashboard`,
   `DiversityReceiver`, `Framing`, `ReedSolomon` and `Session` (done).
4. Left over: the tune callback against `close()`, the polarity of DFM, the order
   of frames a client is sent, the websocket length.

## Not modelled

Floating-point signal processing (filter taps, AFC, discriminator, symbol loop,
the scanner's window), the scaling of samples, dewhitening, geodesy and the bit
layout of the decoders' fields: no property about control depends on their
values.  The APRS gateway, the SondeHub format and the KML export, which nothing
calls; the driver setters that are never called after open.  JSON and CSV text
but for the flight path; static files; SHA-1; scripts and service unit;
`app.js`, which the server sees as a client.  A torn `std::function` and the
reallocation of a vector that another thread clears are listed or left out as
undefined behaviour without outcomes one could enumerate.
