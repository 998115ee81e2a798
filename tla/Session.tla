------------------------------- MODULE Session -------------------------------
(***************************************************************************)
(* A run of the program from its configuration to the file it leaves, and  *)
(* what the frames it decodes end in: the dashboard, the landing predictor,*)
(* the flight log and the AeroHub record.                                  *)
(*                                                                         *)
(* The main thread loads the configuration, waits for a signal, stops the  *)
(* receiver and exports the log.  The DSP thread scans blocks and hands    *)
(* frames to onTelemetryReceived.  A browser or a sweep may retune at any  *)
(* time.                                                                   *)
(***************************************************************************)
EXTENDS ConfigFile, Scanner, FrameParser

CONSTANTS
  Files,          \* the configuration files to choose from
  CommandLines,   \* and the sequences of options
  Carriers,       \* who transmits: a function from Hz to amplitude
  TuneHz,         \* what sweeps and users tune to
  PeakGuardHz,    \* 10000: a peak this close is not worth a retune
  RawFrames,      \* what the decoders receive
  HistoryCap,     \* 500
  PointCap,       \* 60
  StepSec,        \* 10: the predictor's step
  MaxSec,         \* 7200: and how far it looks
  MaxFrames       \* bound: frames per run

ASSUME SessionAssumption ==
  /\ HistoryCap \in Nat \ {0} /\ PointCap \in Nat \ {0}
  /\ StepSec \in Nat \ {0} /\ StepSec % 10 = 0
  /\ MaxSec \in Nat /\ MaxSec % StepSec = 0
  /\ MaxFrames \in Nat
  /\ DOMAIN Carriers \subseteq Nat
  /\ TuneHz \subseteq Nat
  /\ MinHz \in Nat /\ SampleRate \in Nat \ {0}

\* What a decoder makes of a position; a block of an RS41 frame, whose length is
\* a byte.
IsPosition(alt) == alt = Nothing \/ alt \in Int
IsBlock(b) == b.len \in 0 .. 255 /\ (b.type = "gps" => IsPosition(b.alt) /\ b.climb \in Int)

\* What files, command lines and the air may hold.  Only a full frame has
\* codewords to decode.
ASSUME InputAssumption ==
  /\ \A f \in Files \ {NoFile} : f \in Seq(ToSet(f)) /\ \A t \in ToSet(f) : t.value \in Int
  /\ \A args \in CommandLines :
       /\ args \in Seq(ToSet(args))
       /\ \A arg \in ToSet(args) : arg.option = "--freq" => arg.value \in Nat
  /\ \A raw \in {r \in RawFrames : r.sonde = "RS41"} :
       /\ raw.size \in Nat /\ raw.ok \in BOOLEAN /\ (raw.ok => raw.size >= 518)
       /\ \A blocks \in {raw.received, raw.corrected} :
            blocks \in Seq(ToSet(blocks)) /\ \A b \in ToSet(blocks) : IsBlock(b)
  /\ \A raw \in {r \in RawFrames : r.sonde # "RS41"} : IsPosition(raw.alt)

Sections == {"diversity", "aerohub", "sondehub", "aprs_is"}

\* Where a key stands in a file.
At(f, key) == {i \in 1 .. Len(f) : f[i].quoted /\ f[i].text = key}

\* A file is written like config.example.json: behind a key comes a value of its
\* kind, no value is spelled like a key, each section is there once.
ASSUME FileAssumption ==
  \A f \in Files \ {NoFile} :
    /\ \A key \in DOMAIN Strings : \A i \in At(f, key) : i < Len(f) /\ f[i + 1].quoted
    /\ \A key \in DOMAIN Numbers : \A i \in At(f, key) :
         /\ i < Len(f) /\ f[i + 1].digits = "number"
         /\ key = "port" => Narrow(f[i + 1].value) = f[i + 1].value
    /\ \A key \in DOMAIN Flags \ Sections : \A i \in At(f, key) :
         i < Len(f) /\ f[i + 1].letter # "-"
    /\ \A key \in Sections : \A i \in At(f, key) :
         /\ At(f, key) = {i} /\ i < Len(f)
         /\ f[i + 1].text = "enabled" =>
              i + 2 <= Len(f) /\ f[i + 1].letter = "-" /\ f[i + 2].letter # "-"

\* Every carrier is in the middle of a bin.
OnGrid(f) == \A g \in DOMAIN Carriers : (g - f) % (SampleRate \div N) = 0

\* Carriers the scanner can tell apart, on either side of the centre: in a bin
\* each, whatever the receiver is tuned to, and three bins or more from each other.
ASSUME ScannerAssumption ==
  /\ SampleRate >= N /\ ThresholdDb \in Int /\ ThresholdDb <= 57
  /\ IsFiniteSet(DOMAIN Carriers) /\ \A f \in DOMAIN Carriers : Carriers[f] \in {1, 2}
  /\ \A f, g \in DOMAIN Carriers :
       f > g => LET bins == (f - g) \div (SampleRate \div N)
                IN  bins \in 3 .. N - 3 \/ bins >= N
  /\ \A f \in TuneHz : OnGrid(f)
  /\ \A f, etc \in Files, args \in CommandLines : OnGrid(CommandLine(AppConfig(f, etc), args).hz)

VARIABLES
  main,           \* the main thread: boot, configured, running, ..., exited
  file,           \* the configuration file that was loaded, until it is used
  config,         \* appConfig, until the command line is applied
  run,            \* what is still used of both then
  fftw,           \* whether the build found FFTW
  hz,             \* frequencyHz, and m_currentFreqHz of the dashboard
  locked,         \* sondeLocked
  dsp,            \* the DSP thread: idle, or at a step of onTelemetryReceived
  frame,          \* the frame in its hands
  latest,         \* m_latestFrame
  history,        \* m_history of the dashboard
  points,         \* m_history of the predictor
  log,            \* m_frames of the flight logger
  record,         \* the last AeroHub record, or nothing
  delivered,      \* history variable: the frames of this run
  disk            \* flight_session.csv

bootVars == <<file, config, run, fftw>>
radioVars == <<hz, locked>>
sinkVars == <<latest, history, points, log, record, delivered>>
vars == <<main, bootVars, radioVars, dsp, frame, sinkVars, disk>>

Forgotten == [driver |-> "none"]

Init ==
  /\ main = "boot"
  /\ file = NoFile /\ config = Forgotten /\ run = Forgotten
  /\ fftw \in BOOLEAN
  /\ hz = 0 /\ locked = FALSE
  /\ dsp = "idle" /\ frame = Unknown
  /\ latest = Unknown /\ history = <<>> /\ points = <<>> /\ log = <<>>
  /\ record = Nothing /\ delivered = <<>>
  /\ disk = <<Unknown>>                 \* what an earlier run left

-----------------------------------------------------------------------------
(* Start-up.                                                               *)

\* A retune reaches the dashboard too, which relabels the frame it shows.
SetCurrentFrequency(f) == hz' = f /\ latest' = [latest EXCEPT !.frequencyHz = f]

LoadConfig ==
  /\ main = "boot"
  /\ \E f, etc \in Files :
       /\ f # NoFile => etc = NoFile      \* it is not looked at
       /\ file' = IF f = NoFile THEN etc ELSE f
       /\ config' = AppConfig(f, etc)
  /\ main' = "configured"
  /\ UNCHANGED <<run, fftw, radioVars, dsp, frame, sinkVars, disk>>

\* The rest of main() up to the start of the receiver.
Start ==
  /\ main = "configured"
  /\ \E args \in CommandLines :
       LET all == CommandLine(config, args)
       IN /\ run' = [autoScan |-> all.autoScan, aeroHub |-> all.aeroHub]
          /\ SetCurrentFrequency(all.hz)
  /\ file' = NoFile /\ config' = Forgotten
  /\ main' = "running"
  /\ UNCHANGED <<fftw, locked, dsp, frame, history, points, log, record,
                 delivered, disk>>

Started == main \in {"running", "stopping"}

-----------------------------------------------------------------------------
(* The radio.                                                              *)

Retune ==
  /\ main \in {"running", "stopping", "stopped"}
  /\ \E f \in TuneHz \ {hz} : SetCurrentFrequency(f)
  /\ UNCHANGED <<main, bootVars, locked, dsp, frame, history, points, log, record, delivered,
                 disk>>

\* The bin a carrier falls in.
BinOf(f, centre) == (f - centre) \div (SampleRate \div N) + N \div 2

Heard(centre) == {f \in DOMAIN Carriers : BinOf(f, centre) \in Bins}

\* A carrier turns by so many eighths of a circle from sample to sample.
Samples(centre) ==
  [n \in Bins |->
     LET tone(f) == Rotate(<<Carriers[f], 0, 0, 0>>, n * (BinOf(f, centre) - N \div 2))
     IN FoldLeft(LAMBDA s, f : Plus(s, tone(f)), Zero, SetToSeq(Heard(centre)))]

Far(f, g) == f - g > PeakGuardHz \/ g - f > PeakGuardHz

Peaks == AnalyzeBlock(Samples(hz), hz, fftw)

Scanning == Started /\ dsp = "idle" /\ run.autoScan /\ ~locked

\* The scanner's part of the sample callback, with the peaks' callbacks.
ScanBlock ==
  /\ Scanning
  /\ SetCurrentFrequency(FoldLeft(LAMBDA f, p : IF Far(p, f) THEN p ELSE f, hz, Peaks))
  /\ UNCHANGED <<main, bootVars, locked, dsp, frame, history, points, log, record,
                 delivered, disk>>

-----------------------------------------------------------------------------
(* onTelemetryReceived.                                                    *)

\* A decoder has a frame; if there is nothing in it, no one hears of it.
ReceiveFrame ==
  /\ Started /\ dsp = "idle" /\ Len(delivered) < MaxFrames
  /\ \E raw \in RawFrames :
       /\ ProcessRawFrame(raw) # <<>>
       /\ frame' = ProcessRawFrame(raw)[1]
  /\ locked' = TRUE
  /\ delivered' = Append(delivered, frame')
  /\ dsp' = "dashboard"
  /\ UNCHANGED <<main, bootVars, hz, latest, history, points, log, record, disk>>

\* Slips: nothing is dropped, or the newest.
DropNone(s, cap) == s

DropNewest(s, cap) == IF Len(s) > cap THEN SubSeq(s, 1, cap) ELSE s

DropOldest(s, cap) == IF Len(s) > cap THEN Tail(s) ELSE s

UpdateTelemetry ==
  /\ dsp = "dashboard"
  /\ latest' = [frame EXCEPT !.frequencyHz = IF @ = 0 THEN hz ELSE @]
  /\ history' = DropOldest(Append(history, frame), HistoryCap)
  /\ dsp' = "record"
  /\ UNCHANGED <<main, bootVars, radioVars, frame, points, log, record, delivered, disk>>

AddPoint(frames, t) ==
  IF GpsValid(t) THEN DropOldest(Append(frames, t), PointCap) ELSE frames

Loggable(t) == GpsValid(t) /\ HasSerial(t)

LogFrame(frames, t) == IF Loggable(t) THEN Append(frames, t) ELSE frames

\* "{}", or a record whose crcValid is the validity of the position.
AeroHubRecord(t) ==
  IF ~GpsValid(t) /\ ~HasSerial(t) THEN Nothing
  ELSE [serial |-> t.serial, crcValid |-> GpsValid(t)]

RecordFrame ==
  /\ dsp = "record"
  /\ points' = AddPoint(points, frame)
  /\ log' = LogFrame(log, frame)
  /\ record' = IF run.aeroHub THEN AeroHubRecord(frame) ELSE record
  /\ frame' = Unknown
  /\ dsp' = "idle"
  /\ UNCHANGED <<main, bootVars, radioVars, latest, history, delivered, disk>>

\* The sweep thread finds that nothing was heard for a while.
Unlock ==
  /\ main = "running" /\ run.autoScan /\ locked
  /\ locked' = FALSE
  /\ UNCHANGED <<main, bootVars, hz, dsp, frame, sinkVars, disk>>

-----------------------------------------------------------------------------
(* What others read off the sinks.                                         *)

\* Slip: a comma after every point.
MoreFollows(i, frames) == TRUE

NotLast(i, frames) == i < Len(frames)

\* getFlightPathJson, as points and commas.
FlightPath(frames) ==
  LET Item(i) == IF ~GpsValid(frames[i]) THEN <<>>
                 ELSE IF NotLast(i, frames) THEN <<"point", ",">> ELSE <<"point">>
  IN FlattenSeq([i \in 1 .. Len(frames) |-> Item(i)])

\* Slip: underground.
Sunk(alt, drop, ground) == alt - drop

Lowered(alt, drop, ground) == IF alt - drop < ground THEN ground ELSE alt - drop

\* predictLanding: altitude and time, step by step.  Rates are in
\* tenths of m/s, up to half a metre per second is no descent.
Descent(alt, rate, ground) ==
  LET drop == (rate * StepSec) \div 10
      fall[k \in Nat] == IF k = 0 THEN alt ELSE Lowered(fall[k - 1], drop, ground)
      Goes(k) == fall[k] > ground /\ k * StepSec < MaxSec
      steps == CHOOSE k \in 0 .. (MaxSec \div StepSec) + 1 :
                 ~Goes(k) /\ \A j \in 0 .. k - 1 : Goes(j)
  IN [k \in 1 .. steps |-> [alt |-> fall[k], sec |-> k * StepSec]]

PredictLanding(frames, ground) ==
  IF frames = <<>> THEN <<>>
  ELSE LET t == Last(frames)
       IN IF t.climb >= -5 \/ t.alt <= ground THEN <<>> ELSE Descent(t.alt, -t.climb, ground)

-----------------------------------------------------------------------------
(* The end.                                                                *)

Signal ==
  /\ main = "running"
  /\ main' = "stopping"
  /\ UNCHANGED <<bootVars, radioVars, dsp, frame, sinkVars, disk>>

\* Slip: the receiver is not waited for.
NotWaiting == TRUE

CallbackDone == dsp = "idle"

\* sdrReceiver.stop() joins the worker, which ends between two callbacks.
StopReceiver ==
  /\ main = "stopping" /\ CallbackDone
  /\ main' = "stopped"
  /\ UNCHANGED <<bootVars, radioVars, dsp, frame, sinkVars, disk>>

\* ofstream: opening truncates what an earlier run left, or fails.
OpenCsv ==
  /\ main = "stopped"
  /\ \/ log # <<>> /\ main' = "writing" /\ disk' = <<>>
     \/ main' = "exited" /\ UNCHANGED disk
  /\ UNCHANGED <<bootVars, radioVars, dsp, frame, sinkVars>>

WriteCsv ==
  /\ main = "writing"
  /\ disk' = log
  /\ main' = "exited"
  /\ UNCHANGED <<bootVars, radioVars, dsp, frame, sinkVars>>

-----------------------------------------------------------------------------
Next ==
  \/ LoadConfig \/ Start
  \/ Retune \/ ScanBlock
  \/ ReceiveFrame \/ UpdateTelemetry \/ RecordFrame \/ Unlock
  \/ Signal \/ StopReceiver \/ OpenCsv \/ WriteCsv

Spec == Init /\ [][Next]_vars

-----------------------------------------------------------------------------
\* Every variable keeps its type.
TypeOK ==
  /\ main \in {"boot", "configured", "running", "stopping", "stopped", "writing", "exited"}
  /\ fftw \in BOOLEAN /\ locked \in BOOLEAN
  /\ hz \in Nat
  /\ dsp \in {"idle", "dashboard", "record"}
  /\ main \in {"boot", "configured", "stopped", "writing", "exited"} => dsp = "idle"
  /\ main # "boot" => latest.frequencyHz = hz
  /\ \A frames \in {history, points, log, delivered} : \A i \in 1 .. Len(frames) :
       DOMAIN frames[i] = DOMAIN Unknown
  /\ Len(history) <= HistoryCap /\ Len(points) <= PointCap /\ Len(delivered) <= MaxFrames

Occurrences(key) == At(file, key)

\* The value written for a key of its own: the token next to it.
Written(key) == file[(CHOOSE i \in Occurrences(key) : TRUE) + 1]

\* Config.hpp searches for the first thing of a kind behind a key instead of
\* parsing.  Whatever the order of the sections, a key that occurs once gets its
\* own value, and a section that starts with "enabled" is switched by it; a key
\* that is missing gets its default.  "enabled" and "port" occur more than once:
\* whose they are depends on the order, so the property leaves them out.
SettingsHonoured ==
  main = "configured" /\ file # NoFile =>
    /\ \A k \in DOMAIN Strings : Cardinality(Occurrences(k)) <= 1 =>
         config.strings[k] = IF Occurrences(k) = {} THEN Strings[k] ELSE Written(k).text
    /\ \A k \in DOMAIN Numbers : Cardinality(Occurrences(k)) <= 1 =>
         config.numbers[k] = IF Occurrences(k) = {} THEN Numbers[k] ELSE Written(k).value
    /\ \A k \in DOMAIN Flags \ Sections : Cardinality(Occurrences(k)) <= 1 =>
         config.flags[k] = IF Occurrences(k) = {} THEN Flags[k] ELSE Written(k).letter = "t"
    /\ \A k \in Sections \ {i \in Sections : Occurrences(i) = {}} :
         LET at == CHOOSE i \in Occurrences(k) : TRUE
         IN file[at + 1].text = "enabled" => config.flags[k] = (file[at + 2].letter = "t")

\* "scanner": {"enabled": ...} switches the scanner.  False of a file that has an
\* "enabled" before it, as config.example.json does.
ScannerSwitchIsItsOwn ==
  main = "configured" /\ file # NoFile =>
    \A i \in Occurrences("scanner") :
      file[i + 1].text = "enabled" => config.flags["enabled"] = (file[i + 2].letter = "t")

\* The blocks of a raw frame that lie in it, one behind the other.
Block(raw, blocks, i) ==
  LET start == 8 + FoldLeft(LAMBDA n, b : n + 2 + b.len, 0, SubSeq(blocks, 1, i - 1))
  IN blocks[i].len > 0 /\ start + 2 + blocks[i].len <= raw.size

\* The lengths of RS41 blocks are bytes off the air.  A position that is
\* delivered was read from a whole GPS block inside the frame, one that no empty
\* block and no block that leaves the frame comes before; from the corrected
\* bytes if the codewords could be decoded, from what was received otherwise.
PositionsAreWhole ==
  frame.type = "RS41" /\ GpsValid(frame) =>
    \E raw \in {r \in RawFrames : r.sonde = "RS41"} :
      LET blocks == IF raw.ok THEN raw.corrected ELSE raw.received IN
      \E i \in 1 .. Len(blocks) :
        /\ blocks[i].type = "gps" /\ blocks[i].len >= 28 /\ blocks[i].alt = frame.alt
        /\ \A j \in 1 .. i : Block(raw, blocks, j)

\* A build that found FFTW reports the carriers of a block and nothing else: the
\* halves of the spectrum are where they belong, no bin is off by one, and a peak
\* has the frequency of its carrier.  (A build without FFTW does not: see
\* TunesToSignals.)
ScannerSeesCarriers ==
  Scanning /\ fftw =>
    ToSet(Peaks) = {f \in Heard(hz) :
                      BinOf(f, hz) \in 2 .. N - 3 /\ MinHz <= f /\ f <= MaxHz}

\* "Automatically tune to active peak frequency": where the scanner tunes to,
\* somebody transmits.  False of a build without FFTW.
TunesToSignals == [][ScanBlock /\ hz' # hz => hz' \in DOMAIN Carriers]_vars

Newest(frames, n) == SubSeq(frames, IF Len(frames) > n THEN Len(frames) - n + 1 ELSE 1, Len(frames))

\* Between two frames the sinks agree: the dashboard holds the newest of what was
\* delivered, the predictor the newest of what had a position, and the last frame
\* had an AeroHub record that is not empty.
SinksAgree ==
  dsp = "idle" =>
    /\ history = Newest(delivered, HistoryCap)
    /\ points = Newest(Filter(delivered, GpsValid), PointCap)
    /\ delivered # <<>> => /\ [latest EXCEPT !.frequencyHz = 0] = Last(delivered)
                           /\ run.aeroHub => record.crcValid = GpsValid(Last(delivered))

\* The exported file holds every frame with a position and a serial that the
\* callback was ever given: the export comes after the receiver stopped.
FlightSurvives ==
  [][main = "writing" /\ main' = "exited" => disk' = Filter(delivered, Loggable)]_vars

\* "Persist all received packets [...] indexed by sonde serial number": a frame
\* that has a serial is logged.  False of frames without a position.
PacketsPersisted ==
  dsp = "idle" => \A t \in ToSet(delivered) : HasSerial(t) => t \in ToSet(log)

Ceiling(a, b) == (a + b - 1) \div b

\* A predicted descent falls all the way: it ends on the ground, at the time the
\* rate says, unless that is later than the predictor looks.
PredictionLands ==
  LET path == PredictLanding(points, 0) IN
  path # <<>> =>
    LET t == Last(points)
        land == Ceiling(10 * t.alt, -t.climb * StepSec) * StepSec
    IN /\ \A k \in 1 .. Len(path) - 1 : path[k].alt > 0
       /\ IF land <= MaxSec THEN Last(path) = [alt |-> 0, sec |-> land]
                            ELSE Last(path).alt > 0 /\ Last(path).sec >= MaxSec

\* Points and commas alternate, from a point to a point.
WellFormed(path) ==
  path = <<>> \/ /\ Len(path) % 2 = 1
                 /\ \A i \in 1 .. Len(path) : path[i] = IF i % 2 = 1 THEN "point" ELSE ","

\* /api/flightpath is an array a browser can parse while the newest frame has a
\* position.  Otherwise it ends in a comma: the code looks for the end of the
\* history, not for the last point.
PathParses ==
  history # <<>> /\ GpsValid(Last(history)) => WellFormed(FlightPath(history))
=============================================================================
