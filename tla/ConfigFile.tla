------------------------------ MODULE ConfigFile ------------------------------
(***************************************************************************)
(* What Config.hpp makes of a configuration file, and main() of that.      *)
(*                                                                         *)
(* The file is not parsed: each setting is the first thing of its kind     *)
(* that follows the first occurrence of its key.  A file is therefore the  *)
(* sequence of its tokens, keys and values alike, sections being the keys  *)
(* they are.  A token tells what the three searches look at:               *)
(*   text     what is written                                              *)
(*   quoted   whether it is between quotes                                 *)
(*   letter   the first of its letters that is a t or an f, or "-"         *)
(*   digits   "no", "number", or "junk" (digits that stod refuses)         *)
(*   value    the number it starts with                                    *)
(***************************************************************************)
EXTENDS Integers, Sequences, SequencesExt

CONSTANT NoFile   \* a file that cannot be opened

Find(file, key) == SelectInSeq(file, LAMBDA t : t.quoted /\ t.text = key)

\* Slip: the search starts at the key instead of behind the colon.
FromKey(i) == i

BehindColon(i) == i + 1

\* Whether a token is what the search for a value of this kind stops at.
LooksLike(t, kind) ==
  CASE kind = "string" -> t.quoted
    [] kind = "number" -> t.digits # "no"
    [] kind = "flag"   -> t.letter # "-"

\* The first such token behind a key; 0 if there is none.
Search(file, key, kind) ==
  LET at == Find(file, key)
  IN IF at = 0 THEN 0
     ELSE SelectInSubSeq(file, BehindColon(at), Len(file), LAMBDA t : LooksLike(t, kind))

ExtractString(file, key, default) ==
  LET i == Search(file, key, "string")
  IN IF i = 0 THEN default ELSE file[i].text

ExtractDouble(file, key, default) ==
  LET i == Search(file, key, "number")
  IN IF i = 0 \/ file[i].digits = "junk" THEN default ELSE file[i].value

ExtractBool(file, key, default) ==
  LET i == Search(file, key, "flag")
  IN IF i = 0 THEN default ELSE file[i].letter = "t"

-----------------------------------------------------------------------------
(* The settings, by kind, with the value of one that is not in the file.   *)

Strings ==
  [driver |-> "auto", antenna_port |-> "AntennaA", gain_mode |-> "manual",
   callsign |-> "N0CALL", antenna |-> "Turnstile 403MHz", bind_address |-> "0.0.0.0",
   endpoint_url |-> "http://localhost:8088/api/v1/telemetry", api_key |-> ""]

Numbers ==
  [device_index |-> 0, sample_rate |-> 2400000, ppm_error |-> 0, lna_state |-> 0,
   rx_channel |-> 0, bandwidth_hz |-> 1500000, secondary_device_index |-> 1,
   min_frequency_hz |-> 400050000, max_frequency_hz |-> 406000000, step_hz |-> 1800000,
   detection_threshold_db |-> 8, dwell_time_ms |-> 250,
   latitude |-> 0, longitude |-> 0, altitude_m |-> 0, port |-> 8080]

\* static_cast<uint16_t>
Narrow(n) == n % 65536

\* "diversity" and the uplinks are sections, "enabled" a key most sections have.
Flags ==
  [bias_tee |-> FALSE, broadcast_notch |-> FALSE, dab_notch |-> FALSE, diversity |-> FALSE,
   enabled |-> TRUE, aerohub |-> TRUE, sondehub |-> FALSE, aprs_is |-> FALSE]

FrequencyHz(file, initial) ==
  LET freq == ExtractDouble(file, "frequency_hz", 0) IN IF freq > 1000000 THEN freq ELSE initial

\* In tenths of a dB; 0 is automatic.  stof reads the text that was found.
Gain(file) ==
  LET i == Search(file, "gain", "string")
  IN IF i = 0 \/ file[i].digits # "number" THEN 0 ELSE 10 * file[i].value

\* loadFromFile of a file that can be opened.
LoadFromFile(file) ==
  LET strings == [k \in DOMAIN Strings |-> ExtractString(file, k, Strings[k])]
      numbers == [k \in DOMAIN Numbers |-> ExtractDouble(file, k, Numbers[k])]
  IN [strings   |-> strings,
      numbers   |-> [numbers EXCEPT !.port = Narrow(@)],
      flags     |-> [k \in DOMAIN Flags |-> ExtractBool(file, k, Flags[k])],
      hz        |-> FrequencyHz(file, 403000000),
      gain      |-> Gain(file),
      stationId |-> ExtractString(file, "station_id", strings.callsign)]

\* The members' own initial values: not quite those of an empty file.
Unloaded ==
  [LoadFromFile(<<>>) EXCEPT !.flags.aerohub = FALSE, !.numbers.dwell_time_ms = 200,
                             !.strings.antenna = "403MHz Turnstile",
                             !.stationId = "RadiosondePI-01"]

\* The file of --config, or the shipped one; then the one in /etc; then none.
AppConfig(file, etc) ==
  IF file # NoFile THEN LoadFromFile(file)
  ELSE IF etc # NoFile THEN LoadFromFile(etc) ELSE Unloaded

-----------------------------------------------------------------------------
(* The command line, one option after the other.                           *)

Run(config) ==
  [hz        |-> IF config.hz > 0 THEN config.hz ELSE 403000000,
   autoScan  |-> config.flags.enabled,
   diversity |-> config.flags.diversity,
   webPort   |-> IF config.numbers.port > 0 THEN config.numbers.port ELSE 8080,
   gain      |-> config.gain,
   driver    |-> config.strings.driver,
   antenna   |-> config.strings.antenna_port,
   aeroHub   |-> config.flags.aerohub]

\* Each option has its value, automatic gain being 0.  Below 1000 a frequency is
\* in MHz.
Hz(f) == IF f < 1000 THEN f * 1000000 ELSE f

ApplyArg(run, arg) ==
  CASE arg.option = "--freq"      -> [run EXCEPT !.hz = Hz(arg.value), !.autoScan = FALSE]
    [] arg.option = "--scan"      -> [run EXCEPT !.autoScan = TRUE]
    [] arg.option = "--diversity" -> [run EXCEPT !.diversity = TRUE]
    [] arg.option = "--port"      -> [run EXCEPT !.webPort = Narrow(arg.value)]
    [] arg.option = "--gain"      -> [run EXCEPT !.gain = 10 * arg.value]
    [] arg.option = "--driver"    -> [run EXCEPT !.driver = arg.value]
    [] arg.option = "--antenna"   -> [run EXCEPT !.antenna = arg.value]
    [] OTHER                      -> run

CommandLine(config, args) == FoldLeft(ApplyArg, Run(config), args)
=============================================================================
