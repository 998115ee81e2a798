------------------------------ MODULE MCSession ------------------------------
(***************************************************************************)
(* Small instances of Session: every order of the sections of a file, two  *)
(* carriers, frames of each decoder.                                       *)
(***************************************************************************)
EXTENDS Session

\* Tokens: a key or a text, the first t or f in it and what its digits are read
\* as; a flag; a number.
T(text, letter) == [text |-> text, quoted |-> TRUE, letter |-> letter, digits |-> "no", value |-> 0]
D(text, letter, digits, value) == [T(text, letter) EXCEPT !.digits = digits, !.value = value]
B(b) == [text |-> "", quoted |-> FALSE, letter |-> IF b THEN "t" ELSE "f", digits |-> "no", value |-> 0]
I(n) == [text |-> "", quoted |-> FALSE, letter |-> "-", digits |-> "number", value |-> n]

Enabled(b) == <<T("enabled", "-"), B(b)>>

Sdr == <<T("sdr", "-"), T("driver", "-"), T("bladerf", "f"), T("frequency_hz", "f"), I(403000000),
         T("gain", "-"), T("auto", "t"), T("bias_tee", "t"), B(TRUE)>>
Diversity(b) == <<T("diversity", "t")>> \o Enabled(b) \o
  <<T("mode", "-"), T("MaximalRatioCombining", "t"), T("secondary_device_index", "-"), I(2)>>
ScannerSection(b) == <<T("scanner", "-")>> \o Enabled(b) \o
  <<T("max_frequency_hz", "f"), I(405000000)>>
Station == <<T("station", "t"), T("callsign", "-"), D("W1AW", "-", "number", 1), T("latitude", "t"), I(52)>>
Web == <<T("web", "-")>> \o Enabled(TRUE) \o <<T("port", "t"), I(8081)>>
Uplink(b) ==
  <<T("uplink", "-"), T("aerohub", "-")>> \o Enabled(b) \o <<T("api_key", "-"), T("", "-")>> \o
  <<T("sondehub", "-")>> \o Enabled(FALSE) \o <<T("uploader_position", "t"), B(TRUE)>> \o
  <<T("aprs_is", "-")>> \o Enabled(FALSE) \o <<T("server", "-"), D("rotate.aprs2.net", "t", "junk", 0)>>

Orders == SetToSeqs({1, 2, 3, 4})

SomeFiles ==
  {NoFile, <<>>} \cup
  {LET part == <<Diversity(b), ScannerSection(~b), Uplink(b), Web>>
   IN FlattenSeq(<<Sdr>> \o [i \in 1 .. 4 |-> part[order[i]]] \o <<Station>>)
     : order \in Orders, b \in BOOLEAN}

SomeCommandLines ==
  {<<>>, <<[option |-> "--freq", value |-> 403]>>,
   <<[option |-> "--freq", value |-> 403000000], [option |-> "--scan", value |-> 0]>>}

TwoCarriers == (403300000 :> 1) @@ (404200000 :> 2)

Status(serial) == [type |-> "status", len |-> 40, serial |-> serial]
Gps(alt, climb) == [type |-> "gps", len |-> 28, alt |-> alt, climb |-> climb]
Ptu(temperature) == [type |-> "ptu", len |-> 20, temperature |-> temperature]
RS41(ok, received, corrected) ==
  [sonde |-> "RS41", size |-> 518, ok |-> ok, errors |-> 1, received |-> received,
   corrected |-> corrected]
Broken == [type |-> "gps", len |-> 0, alt |-> 9, climb |-> 0]
Short == [type |-> "gps", len |-> 8, alt |-> 9, climb |-> 0]
Long == [type |-> "other", len |-> 255]

\* 9 is an altitude no whole block has.
SomeFrames ==
  {RS41(TRUE, <<Broken>>, <<Status("S"), Gps(250, -100), Short, Ptu(5), Long, Long, Gps(9, 0)>>),
   RS41(FALSE, <<Gps(300, -6), Broken, Gps(9, 0)>>, <<>>),
   [sonde |-> "DFM", size |-> 26, nibble |-> 3, alt |-> 200, serial |-> "D"],
   [sonde |-> "DFM", size |-> 26, nibble |-> 7, alt |-> 200, serial |-> "D"],
   [sonde |-> "M10", size |-> 100, alt |-> 100, serial |-> "M"]}
=============================================================================
