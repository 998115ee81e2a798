----------------------------- MODULE SdrDrivers -----------------------------
(***************************************************************************)
(* What the three drivers make of open(), setFrequency(), startAsync() and *)
(* close().  A device is                                                   *)
(*   handle      whether the library has something open for it: m_dev, or  *)
(*               for SDRplay the session of sdrplay_api_Open               *)
(*   simulation  m_isSimulation                                            *)
(* The libraries are external: what can come of a call is in the sets of   *)
(* outcomes below.  A driver that was compiled without its library behaves *)
(* like one that finds no device.                                          *)
(***************************************************************************)
EXTENDS Integers

NoDevice == [handle |-> FALSE, simulation |-> FALSE]
Simulated == [handle |-> FALSE, simulation |-> TRUE]
Hardware == [handle |-> TRUE, simulation |-> FALSE]

\* The driver of a name in the configuration, in lower case.
CreateSdrDevice(name) ==
  CASE name \in {"sdrplay", "rspdx", "rsp", "rspdx-r2", "sdrplayrsp"} -> "sdrplay"
    [] name \in {"bladerf", "blade_rf", "nuand"}                      -> "bladerf"
    [] OTHER                                                          -> "rtlsdr"

Outcome(ok, device) == [ok |-> ok, device |-> device]

\* rtlsdr_open fails: the device is simulated but not open.
OpenRtl ==
  {Outcome(TRUE, Simulated), Outcome(FALSE, Simulated), Outcome(TRUE, Hardware)}

\* bladerf_open fails: simulated.  bladerf_sync_config fails: closed again.
OpenBlade ==
  {Outcome(TRUE, Simulated), Outcome(FALSE, Simulated), Outcome(TRUE, Hardware)}

\* sdrplay_api_Open fails, or finds no device: simulated.
OpenSdrplay == {Outcome(TRUE, Simulated), Outcome(TRUE, Hardware)}

Open(driver) ==
  CASE driver = "rtlsdr"  -> OpenRtl
    [] driver = "bladerf" -> OpenBlade
    [] OTHER              -> OpenSdrplay

\* The results of setFrequency.  SDRplay's does not look at what
\* sdrplay_api_Update says, which it gives a handle that was never set.
SetFrequency(driver, device) ==
  IF device.handle /\ driver # "sdrplay" THEN {"tuned", "refused"} ELSE {"tuned"}

\* startAsync, as far as the library takes part: whether a worker is started, and
\* for which device.  sdrplay_api_Init gets that handle too and fails, so that
\* SDRplay is simulated after all, and its session stays open.
StartRtl(device) == {Outcome(TRUE, device)}

StartBlade(device) ==
  IF device.simulation THEN {Outcome(TRUE, device)}
                       ELSE {Outcome(TRUE, device), Outcome(FALSE, device)}

StartSdrplay(device) == {Outcome(TRUE, [device EXCEPT !.simulation = TRUE])}

Start(driver, device) ==
  CASE driver = "rtlsdr"  -> StartRtl(device)
    [] driver = "bladerf" -> StartBlade(device)
    [] OTHER              -> StartSdrplay(device)

\* What becomes of librtlsdr's stream in stopAsync: it only cancels one that runs.
CancelRtl(async) == IF async = "running" THEN "canceling" ELSE async

\* bladerf_enable_module: a read that is under way ends by its time-out.
CancelBlade(async) == async

\* sdrplay_api_Uninit is not called, for want of the handle.
CancelSdrplay(async) == async

Cancel(driver, async) ==
  CASE driver = "rtlsdr"  -> CancelRtl(async)
    [] driver = "bladerf" -> CancelBlade(async)
    [] OTHER              -> CancelSdrplay(async)

CloseRtl(device) == NoDevice

CloseBlade(device) == NoDevice

\* The session of a device that is simulated is not closed.
CloseSdrplay(device) == [NoDevice EXCEPT !.handle = device.handle /\ device.simulation]

Closed(driver, device) ==
  CASE driver = "rtlsdr"  -> CloseRtl(device)
    [] driver = "bladerf" -> CloseBlade(device)
    [] OTHER              -> CloseSdrplay(device)

-----------------------------------------------------------------------------
\* The samples a block has: rtlsdr_read_async's or the simulation's, bladerf_sync_rx's
\* or the simulation's, the simulation's.
RtlBlock(device) == IF device.handle THEN 131072 ELSE 16384

BladeBlock(device) == IF device.simulation THEN 4096 ELSE 8192

SdrplayBlock(device) == 4096

BlockSize(driver, device) ==
  CASE driver = "rtlsdr"  -> RtlBlock(device)
    [] driver = "bladerf" -> BladeBlock(device)
    [] OTHER              -> SdrplayBlock(device)
=============================================================================
