------------------------------ MODULE PowerPath ------------------------------
(***************************************************************************)
(* products/go/main/go_power.cpp with its BQ25629 charger, the external    *)
(* watchdog and the LP core: what keeps the device powered and running.    *)
(*                                                                         *)
(* The charger feeds the PMID rail of the PM sensor, from its input or by  *)
(* boosting the battery (EN_OTG).  It keeps its registers when the CPU     *)
(* sleeps or is reset, and has a watchdog of its own, on by default, that  *)
(* clears EN_OTG.  The external watchdog resets the CPU; the main task     *)
(* feeds it while awake, the LP core in deep sleep.  A tick is a minute.   *)
(***************************************************************************)
EXTENDS Naturals

CONSTANTS
  Timeout,     \* ticks without a pulse after which the external watchdog resets
  MaxAway,     \* ticks the CPU may be away from the timers, booting included
  MaxFaults,   \* bound: failed transfers to the charger, and resets
  MaxPlugs     \* bound: how often a charging cable is plugged or unplugged

ASSUME TimeAssumption == Timeout \in Nat \ {0} /\ MaxAway \in Nat
ASSUME BoundAssumption == MaxFaults \in Nat /\ MaxPlugs \in Nat

VARIABLES
  cpu,       \* what the CPU does
  cause,     \* get_wake_cause() of this boot
  fed,       \* ticks since the external watchdog was last pulsed
  halt,      \* ghost: since then the CPU was halted by a failed power-off
  away,      \* ticks since the CPU last served its timers
  due,       \* the timers that have elapsed
  pinOwner,  \* who drives the pin of the watchdog: the CPU or the LP core
  lpRuns,    \* the LP core pulses the pin
  otg,       \* the charger's EN_OTG
  guarded,   \* the charger's watchdog is on
  input,     \* the charger has an external input, VBUS_STAT
  attached,  \* BQ25629 has a device handle: it answered the probe
  driverMode,  \* BQ25629Bms::_pmid_mode
  serviceMode, \* PowerService::_pmid_mode
  poll,      \* the power source that the poll under way has read
  faults, plugs

cpuVars == <<cpu, cause, away, due>>
watchdogVars == <<fed, halt, pinOwner, lpRuns>>
cacheVars == <<driverMode, serviceMode>>
chargerVars == <<otg, guarded>>
powerVars == <<cpuVars, watchdogVars, chargerVars, input, attached, cacheVars, poll,
               faults, plugs>>

Modes == {"Unknown", "PassThrough", "Boost"}
Sources == {"None", "Adapter"}
On == {"booting", "ready", "start", "fast", "polled", "run"}

(* bms_power_source_has_external_input() chooses the mode. *)
PmidModeFor(source) == IF source = "Adapter" THEN "PassThrough" ELSE "Boost"
Source == IF input THEN "Adapter" ELSE "None"

(* A transfer to the charger: it may fail, and does without a handle. *)
Transfers(ok) == \/ ok /\ attached /\ UNCHANGED faults
                 \/ ~ok /\ ~attached /\ UNCHANGED faults
                 \/ ~ok /\ attached /\ faults < MaxFaults /\ faults' = faults + 1

(* The charger without a supply: its registers have their defaults. *)
PowerInit ==
  /\ cpu = "booting" /\ cause = "PowerOn" /\ away = 0 /\ due = {}
  /\ fed = 0 /\ halt = FALSE /\ pinOwner = "CPU" /\ lpRuns = FALSE
  /\ otg = FALSE /\ guarded = TRUE
  /\ input \in BOOLEAN
  /\ attached = FALSE
  /\ driverMode = "Unknown" /\ serviceMode = "Unknown"
  /\ poll = "none"
  /\ faults = 0 /\ plugs = 0
-----------------------------------------------------------------------------
(* Boot.                                                                   *)

(* GoApp::run(): RAM starts anew.  The two paths from deep sleep stop the  *)
(* LP core before anything else uses its pin.                              *)
Boots(why) ==
  /\ cpu' = "booting" /\ cause' = why /\ away' = 0 /\ due' = {}
  /\ lpRuns' = FALSE
  /\ attached' = FALSE
  /\ driverMode' = "Unknown" /\ serviceMode' = "Unknown"
  /\ poll' = "none"
  /\ UNCHANGED <<input, plugs>>

(* The part of BQ25629Bms::init() in which a transfer fails, if any does: *)
(* the parts before it have been done.                                    *)
InitParts == <<"probe", "registers", "watchdog", "source", "rail", "done">>
Reached(part, failed) ==
  \E i, j \in DOMAIN InitParts : InitParts[i] = part /\ InitParts[j] = failed /\ i < j

(* init_bms(), with BQ25629Bms::init(): the board goes on whatever it says *)
InitBms ==
  /\ cpu = "booting"
  /\ cpu' = "ready"
  /\ \E failed \in {InitParts[i] : i \in DOMAIN InitParts} :
       /\ IF failed = "done" THEN UNCHANGED faults
                             ELSE faults < MaxFaults /\ faults' = faults + 1
       /\ attached' = Reached("probe", failed)
       /\ guarded' = (guarded /\ ~Reached("watchdog", failed))
       /\ IF Reached("rail", failed)
            THEN driverMode' = PmidModeFor(Source) /\ otg' = ~input
            ELSE UNCHANGED <<driverMode, otg>>
  /\ UNCHANGED <<cause, away, due, watchdogVars, input, serviceMode, poll, plugs>>

KeepsPin == pinOwner                        \* faulty variant of WatchdogPin
(* init_ext_watchdog(): the pin goes back to the CPU. *)
WatchdogPin == "CPU"

(* reset_ext_watchdog() by the CPU reaches the watchdog if the pin is its. *)
Pulse == IF pinOwner' = "CPU" THEN fed' = 0 /\ halt' = FALSE
                                    ELSE UNCHANGED <<fed, halt>>

(* GoHardwareBoard::power(), on first access.  The fast path comes here    *)
(* after its measurement, unless a button press made it promote before.    *)
PowerUp ==
  /\ cpu = "ready"
  /\ cpu' \in {"start"} \cup {p \in {"fast"} : cause = "Timer"}
  /\ pinOwner' = WatchdogPin
  /\ Pulse
  /\ UNCHANGED <<cause, away, due, lpRuns, chargerVars, input, attached, cacheVars,
                 poll, faults, plugs>>

(* A fast path that cannot sleep goes on to run_interactive(). *)
Promote ==
  /\ cpu = "polled"
  /\ cpu' = "start"
  /\ UNCHANGED <<cause, away, due, watchdogVars, chargerVars, input, attached,
                 cacheVars, poll, faults, plugs>>
-----------------------------------------------------------------------------
(* Polls of the charger.                                                   *)

(* Both boots poll the charger once. *)
AfterPoll == CASE cpu = "start" -> "run" [] cpu = "fast" -> "polled" [] OTHER -> cpu

(* poll_bms(), of on_bms_timer() and the boots, and poll_status(), of      *)
(* on_bms_status_timer(), as far as the read of the status.                *)
ReadStatus ==
  /\ poll = "none"
  /\ \E ok \in BOOLEAN :
       /\ Transfers(ok)
       /\ IF ok THEN poll' = Source /\ UNCHANGED cpu
                ELSE cpu' = AfterPoll /\ UNCHANGED poll
  /\ UNCHANGED <<cause, away, watchdogVars, chargerVars, input, attached, cacheVars,
                 plugs>>

PollAtBoot == cpu \in {"start", "fast"} /\ ReadStatus /\ UNCHANGED due
PollBms == cpu = "run" /\ "poll" \in due /\ ReadStatus /\ due' = due \ {"poll"}
PollStatus == cpu = "run" /\ "poll" \notin due /\ ReadStatus /\ UNCHANGED due

CachesEarly(desired) == desired             \* faulty variant of ServiceAfterFailure
(* A mode that could not be set is not remembered. *)
ServiceAfterFailure(desired) == serviceMode

(* BQ25629Bms::configure_pmid_mode() *)
ConfigurePmidMode(desired, ok) ==
  IF driverMode = desired
    THEN ok /\ UNCHANGED <<driverMode, otg, faults>>
    ELSE /\ Transfers(ok)
         /\ IF ok THEN driverMode' = desired /\ otg' = (desired = "Boost")
                  ELSE UNCHANGED <<driverMode, otg>>

(* sync_pmid_mode() *)
SyncPmidMode(desired, ok) ==
  IF serviceMode = desired
    THEN ok /\ UNCHANGED <<cacheVars, otg, faults>>
    ELSE /\ ConfigurePmidMode(desired, ok)
         /\ serviceMode' = IF ok THEN desired ELSE ServiceAfterFailure(desired)

(* The rest of a poll; what it does with its result is left out. *)
FinishPoll ==
  /\ poll # "none"
  /\ \E ok \in BOOLEAN : SyncPmidMode(PmidModeFor(poll), ok)
  /\ poll' = "none"
  /\ cpu' = AfterPoll
  /\ UNCHANGED <<cause, away, due, watchdogVars, guarded, input, attached, plugs>>

(* check_timers(): the timer of the external watchdog *)
FeedWatchdog ==
  /\ cpu = "run" /\ poll = "none" /\ due = {"feed"}
  /\ due' = {} /\ away' = 0
  /\ UNCHANGED pinOwner /\ Pulse
  /\ UNCHANGED <<cpu, cause, lpRuns, chargerVars, input, attached, cacheVars, poll,
                 faults, plugs>>
-----------------------------------------------------------------------------
(* Sleep and power-off.                                                    *)

(* ulp_wdt_start(), then deep sleep *)
Sleeps ==
  /\ cpu' = "asleep"
  /\ lpRuns' = TRUE /\ pinOwner' = "LP"
  /\ poll = "none"
  /\ UNCHANGED <<cause, away, due, chargerVars, input, attached, cacheVars, poll,
                 faults, plugs>>

(* prepare_for_sleep() and enter_sleep(): the last pulse of the CPU *)
EnterSleep == cpu = "run" /\ Sleeps /\ fed' = 0 /\ halt' = FALSE

(* The end of run_fast_path(), which relies on the pulse of power(). *)
FastPathSleeps == cpu = "polled" /\ Sleeps /\ UNCHANGED <<fed, halt>>

(* PowerService::shutdown(): ship mode, or deep sleep if it does not take, *)
(* with the buttons as the only wake-up and without the LP core.           *)
SwitchOff ==
  /\ cpu = "run" /\ poll = "none"
  /\ \E ok \in BOOLEAN :
       Transfers(ok) /\ cpu' = (IF ok THEN "off" ELSE "halted") /\ halt' = ~ok
  /\ UNCHANGED <<cause, away, due, fed, pinOwner, lpRuns, chargerVars, input,
                 attached, cacheVars,
                 poll, plugs>>

(* The wake-ups of deep sleep: the timer, if set, and the power button. *)
Wake ==
  /\ \/ cpu = "asleep" /\ Boots("Timer")
     \/ cpu \in {"asleep", "halted"} /\ Boots("Button")
  /\ UNCHANGED <<fed, halt, pinOwner, chargerVars, faults>>

(* Out of ship mode, by the button or a cable: all supplies come back. *)
LeaveShipMode ==
  /\ cpu = "off"
  /\ Boots("PowerOn")
  /\ fed' = 0 /\ halt' = FALSE /\ pinOwner' = "CPU"
  /\ otg' = FALSE /\ guarded' = TRUE
  /\ UNCHANGED faults
-----------------------------------------------------------------------------
(* The hardware.                                                           *)

(* A reset of the CPU alone: a panic or a brownout *)
Reset ==
  /\ cpu \in On
  /\ faults < MaxFaults /\ faults' = faults + 1
  /\ Boots("PowerOn")
  /\ UNCHANGED <<fed, halt, pinOwner, chargerVars>>

(* A minute passes.  The CPU may have no time for its timers that long. *)
Minute ==
  /\ cpu # "off" /\ fed < Timeout
  /\ cpu \in On => away < MaxAway
  /\ away' = IF cpu \in On THEN away + 1 ELSE away
  /\ due' = IF cpu = "run" THEN {"poll", "feed"} ELSE due
  /\ fed' = IF lpRuns /\ pinOwner = "LP" THEN 0 ELSE fed + 1
  /\ UNCHANGED <<cpu, cause, halt, pinOwner, lpRuns, chargerVars, input, attached,
                 cacheVars, poll, faults, plugs>>

(* The external watchdog resets the CPU. *)
WatchdogBites ==
  /\ fed = Timeout /\ cpu # "off"
  /\ Boots("PowerOn")
  /\ fed' = 0 /\ halt' = FALSE /\ pinOwner' = "CPU"
  /\ UNCHANGED <<chargerVars, faults>>

(* The charger's watchdog clears EN_OTG. *)
ChargerResets ==
  /\ guarded /\ otg /\ cpu # "off"
  /\ otg' = FALSE
  /\ UNCHANGED <<cpuVars, watchdogVars, guarded, input, attached, cacheVars, poll,
                 faults, plugs>>

Plug ==
  /\ plugs < MaxPlugs /\ plugs' = plugs + 1
  /\ input' = ~input
  /\ UNCHANGED <<cpuVars, watchdogVars, chargerVars, attached, cacheVars, poll, faults>>
-----------------------------------------------------------------------------
BootSteps == InitBms \/ PowerUp \/ Promote
Polling == PollAtBoot \/ PollBms \/ PollStatus \/ FinishPoll
Power == EnterSleep \/ FastPathSleeps \/ SwitchOff \/ Wake \/ LeaveShipMode
Hardware == Reset \/ Minute \/ WatchdogBites \/ ChargerResets \/ Plug
PowerNext == BootSteps \/ Polling \/ FeedWatchdog \/ Power \/ Hardware

(* The main task polls on its timers. *)
PowerSpec == PowerInit /\ [][PowerNext]_powerVars /\ WF_powerVars(Polling)
-----------------------------------------------------------------------------
PowerTypeOK ==
  /\ cpu \in On \cup {"asleep", "halted", "off"}
  /\ cause \in {"PowerOn", "Timer", "Button"}
  /\ away \in 0 .. MaxAway /\ due \subseteq {"poll", "feed"} /\ fed \in 0 .. Timeout
  /\ pinOwner \in {"CPU", "LP"}
  /\ {halt, lpRuns, otg, guarded, input, attached} \subseteq BOOLEAN
  /\ {driverMode, serviceMode} \subseteq Modes /\ poll \in Sources \cup {"none"}
  /\ faults \in 0 .. MaxFaults /\ plugs \in 0 .. MaxPlugs

(* The external watchdog never resets a device that works or sleeps, for   *)
(* however long: somebody drives its pin in every phase (power(),          *)
(* check_timers(), prepare_for_sleep(), ulp_wdt_start()).                  *)
FedUnlessHalted == fed = Timeout => halt

RailWrong == cpu = "run" /\ attached /\ otg = input

(* The rail follows a cable that is plugged or unplugged, although a poll  *)
(* may fail to read the source or to set the mode, and the source may      *)
(* change in between, if the charger's watchdog was switched off           *)
(* (on_bms_status_timer, on_bms_timer, sync_pmid_mode).                    *)
RailFollowsUnguarded == (RailWrong /\ ~guarded) ~> ~(RailWrong /\ ~guarded)

(* What power_management.md says of the rail, without that condition. *)
RailFollows == RailWrong ~> ~RailWrong
=============================================================================
