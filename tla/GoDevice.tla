------------------------------ MODULE GoDevice ------------------------------
(***************************************************************************)
(* products/go/main: the life of the device, composed with its route       *)
(* files.  GoApp boots along one of three paths, the Orchestrator runs the *)
(* handlers on the main task, one at a time, and PowerService puts the     *)
(* processor to sleep, to ship mode, or loses it to a reset.               *)
(*                                                                         *)
(* The three copies of the application state are explicit: the settings in *)
(* NVS, the RtcAppState in RTC memory, and the Orchestrator's fields.      *)
(* Measuring, displaying and the timers are left to other modules, so any  *)
(* handler may run whenever the device is on.                              *)
(***************************************************************************)
EXTENDS RouteStorage

CONSTANTS
  Fault    \* what may go wrong in a run: a subset of FaultKinds

FaultKinds == {"ship mode",      \* enter_ship_mode() returns
               "save",           \* a ConfigStore write or commit fails
               "bonds",          \* delete_all_bonds() fails
               "ble",            \* BleService::init() fails
               "out of range"}   \* a client writes a value save refuses

ASSUME FaultAssumption == Fault \subseteq FaultKinds
ASSUME PointAssumption == Point \subseteq Nat

VARIABLES
  power,      \* what the processor does
  nvs,        \* the settings in flash
  rtc,        \* s_rtc_state; its default while s_rtc_state_valid is false
  app,        \* the Orchestrator's fields, while the device is on
  gpsTask,    \* the GPS task runs, between start() and stop()
  ble,        \* BleService::is_initialized()
  recording,  \* ghost: how many recordings were started
  wanted      \* ghost: the session the user has started and not stopped

deviceVars == <<power, nvs, rtc, app, gpsTask, ble, recording, wanted>>
vars == <<storageVars, deviceVars>>

OperatingMode == {"Portable", "Stationary", "Offline"}
GpsMode == {"AlwaysOff", "OnWhenTracking", "AlwaysOn"}

(* GoSettings; inRange is what the checks of save_go_settings() say of the *)
(* fields the model leaves out.                                            *)
Settings == [mode : OperatingMode, gps : GpsMode, inRange : BOOLEAN]
Defaults == [mode |-> "Portable", gps |-> "OnWhenTracking", inRange |-> TRUE]

RtcState == [mode : OperatingMode, locked : BOOLEAN, tracking : BOOLEAN,
             session : Session \cup {NoSession}]
RtcDefault == [mode |-> "Portable", locked |-> TRUE, tracking |-> FALSE,
               session |-> NoSession]

App == [mode : OperatingMode, settings : Settings, locked : BOOLEAN,
        tracking : BOOLEAN, session : Session \cup {NoSession},
        measured : BOOLEAN]
NoApp == [mode |-> "Portable", settings |-> Defaults, locked |-> TRUE,
          tracking |-> FALSE, session |-> NoSession, measured |-> FALSE]

On == power = "on"
Fails(f) == IF f \in Fault THEN {TRUE, FALSE} ELSE {FALSE}

(* is_gps_active() *)
IsGpsActive(mode, tracking) ==
  \/ mode = "AlwaysOn"
  \/ mode = "OnWhenTracking" /\ tracking

NotSaved(old, s) == {old}                   \* faulty variant of Saved
(* What NVS can hold after save_go_settings(s): nothing new when a field   *)
(* is out of range; the keys are set in order, so a failure may leave the  *)
(* first of them written.                                                  *)
Saved(old, s) ==
  IF ~s.inRange THEN {old}
  ELSE {s} \cup IF "save" \in Fault
                  THEN {old, [old EXCEPT !.gps = s.gps]}
                  ELSE {}

Init == /\ StorageInit
        /\ power = "off"
        /\ nvs = Defaults
        /\ rtc = RtcDefault
        /\ app = NoApp
        /\ gpsTask = FALSE
        /\ ble = FALSE
        /\ recording = 0
        /\ wanted = NoSession
-----------------------------------------------------------------------------
(* Boot.                                                                   *)

BleUp(mode) == {mode = "Portable" /\ ~fails : fails \in Fails("ble")}

ForgetsTracking(state, woke) == RtcDefault  \* faulty variant of Restored
(* load_state(), unless the boot is a power-on *)
Restored(state, woke) == IF woke THEN state ELSE RtcDefault

(* run_interactive() or run_button_wake_path(), then Orchestrator::init(): *)
(* woke tells a wake from a power-on, locked and measured are the handoff, *)
(* and m tells whether the volume is mounted.                              *)
Interactive(woke, locked, measured, m) ==
  LET state == Restored(rtc, woke) IN
  /\ power' = "on"
  /\ app' = [mode |-> nvs.mode, settings |-> nvs, locked |-> locked,
             tracking |-> state.tracking, session |-> state.session,
             measured |-> measured]
  /\ gpsTask' = IsGpsActive(nvs.gps, state.tracking)
  /\ ble' \in BleUp(nvs.mode)
  /\ IF state.tracking
       THEN StartRouteWhen(m, state.session)
       ELSE mounted' = m /\ UNCHANGED routeVars
  /\ UNCHANGED <<nvs, rtc, recording, wanted>>

PowerOn == /\ power = "off"
           /\ \E m \in MountOutcomes : Interactive(FALSE, TRUE, FALSE, m)

(* The wake press unlocks only along the button-wake path; a halted device *)
(* has no other way to wake.                                               *)
WakeByButton ==
  /\ power \in {"asleep", "halted"}
  /\ \E m \in MountOutcomes :
       Interactive(TRUE, rtc.mode # "Offline", FALSE, m)

(* A timer wake takes the fast path: the device always sleeps locked. *)
FastPath == power = "asleep" /\ rtc.locked

(* execute_fast_path() leaves for the interactive boot as soon as it sees  *)
(* the button: in the warmup, or once the measurement is taken.            *)
FastPathInterrupted ==
  /\ FastPath
  /\ \E m \in MountOutcomes, measured \in BOOLEAN :
       Interactive(TRUE, FALSE, measured, m)

(* What append_route_point() and end_route() leave of a file just opened:  *)
(* one point, in the file or lost.                                         *)
PointLogged(o, s) ==
  {IF Len(o.files[s]) < MaxPoints
     THEN Left(With(o.files, s, Append(o.files[s], recording)), o.failed)
     ELSE o}
    \cup (IF MayFail({"write"}) THEN {Left(o.files, o.failed \cup {"write"})} ELSE {})

(* The files after start_route(), append_route_point() and end_route().    *)
FastPathFiles(m) ==
  IF ~(rtc.tracking /\ m) THEN {Left(disk, failed)}
  ELSE (UNION {PointLogged(o, rtc.session) : o \in Openings(rtc.session)})
         \cup (IF MayFail({"stat", "open"}) THEN {Left(disk, failed)} ELSE {})

(* The measurement is taken, stored, and the route closed again. *)
FastPathMeasure ==
  /\ FastPath
  /\ power' = "measured"
  /\ mounted' \in MountOutcomes
  /\ \E f \in FastPathFiles(mounted') : disk' = f.files /\ failed' = f.failed
  /\ UNCHANGED <<current, buffer, pointCount, nvs, rtc, app, gpsTask, ble,
                 recording, wanted>>

FastPathSleep ==
  /\ power = "measured"
  /\ power' = "asleep"
  /\ mounted' = FALSE
  /\ UNCHANGED <<routeVars, nvs, rtc, app, gpsTask, ble, recording, wanted>>

(* Too short a sleep, or a button seen after storing: promote. *)
FastPathPromote ==
  /\ power = "measured"
  /\ \E locked \in BOOLEAN : Interactive(TRUE, locked, TRUE, mounted)
-----------------------------------------------------------------------------
(* Handlers of the Orchestrator.                                           *)

UiActive == On /\ ~app.locked     \* menu actions need an unlocked device
BleActive == On /\ ble            \* commands of a BLE client

GpsComparesLate(new) == gpsTask' = gpsTask  \* faulty variant of GpsFollows
(* gps_service.start() and deactivate_gps(), called by the handlers that   *)
(* compare is_gps_active() before and after.                               *)
GpsFollows(new) ==
  LET was == IsGpsActive(app.settings.gps, app.tracking)
      now == IsGpsActive(new.settings.gps, new.tracking)
  IN  gpsTask' = IF was = now THEN gpsTask ELSE now

NotTracking(a) == [a EXCEPT !.tracking = FALSE, !.session = NoSession]

(* lock() and unlock(): the power button, or the inactivity timeout *)
LockOrUnlock ==
  /\ On
  /\ app' = [app EXCEPT !.locked = ~@]
  /\ UNCHANGED <<storageVars, power, nvs, rtc, gpsTask, ble, recording, wanted>>

(* on_sensor_data() *)
SensorData ==
  /\ On
  /\ app' = [app EXCEPT !.measured = TRUE]
  /\ IF app.tracking THEN AppendRoutePoint(recording) ELSE UNCHANGED storageVars
  /\ UNCHANGED <<power, nvs, rtc, gpsTask, ble, recording, wanted>>

AlwaysStarts == TRUE                        \* faulty variant of Idle
Idle == ~app.tracking

(* start_tracking(); any id may be drawn, also one that has a file *)
StartTracking(id) ==
  /\ UiActive \/ BleActive
  /\ Idle
  /\ recording + 1 \in Point
  /\ app' = [app EXCEPT !.tracking = TRUE, !.session = id]
  /\ GpsFollows(app')
  /\ StartRoute(id)
  /\ recording' = recording + 1
  /\ wanted' = id
  /\ UNCHANGED <<power, nvs, rtc, ble>>

(* stop_tracking() *)
StopTracking ==
  /\ UiActive \/ BleActive
  /\ app.tracking
  /\ app' = NotTracking(app)
  /\ GpsFollows(app')
  /\ EndRoute
  /\ wanted' = NoSession
  /\ UNCHANGED <<mounted, power, nvs, rtc, ble, recording>>

BleKept(old, new) == IF new = "Portable" THEN BleUp(new) ELSE {ble}   \* faulty variant of BleAfter
(* What becomes of BLE when change_mode() leaves old for new. *)
BleAfter(old, new) ==
  IF old # "Portable" /\ new = "Portable" THEN BleUp(new)
  ELSE {ble /\ new = "Portable"}

InMode(a, new) == [a EXCEPT !.mode = new, !.settings.mode = new]

(* change_mode(), from the menu *)
ChangeMode(new) ==
  /\ UiActive
  /\ app' = InMode(app, new)
  /\ nvs' \in Saved(nvs, app'.settings)
  /\ ble' \in BleAfter(app.mode, new)
  /\ UNCHANGED <<storageVars, power, rtc, gpsTask, recording, wanted>>

(* apply_settings_change(): the menu writes back its own options, which    *)
(* are all in range; the fields it does not show keep their value.         *)
ApplySettingsChange(gps) ==
  /\ UiActive
  /\ \E inRange \in {TRUE, app.settings.inRange} :
       app' = [app EXCEPT !.settings.gps = gps, !.settings.inRange = inRange]
  /\ nvs' \in Saved(nvs, app'.settings)
  /\ GpsFollows(app')
  /\ UNCHANGED <<storageVars, power, rtc, ble, recording, wanted>>

(* on_ble_config_write(), a set: the fields are merged and saved, and a    *)
(* new mode goes through change_mode(), which saves again.                 *)
BleConfigSet(mode, gps) ==
  /\ BleActive
  /\ \E inRange \in {TRUE} \cup {~f : f \in Fails("out of range")} :
       LET set == [mode |-> mode, gps |-> gps, inRange |-> inRange]
       IN  /\ app' = [InMode(app, mode) EXCEPT !.settings = set]
           /\ \E first \in Saved(nvs, set) :
                nvs' \in IF mode = app.mode THEN {first} ELSE Saved(first, set)
  /\ GpsFollows(app')
  /\ ble' \in BleAfter(app.mode, mode)
  /\ UNCHANGED <<storageVars, power, rtc, recording, wanted>>

(* clear_data() *)
ClearData ==
  /\ UiActive \/ BleActive
  /\ app' = NotTracking(app)
  /\ GpsFollows(app')
  /\ ClearRoutes
  /\ wanted' = NoSession
  /\ UNCHANGED <<power, nvs, rtc, ble, recording>>

(* on_ble_history_write(), a delete; refused for the session being tracked *)
HistoryDelete(s) ==
  /\ BleActive
  /\ ~(app.tracking /\ app.session = s)
  /\ DeleteRoute(s)
  /\ UNCHANGED deviceVars

(* RAM is lost, and the services are gone. *)
PowerDown == /\ app' = NoApp
             /\ gpsTask' = FALSE
             /\ ble' = FALSE

(* factory_reset(), from the boot button or a client: on success the       *)
(* device reboots, and a reboot loses RTC memory; otherwise it goes on.    *)
FactoryReset ==
  /\ On
  /\ wanted' = NoSession
  /\ \E saveFails \in Fails("save"), bondsFail \in Fails("bonds") :
       /\ ClearFiles
       /\ nvs' \in IF saveFails THEN Saved(nvs, Defaults) ELSE {Defaults}
       /\ IF AllCleared /\ ~saveFails /\ ~bondsFail
            THEN /\ power' = "off"
                 /\ rtc' = RtcDefault
                 /\ mounted' = FALSE
                 /\ PowerDown
            ELSE /\ app' = NotTracking(app)
                 /\ GpsFollows(app')
                 /\ UNCHANGED <<power, rtc, mounted, ble>>
  /\ UNCHANGED recording

(* shutdown(): when ship mode fails, deep sleep until the button; RTC      *)
(* memory keeps what it had.                                               *)
Shutdown ==
  /\ On
  /\ EndRoute
  /\ mounted' = FALSE
  /\ wanted' = NoSession
  /\ PowerDown
  /\ \E shipModeFails \in Fails("ship mode") :
       IF shipModeFails THEN power' = "halted" /\ UNCHANGED rtc
                        ELSE power' = "off" /\ rtc' = RtcDefault
  /\ UNCHANGED <<nvs, recording>>

(* decide_sleep(), for an interval long enough to sleep *)
MaySleep == app.mode = "Offline" /\ app.locked

(* try_enter_sleep() and prepare_for_sleep() *)
Sleep ==
  /\ On
  /\ app.measured
  /\ MaySleep
  /\ EndRoute
  /\ rtc' = [mode |-> app.mode, locked |-> app.locked,
             tracking |-> app.tracking, session |-> app.session]
  /\ power' = "asleep"
  /\ mounted' = FALSE
  /\ PowerDown
  /\ UNCHANGED <<nvs, recording, wanted>>

(* A watchdog, a crash or an empty battery, at any time. *)
Reset ==
  /\ power # "off"
  /\ LoseBuffer
  /\ power' = "off"
  /\ rtc' = RtcDefault
  /\ PowerDown
  /\ wanted' = NoSession
  /\ UNCHANGED <<nvs, recording>>

Next ==
  \/ PowerOn \/ WakeByButton
  \/ FastPathInterrupted \/ FastPathMeasure \/ FastPathSleep \/ FastPathPromote
  \/ LockOrUnlock \/ SensorData \/ StopTracking \/ ClearData \/ FactoryReset
  \/ Shutdown \/ Sleep \/ Reset
  \/ \E id \in Session : StartTracking(id) \/ HistoryDelete(id)
  \/ \E mode \in OperatingMode : ChangeMode(mode)
  \/ \E gps \in GpsMode : ApplySettingsChange(gps)
  \/ \E mode \in OperatingMode, gps \in GpsMode : BleConfigSet(mode, gps)

Spec == Init /\ [][Next]_vars
-----------------------------------------------------------------------------
(* TYPE INVARIANT. *)
TypeOK == /\ StorageTypeOK
          /\ power \in {"off", "on", "asleep", "halted", "measured"}
          /\ nvs \in Settings
          /\ rtc \in RtcState
          /\ app \in App
          /\ gpsTask \in BOOLEAN
          /\ ble \in BOOLEAN
          /\ recording \in Nat
          /\ wanted \in Session \cup {NoSession}

(* The GPS task runs exactly when is_gps_active() says so, whichever of    *)
(* the boot paths or handlers changed the settings or the tracking state.  *)
GpsFollowsActive ==
  On => gpsTask = IsGpsActive(app.settings.gps, app.tracking)

(* BLE is up only in Portable mode, and always there unless init() failed. *)
BleFollowsMode ==
  On => /\ ble => app.mode = "Portable"
        /\ app.mode = "Portable" => ble \/ "ble" \in Fault

(* An open route file belongs to the session being tracked, and while      *)
(* tracking it is open unless the volume failed.                           *)
RouteFollowsTracking ==
  /\ current # NoSession => On /\ app.tracking /\ current = app.session
  /\ On /\ app.tracking => current = app.session \/ MayFail({"mount", "stat", "open"})

(* Whichever boot path or handler changed the settings or the tracking     *)
(* state, GPS, BLE and the route file have followed.                       *)
ServicesFollow == GpsFollowsActive /\ BleFollowsMode /\ RouteFollowsTracking

(* What the code says where it restores the mode: NVS is the single source *)
(* of truth, so the mode the device works in is the one saved there.       *)
NvsIsTheSource == On => nvs.mode = app.mode

(* The device records exactly the session that the user started and did    *)
(* not stop: no sleep, wake, clearing or shutdown loses or revives one.    *)
RecordsWhatIsWanted ==
  /\ On => /\ app.tracking <=> wanted # NoSession
           /\ app.session = wanted
  /\ power \in {"asleep", "measured"} => rtc.session = wanted

(* The points of one recording are all in one file, whatever sleeps and    *)
(* wakes came between them.                                                *)
RecordingsNotSplit ==
  \A s, t \in DOMAIN Recorded :
    s # t => Range(Recorded[s]) \cap Range(Recorded[t]) = {}

(* Of the open file, a reset or a write that failed takes points that were *)
(* added since it was opened.  An opening that could not tell whether the  *)
(* file exists empties it.                                                 *)
MayShorten(s) == s = current /\ (Reset \/ "write" \in failed')
MayEmpty(s) == /\ current = NoSession /\ s \in {current', rtc.session}
               /\ "stat" \in failed'

(* No other step takes a point from a file that stays, whether or not it   *)
(* was flushed: not sleeping, waking, shutting down, clearing other routes *)
(* or starting to track.                                                   *)
Grows(old, new) == Len(old) <= Len(new) /\ old = SubSeq(new, 1, Len(old))
OnlyFailuresLosePoints ==
  [][\A s \in DOMAIN Recorded \cap DOMAIN Recorded' :
       \/ Grows(Recorded[s], Recorded'[s])
       \/ MayShorten(s) /\ Grows(Stored(s), Recorded'[s])
       \/ MayEmpty(s)]_vars

(* A device that wakes, by timer or button, is in the mode it slept in.    *)
WakesInItsMode ==
  [][(power \in {"asleep", "measured"} /\ On') => app'.mode = rtc.mode]_vars
=============================================================================
