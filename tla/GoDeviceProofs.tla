--------------------------- MODULE GoDeviceProofs ---------------------------
(***************************************************************************)
(* Proofs about GoDevice, for any sets of sessions and points and any set  *)
(* of faults: what the services, the route files and the tracking state    *)
(* have to do with each other, across every boot, handler and sleep.       *)
(***************************************************************************)
EXTENDS GoDevice, RouteStorageProofs

(* A session is tracked exactly when there is one, in RAM and in RTC.      *)
TrackingHasSession ==
  /\ On => (app.tracking <=> app.session # NoSession)
  /\ rtc.tracking <=> rtc.session # NoSession

(* The volume of a running device is mounted, unless flash may fail.       *)
MountedWhileUp == power \in {"on", "measured"} => mounted \in MountOutcomes

(* The number stored with the points is that of a recording.               *)
Numbered == /\ recording # 0 => recording \in Point
            /\ rtc.tracking => recording # 0
            /\ On /\ app.tracking => recording # 0

(* With a ship mode that works, no RTC state outlives its session.         *)
Intended == "ship mode" \notin Fault =>
              /\ RecordsWhatIsWanted
              /\ power # "halted"
              /\ power = "off" => wanted = NoSession

DeviceInv == /\ TypeOK
             /\ StorageInv
             /\ GpsFollowsActive
             /\ BleFollowsMode
             /\ RouteFollowsTracking
             /\ TrackingHasSession
             /\ MountedWhileUp
             /\ Numbered
             /\ Intended

LEMMA OutcomesType == MountOutcomes \subseteq BOOLEAN
BY DEF MountOutcomes

LEMMA SavedType ==
  ASSUME NEW old \in Settings, NEW s \in Settings
  PROVE  Saved(old, s) \subseteq Settings
<1>1. s.gps \in GpsMode
  BY DEF Settings
<1>2. [old EXCEPT !.gps = s.gps] \in Settings
  BY <1>1 DEF Settings
<1>3. QED
  BY <1>2 DEF Saved

LEMMA BleUpType ==
  ASSUME NEW mode, NEW b \in BleUp(mode)
  PROVE  /\ b \in BOOLEAN
         /\ b => mode = "Portable"
         /\ mode = "Portable" => b \/ "ble" \in Fault
BY DEF BleUp, Fails

LEMMA BleAfterType ==
  ASSUME NEW old, NEW new, ble \in BOOLEAN,
         old = "Portable" => ble \/ "ble" \in Fault, NEW b \in BleAfter(old, new)
  PROVE  /\ b \in BOOLEAN
         /\ b => new = "Portable"
         /\ new = "Portable" => b \/ "ble" \in Fault
BY BleUpType DEF BleAfter

LEMMA ActiveType ==
  ASSUME NEW mode, NEW tracking
  PROVE  IsGpsActive(mode, tracking) \in BOOLEAN
BY DEF IsGpsActive

(* Powering down closes every obligation but those of the RTC state.       *)
LEMMA DownInv ==
  ASSUME DeviceInv, StorageInv', PowerDown,
         power' \in {"off", "asleep", "halted"},
         current' = NoSession,
         nvs' \in Settings, rtc' \in RtcState, UNCHANGED recording,
         wanted' \in Session \cup {NoSession},
         rtc'.tracking <=> rtc'.session # NoSession,
         rtc'.tracking => recording # 0,
         Intended'
  PROVE  DeviceInv'
<1>1. ~On'
  BY DEF On
<1>2. NoApp \in App
  BY DEF NoApp, App, OperatingMode, Settings, Defaults, GpsMode
<1>3. TypeOK'
  BY <1>2 DEF DeviceInv, TypeOK, PowerDown, StorageInv
<1>4. /\ GpsFollowsActive' /\ BleFollowsMode' /\ RouteFollowsTracking'
      /\ TrackingHasSession' /\ MountedWhileUp'
  BY <1>1 DEF GpsFollowsActive, BleFollowsMode, RouteFollowsTracking,
              TrackingHasSession, MountedWhileUp
<1>5. Numbered'
  BY <1>1 DEF Numbered, DeviceInv
<1>6. QED
  BY <1>3, <1>4, <1>5 DEF DeviceInv
-----------------------------------------------------------------------------
(* Boot.                                                                   *)

(* Every boot path ends in Orchestrator::init(): the services follow the   *)
(* restored state, whatever it was.                                        *)
LEMMA InteractiveInv ==
  ASSUME DeviceInv, NEW woke \in BOOLEAN, NEW locked \in BOOLEAN,
         NEW measured \in BOOLEAN, NEW m \in MountOutcomes,
         Interactive(woke, locked, measured, m),
         "ship mode" \notin Fault => Restored(rtc, woke).session = wanted,
         current = NoSession
  PROVE  DeviceInv'
<1> DEFINE state == Restored(rtc, woke)
<1>1. /\ state.tracking \in BOOLEAN /\ state.session \in Session \cup {NoSession}
      /\ state.tracking <=> state.session # NoSession
      /\ state.tracking => recording # 0
  BY DEF Restored, RtcDefault, DeviceInv, TypeOK, RtcState, TrackingHasSession,
         Numbered
<1>2. /\ power' = "on"
      /\ app' = [mode |-> nvs.mode, settings |-> nvs, locked |-> locked,
                 tracking |-> state.tracking, session |-> state.session,
                 measured |-> measured]
      /\ gpsTask' = IsGpsActive(nvs.gps, state.tracking)
      /\ ble' \in BleUp(nvs.mode)
      /\ UNCHANGED <<nvs, rtc, recording, wanted>>
  BY DEF Interactive
<1>3. IF state.tracking
        THEN StartRouteWhen(m, state.session)
        ELSE mounted' = m /\ UNCHANGED routeVars
  BY DEF Interactive
<1> HIDE DEF state
<1>4. m \in BOOLEAN /\ mounted' = m
  BY <1>3, OutcomesType DEF StartRouteWhen
<1>5. On'
  BY <1>2 DEF On
<1>6. StorageInv'
  <2>1. CASE state.tracking
    <3>1. state.session \in Session /\ StartRouteWhen(m, state.session)
      BY <1>1, <1>3, <2>1
    <3>2. QED
      BY <3>1, <1>4, StartRouteInv DEF DeviceInv
  <2>2. CASE ~state.tracking
    <3>1. UNCHANGED <<disk, current, buffer, pointCount, failed>>
      BY <1>3, <2>2 DEF routeVars
    <3>2. QED
      BY <3>1, <1>4 DEF DeviceInv, StorageInv, StorageTypeOK, OpenFileExists,
                        CountIsWholeSession, Stored
  <2>3. QED
    BY <2>1, <2>2
<1>7. app' \in App /\ gpsTask' \in BOOLEAN /\ ble' \in BOOLEAN
  BY <1>1, <1>2, ActiveType, BleUpType DEF App, Settings, DeviceInv, TypeOK
<1>8. TypeOK'
  BY <1>2, <1>6, <1>7 DEF TypeOK, DeviceInv, StorageInv
<1>9. GpsFollowsActive'
  BY <1>2 DEF GpsFollowsActive
<1>10. BleFollowsMode'
  BY <1>2, BleUpType DEF BleFollowsMode
<1>11. RouteFollowsTracking'
  <2>1. app'.tracking = state.tracking /\ app'.session = state.session
    BY <1>2
  <2>2. CASE state.tracking
    <3>1. StartRouteWhen(m, state.session)
      BY <1>3, <2>2
    <3>2. \/ current' = state.session
          \/ current' = NoSession /\ MayFail({"mount", "stat", "open"})
      BY <3>1 DEF StartRouteWhen, routeVars, CanStart, MountOutcomes, MayFail
    <3>3. QED
      BY <1>5, <2>1, <2>2, <3>2 DEF RouteFollowsTracking
  <2>3. CASE ~state.tracking
    BY <1>3, <2>1, <2>3 DEF RouteFollowsTracking, routeVars
  <2>4. QED
    BY <2>2, <2>3
<1>12. TrackingHasSession' /\ Numbered'
  BY <1>1, <1>2 DEF TrackingHasSession, Numbered, DeviceInv
<1>13. MountedWhileUp'
  BY <1>4 DEF MountedWhileUp, MountOutcomes
<1>14. Intended'
  BY <1>1, <1>2 DEF state, Intended, RecordsWhatIsWanted
<1>15. QED
  BY <1>6, <1>8, <1>9, <1>10, <1>11, <1>12, <1>13, <1>14 DEF DeviceInv
(* While the device is not on, no route is open. *)
LEMMA NoneOpen ==
  ASSUME DeviceInv, power # "on"
  PROVE  current = NoSession
BY DEF DeviceInv, RouteFollowsTracking, On

LEMMA PowerOnInv ==
  ASSUME DeviceInv, PowerOn
  PROVE  DeviceInv'
<1>1. power = "off" /\ current = NoSession
  BY NoneOpen DEF PowerOn
<1>2. PICK m \in MountOutcomes : Interactive(FALSE, TRUE, FALSE, m)
  BY DEF PowerOn
<1>3. "ship mode" \notin Fault => Restored(rtc, FALSE).session = wanted
  BY <1>1 DEF DeviceInv, Intended, Restored, RtcDefault
<1>4. QED
  BY <1>1, <1>2, <1>3, InteractiveInv

(* A wake restores the session of the RTC state. *)
LEMMA WakeInv ==
  ASSUME DeviceInv, power \in {"asleep", "measured", "halted"},
         NEW locked \in BOOLEAN, NEW measured \in BOOLEAN, NEW m \in MountOutcomes,
         Interactive(TRUE, locked, measured, m)
  PROVE  DeviceInv'
<1>1. current = NoSession
  BY NoneOpen
<1>2. "ship mode" \notin Fault => Restored(rtc, TRUE).session = wanted
  BY DEF DeviceInv, Intended, RecordsWhatIsWanted, Restored
<1>3. QED
  BY <1>1, <1>2, InteractiveInv

LEMMA WakeByButtonInv ==
  ASSUME DeviceInv, WakeByButton
  PROVE  DeviceInv'
<1>1. (rtc.mode # "Offline") \in BOOLEAN
  OBVIOUS
<1>2. QED
  BY <1>1, WakeInv DEF WakeByButton

LEMMA FastPathInterruptedInv ==
  ASSUME DeviceInv, FastPathInterrupted
  PROVE  DeviceInv'
BY WakeInv DEF FastPathInterrupted, FastPath

LEMMA FastPathPromoteInv ==
  ASSUME DeviceInv, FastPathPromote
  PROVE  DeviceInv'
<1>1. power = "measured" /\ mounted \in MountOutcomes
  BY DEF FastPathPromote, DeviceInv, MountedWhileUp
<1>2. QED
  BY <1>1, WakeInv DEF FastPathPromote

(* Of the tracked session, the fast path leaves what an opening leaves, or *)
(* that with the point at its end; of the others, what there was.          *)
LEMMA FastPathLeaves ==
  ASSUME DeviceInv, NEW m, NEW f \in FastPathFiles(m)
  PROVE  \/ f = Left(disk, failed)
         \/ /\ rtc.tracking /\ rtc.session \in Session /\ recording \in Point
            /\ \E old \in Seq(Point), faults \in SUBSET {"stat", "write"} :
                 /\ \/ old = Stored(rtc.session) /\ "stat" \notin faults
                    \/ old = << >> /\ "stat" \in faults
                 /\ faults \subseteq NandFaults
                 /\ \/ f = Left(With(disk, rtc.session, old), faults)
                    \/ f = Left(With(disk, rtc.session, Append(old, recording)), faults)
<1> SUFFICES ASSUME f # Left(disk, failed)
             PROVE  /\ rtc.tracking /\ rtc.session \in Session /\ recording \in Point
                    /\ \E old \in Seq(Point), faults \in SUBSET {"stat", "write"} :
                         /\ \/ old = Stored(rtc.session) /\ "stat" \notin faults
                            \/ old = << >> /\ "stat" \in faults
                         /\ faults \subseteq NandFaults
                         /\ \/ f = Left(With(disk, rtc.session, old), faults)
                            \/ f = Left(With(disk, rtc.session, Append(old, recording)), faults)
  OBVIOUS
<1>1. rtc.tracking /\ \E o \in Openings(rtc.session) : f \in PointLogged(o, rtc.session)
  <2> DEFINE logged == UNION {PointLogged(o, rtc.session) : o \in Openings(rtc.session)}
             given == IF MayFail({"stat", "open"}) THEN {Left(disk, failed)} ELSE {}
  <2>1. f \in IF ~(rtc.tracking /\ m) THEN {Left(disk, failed)} ELSE logged \cup given
    BY DEF FastPathFiles
  <2>2. f \in logged => \E o \in Openings(rtc.session) : f \in PointLogged(o, rtc.session)
    OBVIOUS
  <2>3. f \notin given
    OBVIOUS
  <2> HIDE DEF logged, given
  <2>4. QED
    BY <2>1, <2>2, <2>3
<1>2. rtc.session \in Session /\ recording \in Point
  BY <1>1 DEF DeviceInv, TypeOK, RtcState, TrackingHasSession, Numbered
<1> DEFINE s == rtc.session
<1>3. PICK o \in Openings(s) : f \in PointLogged(o, s)
  BY <1>1
<1>4. PICK old \in Seq(Point), faults \in SUBSET {"stat"} :
        /\ o = Left(With(disk, s, old), faults)
        /\ faults \subseteq NandFaults
        /\ \/ old = Stored(s) /\ "stat" \notin faults
           \/ old = << >> /\ "stat" \in faults
  <2>1. CASE o = Left(With(disk, s, Stored(s)), {})
    <3>1. Stored(s) \in Seq(Point)
      BY StoredType DEF DeviceInv, StorageInv
    <3>2. QED
      BY <2>1, <3>1
  <2>2. CASE o = Left(With(disk, s, << >>), {"stat"}) /\ MayFail({"stat"})
    <3>1. << >> \in Seq(Point) /\ "stat" \in NandFaults
      BY <2>2, EmptySeq DEF MayFail
    <3>2. QED
      BY <2>2, <3>1
  <2>3. QED
    BY <1>2, <2>1, <2>2, OpeningsType DEF DeviceInv
<1> HIDE DEF s
<1>5. o.files = With(disk, s, old) /\ o.failed = faults /\ o.files[s] = old
  BY <1>4 DEF Left, With
<1>6. With(o.files, s, Append(o.files[s], recording)) = With(disk, s, Append(old, recording))
  BY <1>5 DEF With
<1>7. CASE f \in {o, Left(With(disk, s, Append(old, recording)), faults)}
  BY <1>1, <1>2, <1>4, <1>7 DEF s
<1>8. CASE MayFail({"write"}) /\ f = Left(With(disk, s, old), faults \cup {"write"})
  <2>1. /\ faults \cup {"write"} \in SUBSET {"stat", "write"}
        /\ faults \cup {"write"} \subseteq NandFaults
        /\ "stat" \in faults \cup {"write"} <=> "stat" \in faults
    BY <1>4, <1>8 DEF MayFail
  <2>2. QED
    BY <1>1, <1>2, <1>4, <1>8, <2>1 DEF s
<1>9. QED
  BY <1>3, <1>5, <1>6, <1>7, <1>8 DEF PointLogged

(* The files a measurement of the fast path leaves are well typed. *)
LEMMA FastPathFilesType ==
  ASSUME DeviceInv, NEW m, NEW f \in FastPathFiles(m)
  PROVE  /\ DOMAIN f.files \subseteq Session /\ f.files \in [DOMAIN f.files -> Seq(Point)]
         /\ f.failed \subseteq NandFaults \cap {"stat", "write"}
<1>1. /\ DOMAIN disk \subseteq Session /\ disk \in [DOMAIN disk -> Seq(Point)]
      /\ failed \subseteq NandFaults \cap {"stat", "write"}
  BY DEF DeviceInv, StorageInv, StorageTypeOK
<1>2. CASE f = Left(disk, failed)
  BY <1>1, <1>2 DEF Left
<1>3. ASSUME rtc.session \in Session, recording \in Point, NEW old \in Seq(Point),
             NEW faults \in SUBSET {"stat", "write"}, faults \subseteq NandFaults,
             \/ f = Left(With(disk, rtc.session, old), faults)
             \/ f = Left(With(disk, rtc.session, Append(old, recording)), faults)
      PROVE  /\ DOMAIN f.files \subseteq Session /\ f.files \in [DOMAIN f.files -> Seq(Point)]
             /\ f.failed \subseteq NandFaults \cap {"stat", "write"}
  <2>1. PICK new \in Seq(Point) : f = Left(With(disk, rtc.session, new), faults)
    <3>1. Append(old, recording) \in Seq(Point)
      BY <1>3, AppendProperties
    <3>2. QED
      BY <1>3, <3>1
  <2>2. f.files = With(disk, rtc.session, new) /\ f.failed = faults
    BY <2>1 DEF Left
  <2>3. /\ DOMAIN With(disk, rtc.session, new) \subseteq Session
        /\ With(disk, rtc.session, new) \in [DOMAIN With(disk, rtc.session, new) -> Seq(Point)]
    <3> DEFINE s == rtc.session
    <3>1. s \in Session
      BY <1>3
    <3> HIDE DEF s
    <3>2. /\ DOMAIN With(disk, s, new) \subseteq Session
          /\ With(disk, s, new) \in [DOMAIN With(disk, s, new) -> Seq(Point)]
      BY <1>1, <3>1, WithType
    <3>3. QED
      BY <3>2 DEF s
  <2>4. QED
    BY <1>3, <2>2, <2>3
<1>4. QED
  BY <1>2, <1>3, FastPathLeaves

LEMMA FastPathMeasureInv ==
  ASSUME DeviceInv, FastPathMeasure
  PROVE  DeviceInv'
<1>1. /\ power = "asleep" /\ power' = "measured" /\ mounted' \in MountOutcomes
      /\ UNCHANGED <<current, buffer, pointCount, nvs, rtc, app, gpsTask, ble,
                     recording, wanted>>
  BY DEF FastPathMeasure, FastPath
<1>2. current = NoSession /\ pointCount = 0 /\ buffer \in Seq(Point)
  BY <1>1, NoneOpen DEF DeviceInv, StorageInv, CountIsWholeSession, StorageTypeOK
<1>3. /\ DOMAIN disk' \subseteq Session /\ disk' \in [DOMAIN disk' -> Seq(Point)]
      /\ failed' \subseteq NandFaults \cap {"stat", "write"}
  BY FastPathFilesType DEF FastPathMeasure
<1>4. StorageInv'
  BY <1>1, <1>2, <1>3, OutcomesType
  DEF StorageInv, StorageTypeOK, OpenFileExists, CountIsWholeSession
<1>5. ~On' /\ ~On
  BY <1>1 DEF On
<1>6. TypeOK'
  BY <1>1, <1>4 DEF DeviceInv, TypeOK, StorageInv
<1>7. GpsFollowsActive' /\ BleFollowsMode' /\ RouteFollowsTracking'
  BY <1>1, <1>2, <1>5 DEF GpsFollowsActive, BleFollowsMode, RouteFollowsTracking
<1>8. TrackingHasSession' /\ Numbered' /\ MountedWhileUp'
  BY <1>1, <1>5 DEF TrackingHasSession, Numbered, MountedWhileUp, MountOutcomes, DeviceInv
<1>9. Intended'
  BY <1>1, <1>5 DEF Intended, RecordsWhatIsWanted, DeviceInv
<1>10. QED
  BY <1>4, <1>6, <1>7, <1>8, <1>9 DEF DeviceInv

LEMMA FastPathSleepInv ==
  ASSUME DeviceInv, FastPathSleep
  PROVE  DeviceInv'
<1>1. /\ power = "measured" /\ power' = "asleep" /\ mounted' = FALSE
      /\ UNCHANGED <<disk, current, buffer, pointCount, failed>>
      /\ UNCHANGED <<nvs, rtc, app, gpsTask, ble, recording, wanted>>
  BY DEF FastPathSleep, routeVars
<1>2. current = NoSession
  BY <1>1, NoneOpen
<1>3. StorageInv'
  BY <1>1 DEF DeviceInv, StorageInv, StorageTypeOK, OpenFileExists,
              CountIsWholeSession, Stored
<1>4. ~On' /\ ~On
  BY <1>1 DEF On
<1>5. TypeOK'
  BY <1>1, <1>3 DEF DeviceInv, TypeOK, StorageInv
<1>6. GpsFollowsActive' /\ BleFollowsMode' /\ RouteFollowsTracking'
  BY <1>1, <1>2, <1>4 DEF GpsFollowsActive, BleFollowsMode, RouteFollowsTracking
<1>7. TrackingHasSession' /\ Numbered' /\ MountedWhileUp'
  BY <1>1, <1>4 DEF TrackingHasSession, Numbered, MountedWhileUp, DeviceInv
<1>8. Intended'
  BY <1>1, <1>4 DEF Intended, RecordsWhatIsWanted, DeviceInv
<1>9. QED
  BY <1>3, <1>5, <1>6, <1>7, <1>8 DEF DeviceInv
-----------------------------------------------------------------------------
(* Handlers.                                                               *)

(* What a handler that leaves the device on has to establish. *)
LEMMA RunningInv ==
  ASSUME DeviceInv, StorageInv', On, UNCHANGED <<power, rtc>>,
         nvs' \in Settings, app' \in App,
         gpsTask' = IsGpsActive(app'.settings.gps, app'.tracking),
         ble' \in BOOLEAN, ble' => app'.mode = "Portable",
         app'.mode = "Portable" => ble' \/ "ble" \in Fault,
         current' # NoSession => app'.tracking /\ current' = app'.session,
         app'.tracking => current' = app'.session \/ MayFail({"mount", "stat", "open"}),
         app'.tracking <=> app'.session # NoSession,
         mounted' \in MountOutcomes,
         recording' \in Nat, recording' # 0 => recording' \in Point,
         rtc.tracking \/ app'.tracking => recording' # 0,
         wanted' \in Session \cup {NoSession},
         "ship mode" \notin Fault => app'.session = wanted'
  PROVE  DeviceInv'
<1>1. On' /\ power' = "on"
  BY DEF On
<1>2. gpsTask' \in BOOLEAN
  BY ActiveType
<1>3. TypeOK'
  BY <1>1, <1>2 DEF DeviceInv, TypeOK, StorageInv
<1>4. GpsFollowsActive' /\ BleFollowsMode' /\ RouteFollowsTracking'
  BY <1>1 DEF GpsFollowsActive, BleFollowsMode, RouteFollowsTracking
<1>5. TrackingHasSession' /\ Numbered'
  BY <1>1 DEF TrackingHasSession, Numbered, DeviceInv
<1>6. MountedWhileUp'
  BY DEF MountedWhileUp, MountOutcomes
<1>7. Intended'
  BY <1>1 DEF Intended, RecordsWhatIsWanted
<1>8. QED
  BY <1>3, <1>4, <1>5, <1>6, <1>7 DEF DeviceInv

(* What the invariant says of a device that is on. *)
LEMMA WhileOn ==
  ASSUME DeviceInv, On
  PROVE  /\ nvs \in Settings /\ app \in App /\ app.settings \in Settings
         /\ gpsTask = IsGpsActive(app.settings.gps, app.tracking)
         /\ ble \in BOOLEAN /\ (ble => app.mode = "Portable")
         /\ app.mode = "Portable" => ble \/ "ble" \in Fault
         /\ current # NoSession => app.tracking /\ current = app.session
         /\ app.tracking => current = app.session \/ MayFail({"mount", "stat", "open"})
         /\ app.tracking <=> app.session # NoSession
         /\ mounted \in MountOutcomes
         /\ recording \in Nat /\ (recording # 0 => recording \in Point)
         /\ rtc.tracking \/ app.tracking => recording # 0
         /\ wanted \in Session \cup {NoSession}
         /\ "ship mode" \notin Fault => app.session = wanted
<1>1. nvs \in Settings /\ app \in App /\ ble \in BOOLEAN /\ recording \in Nat
      /\ wanted \in Session \cup {NoSession}
  BY DEF DeviceInv, TypeOK
<1>2. app.settings \in Settings
  BY <1>1 DEF App
<1>3. gpsTask = IsGpsActive(app.settings.gps, app.tracking)
  BY DEF DeviceInv, GpsFollowsActive
<1>4. (ble => app.mode = "Portable") /\ (app.mode = "Portable" => ble \/ "ble" \in Fault)
  BY DEF DeviceInv, BleFollowsMode
<1>5. /\ current # NoSession => app.tracking /\ current = app.session
      /\ app.tracking => current = app.session \/ MayFail({"mount", "stat", "open"})
  BY DEF DeviceInv, RouteFollowsTracking
<1>6. app.tracking <=> app.session # NoSession
  BY DEF DeviceInv, TrackingHasSession
<1>7. mounted \in MountOutcomes
  BY DEF DeviceInv, MountedWhileUp, On
<1>8. (recording # 0 => recording \in Point) /\ (rtc.tracking \/ app.tracking => recording # 0)
  BY DEF DeviceInv, Numbered
<1>9. "ship mode" \notin Fault => app.session = wanted
  BY DEF DeviceInv, Intended, RecordsWhatIsWanted
<1>10. QED
  BY <1>1, <1>2, <1>3, <1>4, <1>5, <1>6, <1>7, <1>8, <1>9

(* start() and deactivate_gps() are called exactly when the answer changes. *)
LEMMA GpsFollowsRight ==
  ASSUME gpsTask = IsGpsActive(app.settings.gps, app.tracking), NEW new,
         GpsFollows(new)
  PROVE  gpsTask' = IsGpsActive(new.settings.gps, new.tracking)
BY DEF GpsFollows

LEMMA NotTrackingType ==
  ASSUME app \in App
  PROVE  /\ NotTracking(app) \in App
         /\ NotTracking(app).mode = app.mode
         /\ NotTracking(app).settings = app.settings
         /\ NotTracking(app).tracking = FALSE
         /\ NotTracking(app).session = NoSession
BY DEF App, NotTracking

LEMMA LockOrUnlockInv ==
  ASSUME DeviceInv, LockOrUnlock
  PROVE  DeviceInv'
<1>1. app \in App /\ On
  BY WhileOn DEF LockOrUnlock
<1>2. /\ app' \in App /\ app'.settings = app.settings /\ app'.mode = app.mode
      /\ app'.tracking = app.tracking /\ app'.session = app.session
  BY <1>1 DEF LockOrUnlock, App
<1>3. /\ UNCHANGED <<mounted, disk, current, buffer, pointCount, failed>>
      /\ UNCHANGED <<power, nvs, rtc, gpsTask, ble, recording, wanted>>
  BY DEF LockOrUnlock, storageVars
<1>4. StorageInv'
  BY <1>3 DEF DeviceInv, StorageInv, StorageTypeOK, OpenFileExists,
              CountIsWholeSession, Stored
<1>5. QED
  BY <1>1, <1>2, <1>3, <1>4, WhileOn, RunningInv

LEMMA SensorDataInv ==
  ASSUME DeviceInv, SensorData
  PROVE  DeviceInv'
<1>1. app \in App /\ On
  BY WhileOn DEF SensorData
<1>2. /\ app' \in App /\ app'.settings = app.settings /\ app'.mode = app.mode
      /\ app'.tracking = app.tracking /\ app'.session = app.session
  BY <1>1 DEF SensorData, App
<1>3. UNCHANGED <<power, nvs, rtc, gpsTask, ble, recording, wanted>>
  BY DEF SensorData
<1>4. StorageInv' /\ UNCHANGED <<mounted, current>>
  <2>1. CASE app.tracking
    <3>1. recording \in Point
      BY <1>1, <2>1, WhileOn
    <3>2. AppendRoutePoint(recording)
      BY <2>1 DEF SensorData
    <3>3. UNCHANGED <<mounted, current>>
      BY <3>2 DEF AppendRoutePoint, storageVars
    <3>4. QED
      BY <3>1, <3>2, <3>3, AppendInv DEF DeviceInv
  <2>2. CASE ~app.tracking
    BY <2>2 DEF SensorData, storageVars, DeviceInv, StorageInv, StorageTypeOK,
                OpenFileExists, CountIsWholeSession, Stored
  <2>3. QED
    BY <2>1, <2>2
<1>5. QED
  BY <1>1, <1>2, <1>3, <1>4, WhileOn, RunningInv
LEMMA StartTrackingInv ==
  ASSUME DeviceInv, NEW id \in Session, StartTracking(id)
  PROVE  DeviceInv'
<1>1. On /\ ~app.tracking /\ id # NoSession
  BY NoSessionAssumption DEF StartTracking, UiActive, BleActive, Idle
<1>2. app \in App /\ current = NoSession
  BY <1>1, WhileOn
<1>3. /\ app' \in App /\ app'.settings = app.settings /\ app'.mode = app.mode
      /\ app'.tracking = TRUE /\ app'.session = id
  BY <1>2 DEF StartTracking, App
<1>4. /\ recording + 1 \in Point /\ recording' = recording + 1 /\ wanted' = id
      /\ UNCHANGED <<power, nvs, rtc, ble>>
      /\ GpsFollows(app') /\ StartRouteWhen(mounted, id)
  BY DEF StartTracking, StartRoute
<1>5. gpsTask' = IsGpsActive(app'.settings.gps, app'.tracking)
  BY <1>1, <1>4, WhileOn, GpsFollowsRight
<1>6. mounted \in MountOutcomes /\ mounted \in BOOLEAN
  BY <1>1, WhileOn, OutcomesType
<1>7. StorageInv'
  BY <1>4, <1>6, StartRouteInv DEF DeviceInv
<1>8. /\ mounted' \in MountOutcomes
      /\ \/ current' = id
         \/ current' = NoSession /\ MayFail({"mount", "stat", "open"})
  BY <1>2, <1>4, <1>6 DEF StartRouteWhen, routeVars, CanStart, MountOutcomes, MayFail
<1>9. recording' \in Nat /\ recording' # 0
  <2>1. recording \in Nat
    BY DEF DeviceInv, TypeOK
  <2>2. QED
    BY <1>4, <2>1
<1>10. QED
  BY <1>1, <1>3, <1>4, <1>5, <1>7, <1>8, <1>9, WhileOn, RunningInv

(* Closing the route, as end_route() and clear_routes() do. *)
LEMMA StopTrackingInv ==
  ASSUME DeviceInv, StopTracking
  PROVE  DeviceInv'
<1>1. On
  BY DEF StopTracking, UiActive, BleActive
<1>2. app \in App /\ mounted \in MountOutcomes
  BY <1>1, WhileOn
<1>3. /\ app' = NotTracking(app) /\ GpsFollows(app') /\ EndRoute
      /\ wanted' = NoSession
      /\ UNCHANGED <<mounted, power, nvs, rtc, ble, recording>>
  BY DEF StopTracking
<1>4. /\ app' \in App /\ app'.settings = app.settings /\ app'.mode = app.mode
      /\ app'.tracking = FALSE /\ app'.session = NoSession
  BY <1>2, <1>3, NotTrackingType
<1>5. gpsTask' = IsGpsActive(app'.settings.gps, app'.tracking)
  BY <1>1, <1>3, WhileOn, GpsFollowsRight
<1>6. StorageInv'
  <2>1. mounted' \in BOOLEAN
    BY <1>2, <1>3, OutcomesType
  <2>2. QED
    BY <1>3, <2>1, EndRouteInv DEF DeviceInv
<1>7. current' = NoSession
  BY <1>3 DEF EndRoute, RouteClosed
<1>8. QED
  BY <1>1, <1>2, <1>3, <1>4, <1>5, <1>6, <1>7, WhileOn, RunningInv

(* Files removed and tracking off: clear_data(), and a factory reset that  *)
(* one of its steps failed.                                                *)
LEMMA ClearedInv ==
  ASSUME DeviceInv, On, ClearFiles, app' = NotTracking(app), GpsFollows(app'),
         nvs' \in Settings, wanted' = NoSession,
         UNCHANGED <<mounted, power, rtc, ble, recording>>
  PROVE  DeviceInv'
<1>1. app \in App /\ mounted \in MountOutcomes
  BY WhileOn
<1>2. /\ app' \in App /\ app'.settings = app.settings /\ app'.mode = app.mode
      /\ app'.tracking = FALSE /\ app'.session = NoSession
  BY <1>1, NotTrackingType
<1>3. gpsTask' = IsGpsActive(app'.settings.gps, app'.tracking)
  BY WhileOn, GpsFollowsRight
<1>4. StorageInv'
  <2>1. mounted' \in BOOLEAN
    BY <1>1, OutcomesType
  <2>2. QED
    BY <2>1, ClearFilesInv DEF DeviceInv
<1>5. current' = NoSession
  BY DEF ClearFiles, RouteClosed
<1>6. QED
  BY <1>1, <1>2, <1>3, <1>4, <1>5, WhileOn, RunningInv

LEMMA ClearDataInv ==
  ASSUME DeviceInv, ClearData
  PROVE  DeviceInv'
<1>1. On /\ nvs \in Settings
  BY WhileOn DEF ClearData, UiActive, BleActive
<1>2. QED
  BY <1>1, ClearedInv DEF ClearData, ClearRoutes

(* change_mode() and a configuration write: the settings change, the route *)
(* files do not.                                                           *)
LEMMA SettingsInv ==
  ASSUME DeviceInv, On, app' \in App,
         app'.tracking = app.tracking, app'.session = app.session,
         nvs' \in Settings,
         gpsTask' = IsGpsActive(app'.settings.gps, app'.tracking),
         ble' \in BleAfter(app.mode, app'.mode),
         UNCHANGED <<storageVars, power, rtc, recording, wanted>>
  PROVE  DeviceInv'
<1>1. UNCHANGED <<mounted, disk, current, buffer, pointCount, failed>>
  BY DEF storageVars
<1>2. StorageInv'
  BY <1>1 DEF DeviceInv, StorageInv, StorageTypeOK, OpenFileExists,
              CountIsWholeSession, Stored
<1>3. /\ ble' \in BOOLEAN /\ (ble' => app'.mode = "Portable")
      /\ app'.mode = "Portable" => ble' \/ "ble" \in Fault
  <2>1. ble \in BOOLEAN /\ (app.mode = "Portable" => ble \/ "ble" \in Fault)
    BY WhileOn
  <2> DEFINE old == app.mode
             new == app'.mode
             after == ble'
  <2>2. after \in BleAfter(old, new)
    OBVIOUS
  <2> HIDE DEF new, after
  <2>3. /\ after \in BOOLEAN /\ (after => new = "Portable")
        /\ new = "Portable" => after \/ "ble" \in Fault
    BY <2>1, <2>2, BleAfterType
  <2>4. QED
    BY <2>3 DEF new, after
<1>4. QED
  BY <1>1, <1>2, <1>3, WhileOn, RunningInv

LEMMA ChangeModeInv ==
  ASSUME DeviceInv, NEW new \in OperatingMode, ChangeMode(new)
  PROVE  DeviceInv'
<1>1. On
  BY DEF ChangeMode, UiActive
<1>2. app \in App /\ app.settings \in Settings /\ nvs \in Settings
  BY <1>1, WhileOn
<1>3. /\ app' \in App /\ app'.settings \in Settings /\ app'.mode = new
      /\ app'.settings.gps = app.settings.gps
      /\ app'.tracking = app.tracking /\ app'.session = app.session
  BY <1>2 DEF ChangeMode, InMode, App, Settings
<1>4. nvs' \in Settings
  BY <1>2, <1>3, SavedType DEF ChangeMode
<1>5. gpsTask' = IsGpsActive(app'.settings.gps, app'.tracking)
  BY <1>1, <1>3, WhileOn DEF ChangeMode
<1>6. QED
  BY <1>1, <1>3, <1>4, <1>5, SettingsInv DEF ChangeMode

LEMMA ApplySettingsChangeInv ==
  ASSUME DeviceInv, NEW gps \in GpsMode, ApplySettingsChange(gps)
  PROVE  DeviceInv'
<1>1. On
  BY DEF ApplySettingsChange, UiActive
<1>2. app \in App /\ app.settings \in Settings /\ nvs \in Settings
  BY <1>1, WhileOn
<1>3. /\ app' \in App /\ app'.settings \in Settings /\ app'.mode = app.mode
      /\ app'.tracking = app.tracking /\ app'.session = app.session
  <2>1. PICK inRange \in {TRUE, app.settings.inRange} :
          app' = [app EXCEPT !.settings.gps = gps, !.settings.inRange = inRange]
    BY DEF ApplySettingsChange
  <2>2. inRange \in BOOLEAN
    BY <1>2 DEF Settings
  <2>3. QED
    BY <1>2, <2>1, <2>2 DEF App, Settings
<1>4. nvs' \in Settings
  BY <1>2, <1>3, SavedType DEF ApplySettingsChange
<1>5. gpsTask' = IsGpsActive(app'.settings.gps, app'.tracking)
  BY <1>1, WhileOn, GpsFollowsRight DEF ApplySettingsChange
<1>6. UNCHANGED <<storageVars, power, rtc, ble, recording, wanted>>
  BY DEF ApplySettingsChange
<1>7. StorageInv'
  BY <1>6 DEF storageVars, DeviceInv, StorageInv, StorageTypeOK, OpenFileExists,
              CountIsWholeSession, Stored
<1>8. UNCHANGED <<mounted, current>>
  BY <1>6 DEF storageVars
<1>9. QED
  BY <1>1, <1>3, <1>4, <1>5, <1>6, <1>7, <1>8, WhileOn, RunningInv
(* Fields out of range are merged like any other; only saving refuses them. *)
LEMMA BleConfigSetInv ==
  ASSUME DeviceInv, NEW mode \in OperatingMode, NEW gps \in GpsMode,
         BleConfigSet(mode, gps)
  PROVE  DeviceInv'
<1>1. On
  BY DEF BleConfigSet, BleActive
<1>2. app \in App /\ nvs \in Settings
  BY <1>1, WhileOn
<1>3. PICK inRange \in {TRUE} \cup {~f : f \in Fails("out of range")} :
        LET set == [mode |-> mode, gps |-> gps, inRange |-> inRange]
        IN  /\ app' = [InMode(app, mode) EXCEPT !.settings = set]
            /\ \E first \in Saved(nvs, set) :
                 nvs' \in IF mode = app.mode THEN {first} ELSE Saved(first, set)
  BY DEF BleConfigSet
<1> DEFINE set == [mode |-> mode, gps |-> gps, inRange |-> inRange]
<1>4. inRange \in BOOLEAN
  BY DEF Fails
<1>5. set \in Settings
  BY <1>4 DEF Settings
<1>6. app' = [InMode(app, mode) EXCEPT !.settings = set]
  BY <1>3
<1>7. nvs' \in Settings
  <2>1. PICK first \in Saved(nvs, set) :
          nvs' \in IF mode = app.mode THEN {first} ELSE Saved(first, set)
    BY <1>3
  <2> HIDE DEF set
  <2>2. first \in Settings
    BY <1>2, <1>5, <2>1, SavedType
  <2>3. QED
    BY <1>5, <2>1, <2>2, SavedType
<1> HIDE DEF set
<1>8. /\ app' \in App /\ app'.mode = mode
      /\ app'.tracking = app.tracking /\ app'.session = app.session
  BY <1>2, <1>5, <1>6 DEF InMode, App
<1>9. gpsTask' = IsGpsActive(app'.settings.gps, app'.tracking)
  BY <1>1, WhileOn, GpsFollowsRight DEF BleConfigSet
<1>10. ble' \in BleAfter(app.mode, app'.mode)
  BY <1>8 DEF BleConfigSet
<1>11. UNCHANGED <<storageVars, power, rtc, recording, wanted>>
  BY DEF BleConfigSet
<1>12. QED
  BY <1>1, <1>7, <1>8, <1>9, <1>10, <1>11, SettingsInv

LEMMA HistoryDeleteInv ==
  ASSUME DeviceInv, NEW s \in Session, HistoryDelete(s)
  PROVE  DeviceInv'
<1>1. On /\ ~(app.tracking /\ app.session = s) /\ DeleteRoute(s)
      /\ UNCHANGED deviceVars
  BY DEF HistoryDelete, BleActive
<1>2. s # current
  BY <1>1, WhileOn, NoSessionAssumption
<1>3. StorageInv' /\ UNCHANGED <<mounted, current>>
  BY <1>1, <1>2, DeleteRouteInv DEF DeviceInv, DeleteRoute, storageVars
<1>4. UNCHANGED <<power, nvs, rtc, app, gpsTask, ble, recording, wanted>>
  BY <1>1 DEF deviceVars
<1>5. QED
  BY <1>1, <1>3, <1>4, WhileOn, RunningInv

LEMMA RtcDefaultType ==
  /\ RtcDefault \in RtcState
  /\ ~RtcDefault.tracking
  /\ RtcDefault.session = NoSession
BY DEF RtcDefault, RtcState, OperatingMode

LEMMA FactoryResetInv ==
  ASSUME DeviceInv, FactoryReset
  PROVE  DeviceInv'
<1>1. On /\ wanted' = NoSession /\ UNCHANGED recording
  BY DEF FactoryReset
<1>2. nvs \in Settings /\ Defaults \in Settings
  BY <1>1, WhileOn DEF Defaults, Settings, OperatingMode, GpsMode
<1>3. PICK saveFails \in Fails("save"), bondsFail \in Fails("bonds") :
        /\ ClearFiles
        /\ nvs' \in IF saveFails THEN Saved(nvs, Defaults) ELSE {Defaults}
        /\ IF AllCleared /\ ~saveFails /\ ~bondsFail
             THEN /\ power' = "off"
                  /\ rtc' = RtcDefault
                  /\ mounted' = FALSE
                  /\ PowerDown
             ELSE /\ app' = NotTracking(app)
                  /\ GpsFollows(app')
                  /\ UNCHANGED <<power, rtc, mounted, ble>>
  BY DEF FactoryReset
<1>4. nvs' \in Settings
  BY <1>2, <1>3, SavedType
<1>5. CASE AllCleared /\ ~saveFails /\ ~bondsFail
  <2>1. /\ power' = "off" /\ rtc' = RtcDefault /\ mounted' = FALSE /\ PowerDown
    BY <1>3, <1>5
  <2>2. current' = NoSession
    BY <1>3 DEF ClearFiles, RouteClosed
  <2>3. StorageInv'
    BY <1>3, <2>1, ClearFilesInv DEF DeviceInv
  <2>4. Intended'
    BY <1>1, <2>1 DEF Intended, RecordsWhatIsWanted, On
  <2>5. QED
    BY <1>1, <1>4, <2>1, <2>2, <2>3, <2>4, RtcDefaultType, DownInv
<1>6. CASE ~(AllCleared /\ ~saveFails /\ ~bondsFail)
  <2>1. /\ app' = NotTracking(app) /\ GpsFollows(app')
        /\ UNCHANGED <<power, rtc, mounted, ble>>
    BY <1>3, <1>6
  <2>2. QED
    BY <1>1, <1>3, <1>4, <2>1, ClearedInv
<1>7. QED
  BY <1>5, <1>6
LEMMA ShutdownInv ==
  ASSUME DeviceInv, Shutdown
  PROVE  DeviceInv'
<1>1. /\ EndRoute /\ mounted' = FALSE /\ wanted' = NoSession /\ PowerDown
      /\ UNCHANGED <<nvs, recording>>
  BY DEF Shutdown
<1>2. current' = NoSession
  BY <1>1 DEF EndRoute, RouteClosed
<1>3. StorageInv'
  BY <1>1, EndRouteInv DEF DeviceInv
<1>4. nvs \in Settings /\ rtc \in RtcState /\ (rtc.tracking <=> rtc.session # NoSession)
      /\ (rtc.tracking => recording # 0)
  BY DEF DeviceInv, TypeOK, TrackingHasSession, Numbered
<1>5. PICK shipModeFails \in Fails("ship mode") :
        IF shipModeFails THEN power' = "halted" /\ UNCHANGED rtc
                         ELSE power' = "off" /\ rtc' = RtcDefault
  BY DEF Shutdown
<1>6. CASE shipModeFails
  <2>1. "ship mode" \in Fault
    BY <1>6 DEF Fails
  <2>2. Intended'
    BY <2>1 DEF Intended
  <2>3. power' = "halted" /\ UNCHANGED rtc
    BY <1>5, <1>6
  <2>4. QED
    BY <1>1, <1>2, <1>3, <1>4, <2>2, <2>3, DownInv
<1>7. CASE ~shipModeFails
  <2>1. power' = "off" /\ rtc' = RtcDefault
    BY <1>5, <1>7
  <2>2. Intended'
    BY <1>1, <2>1 DEF Intended, RecordsWhatIsWanted, On
  <2>3. QED
    BY <1>1, <1>2, <1>3, <1>4, <2>1, <2>2, RtcDefaultType, DownInv
<1>8. QED
  BY <1>6, <1>7

(* Sleeping keeps the session in RTC memory. *)
LEMMA SleepInv ==
  ASSUME DeviceInv, Sleep
  PROVE  DeviceInv'
<1>1. /\ On /\ EndRoute /\ power' = "asleep" /\ mounted' = FALSE /\ PowerDown
      /\ UNCHANGED <<nvs, recording, wanted>>
      /\ rtc' = [mode |-> app.mode, locked |-> app.locked,
                 tracking |-> app.tracking, session |-> app.session]
  BY DEF Sleep
<1>2. current' = NoSession
  BY <1>1 DEF EndRoute, RouteClosed
<1>3. StorageInv'
  BY <1>1, EndRouteInv DEF DeviceInv
<1>4. /\ app \in App /\ nvs \in Settings /\ wanted \in Session \cup {NoSession}
      /\ app.tracking <=> app.session # NoSession
      /\ app.tracking => recording # 0
      /\ "ship mode" \notin Fault => app.session = wanted
  BY <1>1, WhileOn
<1>5. /\ rtc' \in RtcState /\ rtc'.session = app.session
      /\ rtc'.tracking <=> rtc'.session # NoSession
      /\ rtc'.tracking => recording # 0
  BY <1>1, <1>4 DEF App, RtcState
<1>6. Intended'
  BY <1>1, <1>4, <1>5 DEF Intended, RecordsWhatIsWanted, On
<1>7. QED
  BY <1>1, <1>2, <1>3, <1>4, <1>5, <1>6, DownInv

LEMMA ResetInv ==
  ASSUME DeviceInv, Reset
  PROVE  DeviceInv'
<1>1. /\ LoseBuffer /\ power' = "off" /\ rtc' = RtcDefault /\ PowerDown
      /\ wanted' = NoSession /\ UNCHANGED <<nvs, recording>>
  BY DEF Reset
<1>2. current' = NoSession
  BY <1>1 DEF LoseBuffer, RouteClosed
<1>3. StorageInv'
  BY <1>1, LoseBufferInv DEF DeviceInv
<1>4. nvs \in Settings
  BY DEF DeviceInv, TypeOK
<1>5. Intended'
  BY <1>1 DEF Intended, RecordsWhatIsWanted, On
<1>6. QED
  BY <1>1, <1>2, <1>3, <1>4, <1>5, RtcDefaultType, DownInv
-----------------------------------------------------------------------------
LEMMA DeviceInitInv == Init => DeviceInv
<1> SUFFICES ASSUME Init
             PROVE  DeviceInv
  OBVIOUS
<1>1. StorageInv /\ current = NoSession
  BY InitInv DEF Init, StorageInit
<1>2. ~On /\ power = "off"
  BY DEF Init, On
<1>3. NoApp \in App /\ Defaults \in Settings
  BY DEF NoApp, App, OperatingMode, Settings, Defaults, GpsMode
<1>4. TypeOK
  BY <1>1, <1>3, RtcDefaultType DEF Init, TypeOK, StorageInv
<1>5. GpsFollowsActive /\ BleFollowsMode /\ RouteFollowsTracking
  BY <1>1, <1>2 DEF GpsFollowsActive, BleFollowsMode, RouteFollowsTracking
<1>6. TrackingHasSession /\ Numbered /\ MountedWhileUp
  BY <1>2, RtcDefaultType DEF Init, TrackingHasSession, Numbered, MountedWhileUp
<1>7. Intended
  BY <1>2 DEF Init, Intended, RecordsWhatIsWanted
<1>8. QED
  BY <1>1, <1>4, <1>5, <1>6, <1>7 DEF DeviceInv

LEMMA DeviceStepInv == DeviceInv /\ [Next]_vars => DeviceInv'
<1> SUFFICES ASSUME DeviceInv, [Next]_vars
             PROVE  DeviceInv'
  OBVIOUS
<1>1. CASE PowerOn \/ WakeByButton
  BY <1>1, PowerOnInv, WakeByButtonInv
<1>2. CASE FastPathInterrupted \/ FastPathMeasure \/ FastPathSleep \/ FastPathPromote
  BY <1>2, FastPathInterruptedInv, FastPathMeasureInv, FastPathSleepInv, FastPathPromoteInv
<1>3. CASE LockOrUnlock \/ SensorData \/ StopTracking \/ ClearData
  BY <1>3, LockOrUnlockInv, SensorDataInv, StopTrackingInv, ClearDataInv
<1>4. CASE FactoryReset \/ Shutdown \/ Sleep \/ Reset
  BY <1>4, FactoryResetInv, ShutdownInv, SleepInv, ResetInv
<1>5. ASSUME NEW id \in Session, StartTracking(id) \/ HistoryDelete(id)
      PROVE  DeviceInv'
  BY <1>5, StartTrackingInv, HistoryDeleteInv
<1>6. ASSUME NEW mode \in OperatingMode, ChangeMode(mode)
      PROVE  DeviceInv'
  BY <1>6, ChangeModeInv
<1>7. ASSUME NEW gps \in GpsMode, ApplySettingsChange(gps)
      PROVE  DeviceInv'
  BY <1>7, ApplySettingsChangeInv
<1>8. ASSUME NEW mode \in OperatingMode, NEW gps \in GpsMode, BleConfigSet(mode, gps)
      PROVE  DeviceInv'
  BY <1>8, BleConfigSetInv
<1>9. CASE UNCHANGED vars
  <2>1. /\ UNCHANGED <<mounted, disk, current, buffer, pointCount, failed>>
        /\ UNCHANGED <<power, nvs, rtc, app, gpsTask, ble, recording, wanted>>
    BY <1>9 DEF vars, storageVars, deviceVars
  <2>2. StorageInv' /\ TypeOK'
    BY <2>1 DEF DeviceInv, StorageInv, StorageTypeOK, OpenFileExists,
                CountIsWholeSession, Stored, TypeOK
  <2>3. GpsFollowsActive' /\ BleFollowsMode' /\ RouteFollowsTracking'
    BY <2>1 DEF DeviceInv, GpsFollowsActive, BleFollowsMode, RouteFollowsTracking, On
  <2>4. TrackingHasSession' /\ MountedWhileUp' /\ Numbered' /\ Intended'
    BY <2>1 DEF DeviceInv, TrackingHasSession, MountedWhileUp, MountOutcomes,
                Numbered, Intended, RecordsWhatIsWanted, On
  <2>5. QED
    BY <2>2, <2>3, <2>4 DEF DeviceInv
<1>10. QED
  BY <1>1, <1>2, <1>3, <1>4, <1>5, <1>6, <1>7, <1>8, <1>9 DEF Next

LEMMA DeviceInvariant == Spec => []DeviceInv
BY DeviceInitInv, DeviceStepInv, PTL DEF Spec

(* RAM, RTC memory, NVS and the files keep their types in every boot path  *)
(* and handler.                                                            *)
THEOREM DeviceTypeInvariant == Spec => []TypeOK
<1>1. DeviceInv => TypeOK
  BY DEF DeviceInv
<1>2. QED
  BY <1>1, DeviceInvariant, PTL

(* The GPS task runs exactly when the settings and the tracking state say  *)
(* so, whatever fails.                                                     *)
THEOREM GpsAlwaysFollows == Spec => []GpsFollowsActive
<1>1. DeviceInv => GpsFollowsActive
  BY DEF DeviceInv
<1>2. QED
  BY <1>1, DeviceInvariant, PTL

(* BLE is up in Portable mode and nowhere else. *)
THEOREM BleAlwaysFollows == Spec => []BleFollowsMode
<1>1. DeviceInv => BleFollowsMode
  BY DEF DeviceInv
<1>2. QED
  BY <1>1, DeviceInvariant, PTL

(* An open route file belongs to the tracked session, and tracking has one *)
(* open unless flash failed.                                               *)
THEOREM RouteAlwaysFollows == Spec => []RouteFollowsTracking
<1>1. DeviceInv => RouteFollowsTracking
  BY DEF DeviceInv
<1>2. QED
  BY <1>1, DeviceInvariant, PTL

(* GPS, BLE and the route file follow the state of the device, whatever    *)
(* boot path or handler changed it and whatever failed in it.              *)
THEOREM ServicesAlwaysFollow == Spec => []ServicesFollow
<1>1. DeviceInv => ServicesFollow
  BY DEF DeviceInv, ServicesFollow
<1>2. QED
  BY <1>1, DeviceInvariant, PTL

(* With a ship mode that works, the device records exactly the session the *)
(* user started and did not stop, across every sleep, wake and reset.      *)
THEOREM RecordingIsIntended ==
  ASSUME "ship mode" \notin Fault
  PROVE  Spec => []RecordsWhatIsWanted
<1>1. DeviceInv => RecordsWhatIsWanted
  BY DEF DeviceInv, Intended
<1>2. QED
  BY <1>1, DeviceInvariant, PTL
-----------------------------------------------------------------------------
(* What a step of the device does to the route files.                      *)

(* The session a measurement is stored for: on, or on the fast path. *)
Tracked == CASE On -> app.session
             [] power = "asleep" -> rtc.session
             [] OTHER -> NoSession

(* A step keeps the content of a file, or loses points to a failure.       *)
Shrinks(s) == \/ Recorded'[s] = Contents(s)
              \/ MayShorten(s) /\ Shortened(s)
              \/ MayEmpty(s) /\ Recorded'[s] = << >>
(* Or it adds the number of the recording to the file of that session.     *)
Gains(s) == /\ s = Tracked
            /\ \/ Recorded'[s] = Append(Contents(s), recording)
               \/ MayEmpty(s) /\ Recorded'[s] = Append(<< >>, recording)

FilesShrink == \A s \in DOMAIN Recorded' : Shrinks(s)
FilesGrow == \A s \in DOMAIN Recorded' : Shrinks(s) \/ Gains(s)

LEMMA ShrinkIsGrow ==
  ASSUME FilesShrink
  PROVE  FilesGrow
BY DEF FilesShrink, FilesGrow

LEMMA KeepsIsShrink ==
  ASSUME KeepsContents
  PROVE  FilesShrink
BY DEF KeepsContents, FilesShrink, Shrinks

LEMMA ShortensIsShrink ==
  ASSUME ShortensContents, Reset \/ "write" \in failed'
  PROVE  FilesShrink
BY DEF ShortensContents, Shortened, FilesShrink, Shrinks, MayShorten

LEMMA UnchangedKeeps ==
  ASSUME UNCHANGED <<disk, current, buffer, failed>>
  PROVE  KeepsContents
BY StutterLog, StutterKeeps

(* start_route() of any session. *)
LEMMA StartRouteShrinks ==
  ASSUME DeviceInv, DeviceInv', NEW m \in BOOLEAN, NEW s \in Session, StartRouteWhen(m, s)
  PROVE  FilesShrink
<1>1. Promise!Open(s) \/ LogStutters
  BY StartRouteLog DEF DeviceInv
<1>2. CASE KeepsContents
  BY <1>2, KeepsIsShrink
<1>3. CASE /\ current = NoSession /\ current' = s /\ "stat" \in failed'
           /\ \A t \in DOMAIN Recorded' :
                Recorded'[t] = Contents(t) \/ (t = s /\ Recorded'[t] = << >>)
  BY <1>3 DEF FilesShrink, Shrinks, MayEmpty
<1>4. QED
  BY <1>1, <1>2, <1>3, OpenKeeps, StutterKeeps

(* A boot opens the route of a tracked session, or nothing. *)
LEMMA InteractiveShrinks ==
  ASSUME DeviceInv, DeviceInv', NEW woke \in BOOLEAN, NEW locked, NEW measured,
         NEW m \in MountOutcomes, Interactive(woke, locked, measured, m)
  PROVE  FilesShrink /\ UNCHANGED <<recording, wanted>>
<1> DEFINE state == Restored(rtc, woke)
<1>1. /\ UNCHANGED <<recording, wanted>>
      /\ IF state.tracking
           THEN StartRouteWhen(m, state.session)
           ELSE UNCHANGED <<disk, current, buffer, failed>>
  BY DEF Interactive, routeVars
<1>2. state.tracking => state.session \in Session
  BY DEF Restored, RtcDefault, DeviceInv, TypeOK, RtcState, TrackingHasSession
<1> HIDE DEF state
<1>3. CASE state.tracking
  BY <1>1, <1>2, <1>3, OutcomesType, StartRouteShrinks
<1>4. CASE ~state.tracking
  BY <1>1, <1>4, UnchangedKeeps, KeepsIsShrink
<1>5. QED
  BY <1>3, <1>4

LEMMA BootShrinks ==
  ASSUME DeviceInv, DeviceInv',
         PowerOn \/ WakeByButton \/ FastPathInterrupted \/ FastPathPromote
  PROVE  FilesShrink /\ UNCHANGED <<recording, wanted>>
<1>1. power = "measured" => mounted \in MountOutcomes
  BY DEF DeviceInv, MountedWhileUp
<1>2. QED
  BY <1>1, InteractiveShrinks
  DEF PowerOn, WakeByButton, FastPathInterrupted, FastPathPromote

(* The fast path opens the file of the tracked session, adds the point and *)
(* closes it, or stops on the way.                                         *)
LEMMA FastPathMeasureGrows ==
  ASSUME DeviceInv, FastPathMeasure
  PROVE  FilesGrow /\ UNCHANGED <<recording, wanted>>
<1>1. /\ ~On /\ power = "asleep" /\ current = NoSession /\ current' = NoSession
      /\ UNCHANGED <<recording, wanted>>
  BY NoneOpen DEF FastPathMeasure, FastPath, On
<1>2. PICK f \in FastPathFiles(mounted') : disk' = f.files /\ failed' = f.failed
  BY DEF FastPathMeasure
<1>3. Recorded = disk /\ Recorded' = disk' /\ Tracked = rtc.session
  BY <1>1 DEF Recorded, Tracked
<1>4. \A t : Contents(t) = Stored(t)
  BY <1>3 DEF Contents, Stored
<1>5. CASE f = Left(disk, failed)
  BY <1>1, <1>2, <1>3, <1>4, <1>5 DEF Left, FilesGrow, Shrinks, Stored
<1>6. ASSUME NEW old \in Seq(Point), NEW faults \in SUBSET {"stat", "write"},
             \/ old = Stored(rtc.session) /\ "stat" \notin faults
             \/ old = << >> /\ "stat" \in faults,
             \/ f = Left(With(disk, rtc.session, old), faults)
             \/ f = Left(With(disk, rtc.session, Append(old, recording)), faults)
      PROVE  FilesGrow
  <2> DEFINE s == rtc.session
             longer == Append(old, recording)
  <2>1. /\ DOMAIN disk' = DOMAIN disk \cup {s} /\ disk'[s] \in {old, longer}
        /\ \A t \in DOMAIN disk \ {s} : disk'[t] = disk[t]
        /\ failed' = faults
    BY <1>2, <1>6 DEF Left, With
  <2>2. "stat" \in faults => MayEmpty(s)
    BY <1>1, <2>1 DEF MayEmpty
  <2>3. \A t \in DOMAIN disk' \ {s} : Shrinks(t)
    BY <1>3, <1>4, <2>1 DEF Shrinks, Stored
  <2>4. Shrinks(s) \/ Gains(s)
    <3>1. CASE old = Stored(s)
      BY <1>3, <1>4, <2>1, <3>1 DEF Shrinks, Gains
    <3>2. CASE old = << >> /\ MayEmpty(s)
      BY <1>3, <2>1, <3>2 DEF Shrinks, Gains
    <3>3. QED
      BY <1>6, <2>2, <3>1, <3>2
  <2>5. QED
    BY <1>3, <2>3, <2>4 DEF FilesGrow
<1>7. QED
  BY <1>1, <1>5, <1>6, FastPathLeaves

(* A measurement of a running device goes to the open file, which is that  *)
(* of the tracked session, or a failing write takes others with it.        *)
LEMMA SensorDataGrows ==
  ASSUME DeviceInv, SensorData
  PROVE  FilesGrow /\ UNCHANGED <<recording, wanted>>
<1>1. On /\ UNCHANGED <<recording, wanted>>
  BY DEF SensorData
<1>2. CASE app.tracking
  <2>1. recording \in Point /\ AppendRoutePoint(recording)
    BY <1>1, <1>2, WhileOn DEF SensorData
  <2>2. CASE Promise!Add(recording)
    <3>1. current = Tracked
      BY <1>1, <2>2, WhileOn DEF Promise!Add, Tracked, On
    <3>2. QED
      BY <1>1, <2>2, <3>1, AddAdds DEF AddsTo, FilesGrow, Shrinks, Gains, DeviceInv
  <2>3. CASE Promise!Drop
    <3>1. "write" \in failed'
      BY <2>3 DEF Promise!Drop
    <3>2. QED
      BY <1>1, <2>3, <3>1, CutKeeps, ShortensIsShrink, ShrinkIsGrow DEF DeviceInv
  <2>4. CASE LogStutters
    BY <1>1, <2>4, StutterKeeps, KeepsIsShrink, ShrinkIsGrow
  <2>5. QED
    BY <2>1, <2>2, <2>3, <2>4, AppendLog DEF DeviceInv
<1>3. CASE ~app.tracking
  BY <1>1, <1>3, UnchangedKeeps, KeepsIsShrink, ShrinkIsGrow DEF SensorData, storageVars
<1>4. QED
  BY <1>2, <1>3

LEMMA StartTrackingShrinks ==
  ASSUME DeviceInv, DeviceInv', NEW id \in Session, StartTracking(id)
  PROVE  FilesShrink
<1>1. mounted \in BOOLEAN /\ StartRouteWhen(mounted, id)
  BY DEF StartTracking, StartRoute, DeviceInv, StorageInv, StorageTypeOK
<1>2. QED
  BY <1>1, StartRouteShrinks

(* Closing and clearing keep what they do not remove, unless a write fails. *)
LEMMA CloseDeviceShrinks ==
  ASSUME DeviceInv, DeviceInv',
         StopTracking \/ ClearData \/ FactoryReset \/ Shutdown \/ Sleep
  PROVE  /\ FilesShrink
         /\ UNCHANGED recording
         /\ wanted' \in {wanted, NoSession}
<1>1. EndRoute \/ ClearFiles
  BY DEF StopTracking, ClearData, FactoryReset, Shutdown, Sleep, ClearRoutes
<1>2. UNCHANGED recording /\ wanted' \in {wanted, NoSession}
  BY DEF StopTracking, ClearData, FactoryReset, Shutdown, Sleep
<1>3. LogCloses
  BY <1>1, EndRouteLog, ClearFilesLog DEF DeviceInv
<1>4. KeepsContents \/ (ShortensContents /\ "write" \in failed')
  BY <1>3, CloseKeeps DEF DeviceInv
<1>5. QED
  BY <1>2, <1>4, KeepsIsShrink, ShortensIsShrink

LEMMA HistoryDeleteKeeps ==
  ASSUME DeviceInv, NEW s \in Session, HistoryDelete(s)
  PROVE  KeepsContents /\ UNCHANGED <<recording, wanted>>
<1>1. On /\ ~(app.tracking /\ app.session = s) /\ DeleteRoute(s)
      /\ UNCHANGED <<recording, wanted>>
  BY DEF HistoryDelete, BleActive, deviceVars
<1>2. s # current
  BY <1>1, WhileOn, NoSessionAssumption
<1>3. Promise!Forget(s) \/ LogStutters
  BY <1>1, <1>2, DeleteRouteLog DEF DeviceInv
<1>4. QED
  BY <1>1, <1>3, ForgetKeeps, StutterKeeps

LEMMA OtherKeeps ==
  ASSUME \/ FastPathSleep \/ LockOrUnlock \/ UNCHANGED vars
         \/ \E mode \in OperatingMode : ChangeMode(mode)
         \/ \E gps \in GpsMode : ApplySettingsChange(gps)
         \/ \E mode \in OperatingMode, gps \in GpsMode : BleConfigSet(mode, gps)
  PROVE  KeepsContents /\ UNCHANGED <<recording, wanted>>
<1>1. UNCHANGED <<disk, current, buffer, failed>> /\ UNCHANGED <<recording, wanted>>
  BY DEF FastPathSleep, LockOrUnlock, ChangeMode, ApplySettingsChange, BleConfigSet,
         vars, storageVars, routeVars, deviceVars
<1>2. QED
  BY <1>1, UnchangedKeeps

LEMMA ResetShrinks ==
  ASSUME DeviceInv, DeviceInv', Reset
  PROVE  FilesShrink
<1>1. Promise!Lose \/ LogCloses
  BY LoseBufferLog DEF Reset, DeviceInv
<1>2. KeepsContents \/ ShortensContents
  BY <1>1, CutKeeps, CloseKeeps DEF DeviceInv
<1>3. QED
  BY <1>2, KeepsIsShrink, ShortensIsShrink

(* A reset or the start of a recording adds nothing to any file; any other *)
(* step adds at most a point of this recording to the tracked session.     *)
LEMMA FilesStep ==
  ASSUME DeviceInv, DeviceInv', [Next]_vars
  PROVE  \/ FilesShrink /\ Reset
         \/ FilesShrink /\ \E id \in Session : StartTracking(id)
         \/ FilesGrow /\ UNCHANGED recording /\ wanted' \in {wanted, NoSession}
<1>1. CASE PowerOn \/ WakeByButton \/ FastPathInterrupted \/ FastPathPromote
  BY <1>1, BootShrinks, ShrinkIsGrow
<1>2. CASE FastPathMeasure \/ SensorData
  BY <1>2, FastPathMeasureGrows, SensorDataGrows
<1>3. CASE StopTracking \/ ClearData \/ FactoryReset \/ Shutdown \/ Sleep
  BY <1>3, CloseDeviceShrinks, ShrinkIsGrow
<1>4. ASSUME NEW id \in Session, StartTracking(id)
      PROVE  FilesShrink /\ \E i \in Session : StartTracking(i)
  BY <1>4, StartTrackingShrinks
<1>5. ASSUME NEW s \in Session, HistoryDelete(s)
      PROVE  FilesGrow /\ UNCHANGED <<recording, wanted>>
  BY <1>5, HistoryDeleteKeeps, KeepsIsShrink, ShrinkIsGrow
<1>6. CASE \/ FastPathSleep \/ LockOrUnlock \/ UNCHANGED vars
           \/ \E mode \in OperatingMode : ChangeMode(mode)
           \/ \E gps \in GpsMode : ApplySettingsChange(gps)
           \/ \E mode \in OperatingMode, gps \in GpsMode : BleConfigSet(mode, gps)
  BY <1>6, OtherKeeps, KeepsIsShrink, ShrinkIsGrow
<1>7. CASE Reset
  BY <1>7, ResetShrinks
<1>8. QED
  BY <1>1, <1>2, <1>3, <1>4, <1>5, <1>6, <1>7 DEF Next

(* A sequence grows to itself and to itself with an element more. *)
LEMMA GrowsByOne ==
  ASSUME NEW q \in Seq(Point), NEW e \in Point
  PROVE  Grows(q, q) /\ Grows(q, Append(q, e))
<1>1. Len(q) \in Nat /\ SubSeq(q, 1, Len(q)) = q
  BY LenProperties, SubSeqFull
<1>2. Len(Append(q, e)) = Len(q) + 1 /\ Append(q, e) \in Seq(Point)
  BY AppendProperties
<1>3. SubSeq(Append(q, e), 1, Len(q)) = q
  BY <1>1, <1>2
<1>4. QED
  BY <1>1, <1>2, <1>3 DEF Grows

LEMMA StepSpares ==
  ASSUME DeviceInv, DeviceInv', [Next]_vars,
         NEW s \in DOMAIN Recorded \cap DOMAIN Recorded'
  PROVE  \/ Grows(Recorded[s], Recorded'[s])
         \/ MayShorten(s) /\ Grows(Stored(s), Recorded'[s])
         \/ MayEmpty(s)
<1>1. Shrinks(s) \/ Gains(s)
  BY FilesStep, ShrinkIsGrow DEF FilesGrow
<1>2. Contents(s) = Recorded[s] /\ Recorded[s] \in Seq(Point) /\ s \in Session
  BY RecordedType DEF Contents, DeviceInv
<1>3. CASE Recorded'[s] = Recorded[s]
  <2>1. Grows(Recorded[s], Recorded[s])
    BY <1>2, SubSeqFull, LenProperties DEF Grows
  <2>2. QED
    BY <1>3, <2>1
<1>4. CASE s = Tracked /\ Recorded'[s] = Append(Recorded[s], recording)
  <2>1. recording \in Point
    <3>1. s # NoSession
      BY <1>2, NoSessionAssumption
    <3>2. (On /\ app.tracking) \/ rtc.tracking
      BY <1>4, <3>1 DEF Tracked, DeviceInv, TrackingHasSession
    <3>3. QED
      BY <3>2 DEF DeviceInv, Numbered
  <2>2. Grows(Recorded[s], Append(Recorded[s], recording))
    BY <1>2, <2>1, GrowsByOne
  <2>3. QED
    BY <1>4, <2>2
<1>5. CASE MayShorten(s) /\ Shortened(s)
  <2>1. current # NoSession
    BY <1>2, <1>5, NoSessionAssumption DEF Shortened
  <2>2. Grows(Stored(s), Recorded'[s])
    BY <1>5, <2>1, ShortenedKeepsStored DEF Grows, DeviceInv
  <2>3. QED
    BY <1>5, <2>2
<1>6. QED
  BY <1>1, <1>2, <1>3, <1>4, <1>5 DEF Shrinks, Gains

(* Whatever fails, points are taken from a file that stays only by a reset *)
(* or a failed write, and then none that the file held when it was opened, *)
(* or by an opening whose stat() failed: not by a boot, a sleep, a         *)
(* shutdown, a failed clearing, or a start of tracking as such.            *)
THEOREM PointsAreLostByFailures == Spec => OnlyFailuresLosePoints
<1>1. DeviceInv /\ DeviceInv' /\ [Next]_vars
        => [\A s \in DOMAIN Recorded \cap DOMAIN Recorded' :
              \/ Grows(Recorded[s], Recorded'[s])
              \/ MayShorten(s) /\ Grows(Stored(s), Recorded'[s])
              \/ MayEmpty(s)]_vars
  BY StepSpares
<1>2. QED
  BY <1>1, DeviceInvariant, PTL DEF Spec, OnlyFailuresLosePoints
-----------------------------------------------------------------------------
(* Each recording is in one file.                                          *)

(* No file holds the number of a recording that has not started.           *)
NumberedUpTo ==
  \A s \in DOMAIN Recorded : \A p \in Range(Recorded[s]) : p <= recording

(* While the user wants a session, the points of this recording are only   *)
(* in its file: earlier files with that id hold smaller numbers.           *)
OwnedByWanted ==
  wanted # NoSession =>
    \A s \in DOMAIN Recorded : recording \in Range(Recorded[s]) => s = wanted

RecordingsInv == NumberedUpTo /\ OwnedByWanted /\ RecordingsNotSplit

LEMMA RangeOfNone == Range(<< >>) = {}
BY DEF Range

(* What a step may add to a file.                                          *)
LEMMA ShrinksRange ==
  ASSUME DeviceInv, DeviceInv', NEW s \in DOMAIN Recorded', Shrinks(s)
  PROVE  Range(Recorded'[s]) \subseteq Range(Contents(s))
<1>1. CASE Recorded'[s] = << >>
  BY <1>1, RangeOfNone
<1>2. CASE Shortened(s)
  <2>1. s \in DOMAIN Recorded
    <3>1. s # NoSession
      BY RecordedDomainNext, NoSessionAssumption DEF DeviceInv
    <3>2. QED
      BY <1>2, <3>1, RecordedOpen DEF Shortened, DeviceInv, StorageInv, OpenFileExists
  <2>2. QED
    BY <1>2, <2>1, ShortenedRange DEF Contents, DeviceInv
<1>3. QED
  BY <1>1, <1>2 DEF Shrinks

LEMMA GainsRange ==
  ASSUME DeviceInv, NEW s, Gains(s)
  PROVE  Range(Recorded'[s]) \subseteq Range(Contents(s)) \cup {recording}
<1>1. Contents(s) \in Seq(Point) /\ << >> \in Seq(Point)
  BY ContentsType, EmptySeq DEF DeviceInv
<1>2. /\ Range(Append(Contents(s), recording)) \subseteq Range(Contents(s)) \cup {recording}
      /\ Range(Append(<< >>, recording)) \subseteq Range(<< >>) \cup {recording}
  BY <1>1, RangeOfAppend
<1>3. QED
  BY <1>2, RangeOfNone DEF Gains

(* A step that adds no number to any file, and starts no recording.        *)
LEMMA NothingAddedInv ==
  ASSUME RecordingsInv, UNCHANGED recording, wanted' \in {wanted, NoSession},
         \A s \in DOMAIN Recorded' : Range(Recorded'[s]) \subseteq Range(Contents(s))
  PROVE  RecordingsInv'
<1>1. \A s \in DOMAIN Recorded' : \A p \in Range(Recorded'[s]) :
        s \in DOMAIN Recorded /\ p \in Range(Recorded[s])
  BY RangeOfNone DEF Contents
<1>2. NumberedUpTo'
  BY <1>1 DEF RecordingsInv, NumberedUpTo
<1>3. OwnedByWanted'
  BY <1>1 DEF RecordingsInv, OwnedByWanted
<1>4. RecordingsNotSplit'
  BY <1>1 DEF RecordingsInv, RecordingsNotSplit
<1>5. QED
  BY <1>2, <1>3, <1>4 DEF RecordingsInv

LEMMA ShrinkAddsNothing ==
  ASSUME DeviceInv, DeviceInv', FilesShrink
  PROVE  \A s \in DOMAIN Recorded' : Range(Recorded'[s]) \subseteq Range(Contents(s))
BY ShrinksRange DEF FilesShrink

(* The number of a new recording is in no file yet. *)
LEMMA StartTrackingRecordings ==
  ASSUME DeviceInv, DeviceInv', RecordingsInv, NEW id \in Session, StartTracking(id),
         FilesShrink
  PROVE  RecordingsInv'
<1>1. recording \in Nat /\ recording' = recording + 1
  BY DEF DeviceInv, TypeOK, StartTracking
<1>2. \A s \in DOMAIN Recorded' : \A p \in Range(Recorded'[s]) :
        s \in DOMAIN Recorded /\ p \in Range(Recorded[s])
  BY ShrinkAddsNothing, RangeOfNone DEF Contents
<1>3. \A s \in DOMAIN Recorded : \A p \in Range(Recorded[s]) : p \in Nat /\ p <= recording
  <2>1. \A s \in DOMAIN Recorded : Range(Recorded[s]) \subseteq Nat
    BY RecordedType, ElementOfSeq, LenProperties, PointAssumption DEF Range, DeviceInv
  <2>2. QED
    BY <2>1 DEF RecordingsInv, NumberedUpTo
<1>4. NumberedUpTo'
  BY <1>1, <1>2, <1>3 DEF NumberedUpTo
<1>5. OwnedByWanted'
  BY <1>1, <1>2, <1>3 DEF OwnedByWanted
<1>6. RecordingsNotSplit'
  BY <1>2 DEF RecordingsInv, RecordingsNotSplit
<1>7. QED
  BY <1>4, <1>5, <1>6 DEF RecordingsInv

(* With a ship mode that works, the tracked session is the wanted one.     *)
LEMMA TrackedIsWanted ==
  ASSUME DeviceInv, "ship mode" \notin Fault
  PROVE  Tracked \in Session => wanted = Tracked
<1>1. /\ On => app.session = wanted
      /\ power = "asleep" => rtc.session = wanted
  BY DEF DeviceInv, Intended, RecordsWhatIsWanted
<1>2. QED
  BY <1>1, NoSessionAssumption DEF Tracked

(* A point of this recording goes to the session the user wants, the only  *)
(* file that can hold one already.                                         *)
LEMMA GrowRecordings ==
  ASSUME DeviceInv, DeviceInv', RecordingsInv, FilesGrow, UNCHANGED recording,
         wanted' \in {wanted, NoSession}, Tracked \in Session => wanted = Tracked
  PROVE  RecordingsInv'
<1>1. recording \in Nat
  BY DEF DeviceInv, TypeOK
<1>2. ASSUME NEW s \in DOMAIN Recorded', NEW p \in Range(Recorded'[s])
      PROVE  \/ s \in DOMAIN Recorded /\ p \in Range(Recorded[s])
             \/ s = wanted /\ p = recording /\ s # NoSession
  <2>1. s \in Session /\ s # NoSession
    BY RecordedDomainNext, NoSessionAssumption DEF DeviceInv
  <2>2. \A q \in Range(Contents(s)) : s \in DOMAIN Recorded /\ q \in Range(Recorded[s])
    BY RangeOfNone DEF Contents
  <2>3. CASE Shrinks(s)
    BY <1>2, <2>2, <2>3, ShrinksRange
  <2>4. CASE Gains(s)
    <3>1. s = Tracked /\ Range(Recorded'[s]) \subseteq Range(Contents(s)) \cup {recording}
      BY <2>4, GainsRange DEF Gains
    <3>2. QED
      BY <1>2, <2>1, <2>2, <3>1
  <2>5. QED
    BY <2>3, <2>4 DEF FilesGrow
<1>3. NumberedUpTo'
  <2>1. ASSUME NEW s \in DOMAIN Recorded', NEW p \in Range(Recorded'[s])
        PROVE  p <= recording
    <3>1. CASE s \in DOMAIN Recorded /\ p \in Range(Recorded[s])
      BY <3>1 DEF RecordingsInv, NumberedUpTo
    <3>2. CASE p = recording
      BY <1>1, <3>2
    <3>3. QED
      BY <1>2, <2>1, <3>1, <3>2
  <2>2. QED
    BY <2>1 DEF NumberedUpTo
<1>4. OwnedByWanted'
  BY <1>2 DEF RecordingsInv, OwnedByWanted
<1>5. RecordingsNotSplit'
  <2> SUFFICES ASSUME NEW s \in DOMAIN Recorded', NEW t \in DOMAIN Recorded', s # t,
                      NEW p \in Range(Recorded'[s]) \cap Range(Recorded'[t])
               PROVE  FALSE
    BY DEF RecordingsNotSplit
  <2>1. \/ s \in DOMAIN Recorded /\ p \in Range(Recorded[s])
        \/ s = wanted /\ p = recording /\ s # NoSession
    BY <1>2
  <2>2. \/ t \in DOMAIN Recorded /\ p \in Range(Recorded[t])
        \/ t = wanted /\ p = recording /\ t # NoSession
    BY <1>2
  <2>3. QED
    BY <2>1, <2>2 DEF RecordingsInv, OwnedByWanted, RecordingsNotSplit
<1>6. QED
  BY <1>3, <1>4, <1>5 DEF RecordingsInv

LEMMA RecordingsStep ==
  ASSUME "ship mode" \notin Fault, DeviceInv, DeviceInv', RecordingsInv, [Next]_vars
  PROVE  RecordingsInv'
<1>1. CASE FilesShrink /\ Reset
  <2>1. UNCHANGED recording /\ wanted' = NoSession
    BY <1>1 DEF Reset
  <2>2. QED
    BY <1>1, <2>1, ShrinkAddsNothing, NothingAddedInv
<1>2. ASSUME NEW id \in Session, StartTracking(id), FilesShrink
      PROVE  RecordingsInv'
  BY <1>2, StartTrackingRecordings
<1>3. CASE FilesGrow /\ UNCHANGED recording /\ wanted' \in {wanted, NoSession}
  BY <1>3, TrackedIsWanted, GrowRecordings
<1>4. QED
  BY <1>1, <1>2, <1>3, FilesStep

(* With a ship mode that works, the points of a recording are all in one   *)
(* file: the user's session is the only one that points are added to, and  *)
(* the number of a recording is new when the session is chosen.            *)
THEOREM RecordingsNeverSplit ==
  ASSUME "ship mode" \notin Fault
  PROVE  Spec => []RecordingsNotSplit
<1>1. Init => RecordingsInv
  <2>1. Init => DOMAIN Recorded = {}
    BY DEF Init, StorageInit, Recorded
  <2>2. QED
    BY <2>1 DEF RecordingsInv, NumberedUpTo, OwnedByWanted, RecordingsNotSplit
<1>2. DeviceInv /\ DeviceInv' /\ RecordingsInv /\ [Next]_vars => RecordingsInv'
  BY RecordingsStep
<1>3. RecordingsInv => RecordingsNotSplit
  BY DEF RecordingsInv
<1>4. QED
  BY <1>1, <1>2, <1>3, DeviceInvariant, PTL DEF Spec
-----------------------------------------------------------------------------
(* NVS is the source of truth.                                             *)

(* Nothing that can fail keeps the settings in RAM from being those saved. *)
SavesWork == Fault \subseteq {"ship mode", "ble"} /\ ~MayFail({"mount", "unlink"})

(* What is saved is in range and in force, and a sleep remembers the mode. *)
SettingsAreSaved ==
  /\ nvs.inRange
  /\ On => nvs = app.settings /\ app.mode = app.settings.mode
  /\ power \in {"asleep", "measured"} => rtc.mode = nvs.mode

(* save_go_settings() of settings in range stores them, and no fault is    *)
(* left that keeps a client's values from being in range.                  *)
LEMMA SavedExactly ==
  ASSUME SavesWork, NEW old, NEW s, s.inRange
  PROVE  Saved(old, s) = {s}
BY DEF Saved, SavesWork

LEMMA NoFaultOf ==
  ASSUME SavesWork, NEW f \in {"save", "bonds", "out of range"}
  PROVE  Fails(f) = {FALSE}
BY DEF Fails, SavesWork

(* What a handler that leaves the device on has to establish. *)
LEMMA SettingsOn ==
  ASSUME On', nvs' = app'.settings, app'.mode = app'.settings.mode, nvs'.inRange
  PROVE  SettingsAreSaved'
BY DEF SettingsAreSaved, On

LEMMA BootMode ==
  ASSUME PowerOn \/ WakeByButton \/ FastPathInterrupted \/ FastPathPromote
  PROVE  power' = "on" /\ nvs' = nvs /\ app'.settings = nvs /\ app'.mode = nvs.mode
<1>1. PICK woke, locked, measured, m : Interactive(woke, locked, measured, m)
  BY DEF PowerOn, WakeByButton, FastPathInterrupted, FastPathPromote
<1>2. QED
  BY <1>1 DEF Interactive

LEMMA BootSettings ==
  ASSUME SettingsAreSaved,
         PowerOn \/ WakeByButton \/ FastPathInterrupted \/ FastPathPromote
  PROVE  SettingsAreSaved'
BY BootMode, SettingsOn DEF SettingsAreSaved, On

LEMMA ChangeModeSettings ==
  ASSUME SavesWork, DeviceInv, SettingsAreSaved, NEW new \in OperatingMode, ChangeMode(new)
  PROVE  SettingsAreSaved'
<1>1. On /\ app \in App /\ app.settings \in Settings
  BY WhileOn DEF ChangeMode, UiActive
<1>2. app.settings.inRange
  BY <1>1 DEF SettingsAreSaved
<1>3. /\ app'.settings.inRange /\ app'.mode = new /\ app'.settings.mode = new
      /\ nvs' \in Saved(nvs, app'.settings) /\ On'
  BY <1>1, <1>2 DEF ChangeMode, InMode, App, Settings, On
<1>4. nvs' = app'.settings
  BY <1>3, SavedExactly
<1>5. QED
  BY <1>3, <1>4, SettingsOn

LEMMA ApplySettings ==
  ASSUME SavesWork, DeviceInv, SettingsAreSaved, NEW gps \in GpsMode,
         ApplySettingsChange(gps)
  PROVE  SettingsAreSaved'
<1>1. On /\ app \in App /\ app.settings \in Settings
  BY WhileOn DEF ApplySettingsChange, UiActive
<1>2. app.settings.inRange /\ app.mode = app.settings.mode
  BY <1>1 DEF SettingsAreSaved
<1>3. /\ app'.settings.inRange /\ app'.mode = app'.settings.mode
      /\ nvs' \in Saved(nvs, app'.settings) /\ On'
  BY <1>1, <1>2 DEF ApplySettingsChange, App, Settings, On
<1>4. nvs' = app'.settings
  BY <1>3, SavedExactly
<1>5. QED
  BY <1>3, <1>4, SettingsOn

LEMMA BleConfigSettings ==
  ASSUME SavesWork, DeviceInv, SettingsAreSaved, NEW mode \in OperatingMode,
         NEW gps \in GpsMode, BleConfigSet(mode, gps)
  PROVE  SettingsAreSaved'
<1> DEFINE set == [mode |-> mode, gps |-> gps, inRange |-> TRUE]
<1>1. On /\ app \in App /\ On'
  BY WhileOn DEF BleConfigSet, BleActive, On
<1>2. /\ app' = [InMode(app, mode) EXCEPT !.settings = set]
      /\ \E first \in Saved(nvs, set) :
           nvs' \in IF mode = app.mode THEN {first} ELSE Saved(first, set)
  BY NoFaultOf DEF BleConfigSet
<1>3. app'.settings = set /\ app'.mode = mode
  BY <1>1, <1>2 DEF InMode, App
<1>4. set.inRange /\ set.mode = mode
  OBVIOUS
<1> HIDE DEF set
<1>5. nvs' = set
  BY <1>2, <1>4, SavedExactly
<1>6. QED
  BY <1>1, <1>3, <1>4, <1>5, SettingsOn

LEMMA FactoryResetSettings ==
  ASSUME SavesWork, DeviceInv, SettingsAreSaved, FactoryReset
  PROVE  SettingsAreSaved'
<1>1. On /\ mounted = TRUE
  BY WhileOn DEF FactoryReset, SavesWork, MountOutcomes, MayFail
<1>2. ClearFiles /\ AllCleared
  <2>1. ClearFiles
    BY DEF FactoryReset
  <2>2. DOMAIN disk' = {}
    BY <1>1, <2>1 DEF ClearFiles, Survivors, SavesWork, Restrict, MayFail
  <2>3. QED
    BY <1>1, <2>1, <2>2 DEF AllCleared
<1>3. nvs' = Defaults /\ power' = "off"
  BY <1>2, NoFaultOf DEF FactoryReset
<1>4. QED
  BY <1>3 DEF SettingsAreSaved, On, Defaults

LEMMA OtherSettings ==
  ASSUME DeviceInv, SettingsAreSaved,
         \/ FastPathMeasure \/ FastPathSleep \/ LockOrUnlock \/ SensorData
         \/ StopTracking \/ ClearData \/ Shutdown \/ Sleep \/ Reset
         \/ \E id \in Session : StartTracking(id) \/ HistoryDelete(id)
         \/ UNCHANGED vars
  PROVE  SettingsAreSaved'
<1>1. nvs' = nvs /\ app \in App /\ nvs.inRange
  BY DEF FastPathMeasure, FastPathSleep, LockOrUnlock, SensorData, StopTracking,
         ClearData, Shutdown, Sleep, Reset, StartTracking, HistoryDelete, vars, deviceVars,
         DeviceInv, TypeOK, SettingsAreSaved
<1>2. CASE FastPathMeasure \/ FastPathSleep \/ UNCHANGED vars
  <2>1. /\ UNCHANGED <<rtc, app>>
        /\ power' = power \/ {power, power'} \subseteq {"asleep", "measured"}
    BY <1>2 DEF FastPathMeasure, FastPath, FastPathSleep, vars, deviceVars
  <2>2. QED
    BY <1>1, <2>1 DEF SettingsAreSaved, On
<1>3. CASE \/ LockOrUnlock \/ SensorData \/ StopTracking \/ ClearData
           \/ \E id \in Session : StartTracking(id) \/ HistoryDelete(id)
  <2>1. On /\ On'
    BY <1>3 DEF LockOrUnlock, SensorData, StopTracking, ClearData, StartTracking,
                HistoryDelete, UiActive, BleActive, On, deviceVars
  <2>2. app'.settings = app.settings /\ app'.mode = app.mode
    BY <1>1, <1>3 DEF LockOrUnlock, SensorData, StopTracking, ClearData, StartTracking,
                HistoryDelete, NotTracking, deviceVars, App
  <2>3. QED
    BY <1>1, <2>1, <2>2, SettingsOn DEF SettingsAreSaved
<1>4. CASE Shutdown \/ Reset
  <2>1. power' \in {"off", "halted"}
    BY <1>4 DEF Shutdown, Reset
  <2>2. QED
    BY <1>1, <2>1 DEF SettingsAreSaved, On
<1>5. CASE Sleep
  <2>1. On /\ power' = "asleep" /\ rtc'.mode = app.mode
    BY <1>5 DEF Sleep
  <2>2. QED
    BY <1>1, <2>1 DEF SettingsAreSaved, On
<1>6. QED
  BY <1>2, <1>3, <1>4, <1>5

LEMMA SettingsStep ==
  ASSUME SavesWork, DeviceInv, SettingsAreSaved, [Next]_vars
  PROVE  SettingsAreSaved'
<1>1. CASE PowerOn \/ WakeByButton \/ FastPathInterrupted \/ FastPathPromote
  BY <1>1, BootSettings
<1>2. CASE FactoryReset
  BY <1>2, FactoryResetSettings
<1>3. CASE \/ \E mode \in OperatingMode : ChangeMode(mode)
           \/ \E gps \in GpsMode : ApplySettingsChange(gps)
           \/ \E mode \in OperatingMode, gps \in GpsMode : BleConfigSet(mode, gps)
  BY <1>3, ChangeModeSettings, ApplySettings, BleConfigSettings
<1>4. CASE \/ FastPathMeasure \/ FastPathSleep \/ LockOrUnlock \/ SensorData
           \/ StopTracking \/ ClearData \/ Shutdown \/ Sleep \/ Reset
           \/ \E id \in Session : StartTracking(id) \/ HistoryDelete(id)
           \/ UNCHANGED vars
  BY <1>4, OtherSettings
<1>5. QED
  BY <1>1, <1>2, <1>3, <1>4 DEF Next

LEMMA SettingsInvariant ==
  ASSUME SavesWork
  PROVE  Spec => []SettingsAreSaved
<1>1. Init => SettingsAreSaved
  BY DEF Init, SettingsAreSaved, On, Defaults
<1>2. DeviceInv /\ SettingsAreSaved /\ [Next]_vars => SettingsAreSaved'
  BY SettingsStep
<1>3. QED
  BY <1>1, <1>2, DeviceInvariant, PTL DEF Spec

(* What the comment in the code says of NVS is true as long as settings    *)
(* are saved when they are applied: nothing but a refused or failed save,  *)
(* or a factory reset that fails halfway, makes it false.                  *)
THEOREM NvsIsAlwaysTheSource ==
  ASSUME SavesWork
  PROVE  Spec => []NvsIsTheSource
<1>1. SettingsAreSaved => NvsIsTheSource
  BY DEF SettingsAreSaved, NvsIsTheSource
<1>2. QED
  BY <1>1, SettingsInvariant, PTL

(* Under the same conditions the device wakes in the mode it slept in,     *)
(* although sleep saves the mode in RTC memory and wake reads it from NVS. *)
THEOREM AlwaysWakesInItsMode ==
  ASSUME SavesWork
  PROVE  Spec => WakesInItsMode
<1>1. SettingsAreSaved /\ [Next]_vars
        => [(power \in {"asleep", "measured"} /\ On') => app'.mode = rtc.mode]_vars
  <2> SUFFICES ASSUME SettingsAreSaved, Next, power \in {"asleep", "measured"}, On'
               PROVE  app'.mode = rtc.mode
    OBVIOUS
  <2>1. app'.mode = nvs.mode
    <3>1. ~On
      BY DEF On
    <3>2. CASE PowerOn \/ WakeByButton \/ FastPathInterrupted \/ FastPathPromote
      BY <3>2, BootMode
    <3>3. CASE FastPathMeasure \/ FastPathSleep \/ Reset
      BY <3>3 DEF FastPathMeasure, FastPathSleep, Reset, On
    <3>4. CASE \/ LockOrUnlock \/ SensorData \/ StopTracking \/ ClearData
               \/ FactoryReset \/ Shutdown \/ Sleep
               \/ \E id \in Session : StartTracking(id) \/ HistoryDelete(id)
               \/ \E mode \in OperatingMode : ChangeMode(mode)
               \/ \E gps \in GpsMode : ApplySettingsChange(gps)
               \/ \E mode \in OperatingMode, gps \in GpsMode : BleConfigSet(mode, gps)
      BY <3>1, <3>4 DEF LockOrUnlock, SensorData, StopTracking, ClearData, FactoryReset,
         Shutdown, Sleep, StartTracking, HistoryDelete, ChangeMode, ApplySettingsChange,
         BleConfigSet, UiActive, BleActive
    <3>5. QED
      BY <3>2, <3>3, <3>4 DEF Next
  <2>2. QED
    BY <2>1 DEF SettingsAreSaved
<1>2. QED
  BY <1>1, SettingsInvariant, PTL DEF Spec, WakesInItsMode
=============================================================================
