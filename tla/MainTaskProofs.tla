--------------------------- MODULE MainTaskProofs ---------------------------
(***************************************************************************)
(* Proofs about the main task.  UserInterface, for any values a client     *)
(* writes and any number of changes and events: the menus work on what is  *)
(* in force, and a lock hides them.  SensorScheduling, for any intervals   *)
(* and durations: a reading finds its sensor powered.                      *)
(***************************************************************************)
EXTENDS UserInterface, SensorScheduling, FiniteSetTheorems, TLAPS

-----------------------------------------------------------------------------
USE DEF UNITS, PM_DISPLAY, MEASURE_INTERVAL, GPS_MODE, MODE, AUTO_LOCK,
        CO2_CALIBRATION, CLEAR_DATA, PORTABLE, OFFLINE

-----------------------------------------------------------------------------
(* Options and values.                                                     *)

(* The seconds behind the options grow. *)
LEMMA SecondsGrow ==
  ASSUME NEW r \in DOMAIN Seconds
  PROVE  /\ r \in Settings /\ Len(Seconds[r]) = OptionCount[r] /\ OptionCount[r] \in Nat \ {0}
         /\ \A i, j \in 1 .. OptionCount[r] : Seconds[r][i] < Seconds[r][j] <=> i < j
<1>1. CASE r = MEASURE_INTERVAL
  BY <1>1 DEF Seconds, OptionCount, Settings
<1>2. CASE r = AUTO_LOCK
  BY <1>2 DEF Seconds, OptionCount, Settings
<1>3. QED
  BY <1>1, <1>2 DEF Seconds

LEMMA CountUpTo ==
  ASSUME NEW n \in Nat
  PROVE  IsFiniteSet(1 .. n) /\ Cardinality(1 .. n) = n
<1>1. 1 \in Int /\ n \in Int
  OBVIOUS
<1>2. /\ IsFiniteSet(1 .. n)
      /\ Cardinality(1 .. n) = IF 1 > n THEN 0 ELSE n - 1 + 1
  BY <1>1, FS_Interval, Zenon
<1>3. (IF 1 > n THEN 0 ELSE n - 1 + 1) = n
  OBVIOUS
<1>4. QED
  BY <1>2, <1>3

(* The options of a stored time that are shorter than it are counted. *)
Shorter(r, v) == {i \in 1 .. Len(Seconds[r]) - 1 : Seconds[r][i] < v}

LEMMA OptionIsCount ==
  ASSUME NEW r \in DOMAIN Seconds, NEW v
  PROVE  OptionOf(r, v) \in 0 .. OptionCount[r] - 1
<1>1. OptionCount[r] \in Nat \ {0} /\ Len(Seconds[r]) = OptionCount[r]
  BY SecondsGrow
<1>2. /\ IsFiniteSet(1 .. OptionCount[r] - 1)
      /\ Cardinality(1 .. OptionCount[r] - 1) = OptionCount[r] - 1
  <2>1. OptionCount[r] - 1 \in Nat
    BY <1>1
  <2>2. QED
    BY <2>1, CountUpTo
<1>3. Shorter(r, v) \subseteq 1 .. OptionCount[r] - 1
  BY <1>1 DEF Shorter
<1>4. /\ IsFiniteSet(Shorter(r, v))
      /\ Cardinality(Shorter(r, v)) <= OptionCount[r] - 1
  BY <1>2, <1>3, FS_Subset
<1>5. Cardinality(Shorter(r, v)) \in Nat
  BY <1>4, FS_CardinalityType
<1>6. OptionOf(r, v) = Cardinality(Shorter(r, v))
  BY DEF OptionOf, Shorter
<1>7. QED
  BY <1>1, <1>4, <1>5, <1>6

(* Reading back what an option wrote gives the option. *)
LEMMA OptionReadsBack ==
  ASSUME NEW r \in Settings, NEW o,
         r \in DOMAIN Seconds => o \in 0 .. OptionCount[r] - 1
  PROVE  OptionOf(r, ValueOf(r, o)) = o
<1>1. CASE r \notin DOMAIN Seconds
  BY <1>1 DEF OptionOf, ValueOf
<1>2. CASE r \in DOMAIN Seconds
  <2>1. /\ OptionCount[r] \in Nat \ {0} /\ Len(Seconds[r]) = OptionCount[r]
        /\ \A i, j \in 1 .. OptionCount[r] : Seconds[r][i] < Seconds[r][j] <=> i < j
    BY <1>2, SecondsGrow
  <2>2. o \in Nat /\ o + 1 \in 1 .. OptionCount[r]
    BY <1>2, <2>1
  <2>3. Shorter(r, Seconds[r][o + 1]) = 1 .. o
    BY <2>1, <2>2 DEF Shorter
  <2>4. Cardinality(1 .. o) = o
    BY <2>2, CountUpTo
  <2>5. QED
    BY <1>2, <2>3, <2>4 DEF OptionOf, ValueOf, Shorter
<1>3. QED
  BY <1>1, <1>2

-----------------------------------------------------------------------------
(* The menu's copy.                                                        *)

HasAllSettings == settings = [r \in Settings |-> settings[r]]

(* A choice that is open is one of a setting; of those stored as a time,   *)
(* the cursor is on an option or above them.                               *)
PointsAtOption ==
  screen = "SettingsChoice" =>
    /\ row \in Settings
    /\ row \in DOMAIN Seconds => cursor \in 0 .. OptionCount[row] + 1

MenuInv == HasAllSettings /\ MirrorsSettings /\ PointsAtOption

LEMMA TimedCounts ==
  DOMAIN Seconds \subseteq Settings /\ \A r \in DOMAIN Seconds : OptionCount[r] \in {4, 7}
  BY DEF Seconds, OptionCount, Settings

LEMMA InitMenu == Init => MenuInv
<1>1. Defaults = [r \in Settings |-> Defaults[r]]
  BY DEF Defaults
<1>2. QED
  BY <1>1 DEF Init, MenuInv, HasAllSettings, MirrorsSettings, PointsAtOption

LEMMA MoveStaysOnOptions ==
  ASSUME MenuInv, Move
  PROVE  PointsAtOption'
<1>1. SUFFICES ASSUME screen = "SettingsChoice", row \in DOMAIN Seconds
               PROVE  cursor' \in 0 .. OptionCount[row] + 1
  BY DEF Move, MenuInv, PointsAtOption
<1>2. PICK d \in {-1, 1} : cursor' = (cursor + d) % (2 + OptionCount[row])
  BY <1>1 DEF Move, Rows
<1>3. cursor \in Int
  BY <1>1, TimedCounts DEF MenuInv, PointsAtOption
<1>4. CASE OptionCount[row] = 4
  BY <1>2, <1>3, <1>4
<1>5. CASE OptionCount[row] = 7
  BY <1>2, <1>3, <1>5
<1>6. QED
  BY <1>1, <1>4, <1>5, TimedCounts

LEMMA ChoosingKeepsMirror ==
  ASSUME MenuInv, Choose
  PROVE  MenuInv'
<1>1. /\ screen = "SettingsChoice" /\ screen' = "Settings"
      /\ options' = [options EXCEPT ![row] = cursor - 2]
      /\ settings' = IF row = MODE THEN [settings EXCEPT ![MODE] = cursor - 2]
                                   ELSE ValuesOf(options')
  BY DEF Choose, Show
<1>2. /\ row \in Settings
      /\ row \in DOMAIN Seconds => cursor - 2 \in 0 .. OptionCount[row] - 1
  <2>1. cursor >= 2
    BY DEF Choose
  <2>2. QED
    BY <1>1, <2>1, TimedCounts DEF MenuInv, PointsAtOption
<1>3. \A r \in Settings : options[r] = OptionOf(r, settings[r])
  BY DEF MenuInv, MirrorsSettings, OptionsOf
<1>4. /\ options' = [r \in Settings |-> options'[r]]
      /\ \A r \in Settings : options'[r] = IF r = row THEN cursor - 2 ELSE options[r]
  BY <1>1, <1>2 DEF MenuInv, MirrorsSettings, OptionsOf
<1>5. CASE row = MODE
  <2>1. /\ HasAllSettings'
        /\ \A r \in Settings : settings'[r] = IF r = MODE THEN cursor - 2 ELSE settings[r]
    BY <1>1, <1>5 DEF MenuInv, HasAllSettings, Settings
  <2>2. MODE \notin DOMAIN Seconds
    BY DEF Seconds
  <2>3. \A r \in Settings : OptionOf(r, settings'[r]) = options'[r]
    BY <1>3, <1>4, <1>5, <2>1, <2>2 DEF OptionOf
  <2>4. MirrorsSettings'
    BY <1>4, <2>3 DEF MirrorsSettings, OptionsOf
  <2>5. QED
    BY <1>1, <2>1, <2>4 DEF MenuInv, PointsAtOption
<1>6. CASE row # MODE
  <2>1. /\ HasAllSettings'
        /\ \A r \in Settings : settings'[r] = ValueOf(r, options'[r])
    BY <1>1, <1>6 DEF HasAllSettings, ValuesOf
  <2>2. \A r \in Settings : r \in DOMAIN Seconds => options'[r] \in 0 .. OptionCount[r] - 1
    BY <1>2, <1>3, <1>4, OptionIsCount
  <2>3. \A r \in Settings : OptionOf(r, settings'[r]) = options'[r]
    BY <2>1, <2>2, OptionReadsBack
  <2>4. MirrorsSettings'
    BY <1>4, <2>3 DEF MirrorsSettings, OptionsOf
  <2>5. QED
    BY <1>1, <2>1, <2>4 DEF MenuInv, PointsAtOption
<1>7. QED
  BY <1>5, <1>6

(* A choice is opened with the cursor on the option in force. *)
LEMMA OpeningPointsAtOption ==
  ASSUME MenuInv, EnterSettings
  PROVE  PointsAtOption'
<1>1. SUFFICES ASSUME screen' = "SettingsChoice"
               PROVE  /\ row' \in Settings
                      /\ row' \in DOMAIN Seconds => cursor' \in 0 .. OptionCount[row'] + 1
  BY DEF PointsAtOption
<1>2. row' = cursor /\ cursor' = 2 + options[cursor] /\ cursor \in Settings
  BY <1>1 DEF EnterSettings, Show, GoHome
<1>3. cursor \in DOMAIN Seconds => options[cursor] \in 0 .. OptionCount[cursor] - 1
  BY <1>2, OptionIsCount DEF MenuInv, MirrorsSettings, OptionsOf
<1>4. QED
  BY <1>2, <1>3, TimedCounts

(* The steps that change no setting. *)
LEMMA SameSettings ==
  ASSUME MenuInv, UNCHANGED <<options, settings>>, PointsAtOption'
  PROVE  MenuInv'
  BY DEF MenuInv, HasAllSettings, MirrorsSettings

LEMMA ElsewhereOrStill ==
  ASSUME MenuInv, screen' # "SettingsChoice" \/ UNCHANGED uiVars
  PROVE  PointsAtOption'
  BY DEF MenuInv, PointsAtOption, uiVars

LEMMA InputKeepsMenu ==
  ASSUME MenuInv, Input \/ Inactive
  PROVE  MenuInv'
<1>1. CASE Move
  BY <1>1, MoveStaysOnOptions, SameSettings DEF Move, NoAction
<1>2. CASE EnterSettings
  BY <1>2, OpeningPointsAtOption, SameSettings DEF EnterSettings, NoAction
<1>3. CASE Choose
  BY <1>3, ChoosingKeepsMirror
<1>4. CASE FactoryReset
  <2>1. CASE Start(Defaults)
    BY <2>1 DEF Start, Defaults, MenuInv, HasAllSettings, MirrorsSettings, PointsAtOption
  <2>2. CASE UNCHANGED <<uiVars, options, settings>>
    BY <2>2, ElsewhereOrStill, SameSettings
  <2>3. QED
    BY <1>4, <2>1, <2>2 DEF FactoryReset
<1>5. CASE Browse \/ OpenMainMenu \/ EnterMainMenu
  <2>1. UNCHANGED <<options, settings>> /\ screen' # "SettingsChoice"
    BY <1>5 DEF Browse, OpenMainMenu, EnterMainMenu, NoAction, Show, GoHome
  <2>2. QED
    BY <2>1, ElsewhereOrStill, SameSettings
<1>6. CASE LeaveChoice \/ EnterAbout \/ EnterConfirm
  <2>1. /\ UNCHANGED <<options, settings>>
        /\ screen' # "SettingsChoice" \/ UNCHANGED uiVars
    BY <1>6 DEF LeaveChoice, EnterAbout, EnterConfirm, NoAction, Show, GoHome
  <2>2. QED
    BY <2>1, ElsewhereOrStill, SameSettings
<1>7. CASE Ignored \/ PowerPressed \/ Shutdown \/ Inactive
  <2>1. /\ UNCHANGED <<options, settings>>
        /\ screen' # "SettingsChoice" \/ UNCHANGED uiVars
    BY <1>7 DEF Ignored, PowerPressed, Shutdown, Inactive, Lock, NoAction, Show, ResetToHome
  <2>2. QED
    BY <2>1, ElsewhereOrStill, SameSettings
<1>8. QED
  BY <1>1, <1>2, <1>3, <1>4, <1>5, <1>6, <1>7 DEF Input

LEMMA EventKeepsMenu ==
  ASSUME MenuInv, Event
  PROVE  MenuInv'
<1>1. CASE Dismiss \/ OnPairingRequest \/ OnCommand
  <2>1. /\ UNCHANGED <<options, settings>>
        /\ screen' # "SettingsChoice" \/ UNCHANGED uiVars
    BY <1>1 DEF Dismiss, OnPairingRequest, OnCommand, NoAction, Show, ResetToHome
  <2>2. QED
    BY <2>1, ElsewhereOrStill, SameSettings
<1>2. CASE OnConfigSet
  <2>1. PICK r \in Settings, v \in UNION {ClientValues[s] : s \in Settings} :
            /\ settings' = [settings EXCEPT ![r] = v]
            /\ options' = OptionsOf(settings')
    BY <1>2 DEF OnConfigSet
  <2>2. HasAllSettings'
    BY <2>1 DEF MenuInv, HasAllSettings
  <2>3. PointsAtOption'
    BY <1>2, ElsewhereOrStill DEF OnConfigSet
  <2>4. QED
    BY <2>1, <2>2, <2>3 DEF MenuInv, MirrorsSettings
<1>3. QED
  BY <1>1, <1>2 DEF Event

LEMMA MenuStep ==
  ASSUME MenuInv, [Next]_vars
  PROVE  MenuInv'
<1>1. CASE Background \/ Phone \/ UNCHANGED vars
  <2>1. UNCHANGED <<uiVars, options, settings>>
    BY <1>1 DEF Background, Phone, Connect, Pair, PairingEnds, Disconnect, Write,
                PhoneActs, vars
  <2>2. QED
    BY <2>1, ElsewhereOrStill, SameSettings
<1>2. CASE Boot
  BY <1>2 DEF Boot, Start, MenuInv, HasAllSettings, MirrorsSettings, PointsAtOption
<1>3. QED
  BY <1>1, <1>2, InputKeepsMenu, EventKeepsMenu DEF Next

LEMMA AlwaysMenuInv == Spec => []MenuInv
  BY InitMenu, MenuStep, PTL DEF Spec

(* The options of the menus are those of the settings in force, whatever   *)
(* values a client writes, and however often they are changed.             *)
THEOREM MenuMirrorsSettings == Spec => []MirrorsSettings
<1>1. MenuInv => MirrorsSettings
  BY DEF MenuInv
<1>2. QED
  BY <1>1, AlwaysMenuInv, PTL

(* A choice writes all the settings and leaves the others at their option: *)
(* the menu's copy mirrors the settings before the step and after it.      *)
THEOREM ChoiceKeepsOthers == Spec => OthersKeepOption
<1>1. ASSUME MenuInv, MenuInv', Choose
      PROVE  \A r \in Settings \ {row} : OptionOf(r, settings'[r]) = OptionOf(r, settings[r])
  <2>1. TAKE r \in Settings \ {row}
  <2>2. options'[r] = options[r]
    BY <1>1 DEF Choose, MenuInv, MirrorsSettings, OptionsOf
  <2>3. options[r] = OptionOf(r, settings[r]) /\ options'[r] = OptionOf(r, settings'[r])
    BY <1>1 DEF MenuInv, MirrorsSettings, OptionsOf
  <2>4. QED
    BY <2>2, <2>3
<1>2. QED
  BY <1>1, AlwaysMenuInv, PTL DEF OthersKeepOption

-----------------------------------------------------------------------------
(* Tracking and lock.                                                      *)

(* The menu with the tracking entry is open only while the cached state is *)
(* that of the Orchestrator.                                               *)
THEOREM TrackingEntryIsTrue == Spec => []MenuTellsTruth
<1>1. Init => MenuTellsTruth
  BY DEF Init, MenuTellsTruth
<1>2. ASSUME MenuTellsTruth, [Next]_vars
      PROVE  MenuTellsTruth'
  <2>1. CASE Input \/ Inactive
    BY <1>2, <2>1
       DEF Input, Inactive, Browse, OpenMainMenu, Move, EnterMainMenu, EnterSettings,
           LeaveChoice, Choose, EnterAbout, EnterConfirm, Ignored, PowerPressed, Lock,
           Shutdown, FactoryReset, Start, NoAction, UpdateDisplay, StopTracking,
           SetTracking, Show, GoHome, ResetToHome, MenuTellsTruth, uiVars
  <2>2. CASE Event
    BY <1>2, <2>2
       DEF Event, Dismiss, OnPairingRequest, OnConfigSet, OnCommand, NoAction,
           UpdateDisplay, BackgroundUpdate, StopTracking, Show, ResetToHome,
           MenuTellsTruth, MenuScreens, uiVars
  <2>3. CASE Background \/ Boot
    BY <1>2, <2>3 DEF Background, Boot, Start, BackgroundUpdate, MenuTellsTruth,
                      MenuScreens, Show, uiVars
  <2>4. CASE Phone \/ UNCHANGED vars
    BY <1>2, <2>4 DEF Phone, Connect, Pair, PairingEnds, Disconnect, Write, PhoneActs,
                      MenuTellsTruth, vars, uiVars
  <2>5. QED
    BY <1>2, <2>1, <2>2, <2>3, <2>4 DEF Next
<1>3. QED
  BY <1>1, <1>2, PTL DEF Spec

(* A locked device is on no menu screen and has no metric selected.        *)
THEOREM LockHidesMenus == Spec => []LockedHidesMenus
<1>1. Init => LockedHidesMenus
  BY DEF Init, LockedHidesMenus, MenuScreens
<1>2. ASSUME LockedHidesMenus, [Next]_vars
      PROVE  LockedHidesMenus'
  <2>1. CASE ~locked /\ ~locked'
    BY <2>1 DEF LockedHidesMenus
  <2>2. CASE locked /\ (Input \/ Inactive)
    BY <1>2, <2>2
       DEF Input, Inactive, Touch, Browse, OpenMainMenu, Move, EnterMainMenu, EnterSettings,
           LeaveChoice, Choose, EnterAbout, EnterConfirm, Ignored, PowerPressed, Lock,
           Shutdown, FactoryReset, Start, Show, LockedHidesMenus, MenuScreens, uiVars
  <2>3. CASE ~locked /\ locked' /\ (Input \/ Inactive \/ Boot)
    BY <2>3
       DEF Input, Inactive, Browse, OpenMainMenu, Move, EnterMainMenu, EnterSettings,
           LeaveChoice, Choose, EnterAbout, EnterConfirm, Ignored, PowerPressed, Lock,
           Shutdown, FactoryReset, Boot, Start, Show, ResetToHome, Kept, LockedHidesMenus,
           MenuScreens
  <2>4. CASE locked /\ Event
    BY <1>2, <2>4
       DEF Event, Dismiss, OnPairingRequest, OnConfigSet, OnCommand, Show, ResetToHome,
           LockedHidesMenus, MenuScreens, uiVars
  <2>5. CASE locked /\ (Background \/ Boot)
    BY <1>2, <2>5 DEF Background, Boot, Start, Show, LockedHidesMenus, MenuScreens, uiVars
  <2>6. CASE UNCHANGED locked /\ (Phone \/ UNCHANGED vars)
    BY <1>2, <2>6 DEF Phone, Connect, Pair, PairingEnds, Disconnect, Write, PhoneActs,
                      LockedHidesMenus, vars, uiVars
  <2>7. Phone \/ Event \/ Background \/ UNCHANGED vars => UNCHANGED locked
    BY DEF Phone, Connect, Pair, PairingEnds, Disconnect, Write, PhoneActs, Event, Dismiss,
           OnPairingRequest, OnConfigSet, OnCommand, Background, Kept, vars
  <2>8. QED
    BY <1>2, <2>1, <2>2, <2>3, <2>4, <2>5, <2>6, <2>7 DEF Next
<1>3. QED
  BY <1>1, <1>2, PTL DEF Spec

-----------------------------------------------------------------------------
(* The schedule of the sensors.                                            *)

(* Every interval at which the PM sensor rests leaves room for the warmup  *)
(* after a boot, a reading, and the warmup before the next one.            *)
RoomToRest == \A i \in Interval : i >= Threshold => 2 * Warmup + ReadMax < i

NoCalibration ==
  /\ slot # "calibrate" /\ job # "calibrate"
  /\ \A k \in 1 .. Len(results) : results[k] = "data"

(* Where the cycle is when something of it is still to be done. *)
Timely ==
  /\ IsWarmup => worked <= Warmup
  /\ job = "measure" => since <= Warmup + worked /\ worked <= ReadMax
  /\ slot = "measure" /\ IsWarmup => since <= worked
  /\ slot = "measure" /\ job = "none" => since <= Warmup
  /\ results # <<>> => since <= Warmup + ReadMax
  /\ prepareSent => since + Warmup >= interval

(* A measurement is asked for, under way or answered: only one of these. *)
OneReading ==
  /\ ~(slot = "measure" /\ job = "measure")
  /\ results # <<>> => slot # "measure" /\ job # "measure" /\ Len(results) = 1

Powered ==
  /\ ~Eligible => pm # "off"
  /\ slot = "measure" \/ job = "measure" \/ prepareSent => pm # "off"

Cycle ==
  /\ NoCalibration
  /\ interval >= Threshold => Timely /\ OneReading
  /\ Powered

ScheduleInv == ScheduleTypeOK /\ (RoomToRest /\ Undisturbed => Cycle)

LEMMA Counts ==
  ASSUME ScheduleTypeOK
  PROVE  /\ interval \in Nat /\ since \in Nat /\ since <= interval /\ worked \in Nat
         /\ Warmup \in Nat /\ ReadMax \in Nat /\ Threshold \in Nat
         /\ results \in Seq({"data", "calibrated"})
BY IntervalAssumption, DurationAssumption DEF ScheduleTypeOK

LEMMA Room ==
  ASSUME ScheduleTypeOK, RoomToRest, interval >= Threshold
  PROVE  Warmup + Warmup + ReadMax < interval
BY Counts DEF ScheduleTypeOK, RoomToRest

(* What the user may do, and what it does to the promise. *)
LEMMA MayType ==
  ASSUME ScheduleTypeOK, NEW kind \in ChangeKinds, May(kind)
  PROVE  /\ userChanges' \in [ChangeKinds -> 0 .. MaxUserChanges]
         /\ Undisturbed' => Undisturbed /\ kind \notin {"interval", "calibrate"}
<1>1. /\ userChanges \in [ChangeKinds -> 0 .. MaxUserChanges]
      /\ userChanges[kind] < MaxUserChanges
      /\ userChanges' = [userChanges EXCEPT ![kind] = userChanges[kind] + 1]
  BY DEF May, ScheduleTypeOK
<1>2. userChanges[kind] + 1 \in 0 .. MaxUserChanges /\ userChanges[kind] + 1 # 0
  BY <1>1, ChangeAssumption
<1>3. /\ userChanges'[kind] = userChanges[kind] + 1
      /\ \A k \in ChangeKinds \ {kind} : userChanges'[k] = userChanges[k]
  BY <1>1
<1>4. QED
  BY <1>1, <1>2, <1>3 DEF Undisturbed, ChangeKinds

LEMMA PoweredOnType == ASSUME ScheduleTypeOK PROVE PoweredOn \in {"cold", "warm"}
BY DEF PoweredOn, ScheduleTypeOK

LEMMA CheckTimersInv ==
  ASSUME ScheduleInv, CheckTimers
  PROVE  ScheduleInv'
<1>1. /\ PreWakeDue \/ MeasureDue
      /\ pm' = (IF PreWakeDue THEN PoweredOn ELSE pm)
      /\ slot' = (IF MeasureDue THEN "measure" ELSE "prepare")
      /\ prepareSent' = ((prepareSent \/ PreWakeDue) /\ ~MeasureDue)
      /\ since' = (IF MeasureDue THEN 0 ELSE since)
      /\ UNCHANGED <<offline, interval, calibrating, userChanges, job, worked, results>>
  BY DEF CheckTimers, PrepareSentAfter, producerVars
<1>2. ScheduleTypeOK /\ since' \in 0 .. interval'
  BY <1>1, Counts DEF ScheduleInv
<1>3. ScheduleTypeOK'
  BY <1>1, <1>2, PoweredOnType DEF ScheduleTypeOK, Request
<1>4. ASSUME RoomToRest, Undisturbed' PROVE Cycle'
  <2>1. Undisturbed /\ Cycle
    BY <1>1, <1>4 DEF Undisturbed, ScheduleInv
  <2>2. NoCalibration'
    BY <1>1, <2>1 DEF Cycle, NoCalibration
  <2>3. CASE interval < Threshold
    <3>1. ~Eligible /\ ~Eligible' /\ ~PreWakeDue /\ pm # "off"
      BY <1>1, <1>2, <2>1, <2>3, Counts DEF Eligible, EligibleAt, PreWakeDue, Cycle, Powered
    <3>2. QED
      BY <1>1, <1>2, <2>2, <2>3, <3>1, Counts DEF Cycle, Powered
  <2>4. CASE interval >= Threshold
    <3>1. Timely /\ OneReading /\ Powered /\ Warmup + Warmup + ReadMax < interval
      BY <1>2, <1>4, <2>1, <2>4, Room DEF Cycle
    <3>2. CASE MeasureDue
      <4>1. since >= interval /\ slot' = "measure" /\ since' = 0 /\ ~prepareSent'
        BY <1>1, <3>2 DEF MeasureDue
      <4>2. job # "measure" /\ results = <<>>
        BY <1>2, <3>1, <4>1, Counts DEF Timely
      <4>3. pm' # "off"
        BY <1>1, <1>2, <3>1, <4>1, PoweredOnType, Counts DEF PreWakeDue, Powered
      <4>4. Timely'
        BY <1>1, <1>2, <3>1, <4>1, <4>2, Counts DEF Timely, IsWarmup
      <4>5. OneReading' /\ Powered'
        BY <1>1, <4>2, <4>3 DEF OneReading, Powered
      <4>6. QED
        BY <2>2, <4>4, <4>5 DEF Cycle
    <3>3. CASE ~MeasureDue
      <4>1. PreWakeDue /\ slot' = "prepare" /\ since' = since /\ since + Warmup >= interval
        BY <1>1, <3>3 DEF PreWakeDue
      <4>2. pm' # "off"
        BY <1>1, <1>2, <4>1, PoweredOnType
      <4>3. Timely'
        BY <1>1, <3>1, <4>1 DEF Timely, IsWarmup
      <4>4. OneReading' /\ Powered'
        BY <1>1, <3>1, <4>1, <4>2 DEF OneReading, Powered
      <4>5. QED
        BY <2>2, <4>3, <4>4 DEF Cycle
    <3>4. QED
      BY <3>2, <3>3
  <2>5. QED
    BY <1>2, <2>3, <2>4, Counts
<1>5. QED
  BY <1>3, <1>4 DEF ScheduleInv

LEMMA HandleEventInv ==
  ASSUME ScheduleInv, HandleEvent
  PROVE  ScheduleInv'
<1>1. /\ results # <<>> /\ results' = Tail(results)
      /\ pm' = (IF Head(results) = "data" THEN AfterData ELSE pm)
      /\ calibrating' \in {calibrating, FALSE}
      /\ UNCHANGED <<offline, interval, since, prepareSent, userChanges, job, worked, slot>>
  BY DEF HandleEvent, producerVars
<1>2. ScheduleTypeOK /\ results' \in Seq({"data", "calibrated"})
  BY <1>1, Counts DEF ScheduleInv
<1>3. ScheduleTypeOK'
  BY <1>1, <1>2 DEF ScheduleTypeOK, AfterData
<1>4. ASSUME RoomToRest, Undisturbed' PROVE Cycle'
  <2>1. Undisturbed /\ Cycle
    BY <1>1, <1>4 DEF Undisturbed, ScheduleInv
  <2>2. /\ Head(results) = "data" /\ Len(results') = Len(results) - 1
        /\ \A k \in 1 .. Len(results') : results'[k] = results[k + 1]
    BY <1>1, <1>2, <2>1, Counts DEF Cycle, NoCalibration
  <2>3. NoCalibration'
    BY <1>1, <1>2, <2>1, <2>2, Counts DEF Cycle, NoCalibration
  <2>4. Eligible' = Eligible
    BY <1>1 DEF Eligible, EligibleAt
  <2>5. interval >= Threshold => Timely' /\ OneReading'
    <3> SUFFICES ASSUME interval >= Threshold
                 PROVE  Timely' /\ OneReading'
      OBVIOUS
    <3>1. results' = <<>>
      BY <1>1, <1>2, <2>1, <2>2, Counts DEF Cycle, OneReading
    <3>2. QED
      BY <1>1, <2>1, <3>1 DEF Cycle, Timely, OneReading, IsWarmup
  <2>6. Powered'
    <3>1. CASE ~Eligible
      BY <1>1, <2>1, <2>2, <2>4, <3>1 DEF AfterData, Cycle, Powered
    <3>2. CASE Eligible
      <4>1. interval >= Threshold
        BY <3>2 DEF Eligible, EligibleAt
      <4>2. slot # "measure" /\ job # "measure" /\ ~prepareSent
        BY <1>1, <1>2, <1>4, <2>1, <4>1, Room, Counts DEF Cycle, Timely, OneReading
      <4>3. QED
        BY <1>1, <2>4, <3>2, <4>2 DEF Powered
    <3>3. QED
      BY <3>1, <3>2
  <2>7. QED
    BY <1>1, <2>3, <2>5, <2>6 DEF Cycle
<1>5. QED
  BY <1>3, <1>4 DEF ScheduleInv

LEMMA TickInv ==
  ASSUME ScheduleInv, Tick
  PROVE  ScheduleInv'
<1>1. /\ results = <<>> /\ ~PreWakeDue /\ ~MeasureDue /\ ProducerMayWait
      /\ since' = since + 1 /\ worked' = (IF job = "none" THEN worked ELSE worked + 1)
      /\ UNCHANGED <<offline, interval, prepareSent, calibrating, userChanges,
                     pm, slot, job, results>>
  BY DEF Tick, MainIdle
<1>2. ScheduleTypeOK /\ since' \in 0 .. interval /\ worked' \in Nat
  BY <1>1, Counts DEF ScheduleInv, MeasureDue
<1>3. ScheduleTypeOK'
  BY <1>1, <1>2 DEF ScheduleTypeOK
<1>4. ASSUME RoomToRest, Undisturbed' PROVE Cycle'
  <2>1. Undisturbed /\ Cycle
    BY <1>1, <1>4 DEF Undisturbed, ScheduleInv
  <2>2. /\ job = "none" => slot = "none"
        /\ IsWarmup => worked < Warmup
        /\ job = "measure" => worked < ReadMax
    BY <1>1, <1>2 DEF ProducerMayWait, IsWarmup
  <2>3. interval >= Threshold => Timely'
    BY <1>1, <1>2, <2>1, <2>2, Counts DEF Cycle, Timely, IsWarmup
  <2>4. QED
    BY <1>1, <2>1, <2>3 DEF Cycle, NoCalibration, OneReading, Powered, Eligible, EligibleAt
<1>5. QED
  BY <1>3, <1>4 DEF ScheduleInv

LEMMA TakeRequestInv ==
  ASSUME ScheduleInv, TakeRequest
  PROVE  ScheduleInv'
<1>1. /\ job = "none" /\ slot # "none" /\ job' = slot /\ slot' = "none" /\ worked' = 0
      /\ UNCHANGED <<offline, interval, since, prepareSent, calibrating, userChanges,
                     pm, results>>
  BY DEF TakeRequest, mainVars
<1>2. ScheduleTypeOK
  BY DEF ScheduleInv
<1>3. ScheduleTypeOK'
  BY <1>1, <1>2 DEF ScheduleTypeOK
<1>4. ASSUME RoomToRest, Undisturbed' PROVE Cycle'
  <2>1. Undisturbed /\ Cycle
    BY <1>1, <1>4 DEF Undisturbed, ScheduleInv
  <2>2. interval >= Threshold => Timely'
    BY <1>1, <1>2, <2>1, Counts DEF Cycle, Timely, IsWarmup
  <2>3. QED
    BY <1>1, <2>1, <2>2 DEF Cycle, NoCalibration, OneReading, Powered, Eligible, EligibleAt
<1>5. QED
  BY <1>3, <1>4 DEF ScheduleInv

LEMMA FinishJobInv ==
  ASSUME ScheduleInv, FinishJob
  PROVE  ScheduleInv'
<1>1. /\ job # "none" /\ (IsWarmup => worked >= Warmup)
      /\ pm' = AfterJob /\ results' = EventsAfterJob /\ job' = "none" /\ worked' = 0
      /\ UNCHANGED <<offline, interval, since, prepareSent, calibrating, userChanges, slot>>
  BY DEF FinishJob, WorkDone, mainVars
<1>2. ScheduleTypeOK /\ results' \in Seq({"data", "calibrated"})
  BY <1>1, Counts DEF ScheduleInv, EventsAfterJob
<1>3. ScheduleTypeOK'
  BY <1>1, <1>2 DEF ScheduleTypeOK, AfterJob
<1>4. ASSUME RoomToRest, Undisturbed' PROVE Cycle'
  <2>1. Undisturbed /\ Cycle
    BY <1>1, <1>4 DEF Undisturbed, ScheduleInv
  <2>2. pm' = "off" <=> pm = "off"
    BY <1>1 DEF AfterJob
  <2>3. Eligible' = Eligible /\ Powered'
    BY <1>1, <2>1, <2>2 DEF Cycle, Powered, Eligible, EligibleAt
  <2>4. CASE IsWarmup
    <3>1. results' = results /\ job # "measure"
      BY <1>1, <2>4 DEF EventsAfterJob, IsWarmup
    <3>2. interval >= Threshold => Timely' /\ OneReading'
      BY <1>1, <1>2, <2>1, <2>4, <3>1, Counts DEF Cycle, Timely, OneReading, IsWarmup
    <3>3. QED
      BY <1>1, <2>1, <2>3, <3>1, <3>2 DEF Cycle, NoCalibration
  <2>5. CASE job = "measure"
    <3>1. /\ results' = Append(results, "data") /\ Len(results') = Len(results) + 1
          /\ \A k \in 1 .. Len(results) : results'[k] = results[k]
          /\ results'[Len(results) + 1] = "data"
      BY <1>1, <1>2, <2>5, Counts DEF EventsAfterJob
    <3>2. NoCalibration'
      BY <1>1, <1>2, <2>1, <3>1, Counts DEF Cycle, NoCalibration
    <3>3. ASSUME interval >= Threshold PROVE Timely' /\ OneReading'
      <4>1. results = <<>> /\ slot # "measure" /\ since <= Warmup + ReadMax
        BY <1>2, <2>1, <2>5, <3>3, Counts DEF Cycle, Timely, OneReading
      <4>2. Len(results') = 1
        BY <3>1, <4>1
      <4>3. QED
        BY <1>1, <2>1, <3>3, <4>1, <4>2 DEF Cycle, Timely, OneReading, IsWarmup
    <3>4. QED
      BY <1>1, <2>3, <3>2, <3>3 DEF Cycle
  <2>6. QED
    BY <1>1, <1>2, <2>1, <2>4, <2>5 DEF ScheduleTypeOK, Request, IsWarmup, Cycle, NoCalibration
<1>5. QED
  BY <1>3, <1>4 DEF ScheduleInv

LEMMA ChangeModeInv ==
  ASSUME ScheduleInv, ChangeMode
  PROVE  ScheduleInv'
<1>1. /\ May("mode") /\ offline' = ~offline /\ pm' = PoweredOn
      /\ UNCHANGED <<interval, since, prepareSent, calibrating, job, worked, slot, results>>
  BY DEF ChangeMode, AfterModeChange, producerVars
<1>2. ScheduleTypeOK /\ "mode" \in ChangeKinds
  BY DEF ScheduleInv, ChangeKinds
<1>3. ScheduleTypeOK'
  BY <1>1, <1>2, MayType, PoweredOnType DEF ScheduleTypeOK
<1>4. ASSUME RoomToRest, Undisturbed' PROVE Cycle'
  <2>1. Undisturbed /\ Cycle
    BY <1>1, <1>2, <1>4, MayType DEF ScheduleInv
  <2>2. pm' # "off"
    BY <1>1, <1>2, PoweredOnType
  <2>3. QED
    BY <1>1, <2>1, <2>2 DEF Cycle, NoCalibration, Timely, OneReading, Powered, IsWarmup
<1>5. QED
  BY <1>3, <1>4 DEF ScheduleInv

LEMMA SleepAndWakeInv ==
  ASSUME ScheduleInv, SleepAndWake
  PROVE  ScheduleInv'
<1>1. /\ May("sleep") /\ since' = 0 /\ prepareSent' = FALSE /\ pm' = "cold"
      /\ slot' \in {"none", "measure"} /\ job' = "boot" /\ worked' = 0
      /\ results' = <<>> /\ calibrating' = FALSE /\ UNCHANGED <<offline, interval>>
  BY DEF SleepAndWake
<1>2. /\ ScheduleTypeOK /\ "sleep" \in ChangeKinds
      /\ since' \in 0 .. interval /\ <<>> \in Seq({"data", "calibrated"})
  BY <1>1, Counts DEF ScheduleInv, ChangeKinds
<1>3. ScheduleTypeOK'
  BY <1>1, <1>2, MayType DEF ScheduleTypeOK, Request
<1>4. Cycle'
  BY <1>1, <1>2, Counts DEF Cycle, NoCalibration, Timely, OneReading, Powered, IsWarmup
<1>5. QED
  BY <1>3, <1>4 DEF ScheduleInv

(* What the promise leaves out still keeps the types. *)
LEMMA CalibrateInv ==
  ASSUME ScheduleInv, Calibrate
  PROVE  ScheduleInv'
<1>1. /\ May("calibrate") /\ slot' = "calibrate" /\ calibrating' = TRUE
      /\ UNCHANGED <<offline, interval, since, prepareSent, job, worked, pm, results>>
  BY DEF Calibrate, producerVars
<1>2. ScheduleTypeOK /\ "calibrate" \in ChangeKinds
  BY DEF ScheduleInv, ChangeKinds
<1>3. ScheduleTypeOK'
  BY <1>1, <1>2, MayType DEF ScheduleTypeOK, Request
<1>4. ~Undisturbed'
  BY <1>1, <1>2, MayType
<1>5. QED
  BY <1>3, <1>4 DEF ScheduleInv

LEMMA ChangeIntervalInv ==
  ASSUME ScheduleInv, NEW i \in Interval, ChangeInterval(i)
  PROVE  ScheduleInv'
<1>1. /\ May("interval") /\ interval' = i /\ since' = 0
      /\ pm' = (IF EligibleAt(offline, i) THEN "off" ELSE PoweredOn)
      /\ UNCHANGED <<offline, prepareSent, calibrating, job, worked, slot, results>>
  BY DEF ChangeInterval, producerVars
<1>2. ScheduleTypeOK /\ "interval" \in ChangeKinds /\ since' \in 0 .. interval'
  BY <1>1, IntervalAssumption DEF ScheduleInv, ChangeKinds
<1>3. ScheduleTypeOK'
  BY <1>1, <1>2, MayType, PoweredOnType DEF ScheduleTypeOK
<1>4. ~Undisturbed'
  BY <1>1, <1>2, MayType
<1>5. QED
  BY <1>3, <1>4 DEF ScheduleInv

LEMMA ScheduleInitInv ==
  ASSUME ScheduleInit
  PROVE  ScheduleInv
<1>1. /\ since \in 0 .. interval /\ interval \in Nat
      /\ <<>> \in Seq({"data", "calibrated"})
  BY IntervalAssumption DEF ScheduleInit
<1>2. userChanges \in [ChangeKinds -> 0 .. MaxUserChanges]
  BY ChangeAssumption DEF ScheduleInit
<1>3. ScheduleTypeOK
  BY <1>1, <1>2 DEF ScheduleInit, ScheduleTypeOK, Request
<1>4. Cycle
  BY <1>3, Counts DEF ScheduleInit, Cycle, NoCalibration, Timely, OneReading, Powered, IsWarmup
<1>5. QED
  BY <1>3, <1>4 DEF ScheduleInv

LEMMA ScheduleStepInv ==
  ASSUME ScheduleInv, [ScheduleNext]_scheduleVars
  PROVE  ScheduleInv'
<1>1. CASE ScheduleNext
  BY <1>1, CheckTimersInv, HandleEventInv, TickInv, TakeRequestInv, FinishJobInv,
     ChangeModeInv, SleepAndWakeInv, CalibrateInv, ChangeIntervalInv DEF ScheduleNext
<1>2. CASE UNCHANGED scheduleVars
  <2>1. UNCHANGED <<offline, interval, since, prepareSent, calibrating, userChanges,
                    job, worked, pm, slot, results>>
    BY <1>2 DEF scheduleVars, mainVars, producerVars
  <2>2. ScheduleTypeOK'
    BY <2>1 DEF ScheduleInv, ScheduleTypeOK
  <2>3. Undisturbed' = Undisturbed /\ Cycle' = Cycle
    BY <2>1 DEF Undisturbed, Cycle, NoCalibration, Timely, OneReading, Powered, IsWarmup,
                Eligible, EligibleAt
  <2>4. QED
    BY <2>2, <2>3 DEF ScheduleInv
<1>3. QED
  BY <1>1, <1>2

LEMMA ScheduleInvariant == ScheduleSpec => []ScheduleInv
<1>1. ScheduleInit => ScheduleInv
  BY ScheduleInitInv
<1>2. ScheduleInv /\ [ScheduleNext]_scheduleVars => ScheduleInv'
  BY ScheduleStepInv
<1>3. QED
  BY <1>1, <1>2, PTL DEF ScheduleSpec

(* Timers, slot, event queue and power rail keep their types. *)
THEOREM ScheduleTypeInvariant == ScheduleSpec => []ScheduleTypeOK
<1>1. ScheduleInv => ScheduleTypeOK
  BY DEF ScheduleInv
<1>2. QED
  BY <1>1, ScheduleInvariant, PTL

(* A reading starts on a sensor that has power, and no step of the main    *)
(* task takes it away before the reading has ended.                        *)
LEMMA StepReadsPowered ==
  ASSUME RoomToRest, ScheduleInv, ScheduleInv', [ScheduleNext]_scheduleVars, Undisturbed'
  PROVE  /\ StartsReading => pm # "off"
         /\ KeepsReading /\ pm # "off" => pm' # "off"
<1>1. ScheduleTypeOK /\ Cycle'
  BY DEF ScheduleInv
<1>2. Undisturbed
  <2>1. CASE UNCHANGED userChanges
    BY <2>1 DEF Undisturbed
  <2>2. CASE \E kind \in ChangeKinds : May(kind)
    BY <1>1, <2>2, MayType
  <2>3. QED
    BY <2>1, <2>2 DEF ScheduleNext, scheduleVars, mainVars, CheckTimers, HandleEvent, Tick,
       TakeRequest, FinishJob, ChangeMode, Calibrate, SleepAndWake, ChangeInterval, ChangeKinds
<1>3. Cycle
  BY <1>2 DEF ScheduleInv
<1>4. CASE StartsReading
  <2>1. TakeRequest
    BY <1>4 DEF StartsReading, ScheduleNext, scheduleVars, producerVars, CheckTimers,
       HandleEvent, Tick, FinishJob, ChangeMode, Calibrate, SleepAndWake, ChangeInterval
  <2>2. slot = "measure"
    BY <1>4, <2>1 DEF StartsReading, TakeRequest
  <2>3. QED
    BY <1>3, <1>4, <2>2 DEF Cycle, Powered, StartsReading, KeepsReading
<1>5. CASE KeepsReading
  BY <1>1, <1>5 DEF Cycle, Powered, StartsReading, KeepsReading
<1>6. QED
  BY <1>4, <1>5

(* With intervals that leave room for a cycle, and no request of the user  *)
(* for another interval or a calibration, no reading starts without power, *)
(* although on_sensor_data() switches the sensor off while the next        *)
(* request may be with the producer, and changes of mode and sleeps come   *)
(* between.                                                                *)
THEOREM ReadingsArePowered ==
  ASSUME RoomToRest
  PROVE  ScheduleSpec => ReadsPowered
<1>1. ScheduleInv /\ ScheduleInv' /\ [ScheduleNext]_scheduleVars
        => (Undisturbed' => /\ StartsReading => pm # "off"
                            /\ KeepsReading /\ pm # "off" => pm' # "off")
  BY StepReadsPowered
<1>2. QED
  BY <1>1, ScheduleInvariant, PTL DEF ScheduleSpec, ReadsPowered
=============================================================================
