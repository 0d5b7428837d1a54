--------------------------- MODULE UserInterface ---------------------------
(***************************************************************************)
(* products/go/main/go_ui.cpp: the screens, the cursor and the copy of the *)
(* settings the menus work on, with what the Orchestrator does on an       *)
(* input, a lock, a display update and the BLE events that change a screen *)
(* or a setting.  A setting is named by its row, as in the source, and an  *)
(* option by its index; intervals are stored in seconds.                   *)
(*                                                                         *)
(* Only the cursor of the screen shown is kept: every way into a screen    *)
(* sets that screen's cursor.  row stands for _editing_setting_id,         *)
(* _confirm_source_setting and the cursor of the Settings screen below.    *)
(***************************************************************************)
EXTENDS Integers, Sequences, FiniteSets

CONSTANTS
  ClientValues, \* [row -> values] the values a client may write
  MaxChanges,   \* bound: settings changed
  MaxEvents     \* bound: BLE events in the Orchestrator's queue

VARIABLES
  screen, cursor, row, metric,
  options,       \* _setting_units ... _setting_auto_lock, by row
  shownTracking, \* _tracking_active as the last display update left it
  locked, settings, tracking, \* the Orchestrator's
  phone,         \* external: what the phone is doing
  events,        \* the BLE events queued for the Orchestrator
  changes        \* bound: how many settings were changed

uiVars == <<screen, cursor, row, metric>>
bleVars == <<phone, events>>
vars == <<uiVars, options, shownTracking, locked, settings, tracking, bleVars,
          changes>>

-----------------------------------------------------------------------------
UNITS == 2
PM_DISPLAY == 3
MEASURE_INTERVAL == 4
GPS_MODE == 5
MODE == 6
AUTO_LOCK == 7
CO2_CALIBRATION == 8
CLEAR_DATA == 9

Settings == UNITS..AUTO_LOCK
PORTABLE == 1
OFFLINE == 2

(* The seconds behind the options of the two settings stored as a time.    *)
Seconds == [r \in {MEASURE_INTERVAL, AUTO_LOCK} |->
              IF r = MEASURE_INTERVAL THEN <<1, 10, 30, 60, 300, 900, 3600>>
                                      ELSE <<0, 10, 30, 60>>]

OptionCount == [r \in Settings |->
                  CASE r \in DOMAIN Seconds -> Len(Seconds[r])
                    [] r \in {GPS_MODE, MODE} -> 3
                    [] OTHER -> 2]

(* sync_settings(): the first option that is not shorter than the value,   *)
(* or the longest.                                                         *)
OptionOf(r, v) == IF r \in DOMAIN Seconds
                    THEN Cardinality({i \in 1..Len(Seconds[r]) - 1 : Seconds[r][i] < v})
                    ELSE v
OptionsOf(s) == [r \in Settings |-> OptionOf(r, s[r])]

(* apply_to_settings(): every setting from its option.                     *)
ValueMissing(r, o) == \* mutant: a GPS mode without its case
  IF r \in DOMAIN Seconds THEN Seconds[r][o + 1] ELSE IF r = GPS_MODE THEN 1 ELSE o
ValueInTens(r, o) == \* mutant: auto-lock options taken as 0, 10, 20, 30 s
  IF r = MEASURE_INTERVAL THEN Seconds[r][o + 1] ELSE IF r = AUTO_LOCK THEN 10 * o ELSE o
ValueOf(r, o) == IF r \in DOMAIN Seconds THEN Seconds[r][o + 1] ELSE o
ValuesOf(o) == [r \in Settings |-> ValueOf(r, o[r])]

Defaults == [r \in Settings |-> CASE r = MEASURE_INTERVAL -> 10
                                  [] r \in {GPS_MODE, MODE} -> 1
                                  [] OTHER -> 0]

MenuScreens == {"MainMenu", "Settings", "SettingsChoice", "Confirm", "About"}
Rows == CASE screen = "MainMenu" -> 4
          [] screen = "Settings" -> 10
          [] screen = "SettingsChoice" -> 2 + OptionCount[row]
          [] screen = "Confirm" -> 5
          [] screen = "About" -> 2

METRIC_CYCLE_LEN == 5 \* 0 is no metric

Init == /\ screen = "Home" /\ cursor = 0 /\ row = 0 /\ metric = 0
        /\ settings = Defaults /\ options = OptionsOf(Defaults)
        /\ locked \in BOOLEAN /\ tracking \in BOOLEAN
        /\ shownTracking \in {FALSE, ~locked /\ tracking}
        /\ phone = "away" /\ events = <<>> /\ changes = 0

-----------------------------------------------------------------------------
(* A new start, with whatever is recorded and restored by then.  A display *)
(* that boot has painted already is not updated.                           *)
Start(s) == /\ screen' = "Home" /\ cursor' = 0 /\ row' = 0 /\ metric' = 0
            /\ settings' = s /\ options' = OptionsOf(s)
            /\ locked' \in BOOLEAN /\ tracking' \in BOOLEAN
            /\ shownTracking' \in {FALSE, ~locked' /\ tracking'}
            /\ phone' = "away" /\ events' = <<>>

(* request_background_display_update() and update_display().               *)
BackgroundUpdate == IF screen' \in MenuScreens THEN UNCHANGED shownTracking
                                               ELSE shownTracking' = tracking'
UpdateDisplay == shownTracking' = tracking'

Show(s, c, r) == screen' = s /\ cursor' = c /\ row' = r
GoHome == Show("Home", 0, 0) /\ UNCHANGED metric
ResetToHome == Show("Home", 0, 0) /\ metric' = 0

(* The end of Portable mode, with these events queued: deinit() drops the  *)
(* phone and waits until it has gone.                                      *)
BleFollows(mode, queue) ==
  IF settings[MODE] = PORTABLE /\ mode # PORTABLE /\ phone # "away"
    THEN phone' = "away" /\ events' = Append(queue, "disconnected")
    ELSE UNCHANGED phone /\ events' = queue

StopTracking == tracking' = FALSE /\ UpdateDisplay
SetTracking(on) == tracking' = on /\ UpdateDisplay

-----------------------------------------------------------------------------
(* on_input(), unlocked: handle_input() by screen, then a display update.  *)

Touch == ~locked
Kept == UNCHANGED <<locked, bleVars, changes>>
NoAction == UNCHANGED <<options, settings, tracking>> /\ UpdateDisplay

Browse == /\ Touch /\ screen = "Home"
          /\ \E d \in {-1, 1} : metric' = (metric + d) % METRIC_CYCLE_LEN
          /\ UNCHANGED <<screen, cursor, row>>
          /\ NoAction /\ Kept

OpenMainMenu == /\ Touch /\ screen = "Home"
                /\ Show("MainMenu", 0, 0) /\ metric' = 0
                /\ NoAction /\ Kept

MoveStraight == /\ Touch /\ screen \in MenuScreens \* mutant: no wrapping
                /\ \E d \in {-1, 1} : cursor' = cursor + d
                /\ UNCHANGED <<screen, row, metric>>
                /\ NoAction /\ Kept
Move == /\ Touch /\ screen \in MenuScreens
        /\ \E d \in {-1, 1} : cursor' = (cursor + d) % Rows
        /\ UNCHANGED <<screen, row, metric>>
        /\ NoAction /\ Kept

EnterMainMenu ==
  /\ Touch /\ screen = "MainMenu"
  /\ \/ cursor = 0 /\ GoHome /\ NoAction
     \/ /\ cursor = 1 /\ GoHome
        /\ SetTracking(~shownTracking) /\ UNCHANGED <<options, settings>>
     \/ cursor = 2 /\ Show("Settings", 1, 0) /\ UNCHANGED metric /\ NoAction
     \/ cursor = 3 /\ Show("About", 1, 0) /\ UNCHANGED metric /\ NoAction
  /\ Kept

EnterSettings ==
  /\ Touch /\ screen = "Settings"
  /\ \/ cursor = 0 /\ GoHome
     \/ cursor = 1 /\ Show("MainMenu", 2, 0) /\ UNCHANGED metric
     \/ /\ cursor \in {CO2_CALIBRATION, CLEAR_DATA}
        /\ Show("Confirm", 1, cursor) /\ UNCHANGED metric
     \/ /\ cursor \in Settings
        /\ Show("SettingsChoice", 2 + options[cursor], cursor) /\ UNCHANGED metric
  /\ NoAction /\ Kept

LeaveChoice ==
  /\ Touch /\ screen = "SettingsChoice"
  /\ \/ cursor = 0 /\ GoHome
     \/ cursor = 1 /\ Show("Settings", row, 0) /\ UNCHANGED metric
  /\ NoAction /\ Kept

(* apply_setting_choice(), then change_mode() or apply_settings_change().  *)
Choose ==
  /\ Touch /\ screen = "SettingsChoice" /\ cursor >= 2 /\ changes < MaxChanges
  /\ options' = [options EXCEPT ![row] = cursor - 2]
  /\ Show("Settings", row, 0)
  /\ settings' = IF row = MODE THEN [settings EXCEPT ![MODE] = cursor - 2]
                               ELSE ValuesOf(options')
  /\ BleFollows(settings'[MODE], events)
  /\ changes' = changes + 1
  /\ UNCHANGED <<metric, locked, tracking>>
  /\ UpdateDisplay

EnterAbout ==
  /\ Touch /\ screen = "About"
  /\ \/ cursor = 0 /\ GoHome
     \/ cursor = 1 /\ Show("MainMenu", 3, 0) /\ UNCHANGED metric
  /\ NoAction /\ Kept

EnterConfirm ==
  /\ Touch /\ screen = "Confirm"
  /\ \/ cursor = 0 /\ GoHome /\ NoAction
     \/ cursor \in {1, 3} /\ Show("Settings", row, 0) /\ UNCHANGED metric /\ NoAction
     \/ cursor = 2 /\ UNCHANGED uiVars /\ NoAction
     \/ cursor = 4 /\ row = CO2_CALIBRATION /\ GoHome /\ NoAction
     \/ /\ cursor = 4 /\ row = CLEAR_DATA /\ GoHome
        /\ StopTracking /\ UNCHANGED <<options, settings>>
  /\ Kept

-----------------------------------------------------------------------------
(* The other inputs, timers and events of the Orchestrator.                *)

(* Touched while locked, or on a screen that takes no input.               *)
Ignored == /\ locked \/ screen = "PairingPasskey"
           /\ screen # "Shutdown"
           /\ UNCHANGED uiVars /\ NoAction /\ Kept

Lock == /\ ~locked /\ screen # "Shutdown"
        /\ locked' = TRUE /\ ResetToHome /\ NoAction
        /\ UNCHANGED <<bleVars, changes>>

(* on_inactivity_timeout(): lock() again, if auto-lock is on.              *)
Inactive == settings[AUTO_LOCK] > 0 /\ Lock
PowerPressed == \/ Lock
                \/ /\ locked /\ screen # "Shutdown"
                   /\ locked' = FALSE /\ UNCHANGED uiVars /\ NoAction
                   /\ UNCHANGED <<bleVars, changes>>

Shutdown == /\ screen # "Shutdown"
            /\ Show("Shutdown", 0, 0) /\ StopTracking
            /\ UNCHANGED <<metric, options, settings>> /\ Kept

(* A sensor reading, a change of the charger or an expired snackbar.       *)
Background == /\ screen # "Shutdown"
              /\ UNCHANGED <<uiVars, options, settings, tracking>>
              /\ BackgroundUpdate /\ Kept

SleepOrOff == screen = "Shutdown" \/ (locked /\ settings[MODE] = OFFLINE)
Boot == SleepOrOff /\ Start(settings) /\ UNCHANGED changes

(* A failed reset has cleared the data like clear_data() alone.            *)
FactoryReset == /\ screen # "Shutdown"
                /\ \/ Start(Defaults) /\ UNCHANGED changes
                   \/ /\ UNCHANGED <<uiVars, options, settings>> /\ Kept
                      /\ StopTracking

-----------------------------------------------------------------------------
(* The phone, as far as its events reach the Orchestrator.                 *)

PhoneActs(from, to, event) ==
  /\ settings[MODE] = PORTABLE /\ screen # "Shutdown"
  /\ phone \in from /\ Len(events) < MaxEvents
  /\ phone' = to /\ events' = Append(events, event)
  /\ UNCHANGED <<uiVars, options, shownTracking, locked, settings, tracking, changes>>

Connect == PhoneActs({"away"}, "connected", "connected")
Pair == PhoneActs({"connected"}, "pairing", "request")
PairingEnds == PhoneActs({"pairing"}, "connected", "complete")
Disconnect == PhoneActs({"connected", "pairing"}, "away", "disconnected")
Write == PhoneActs({"connected"}, "connected", "write")

IsNext(event) == events # <<>> /\ Head(events) = event /\ screen # "Shutdown"
Taken == events' = Tail(events) /\ UNCHANGED phone

(* dismiss_pairing_passkey(), called on three events.                      *)
LossDismisses == {"disconnected"} \* mutant: the end of a pairing does not
Dismisses == {"connected", "complete", "disconnected"}
Dismiss ==
  /\ \E e \in {"connected", "complete", "disconnected"} : IsNext(e)
  /\ IF screen = "PairingPasskey" /\ Head(events) \in Dismisses
       THEN ResetToHome
       ELSE UNCHANGED uiVars
  /\ Taken /\ UNCHANGED <<options, locked, settings, tracking, changes>>
  /\ BackgroundUpdate

OnPairingRequest ==
  /\ IsNext("request")
  /\ Show("PairingPasskey", 0, 0) /\ UNCHANGED metric
  /\ NoAction /\ Taken /\ UNCHANGED <<locked, changes>>

(* on_ble_config_write(): nothing if an earlier event took the write too.  *)
OnConfigSet ==
  /\ IsNext("write") /\ changes < MaxChanges
  /\ UNCHANGED <<uiVars, locked, tracking>>
  /\ \E r \in Settings : \E v \in ClientValues[r] :
       /\ settings' = [settings EXCEPT ![r] = v]
       /\ options' = OptionsOf(settings')
       /\ BleFollows(settings'[MODE], Tail(events))
       /\ IF r = MODE /\ v # settings[MODE] THEN UpdateDisplay ELSE BackgroundUpdate
  /\ changes' = changes + 1

OnCommand ==
  /\ IsNext("write")
  /\ Taken /\ UNCHANGED <<uiVars, options, locked, settings, changes>>
  /\ \/ \E on \in BOOLEAN : /\ tracking' = on
                            /\ IF on # tracking THEN UpdateDisplay
                                                ELSE UNCHANGED shownTracking
     \/ StopTracking
     \/ UNCHANGED <<tracking, shownTracking>>

-----------------------------------------------------------------------------
Input == \/ Browse \/ OpenMainMenu \/ Move \/ EnterMainMenu \/ EnterSettings
         \/ LeaveChoice \/ Choose \/ EnterAbout \/ EnterConfirm
         \/ Ignored \/ PowerPressed \/ Shutdown \/ FactoryReset
Phone == Connect \/ Pair \/ PairingEnds \/ Disconnect \/ Write
Event == Dismiss \/ OnPairingRequest \/ OnConfigSet \/ OnCommand
Next == Input \/ Inactive \/ Background \/ Boot \/ Phone \/ Event

(* The Orchestrator handles what is queued, and a pairing ends: the phone  *)
(* answers or the Security Manager times out.                              *)
Fairness == /\ WF_vars(Event)
            /\ WF_vars(PairingEnds)

Spec == Init /\ [][Next]_vars /\ Fairness

-----------------------------------------------------------------------------
(* Every cursor stands on a row of its screen, and every option exists.    *)
TypeOK ==
  /\ screen \in MenuScreens \cup {"Home", "PairingPasskey", "Shutdown"}
  /\ cursor \in 0..(IF screen \in MenuScreens THEN Rows - 1 ELSE 0)
  /\ screen = "SettingsChoice" => row \in Settings
  /\ screen = "Confirm" => row \in {CO2_CALIBRATION, CLEAR_DATA}
  /\ metric \in 0..METRIC_CYCLE_LEN - 1
  /\ \A r \in Settings : options[r] \in 0..OptionCount[r] - 1
  /\ {shownTracking, locked, tracking} \subseteq BOOLEAN
  /\ settings \in [Settings -> Nat]
  /\ phone \in {"away", "connected", "pairing"}
  /\ Len(events) <= MaxEvents + 1

(* The menus work on the settings in force, whoever changed them last: the *)
(* user, a phone, a new start or a factory reset.                          *)
MirrorsSettings == options = OptionsOf(settings)

(* The entry "Start Tracking" or "Stop Tracking" does what it says: the    *)
(* menu is open only while the cached state is the Orchestrator's, which a *)
(* phone may change behind the menu.                                       *)
MenuTellsTruth == screen = "MainMenu" => shownTracking = tracking

(* A locked device shows no menu and no selection, whichever events moved  *)
(* it there: what is locked is found at Home when it is unlocked.          *)
LockedHidesMenus == locked => screen \notin MenuScreens /\ metric = 0

(* Choosing an option leaves every other setting at its option, although   *)
(* all of them are written back from the menu's copy.                      *)
OthersKeepOption ==
  [][Choose => \A r \in Settings \ {row} :
                 OptionOf(r, settings'[r]) = OptionOf(r, settings[r])]_vars

(* The passkey, which takes no input, leaves the screen again, also when   *)
(* the user has left Portable mode, and so closed BLE, with a pairing      *)
(* request still queued.                                                   *)
PasskeyGoesAway == screen = "PairingPasskey" ~> screen # "PairingPasskey"
=============================================================================
