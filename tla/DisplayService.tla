--------------------------- MODULE DisplayService ---------------------------
(***************************************************************************)
(* products/go/main/go_display.cpp: the frame a caller submits, the choice *)
(* of a refresh tier, the worker task that drives the e-paper, and the way *)
(* the Orchestrator uses them: updates that are dropped while the worker   *)
(* is busy, background updates that menus suppress, and the last frame     *)
(* before a sleep or a power-off.                                          *)
(*                                                                         *)
(* A frame is its screen, everything below the status bar (body) and the   *)
(* icons of the status bar (header); every navigable screen but Home is    *)
(* "Menu".  The worker has a higher priority than the main task and there  *)
(* is one core: a worker that can run, runs before the main task goes on.  *)
(***************************************************************************)
EXTENDS Naturals

CONSTANTS
  Bodies, Headers,
  max_partial_ops, \* differential refreshes before a full one
  UINT8_MAX,       \* where the count of differential refreshes saturates
  MaxFailures      \* bound: SPI transfers and task creations that fail

ASSUME DisplayAssumption ==
  /\ max_partial_ops \in Nat \ {0}
  /\ UINT8_MAX \in Nat
  /\ max_partial_ops < UINT8_MAX
  /\ MaxFailures \in Nat

VARIABLES
  main,    \* where the main task is
  frame,   \* what build_values() returns now
  locked,
  service, \* the members of DisplayService the main task writes
  busy,    \* _worker_busy
  spi_buf,
  diff_count,
  worker,  \* [pc, notified]: the worker task and its notification
  panel,   \* external: the status bar and the body the e-paper shows
  skipped, \* history: a header change was shown by no refresh, _defer_header_check
  failures \* bound: failures so far

vars == <<main, frame, locked, service, busy, spi_buf, diff_count, worker, panel,
          skipped, failures>>

-----------------------------------------------------------------------------
Frames == [screen: {"Home", "Menu", "Passkey", "Shutdown"},
           body: Bodies, header: Headers]
HomeFrames == {f \in Frames : f.screen = "Home"}

Top(f) == IF f.screen = "Shutdown" THEN "blank" ELSE f.header
Bottom(f) == <<f.screen, f.body>>
Shown(f) == [top |-> Top(f), bottom |-> Bottom(f)]

WorkerRuns == worker.pc = "waiting" /\ worker.notified
MainRuns == ~WorkerRuns

(* update(): the tier of the refresh that shows f.                         *)
MenuNavigation(f) == /\ f.screen \notin {"Shutdown", "Passkey"}
                     /\ "Menu" \in {service.prev.screen, f.screen}
HeaderChanged(f) == f.header # service.prev.header
CanPartial(f) == /\ service.prev.screen = "Home"
                 /\ f.screen = "Home"
                 /\ HeaderChanged(f) => service.defer_header_check
ModeNeverFull(f) == IF MenuNavigation(f) \/ (CanPartial(f) /\ ~service.menu_exited)
                      THEN "Partial" ELSE "Fast"
ModeFor(f) == CASE MenuNavigation(f) -> "Partial"
                [] ~MenuNavigation(f) /\ diff_count >= max_partial_ops -> "Full"
                [] OTHER -> IF CanPartial(f) /\ ~service.menu_exited
                              THEN "Partial" ELSE "Fast"

MenuNotNoted(f, mode) == mode = "Partial" /\ service.menu_exited
MenuExited(f, mode) == \/ MenuNavigation(f)
                       \/ mode = "Partial" /\ service.menu_exited

(* An accepted update.                                                     *)
Submit(f) ==
  LET mode == ModeFor(f) IN
  /\ service' = [service EXCEPT !.mode = mode, !.prev = f,
                                !.menu_exited = MenuExited(f, mode),
                                !.defer_header_check = FALSE]
  /\ skipped' = (/\ mode = "Partial"
                 /\ skipped \/ (service.defer_header_check /\ HeaderChanged(f)))
  /\ spi_buf' = f
  /\ busy' = TRUE
  /\ worker' = [worker EXCEPT !.notified = TRUE]

Accepts == service.handle /\ ~busy

(* update(values, wait = false); no caller looks at its result.            *)
Update(f) ==
  /\ IF Accepts THEN Submit(f)
                ELSE UNCHANGED <<service, skipped, spi_buf, busy, worker>>
  /\ UNCHANGED <<diff_count, panel, failures>>

UpdateDisplay == Update(frame')

RequestBackgroundUpdate ==
  IF frame'.screen # "Menu"
    THEN UpdateDisplay
    ELSE UNCHANGED <<service, skipped, spi_buf, busy, worker, diff_count, panel, failures>>

-----------------------------------------------------------------------------
(* Boot.  RAM starts from zero; the panel keeps what it shows.             *)

Fresh(f) == [handle |-> TRUE, running |-> TRUE, prev |-> f, mode |-> "Full",
             menu_exited |-> FALSE, defer_header_check |-> FALSE]

Fails == failures < MaxFailures /\ failures' = failures + 1

(* init(f): the first refresh is done, or there is no worker.  spi_buf is  *)
(* not read before the next update.                                        *)
InitNow(f) ==
  /\ \/ /\ service' = Fresh(f)
        /\ worker' = [pc |-> "waiting", notified |-> FALSE]
        /\ panel' = Shown(f)
        /\ UNCHANGED failures
     \/ /\ Fails
        /\ service' = [Fresh(f) EXCEPT !.handle = FALSE, !.running = FALSE]
        /\ worker' = [pc |-> "gone", notified |-> FALSE]
        /\ panel' \in {panel, Shown(f)}
  /\ busy' = FALSE
  /\ UNCHANGED spi_buf
  /\ diff_count' = 0
  /\ skipped' = FALSE

(* init(f, defer_refresh = true): the worker does the first refresh.       *)
InitDeferred(f) ==
  /\ \/ /\ service' = [Fresh(f) EXCEPT !.defer_header_check = TRUE]
        /\ worker' = [pc |-> "waiting", notified |-> TRUE]
        /\ busy' = TRUE
        /\ UNCHANGED failures
     \/ /\ Fails
        /\ service' = [Fresh(f) EXCEPT !.handle = FALSE, !.running = FALSE]
        /\ worker' = [pc |-> "gone", notified |-> FALSE]
        /\ busy' = FALSE
  /\ spi_buf' = f
  /\ diff_count' = 0
  /\ skipped' = FALSE
  /\ UNCHANGED panel

Init ==
  /\ main = "off"
  /\ frame \in HomeFrames
  /\ locked = TRUE
  /\ service = [Fresh(frame) EXCEPT !.handle = FALSE, !.running = FALSE]
  /\ busy = FALSE
  /\ spi_buf = frame
  /\ diff_count = 0
  /\ worker = [pc |-> "gone", notified |-> FALSE]
  /\ panel = Shown(frame)
  /\ skipped = FALSE
  /\ failures = 0

(* run_interactive() shows a first frame built from defaults or the        *)
(* snapshot; the Orchestrator's frame may differ from it at once.          *)
PowerOn ==
  /\ main = "off"
  /\ \E f \in HomeFrames : InitNow(f)
  /\ frame' \in HomeFrames
  /\ main' = "running"
  /\ locked' = TRUE

WakeByButton ==
  /\ main = "asleep"
  /\ \E f \in HomeFrames : InitDeferred(f)
  /\ frame' \in HomeFrames
  /\ main' = "running"
  /\ locked' = FALSE

(* The fast path shows its measurement and sleeps again, or goes on.       *)
WakeByTimer ==
  /\ main = "asleep"
  /\ \E f \in HomeFrames :
       /\ InitNow(f)
       /\ \/ /\ main' = "submitted"
             /\ frame' = f
             /\ locked' = TRUE
          \/ /\ main' = "running"
             /\ frame' \in HomeFrames
             /\ locked' \in BOOLEAN

-----------------------------------------------------------------------------
(* The Orchestrator's event loop.                                          *)

Running == main = "running" /\ MainRuns

(* on_input(): a touch moves in the menus, or starts or stops tracking.    *)
Touch ==
  /\ Running
  /\ ~locked
  /\ frame.screen \in {"Home", "Menu"}
  /\ frame' \in {f \in Frames : f.screen \in {"Home", "Menu"}}
  /\ UpdateDisplay
  /\ UNCHANGED <<main, locked>>

(* A touch that only shows a hint, or nothing, on the screen it finds.     *)
TouchIgnored ==
  /\ Running
  /\ locked \/ frame.screen = "Passkey"
  /\ \E b \in Bodies : frame' = [frame EXCEPT !.body = b]
  /\ UpdateDisplay
  /\ UNCHANGED <<main, locked>>

(* The power button, or the auto-lock timer.                               *)
Lock ==
  /\ Running
  /\ ~locked
  /\ locked' = TRUE
  /\ frame' \in {f \in HomeFrames : f.header # frame.header}
  /\ UpdateDisplay
  /\ UNCHANGED main

Unlock ==
  /\ Running
  /\ locked
  /\ locked' = FALSE
  /\ \E b \in Bodies, h \in Headers \ {frame.header} :
       frame' = [frame EXCEPT !.body = b, !.header = h]
  /\ UpdateDisplay
  /\ UNCHANGED main

OnBlePairingRequest ==
  /\ Running
  /\ \E b \in Bodies : frame' = [frame EXCEPT !.screen = "Passkey", !.body = b]
  /\ UpdateDisplay
  /\ UNCHANGED <<main, locked>>

(* A BLE event other than a pairing request closes the passkey screen.     *)
OnBleEvent ==
  /\ Running
  /\ \E b \in Bodies, h \in Headers :
       frame' = IF frame.screen = "Passkey"
                  THEN [screen |-> "Home", body |-> b, header |-> h]
                  ELSE [frame EXCEPT !.header = h]
  /\ RequestBackgroundUpdate
  /\ UNCHANGED <<main, locked>>

(* Readings, the charger and settings written over BLE.  In a menu the     *)
(* body stands for the cursor, which only the user moves.                  *)
OnSensorData ==
  /\ Running
  /\ \E b \in IF frame.screen = "Menu" THEN {frame.body} ELSE Bodies, h \in Headers :
       frame' = [frame EXCEPT !.body = b, !.header = h]
  /\ RequestBackgroundUpdate
  /\ UNCHANGED <<main, locked>>

(* on_gps_fix() changes an icon and does not redraw.                       *)
OnGpsFix ==
  /\ Running
  /\ \E h \in Headers : frame' = [frame EXCEPT !.header = h]
  /\ UNCHANGED <<main, locked, service, busy, spi_buf, diff_count, worker, panel,
                 skipped, failures>>

(* shutdown(): stop_tracking() shows a frame of its own first, if a route  *)
(* was being recorded, and the worker starts on it at once.                *)
Shutdown ==
  /\ Running
  /\ \E h \in Headers :
       \/ /\ frame' = [frame EXCEPT !.screen = "Shutdown", !.header = h]
          /\ UpdateDisplay
          /\ main' = "delay"
       \/ /\ frame' = [frame EXCEPT !.header = h]
          /\ UpdateDisplay
          /\ main' = "tracking_stopped"
  /\ UNCHANGED locked

ShowShutdown ==
  /\ main = "tracking_stopped"
  /\ MainRuns
  /\ frame' = [frame EXCEPT !.screen = "Shutdown"]
  /\ UpdateDisplay
  /\ main' = "delay"
  /\ UNCHANGED locked

(* The battery is cut off after a fixed delay, whatever the worker does.   *)
PowerOff ==
  /\ main = "delay"
  /\ main' = "off"
  /\ service' = [service EXCEPT !.handle = FALSE, !.running = FALSE]
  /\ busy' = FALSE
  /\ worker' = [pc |-> "gone", notified |-> FALSE]
  /\ UNCHANGED <<frame, locked, spi_buf, diff_count, panel, skipped, failures>>

-----------------------------------------------------------------------------
(* prepare_for_sleep(): the last frame is submitted with wait = true.      *)

PrepareForSleep ==
  /\ Running
  /\ locked
  /\ main' = "waiting"
  /\ UNCHANGED <<frame, locked, service, busy, spi_buf, diff_count, worker, panel,
                 skipped, failures>>

SubmitAtOnce ==
  /\ main = "waiting"
  /\ MainRuns
  /\ Update(frame)
  /\ main' = "submitted"
  /\ UNCHANGED <<frame, locked>>

SubmitLastFrame ==
  /\ main = "waiting"
  /\ MainRuns
  /\ service.handle => ~busy
  /\ Update(frame)
  /\ main' = "submitted"
  /\ UNCHANGED <<frame, locked>>

(* stop() tells the worker to leave its loop,                              *)
Stop ==
  /\ main = "submitted"
  /\ MainRuns
  /\ main' = "stopping"
  /\ IF service.handle
       THEN /\ service' = [service EXCEPT !.running = FALSE]
            /\ worker' = [worker EXCEPT !.notified = TRUE]
       ELSE UNCHANGED <<service, worker>>
  /\ UNCHANGED <<frame, locked, busy, spi_buf, diff_count, panel, skipped, failures>>

(* waits for its refresh, and the controller is put to sleep.              *)
DeepSleep ==
  /\ main = "stopping"
  /\ MainRuns
  /\ ~busy
  /\ main' = "asleep"
  /\ service' = [service EXCEPT !.handle = FALSE]
  /\ UNCHANGED <<frame, locked, busy, spi_buf, diff_count, worker, panel, skipped,
                 failures>>

-----------------------------------------------------------------------------
(* _worker_loop(): the end of a round and the test of _running are one     *)
(* step, nothing the main task does comes between them.                    *)
LoopOrExit == IF service.running THEN "waiting" ELSE "gone"

WorkerTake ==
  /\ WorkerRuns
  /\ \/ /\ worker' = [pc |-> IF service.running THEN "refreshing" ELSE "gone",
                       notified |-> FALSE]
        /\ UNCHANGED <<busy, failures>>
     \/ /\ service.running \* the bus is not acquired
        /\ Fails
        /\ worker' = [worker EXCEPT !.notified = FALSE]
        /\ busy' = FALSE
  /\ UNCHANGED <<main, frame, locked, service, spi_buf, diff_count, panel, skipped>>

Refreshed == IF service.mode = "Partial"
               THEN [panel EXCEPT !.bottom = Bottom(spi_buf)]
               ELSE Shown(spi_buf)

CountOn == IF service.mode = "Full" THEN 0 ELSE diff_count + 1
CountAfter == IF service.mode = "Full" THEN 0
              ELSE IF diff_count < UINT8_MAX THEN diff_count + 1 ELSE diff_count

(* A refresh ends; one that failed counts like any other.                  *)
WorkerFinish ==
  /\ worker.pc = "refreshing"
  /\ \/ panel' = Refreshed /\ UNCHANGED failures
     \/ Fails /\ UNCHANGED panel
  /\ diff_count' = CountAfter
  /\ busy' = FALSE
  /\ worker' = [worker EXCEPT !.pc = LoopOrExit]
  /\ UNCHANGED <<main, frame, locked, service, spi_buf, skipped>>

-----------------------------------------------------------------------------
SleepNext == PrepareForSleep \/ SubmitLastFrame \/ Stop \/ DeepSleep
InputNext == Touch \/ TouchIgnored \/ Lock \/ Unlock
EventNext == OnBlePairingRequest \/ OnBleEvent \/ OnSensorData \/ OnGpsFix
ShutdownNext == Shutdown \/ ShowShutdown \/ PowerOff
BootNext == PowerOn \/ WakeByButton \/ WakeByTimer

Next == \/ BootNext \/ InputNext \/ EventNext \/ ShutdownNext \/ SleepNext
        \/ WorkerTake \/ WorkerFinish

(* The worker runs and its refreshes end, the main task goes on when it    *)
(* can, and the measurement timer keeps bringing readings.                 *)
Fairness == /\ WF_vars(WorkerTake) /\ WF_vars(WorkerFinish)
            /\ WF_vars(SubmitLastFrame) /\ WF_vars(Stop) /\ WF_vars(DeepSleep)
            /\ WF_vars(OnSensorData)

Spec == Init /\ [][Next]_vars /\ Fairness

-----------------------------------------------------------------------------
TypeOK ==
  /\ main \in {"off", "running", "waiting", "submitted", "stopping", "asleep",
               "tracking_stopped", "delay"}
  /\ frame \in Frames
  /\ locked \in BOOLEAN
  /\ service \in [handle: BOOLEAN, running: BOOLEAN, prev: Frames,
                  mode: {"Full", "Fast", "Partial"}, menu_exited: BOOLEAN,
                  defer_header_check: BOOLEAN]
  /\ busy \in BOOLEAN
  /\ spi_buf \in Frames
  /\ diff_count \in 0..UINT8_MAX
  /\ worker \in [pc: {"gone", "waiting", "refreshing"}, notified: BOOLEAN]
  /\ panel \in [top: Headers \cup {"blank"},
                bottom: {Bottom(f) : f \in Frames}]
  /\ skipped \in BOOLEAN
  /\ failures \in 0..MaxFailures

(* The frame the worker is sending is not replaced under its hands.        *)
TransferUntorn ==
  [][worker.pc = "refreshing" /\ worker'.pc = "refreshing"
       => spi_buf' = spi_buf /\ service'.mode = service.mode]_vars

(* Without failures an idle display shows the last frame it accepted, and  *)
(* of its status bar it remembers that it does not: only a menu or the     *)
(* first update after a button wake leave old icons behind.                *)
OldIconsRemembered ==
  service.handle /\ ~busy /\ failures = 0
    => /\ panel.bottom = Bottom(service.prev)
       /\ panel.top = Top(service.prev) \/ service.menu_exited \/ skipped

(* The controller is put to sleep after the worker has left it, with the   *)
(* last frame on the panel, which stays there throughout the sleep.        *)
SleepShowsLast ==
  main = "asleep" => /\ worker.pc = "gone"
                     /\ failures = 0 => panel.bottom = Bottom(frame)

(* Outside the menus the panel, status bar included, ends up showing a     *)
(* frame that stays the same, in spite of dropped updates and failures.    *)
CatchesUp ==
  \A f \in {g \in Frames : g.screen \in {"Home", "Passkey"}} :
    <>[](main = "running" /\ service.handle /\ frame = f) => <>[](panel = Shown(f))
=============================================================================
