------------------------- MODULE PeripheralsProofs --------------------------
(***************************************************************************)
(* Proofs about DisplayService, for any bodies, headers and numbers of     *)
(* refreshes and failures: the hand-over of a frame to the worker, what    *)
(* the service knows of the panel, and what a sleeping device shows.  And  *)
(* about PowerPath: how long the external watchdog goes without a pulse.   *)
(***************************************************************************)
EXTENDS DisplayService, PowerPath, TLAPS

-----------------------------------------------------------------------------
(* Who has the frame: a busy worker has it or is about to take it, and one *)
(* that is told to leave its loop has nothing left to take.                *)
HandOver ==
  /\ ~service.handle => worker.pc = "gone" /\ ~busy
  /\ service.running <=> service.handle /\ main # "stopping"
  /\ service.running => worker.pc # "gone"
  /\ worker.pc = "refreshing" => busy /\ (service.running => ~worker.notified)
  /\ busy => \/ worker.pc = "refreshing"
             \/ WorkerRuns /\ service.running
  /\ WorkerRuns /\ service.running => busy
  /\ main = "stopping" /\ worker.pc = "waiting" => worker.notified
  /\ main \in {"off", "asleep"} => ~service.handle
  /\ busy => spi_buf = service.prev

(* The old icons of a panel that shows another status bar than the last    *)
(* frame's are accounted for, also while a differential refresh runs,      *)
(* which leaves the status bar alone.                                      *)
TopAccounted == \/ panel.top = Top(service.prev)
                \/ service.menu_exited
                \/ skipped
PanelKnown ==
  failures = 0 /\ service.handle
    => /\ ~busy => panel.bottom = Bottom(service.prev) /\ TopAccounted
       /\ busy /\ service.mode = "Partial" => TopAccounted

(* Without failures there is a worker whenever the device is up, and from  *)
(* the last update on the service holds the Orchestrator's frame.          *)
LastFrame ==
  failures = 0 =>
    /\ main \notin {"off", "asleep"} => service.handle
    /\ main \in {"submitted", "stopping"} => service.prev = frame
    /\ main = "asleep" => panel.bottom = Bottom(frame)

IInv == TypeOK /\ HandOver /\ PanelKnown /\ LastFrame
-----------------------------------------------------------------------------
ServiceType == [handle: BOOLEAN, running: BOOLEAN, prev: Frames,
                mode: {"Full", "Fast", "Partial"}, menu_exited: BOOLEAN,
                defer_header_check: BOOLEAN]
WorkerType == [pc: {"gone", "waiting", "refreshing"}, notified: BOOLEAN]

(* An update is drawn by a worker that waits, or changes nothing.          *)
LEMMA SubmitInv ==
  ASSUME NEW f \in Frames, IInv, Submit(f), Accepts, UNCHANGED <<panel, failures>>,
         main \notin {"off", "asleep", "stopping"},
         main' \notin {"off", "asleep", "stopping"}
  PROVE  /\ HandOver' /\ PanelKnown'
         /\ service' \in ServiceType /\ worker' \in WorkerType
         /\ spi_buf' \in Frames /\ skipped' \in BOOLEAN /\ busy' \in BOOLEAN
         /\ service'.handle /\ service'.prev = f
<1> DEFINE mode == ModeFor(f)
<1>1. mode \in {"Full", "Fast", "Partial"}
  BY DEF ModeFor
<1>2. MenuExited(f, mode) \in BOOLEAN
  BY DEF MenuExited
<1>3. /\ service \in ServiceType /\ worker \in WorkerType
      /\ skipped \in BOOLEAN
  BY DEF IInv, TypeOK, ServiceType, WorkerType
<1>4. /\ service' = [service EXCEPT !.mode = mode, !.prev = f,
                                    !.menu_exited = MenuExited(f, mode),
                                    !.defer_header_check = FALSE]
      /\ skipped' = (/\ mode = "Partial"
                     /\ skipped \/ (service.defer_header_check /\ HeaderChanged(f)))
      /\ spi_buf' = f
      /\ busy' = TRUE
      /\ worker' = [worker EXCEPT !.notified = TRUE]
  BY DEF Submit
<1> HIDE DEF mode
<1>5. /\ service' \in ServiceType /\ worker' \in WorkerType
      /\ spi_buf' \in Frames /\ skipped' \in BOOLEAN /\ busy' \in BOOLEAN
  BY <1>1, <1>2, <1>3, <1>4 DEF ServiceType, WorkerType
<1>6. /\ service'.handle = service.handle /\ service'.running = service.running
      /\ service'.prev = f /\ service'.mode = mode
      /\ service'.menu_exited = MenuExited(f, mode)
      /\ worker'.pc = worker.pc /\ worker'.notified = TRUE
  BY <1>3, <1>4 DEF ServiceType, WorkerType
<1>7. service.handle /\ service.running /\ worker.pc = "waiting"
  BY <1>3 DEF Accepts, IInv, HandOver, WorkerType
<1>8. HandOver'
  BY <1>4, <1>6, <1>7 DEF HandOver, WorkerRuns
<1>9. ASSUME failures = 0, mode = "Partial" PROVE TopAccounted'
  <2>1. TopAccounted
    BY <1>7, <1>9 DEF IInv, PanelKnown, Accepts
  <2>2. CASE MenuExited(f, mode)
    BY <2>2, <1>6 DEF TopAccounted
  <2>3. CASE ~MenuExited(f, mode)
    <3>1. ~MenuNavigation(f) /\ ~service.menu_exited
      BY <2>3, <1>9 DEF MenuExited
    <3>2. CanPartial(f)
      BY <3>1, <1>9 DEF ModeFor, mode
    <3>3. CASE HeaderChanged(f)
      BY <3>2, <3>3, <1>4, <1>9 DEF CanPartial, TopAccounted
    <3>4. CASE ~HeaderChanged(f)
      <4>1. Top(f) = Top(service.prev)
        BY <3>2, <3>4 DEF CanPartial, HeaderChanged, Top
      <4>2. panel.top = Top(service.prev) \/ skipped
        BY <2>1, <3>1 DEF TopAccounted
      <4>3. panel'.top = Top(f) \/ skipped'
        BY <4>1, <4>2, <1>4, <1>9
      <4> QED
        BY <4>3, <1>6 DEF TopAccounted
    <3> QED
      BY <3>3, <3>4
  <2> QED
    BY <2>2, <2>3
<1>10. PanelKnown'
  BY <1>4, <1>6, <1>9 DEF PanelKnown
<1> QED
  BY <1>5, <1>6, <1>7, <1>8, <1>10

DisplayTypeOK == /\ service \in ServiceType /\ worker \in WorkerType
                 /\ spi_buf \in Frames /\ skipped \in BOOLEAN /\ busy \in BOOLEAN
                 /\ diff_count \in 0..UINT8_MAX /\ failures \in 0..MaxFailures
                 /\ panel \in [top: Headers \cup {"blank"},
                               bottom: {Bottom(f) : f \in Frames}]
displayVars == <<service, skipped, spi_buf, busy, worker, diff_count, panel, failures>>
Quiet == UNCHANGED displayVars

LEMMA UpdateInv ==
  ASSUME NEW f \in Frames, IInv, Update(f) \/ Quiet,
         main \notin {"off", "asleep", "stopping"},
         main' \notin {"off", "asleep", "stopping"}
  PROVE  /\ HandOver' /\ PanelKnown' /\ DisplayTypeOK'
         /\ service'.handle = service.handle /\ failures' = failures
         /\ Update(f) /\ Accepts => service'.prev = f
<1>1. DisplayTypeOK
  BY DEF IInv, TypeOK, DisplayTypeOK, ServiceType, WorkerType
<1>2. CASE Update(f) /\ Accepts
  <2>1. Submit(f) /\ UNCHANGED <<diff_count, panel, failures>>
    BY <1>2 DEF Update
  <2>2. UNCHANGED <<panel, failures>>
    BY <2>1
  <2>3. /\ HandOver' /\ PanelKnown'
        /\ service' \in ServiceType /\ worker' \in WorkerType
        /\ spi_buf' \in Frames /\ skipped' \in BOOLEAN /\ busy' \in BOOLEAN
        /\ service'.handle /\ service'.prev = f
    BY <1>2, <2>1, <2>2, SubmitInv
  <2>4. service.handle
    BY <1>2 DEF Accepts
  <2>5. service.handle \in BOOLEAN /\ service'.handle \in BOOLEAN
    BY <1>1, <2>3 DEF DisplayTypeOK, ServiceType
  <2> QED
    BY <1>1, <2>1, <2>3, <2>4, <2>5 DEF DisplayTypeOK
<1>3. CASE ~(Update(f) /\ Accepts)
  <2>1. Quiet
    BY <1>3 DEF Update, Quiet, displayVars
  <2>2. HandOver'
    BY <2>1 DEF Quiet, displayVars, HandOver, WorkerRuns, IInv
  <2>3. PanelKnown'
    BY <2>1 DEF Quiet, displayVars, PanelKnown, TopAccounted, IInv
  <2>4. DisplayTypeOK'
    BY <1>1, <2>1 DEF Quiet, displayVars, DisplayTypeOK
  <2> QED
    BY <2>1, <2>2, <2>3, <2>4, <1>3 DEF Quiet, displayVars
<1> QED
  BY <1>2, <1>3

(* The event loop, and a shutdown: the frame changes, and is drawn or not. *)
LEMMA LoopInv ==
  ASSUME NEW f \in Frames, IInv, Update(f) \/ Quiet,
         main \in {"running", "tracking_stopped"},
         main' \in {"running", "tracking_stopped", "delay", "waiting"},
         frame' \in Frames, locked' \in BOOLEAN
  PROVE  IInv'
<1>1. /\ HandOver' /\ PanelKnown' /\ DisplayTypeOK'
      /\ service'.handle = service.handle /\ failures' = failures
  BY UpdateInv
<1>2. TypeOK'
  BY <1>1 DEF TypeOK, DisplayTypeOK, ServiceType, WorkerType
<1>3. LastFrame'
  BY <1>1 DEF IInv, LastFrame
<1> QED
  BY <1>1, <1>2, <1>3 DEF IInv

LEMMA InputInv == ASSUME IInv, InputNext PROVE IInv'
<1>1. frame \in Frames /\ locked \in BOOLEAN
  BY DEF IInv, TypeOK
<1>2. CASE Touch
  <2>1. frame' \in Frames
    BY <1>2 DEF Touch
  <2> QED
    BY <1>1, <1>2, <2>1, LoopInv DEF Touch, Running, UpdateDisplay
<1>3. CASE TouchIgnored
  <2>1. frame' \in Frames
    BY <1>1, <1>3 DEF TouchIgnored, Frames
  <2> QED
    BY <1>1, <1>3, <2>1, LoopInv DEF TouchIgnored, Running, UpdateDisplay
<1>4. CASE Lock
  <2>1. frame' \in Frames
    BY <1>4 DEF Lock, HomeFrames
  <2> QED
    BY <1>1, <1>4, <2>1, LoopInv DEF Lock, Running, UpdateDisplay
<1>5. CASE Unlock
  <2>1. frame' \in Frames
    BY <1>1, <1>5 DEF Unlock, Frames
  <2> QED
    BY <1>1, <1>5, <2>1, LoopInv DEF Unlock, Running, UpdateDisplay
<1> QED
  BY <1>2, <1>3, <1>4, <1>5 DEF InputNext

(* A background update is an update, or, in a menu, nothing.               *)
LEMMA BackgroundIsUpdate ==
  ASSUME RequestBackgroundUpdate
  PROVE  Update(frame') \/ Quiet
BY DEF RequestBackgroundUpdate, UpdateDisplay, Quiet, displayVars

LEMMA EventInv == ASSUME IInv, EventNext PROVE IInv'
<1>1. frame \in Frames /\ locked \in BOOLEAN
  BY DEF IInv, TypeOK
<1>2. CASE OnBlePairingRequest
  <2>1. frame' \in Frames
    BY <1>1, <1>2 DEF OnBlePairingRequest, Frames
  <2> QED
    BY <1>1, <1>2, <2>1, LoopInv DEF OnBlePairingRequest, Running, UpdateDisplay
<1>3. CASE OnBleEvent
  <2>1. frame' \in Frames
    BY <1>1, <1>3 DEF OnBleEvent, Frames
  <2> QED
    BY <1>1, <1>3, <2>1, LoopInv, BackgroundIsUpdate DEF OnBleEvent, Running
<1>4. CASE OnSensorData
  <2>1. frame' \in Frames
    BY <1>1, <1>4 DEF OnSensorData, Frames
  <2> QED
    BY <1>1, <1>4, <2>1, LoopInv, BackgroundIsUpdate DEF OnSensorData, Running
<1>5. CASE OnGpsFix
  <2>1. frame' \in Frames
    BY <1>1, <1>5 DEF OnGpsFix, Frames
  <2>2. Quiet
    BY <1>5 DEF OnGpsFix, Quiet, displayVars
  <2> QED
    BY <1>1, <1>5, <2>1, <2>2, LoopInv DEF OnGpsFix, Running
<1> QED
  BY <1>2, <1>3, <1>4, <1>5 DEF EventNext

LEMMA ShutdownInv == ASSUME IInv, ShutdownNext PROVE IInv'
<1>1. frame \in Frames /\ locked \in BOOLEAN
  BY DEF IInv, TypeOK
<1>2. CASE Shutdown
  <2>1. frame' \in Frames
    BY <1>1, <1>2 DEF Shutdown, Frames
  <2>2. Update(frame')
    BY <1>2 DEF Shutdown, UpdateDisplay
  <2>3. /\ main \in {"running", "tracking_stopped"}
        /\ main' \in {"running", "tracking_stopped", "delay", "waiting"}
        /\ locked' \in BOOLEAN
    BY <1>1, <1>2 DEF Shutdown, Running
  <2> QED
    BY <2>1, <2>2, <2>3, LoopInv
<1>3. CASE ShowShutdown
  <2>1. frame' \in Frames
    BY <1>1, <1>3 DEF ShowShutdown, Frames
  <2> QED
    BY <1>1, <1>3, <2>1, LoopInv DEF ShowShutdown, UpdateDisplay
<1>4. CASE PowerOff
  <2>1. /\ service' \in ServiceType /\ worker' \in WorkerType
        /\ service'.handle = FALSE /\ worker'.pc = "gone"
    BY <1>4 DEF PowerOff, IInv, TypeOK, ServiceType, WorkerType
  <2>2. TypeOK'
    BY <1>4, <2>1 DEF PowerOff, IInv, TypeOK, ServiceType, WorkerType
  <2>3. HandOver'
    BY <1>4, <2>1 DEF PowerOff, HandOver, WorkerRuns
  <2>4. PanelKnown'
    BY <2>1 DEF PanelKnown
  <2>5. LastFrame'
    BY <1>4 DEF PowerOff, LastFrame
  <2> QED
    BY <2>2, <2>3, <2>4, <2>5 DEF IInv
<1> QED
  BY <1>2, <1>3, <1>4 DEF ShutdownNext

LEMMA SleepInv == ASSUME IInv, SleepNext PROVE IInv'
<1>1. /\ frame \in Frames /\ locked \in BOOLEAN
      /\ service \in ServiceType /\ worker \in WorkerType
  BY DEF IInv, TypeOK, ServiceType, WorkerType
<1>2. CASE PrepareForSleep
  <2>1. Quiet
    BY <1>2 DEF PrepareForSleep, Quiet, displayVars
  <2> QED
    BY <1>1, <1>2, <2>1, LoopInv DEF PrepareForSleep, Running
<1>3. CASE SubmitLastFrame
  <2>1. /\ Update(frame) /\ main = "waiting" /\ main' = "submitted"
        /\ UNCHANGED <<frame, locked>>
        /\ service.handle => Accepts
    BY <1>3 DEF SubmitLastFrame, Accepts
  <2>2. /\ HandOver' /\ PanelKnown' /\ DisplayTypeOK'
        /\ service'.handle = service.handle /\ failures' = failures
        /\ Accepts => service'.prev = frame
    BY <1>1, <2>1, UpdateInv
  <2>3. TypeOK'
    BY <1>1, <2>1, <2>2 DEF TypeOK, DisplayTypeOK, ServiceType, WorkerType
  <2>4. LastFrame'
    BY <2>1, <2>2 DEF IInv, LastFrame
  <2> QED
    BY <2>2, <2>3, <2>4 DEF IInv
<1>4. CASE Stop
  <2>1. /\ main = "submitted" /\ MainRuns /\ main' = "stopping"
        /\ UNCHANGED <<frame, locked, busy, spi_buf, diff_count, panel, skipped, failures>>
    BY <1>4 DEF Stop
  <2>2. CASE service.handle
    <3>1. /\ service' = [service EXCEPT !.running = FALSE]
          /\ worker' = [worker EXCEPT !.notified = TRUE]
      BY <1>4, <2>2 DEF Stop
    <3>2. /\ service' \in ServiceType /\ worker' \in WorkerType
          /\ service'.handle = service.handle /\ service'.running = FALSE
          /\ service'.prev = service.prev /\ service'.mode = service.mode
          /\ service'.menu_exited = service.menu_exited
          /\ worker'.pc = worker.pc /\ worker'.notified = TRUE
      BY <1>1, <3>1 DEF ServiceType, WorkerType
    <3>3. TypeOK'
      BY <2>1, <3>2 DEF IInv, TypeOK, ServiceType, WorkerType
    <3>4. busy => worker.pc = "refreshing"
      BY <2>1 DEF IInv, HandOver, MainRuns
    <3>5. HandOver'
      BY <2>1, <2>2, <3>2, <3>4 DEF IInv, HandOver, WorkerRuns
    <3>6. PanelKnown'
      BY <2>1, <3>2 DEF IInv, PanelKnown, TopAccounted
    <3>7. LastFrame'
      BY <2>1, <3>2 DEF IInv, LastFrame
    <3> QED
      BY <3>3, <3>5, <3>6, <3>7 DEF IInv
  <2>3. CASE ~service.handle
    <3>1. UNCHANGED <<service, worker>>
      BY <1>4, <2>3 DEF Stop
    <3>2. TypeOK'
      BY <2>1, <3>1 DEF IInv, TypeOK
    <3>3. HandOver'
      BY <2>1, <2>3, <3>1 DEF IInv, HandOver, WorkerRuns
    <3>4. PanelKnown'
      BY <2>1, <3>1 DEF IInv, PanelKnown, TopAccounted
    <3>5. LastFrame'
      BY <2>1, <3>1 DEF IInv, LastFrame
    <3> QED
      BY <3>2, <3>3, <3>4, <3>5 DEF IInv
  <2> QED
    BY <2>2, <2>3
<1>5. CASE DeepSleep
  <2>1. /\ main = "stopping" /\ MainRuns /\ ~busy /\ main' = "asleep"
        /\ service' = [service EXCEPT !.handle = FALSE]
        /\ UNCHANGED <<frame, locked, busy, spi_buf, diff_count, worker, panel,
                       skipped, failures>>
    BY <1>5 DEF DeepSleep
  <2>2. /\ service' \in ServiceType /\ service'.handle = FALSE
        /\ service'.running = FALSE
    BY <1>1, <2>1 DEF ServiceType, IInv, HandOver
  <2>3. worker.pc = "gone"
    BY <1>1, <2>1 DEF IInv, HandOver, MainRuns, WorkerRuns, WorkerType
  <2>4. TypeOK'
    BY <2>1, <2>2 DEF IInv, TypeOK, ServiceType
  <2>5. HandOver'
    BY <2>1, <2>2, <2>3 DEF HandOver, WorkerRuns
  <2>6. PanelKnown'
    BY <2>2 DEF PanelKnown
  <2>7. failures = 0 => panel.bottom = Bottom(frame)
    BY <2>1 DEF IInv, PanelKnown, LastFrame
  <2>8. LastFrame'
    BY <2>1, <2>7 DEF LastFrame
  <2> QED
    BY <2>4, <2>5, <2>6, <2>8 DEF IInv
<1> QED
  BY <1>2, <1>3, <1>4, <1>5 DEF SleepNext

LEMMA WorkerTakeInv == ASSUME IInv, WorkerTake PROVE IInv'
<1>1. /\ service \in ServiceType /\ worker \in WorkerType
      /\ failures \in 0..MaxFailures
  BY DEF IInv, TypeOK, ServiceType, WorkerType
<1>2. /\ worker.pc = "waiting" /\ worker.notified
      /\ UNCHANGED <<main, frame, locked, service, spi_buf, diff_count, panel, skipped>>
  BY DEF WorkerTake, WorkerRuns
<1>3. CASE /\ worker' = [pc |-> IF service.running THEN "refreshing" ELSE "gone",
                         notified |-> FALSE]
           /\ UNCHANGED <<busy, failures>>
  <2>1. TypeOK'
    BY <1>2, <1>3 DEF IInv, TypeOK
  <2>2. HandOver'
    <3>1. CASE service.running
      BY <1>2, <1>3, <3>1 DEF IInv, HandOver, WorkerRuns
    <3>2. CASE ~service.running
      BY <1>2, <1>3, <3>2 DEF IInv, HandOver, WorkerRuns
    <3> QED
      BY <3>1, <3>2
  <2>3. PanelKnown' /\ LastFrame'
    BY <1>2, <1>3 DEF IInv, PanelKnown, TopAccounted, LastFrame
  <2> QED
    BY <2>1, <2>2, <2>3 DEF IInv
<1>4. CASE /\ service.running
           /\ Fails
           /\ worker' = [worker EXCEPT !.notified = FALSE]
           /\ busy' = FALSE
  <2>1. failures' \in 0..MaxFailures /\ failures' # 0
    BY <1>1, <1>4, DisplayAssumption DEF Fails
  <2>2. worker' \in WorkerType /\ worker'.pc = "waiting" /\ worker'.notified = FALSE
    BY <1>1, <1>2, <1>4 DEF WorkerType
  <2>3. TypeOK'
    BY <1>2, <1>4, <2>1, <2>2 DEF IInv, TypeOK, WorkerType
  <2>4. main # "stopping"
    BY <1>2, <1>4 DEF IInv, HandOver, WorkerRuns
  <2>5. HandOver'
    BY <1>2, <1>4, <2>2, <2>4 DEF IInv, HandOver, WorkerRuns
  <2>6. PanelKnown' /\ LastFrame'
    BY <2>1 DEF PanelKnown, LastFrame
  <2> QED
    BY <2>3, <2>5, <2>6 DEF IInv
<1> QED
  BY <1>3, <1>4 DEF WorkerTake

LEMMA WorkerFinishInv == ASSUME IInv, WorkerFinish PROVE IInv'
<1>1. /\ service \in ServiceType /\ worker \in WorkerType
      /\ failures \in 0..MaxFailures /\ diff_count \in 0..UINT8_MAX
      /\ spi_buf \in Frames
      /\ panel \in [top: Headers \cup {"blank"},
                    bottom: {Bottom(f) : f \in Frames}]
  BY DEF IInv, TypeOK, ServiceType, WorkerType
<1>2. /\ worker.pc = "refreshing"
      /\ \/ panel' = Refreshed /\ UNCHANGED failures
         \/ Fails /\ UNCHANGED panel
      /\ diff_count' = CountAfter
      /\ busy' = FALSE
      /\ worker' = [worker EXCEPT !.pc = LoopOrExit]
      /\ UNCHANGED <<main, frame, locked, service, spi_buf, skipped>>
  BY DEF WorkerFinish
<1>3. CountAfter \in 0..UINT8_MAX
  BY <1>1, DisplayAssumption DEF CountAfter
<1>4. /\ worker' \in WorkerType /\ worker'.notified = worker.notified
      /\ worker'.pc = IF service.running THEN "waiting" ELSE "gone"
  BY <1>1, <1>2 DEF WorkerType, LoopOrExit
<1>5. /\ Refreshed \in [top: Headers \cup {"blank"},
                        bottom: {Bottom(f) : f \in Frames}]
      /\ Refreshed.bottom = Bottom(spi_buf)
      /\ Refreshed.top = IF service.mode = "Partial" THEN panel.top ELSE Top(spi_buf)
  <2>1. Top(spi_buf) \in Headers \cup {"blank"}
    BY <1>1 DEF Top, Frames
  <2>2. Bottom(spi_buf) \in {Bottom(f) : f \in Frames}
    BY <1>1
  <2> QED
    BY <1>1, <2>1, <2>2 DEF Refreshed, Shown
<1>6. CASE panel' = Refreshed /\ UNCHANGED failures
  <2>1. TypeOK'
    BY <1>2, <1>3, <1>4, <1>5, <1>6 DEF IInv, TypeOK, WorkerType
  <2>2. HandOver'
    BY <1>2, <1>4 DEF IInv, HandOver, WorkerRuns
  <2>3. busy /\ spi_buf = service.prev
    BY <1>2 DEF IInv, HandOver
  <2>4. panel'.bottom = Bottom(service.prev)
    BY <1>5, <1>6, <2>3
  <2>5. failures = 0 /\ service.handle => TopAccounted'
    BY <1>2, <1>5, <1>6, <2>3 DEF IInv, PanelKnown, TopAccounted
  <2>6. PanelKnown'
    BY <1>2, <1>6, <2>4, <2>5 DEF PanelKnown
  <2>7. main # "asleep"
    BY <1>2 DEF IInv, HandOver
  <2>8. LastFrame'
    BY <1>2, <1>6, <2>7 DEF IInv, LastFrame
  <2> QED
    BY <2>1, <2>2, <2>6, <2>8 DEF IInv
<1>7. CASE Fails /\ UNCHANGED panel
  <2>1. failures' \in 0..MaxFailures /\ failures' # 0
    BY <1>1, <1>7, DisplayAssumption DEF Fails
  <2>2. TypeOK'
    BY <1>1, <1>2, <1>3, <1>4, <1>7, <2>1 DEF IInv, TypeOK, WorkerType
  <2>3. HandOver'
    BY <1>2, <1>4 DEF IInv, HandOver, WorkerRuns
  <2>4. PanelKnown' /\ LastFrame'
    BY <2>1 DEF PanelKnown, LastFrame
  <2> QED
    BY <2>2, <2>3, <2>4 DEF IInv
<1> QED
  BY <1>2, <1>6, <1>7

-----------------------------------------------------------------------------
(* The two ways to start the service; both leave it with a worker, or with *)
(* none and a failure on record.                                           *)
LEMMA ShownType ==
  ASSUME NEW f \in Frames
  PROVE  /\ Shown(f) \in [top: Headers \cup {"blank"}, bottom: {Bottom(g) : g \in Frames}]
         /\ Shown(f).top = Top(f) /\ Shown(f).bottom = Bottom(f)
<1>1. Top(f) \in Headers \cup {"blank"}
  BY DEF Top, Frames
<1>2. Bottom(f) \in {Bottom(g) : g \in Frames}
  OBVIOUS
<1> QED
  BY <1>1, <1>2 DEF Shown

LEMMA FreshType ==
  ASSUME NEW f \in Frames
  PROVE  /\ Fresh(f) \in ServiceType
         /\ [Fresh(f) EXCEPT !.defer_header_check = TRUE] \in ServiceType
         /\ [Fresh(f) EXCEPT !.handle = FALSE, !.running = FALSE] \in ServiceType
BY DEF Fresh, ServiceType

LEMMA StartInv ==
  ASSUME NEW f \in HomeFrames, IInv, InitNow(f) \/ InitDeferred(f),
         main \in {"off", "asleep"}, main' \in {"running", "submitted"},
         frame' \in Frames, locked' \in BOOLEAN,
         main' = "submitted" => frame' = f
  PROVE  IInv'
<1>1. f \in Frames
  BY DEF HomeFrames
<1>2. /\ failures \in 0..MaxFailures /\ spi_buf \in Frames
      /\ panel \in [top: Headers \cup {"blank"},
                    bottom: {Bottom(g) : g \in Frames}]
  BY DEF IInv, TypeOK
<1>3. diff_count' = 0 /\ skipped' = FALSE /\ spi_buf' \in Frames /\ 0 \in 0..UINT8_MAX
  BY <1>1, <1>2, DisplayAssumption DEF InitNow, InitDeferred
<1>4. CASE /\ service' = Fresh(f)
           /\ worker' = [pc |-> "waiting", notified |-> FALSE]
           /\ panel' = Shown(f) /\ busy' = FALSE
           /\ UNCHANGED failures
  <2>1. TypeOK'
    BY <1>1, <1>2, <1>3, <1>4, ShownType, FreshType DEF TypeOK, ServiceType
  <2>2. HandOver'
    BY <1>4 DEF HandOver, WorkerRuns, Fresh
  <2>3. panel'.bottom = Bottom(f) /\ panel'.top = Top(f) /\ service'.prev = f
    BY <1>1, <1>4, ShownType DEF Fresh
  <2>4. PanelKnown'
    BY <1>4, <2>3 DEF PanelKnown, TopAccounted
  <2>5. LastFrame'
    BY <1>4, <2>3 DEF LastFrame, Fresh
  <2> QED
    BY <2>1, <2>2, <2>4, <2>5 DEF IInv
<1>5. CASE /\ service' = [Fresh(f) EXCEPT !.defer_header_check = TRUE]
           /\ worker' = [pc |-> "waiting", notified |-> TRUE]
           /\ busy' = TRUE /\ spi_buf' = f
           /\ UNCHANGED <<panel, failures>>
  <2>1. TypeOK'
    BY <1>1, <1>2, <1>3, <1>5, FreshType DEF TypeOK, ServiceType
  <2>2. /\ service'.handle /\ service'.running /\ service'.prev = f
        /\ service'.mode = "Full"
    BY <1>5 DEF Fresh
  <2>3. HandOver'
    BY <1>5, <2>2 DEF HandOver, WorkerRuns
  <2>4. PanelKnown' /\ LastFrame'
    BY <1>5, <2>2 DEF PanelKnown, LastFrame
  <2> QED
    BY <2>1, <2>3, <2>4 DEF IInv
<1>6. CASE /\ Fails
           /\ service' = [Fresh(f) EXCEPT !.handle = FALSE, !.running = FALSE]
           /\ worker' = [pc |-> "gone", notified |-> FALSE]
           /\ panel' \in {panel, Shown(f)} /\ busy' = FALSE
  <2>1. failures' \in 0..MaxFailures /\ failures' # 0
    BY <1>2, <1>6, DisplayAssumption DEF Fails
  <2>2. TypeOK'
    <3>1. service' \in ServiceType
      BY <1>1, <1>6, FreshType
    <3>2. panel' \in [top: Headers \cup {"blank"}, bottom: {Bottom(g) : g \in Frames}]
      BY <1>1, <1>2, <1>6, ShownType
    <3> QED
      BY <1>3, <1>6, <2>1, <3>1, <3>2 DEF TypeOK, ServiceType
  <2>3. service'.handle = FALSE /\ service'.running = FALSE
    BY <1>6 DEF Fresh
  <2>4. HandOver'
    BY <1>6, <2>3 DEF HandOver, WorkerRuns
  <2>5. PanelKnown' /\ LastFrame'
    BY <2>1 DEF PanelKnown, LastFrame
  <2> QED
    BY <2>2, <2>4, <2>5 DEF IInv
<1> QED
  BY <1>4, <1>5, <1>6 DEF InitNow, InitDeferred

LEMMA BootInv == ASSUME IInv, BootNext PROVE IInv'
<1>1. CASE PowerOn
  BY <1>1, StartInv DEF PowerOn, HomeFrames
<1>2. CASE WakeByButton
  BY <1>2, StartInv DEF WakeByButton, HomeFrames
<1>3. CASE WakeByTimer
  <2>1. PICK f \in HomeFrames :
          /\ InitNow(f)
          /\ \/ /\ main' = "submitted"
                /\ frame' = f
                /\ locked' = TRUE
             \/ /\ main' = "running"
                /\ frame' \in HomeFrames
                /\ locked' \in BOOLEAN
    BY <1>3 DEF WakeByTimer
  <2>2. /\ main = "asleep" /\ frame' \in Frames /\ locked' \in BOOLEAN
        /\ main' = "submitted" => frame' = f
    BY <1>3, <2>1 DEF WakeByTimer, HomeFrames
  <2> QED
    BY <2>1, <2>2, StartInv
<1> QED
  BY <1>1, <1>2, <1>3 DEF BootNext

LEMMA InitIInv == Init => IInv
<1> SUFFICES ASSUME Init PROVE IInv
  OBVIOUS
<1>1. frame \in Frames
  BY DEF Init, HomeFrames
<1>2. /\ service \in ServiceType
      /\ service.handle = FALSE /\ service.running = FALSE
  BY <1>1, FreshType DEF Init, Fresh
<1>3. TypeOK
  <2>1. panel \in [top: Headers \cup {"blank"}, bottom: {Bottom(g) : g \in Frames}]
    BY <1>1, ShownType DEF Init
  <2>2. failures \in 0..MaxFailures /\ diff_count \in 0..UINT8_MAX
    BY DisplayAssumption DEF Init
  <2> QED
    BY <1>1, <1>2, <2>1, <2>2 DEF Init, TypeOK, ServiceType
<1>4. HandOver
  BY <1>2 DEF Init, HandOver, WorkerRuns
<1>5. PanelKnown /\ LastFrame
  BY <1>2 DEF Init, PanelKnown, LastFrame
<1> QED
  BY <1>3, <1>4, <1>5 DEF IInv

LEMMA StepIInv == ASSUME IInv, [Next]_vars PROVE IInv'
<1>1. CASE UNCHANGED vars
  <2>1. TypeOK'
    BY <1>1 DEF vars, IInv, TypeOK
  <2>2. HandOver'
    BY <1>1 DEF vars, IInv, HandOver, WorkerRuns
  <2>3. PanelKnown' /\ LastFrame'
    BY <1>1 DEF vars, IInv, PanelKnown, TopAccounted, LastFrame
  <2> QED
    BY <2>1, <2>2, <2>3 DEF IInv
<1> QED
  BY <1>1, BootInv, InputInv, EventInv, ShutdownInv, SleepInv, WorkerTakeInv,
     WorkerFinishInv DEF Next

LEMMA AlwaysIInv == Spec => []IInv
BY InitIInv, StepIInv, PTL DEF Spec

(* Every variable keeps its type; the count of differential refreshes      *)
(* stays below its limit (_worker_loop).                                   *)
THEOREM DisplayTypeInvariant == Spec => []TypeOK
<1>1. IInv => TypeOK
  BY DEF IInv
<1> QED
  BY <1>1, AlwaysIInv, PTL

(* Without failures an idle display shows the last frame update() took,    *)
(* or knows that a menu or a button wake left old icons.                   *)
THEOREM IconsAreRemembered == Spec => []OldIconsRemembered
<1>1. IInv => OldIconsRemembered
  BY DEF IInv, PanelKnown, TopAccounted, OldIconsRemembered
<1> QED
  BY <1>1, AlwaysIInv, PTL

(* stop() leaves no worker behind, and without failures a sleeping device  *)
(* shows the frame the Orchestrator built last.                            *)
THEOREM SleepingPanelIsCurrent == Spec => []SleepShowsLast
<1>1. IInv => SleepShowsLast
  BY DEF IInv, HandOver, LastFrame, SleepShowsLast
<1> QED
  BY <1>1, AlwaysIInv, PTL

(* While the worker sends a frame, update() replaces neither the frame nor *)
(* the tier of its refresh: _worker_busy alone guards the buffer.          *)
THEOREM FramesAreNotTorn == Spec => TransferUntorn
<1>1. ASSUME IInv, [Next]_vars, worker.pc = "refreshing", worker'.pc = "refreshing"
      PROVE  spi_buf' = spi_buf /\ service'.mode = service.mode
  <2>1. ~Accepts /\ main \notin {"off", "asleep"}
    BY <1>1 DEF IInv, HandOver, Accepts
  <2>2. Update(frame) \/ Update(frame') => spi_buf' = spi_buf /\ service' = service
    BY <2>1 DEF Update
  <2>3. CASE InputNext \/ EventNext
    <3>1. UpdateDisplay \/ RequestBackgroundUpdate \/ UNCHANGED <<spi_buf, service>>
      BY <2>3 DEF InputNext, Touch, TouchIgnored, Lock, Unlock, EventNext,
                  OnBlePairingRequest, OnBleEvent, OnSensorData, OnGpsFix
    <3>2. Update(frame') \/ UNCHANGED <<spi_buf, service>>
      BY <3>1 DEF RequestBackgroundUpdate, UpdateDisplay
    <3> QED
      BY <3>2, <2>2
  <2>4. CASE ShutdownNext
    <3>1. CASE Shutdown \/ ShowShutdown
      <4>1. UpdateDisplay
        BY <3>1 DEF Shutdown, ShowShutdown
      <4> QED
        BY <4>1, <2>2 DEF UpdateDisplay
    <3>2. ~PowerOff
      BY <1>1 DEF PowerOff
    <3> QED
      BY <2>4, <3>1, <3>2 DEF ShutdownNext
  <2>5. CASE SleepNext
    <3>1. service \in ServiceType
      BY <1>1 DEF IInv, TypeOK, ServiceType
    <3>2. CASE SubmitLastFrame
      BY <3>2, <2>2 DEF SubmitLastFrame
    <3>3. CASE PrepareForSleep \/ Stop \/ DeepSleep
      BY <3>1, <3>3 DEF PrepareForSleep, Stop, DeepSleep, ServiceType
    <3> QED
      BY <2>5, <3>2, <3>3 DEF SleepNext
  <2>6. CASE WorkerTake \/ WorkerFinish \/ UNCHANGED vars
    BY <2>6 DEF WorkerTake, WorkerFinish, vars
  <2>7. ~BootNext
    BY <2>1 DEF BootNext, PowerOn, WakeByButton, WakeByTimer
  <2> QED
    BY <1>1, <2>3, <2>4, <2>5, <2>6, <2>7 DEF Next
<1> QED
  BY <1>1, AlwaysIInv, PTL DEF Spec, TransferUntorn

-----------------------------------------------------------------------------
(* The external watchdog.                                                  *)

(* Where the CPU serves the timers of the main task, or is about to.       *)
Served == {"start", "fast", "polled", "run"}

(* How long the external watchdog can have gone without a pulse.  From     *)
(* power() on the CPU feeds it as often as it serves its timers; asleep    *)
(* the LP core feeds it; and a boot adds to what was there the time until  *)
(* power(), once for every reset on the way.                               *)
BootBound(n) == MaxAway * (n + 1)
FedInv ==
  /\ cpu \in Served => pinOwner = "CPU" /\ ~halt /\ fed <= away
  /\ cpu = "asleep" => pinOwner = "LP" /\ lpRuns /\ ~halt /\ fed <= MaxAway
  /\ cpu = "off" => fed <= MaxAway
  /\ cpu \in {"booting", "ready"} => halt \/ fed <= BootBound(faults) + away
  /\ cpu = "halted" => halt
  /\ poll # "none" => cpu \in {"start", "fast", "run"}

PowerInv == PowerTypeOK /\ FedInv

LEMMA BootBoundGrows ==
  ASSUME NEW m \in Nat, NEW n \in Nat, m <= n
  PROVE  BootBound(m) \in Nat /\ BootBound(m) <= BootBound(n)
BY TimeAssumption DEF BootBound

LEMMA BootBoundStep ==
  ASSUME NEW n \in Nat
  PROVE  /\ BootBound(n) \in Nat /\ MaxAway \in Nat /\ MaxAway <= BootBound(n)
         /\ BootBound(n + 1) = BootBound(n) + MaxAway
BY TimeAssumption DEF BootBound

LEMMA FedType ==
  ASSUME PowerInv
  PROVE  /\ fed \in Nat /\ away \in Nat /\ away <= MaxAway /\ fed <= Timeout
         /\ faults \in Nat /\ MaxAway \in Nat /\ Timeout \in Nat
         /\ halt \in BOOLEAN
BY TimeAssumption, BoundAssumption DEF PowerInv, PowerTypeOK

LEMMA ModeType ==
  /\ PmidModeFor(Source) \in Modes
  /\ Source \in Sources
  /\ \A source : PmidModeFor(source) \in Modes
BY DEF PmidModeFor, Source, Modes, Sources

LEMMA TransfersType ==
  ASSUME PowerTypeOK, NEW ok, Transfers(ok)
  PROVE  faults' \in 0 .. MaxFaults
BY BoundAssumption DEF PowerTypeOK, Transfers

LEMMA FaultType ==
  ASSUME PowerTypeOK, faults < MaxFaults, faults' = faults + 1
  PROVE  faults' \in 0 .. MaxFaults
BY BoundAssumption DEF PowerTypeOK

LEMMA InitBmsInv ==
  ASSUME PowerInv, InitBms
  PROVE  PowerInv'
<1>1. /\ cpu = "booting" /\ cpu' = "ready"
      /\ UNCHANGED <<cause, away, due, fed, halt, pinOwner, lpRuns, input, serviceMode,
                     poll, plugs>>
  BY DEF InitBms, watchdogVars
<1>2. /\ faults' \in 0 .. MaxFaults /\ faults <= faults'
      /\ attached' \in BOOLEAN /\ guarded' \in BOOLEAN /\ otg' \in BOOLEAN
      /\ driverMode' \in Modes
  <2>1. PICK failed \in {InitParts[i] : i \in DOMAIN InitParts} :
          /\ IF failed = "done" THEN UNCHANGED faults
                                ELSE faults < MaxFaults /\ faults' = faults + 1
          /\ attached' = Reached("probe", failed)
          /\ guarded' = (guarded /\ ~Reached("watchdog", failed))
          /\ IF Reached("rail", failed)
               THEN driverMode' = PmidModeFor(Source) /\ otg' = ~input
               ELSE UNCHANGED <<driverMode, otg>>
    BY DEF InitBms
  <2>2. faults' \in 0 .. MaxFaults /\ faults <= faults'
    BY <2>1, BoundAssumption DEF PowerInv, PowerTypeOK
  <2>3. attached' \in BOOLEAN /\ guarded' \in BOOLEAN
    BY <2>1 DEF Reached, PowerInv, PowerTypeOK
  <2>4. driverMode' \in Modes /\ otg' \in BOOLEAN
    BY <2>1, ModeType DEF PowerInv, PowerTypeOK
  <2>5. QED
    BY <2>2, <2>3, <2>4
<1>3. PowerTypeOK'
  BY <1>1, <1>2 DEF PowerInv, PowerTypeOK, On
<1>4. FedInv'
  <2>1. faults \in Nat /\ faults' \in Nat
    BY <1>2, FedType
  <2>2. BootBound(faults) \in Nat /\ BootBound(faults') \in Nat
        /\ BootBound(faults) <= BootBound(faults')
    BY <1>2, <2>1, BootBoundGrows
  <2>3. halt \/ fed <= BootBound(faults) + away
    BY <1>1 DEF PowerInv, FedInv
  <2>4. halt \/ fed <= BootBound(faults') + away
    BY <2>2, <2>3, FedType
  <2>5. poll = "none"
    BY <1>1 DEF PowerInv, FedInv
  <2>6. QED
    BY <1>1, <2>4, <2>5 DEF FedInv, Served
<1>5. QED
  BY <1>3, <1>4 DEF PowerInv

(* From here to the next boot the CPU, or asleep the LP core, feeds it.    *)
LEMMA PowerUpInv ==
  ASSUME PowerInv, PowerUp
  PROVE  PowerInv'
<1>1. /\ cpu' \in {"start", "fast"} /\ pinOwner' = "CPU" /\ fed' = 0 /\ halt' = FALSE
      /\ UNCHANGED <<cause, away, due, lpRuns, otg, guarded, input, attached,
                     driverMode, serviceMode, poll, faults, plugs>>
  BY DEF PowerUp, WatchdogPin, Pulse, chargerVars, cacheVars
<1>2. fed' \in 0 .. Timeout
  BY <1>1, TimeAssumption
<1>3. PowerTypeOK'
  BY <1>1, <1>2 DEF PowerInv, PowerTypeOK, On
<1>4. FedInv'
  BY <1>1, FedType DEF PowerInv, FedInv, Served
<1>5. QED
  BY <1>3, <1>4 DEF PowerInv

(* A step that leaves the watchdog alone, between phases that are served.  *)
LEMMA ServedInv ==
  ASSUME PowerInv, PowerTypeOK', cpu \in Served, cpu' \in Served,
         poll' # "none" => cpu' \in {"start", "fast", "run"},
         UNCHANGED <<away, fed, halt, pinOwner, lpRuns>>
  PROVE  PowerInv'
<1>1. FedInv'
  BY DEF PowerInv, FedInv, Served
<1>2. QED
  BY <1>1 DEF PowerInv

LEMMA PromoteInv ==
  ASSUME PowerInv, Promote
  PROVE  PowerInv'
<1>1. /\ cpu = "polled" /\ cpu' = "start"
      /\ UNCHANGED <<away, fed, halt, pinOwner, lpRuns>>
      /\ UNCHANGED <<cause, due, otg, guarded, input, attached,
                     driverMode, serviceMode, poll, faults, plugs>>
  BY DEF Promote, watchdogVars, chargerVars, cacheVars
<1>2. PowerTypeOK'
  BY <1>1 DEF PowerInv, PowerTypeOK, On
<1>3. poll = "none"
  BY <1>1 DEF PowerInv, FedInv
<1>4. QED
  BY <1>1, <1>2, <1>3, ServedInv DEF Served

LEMMA AfterPollType ==
  ASSUME cpu \in {"start", "fast", "run"}
  PROVE  AfterPoll \in Served
BY DEF AfterPoll, Served

LEMMA ReadStatusInv ==
  ASSUME PowerInv, cpu \in {"start", "fast", "run"}, poll = "none",
         ReadStatus, due' \subseteq {"poll", "feed"}
  PROVE  PowerInv'
<1>1. /\ UNCHANGED <<away, fed, halt, pinOwner, lpRuns>>
      /\ UNCHANGED <<cause, otg, guarded, input, attached,
                     driverMode, serviceMode, plugs>>
  BY DEF ReadStatus, watchdogVars, chargerVars, cacheVars
<1>2. PICK ok \in BOOLEAN :
        /\ Transfers(ok)
        /\ IF ok THEN poll' = Source /\ UNCHANGED cpu
                 ELSE cpu' = AfterPoll /\ UNCHANGED poll
  BY DEF ReadStatus
<1>3. faults' \in 0 .. MaxFaults
  BY <1>2, TransfersType DEF PowerInv
<1>4. cpu' \in Served /\ cpu \in Served /\ poll' \in Sources \cup {"none"}
  BY <1>2, AfterPollType, ModeType DEF Served, PowerInv, PowerTypeOK
<1>5. PowerTypeOK'
  BY <1>1, <1>3, <1>4 DEF PowerInv, PowerTypeOK, On, Served
<1>6. poll' # "none" => cpu' \in {"start", "fast", "run"}
  BY <1>2
<1>7. QED
  BY <1>1, <1>4, <1>5, <1>6, ServedInv

LEMMA PollsInv ==
  ASSUME PowerInv, PollAtBoot \/ PollBms \/ PollStatus
  PROVE  PowerInv'
<1>1. due' \subseteq {"poll", "feed"}
  BY DEF PollAtBoot, PollBms, PollStatus, PowerInv, PowerTypeOK
<1>2. QED
  BY <1>1, ReadStatusInv DEF PollAtBoot, PollBms, PollStatus, ReadStatus

(* A poll that fails changes neither mode, or the charger's alone. *)
LEMMA SyncType ==
  ASSUME PowerTypeOK, NEW desired \in Modes, NEW ok \in BOOLEAN,
         SyncPmidMode(desired, ok)
  PROVE  /\ driverMode' \in Modes /\ serviceMode' \in Modes /\ otg' \in BOOLEAN
         /\ faults' \in 0 .. MaxFaults
<1>1. CASE serviceMode = desired
  BY <1>1 DEF SyncPmidMode, PowerTypeOK, cacheVars
<1>2. CASE serviceMode # desired
  <2>1. /\ ConfigurePmidMode(desired, ok)
        /\ serviceMode' = IF ok THEN desired ELSE serviceMode
    BY <1>2 DEF SyncPmidMode, ServiceAfterFailure
  <2>2. faults' \in 0 .. MaxFaults
    BY <2>1, TransfersType DEF ConfigurePmidMode, PowerTypeOK
  <2>3. driverMode' \in Modes /\ otg' \in BOOLEAN
    BY <2>1 DEF ConfigurePmidMode, PowerTypeOK
  <2>4. QED
    BY <2>1, <2>2, <2>3 DEF PowerTypeOK
<1>3. QED
  BY <1>1, <1>2

LEMMA FinishPollInv ==
  ASSUME PowerInv, FinishPoll
  PROVE  PowerInv'
<1>1. /\ poll # "none" /\ poll' = "none" /\ cpu' = AfterPoll
      /\ UNCHANGED <<away, fed, halt, pinOwner, lpRuns>>
      /\ UNCHANGED <<cause, due, guarded, input, attached, plugs>>
  BY DEF FinishPoll, watchdogVars
<1>2. cpu \in {"start", "fast", "run"}
  BY <1>1 DEF PowerInv, FedInv
<1>3. cpu \in Served /\ cpu' \in Served
  BY <1>1, <1>2, AfterPollType DEF Served
<1>4. /\ driverMode' \in Modes /\ serviceMode' \in Modes /\ otg' \in BOOLEAN
      /\ faults' \in 0 .. MaxFaults
  BY SyncType, ModeType DEF FinishPoll, PowerInv
<1>5. PowerTypeOK'
  BY <1>1, <1>3, <1>4 DEF PowerInv, PowerTypeOK, On, Served
<1>6. QED
  BY <1>1, <1>3, <1>5, ServedInv

LEMMA FeedWatchdogInv ==
  ASSUME PowerInv, FeedWatchdog
  PROVE  PowerInv'
<1>1. /\ cpu = "run" /\ poll = "none" /\ due' = {} /\ away' = 0
      /\ UNCHANGED <<pinOwner, cpu, cause, lpRuns, otg, guarded, input, attached,
                     driverMode, serviceMode, poll, faults, plugs>>
  BY DEF FeedWatchdog, chargerVars, cacheVars
<1>2. pinOwner = "CPU"
  BY <1>1 DEF PowerInv, FedInv, Served
<1>3. fed' = 0 /\ halt' = FALSE
  BY <1>1, <1>2 DEF FeedWatchdog, Pulse
<1>4. fed' \in 0 .. Timeout /\ away' \in 0 .. MaxAway
  BY <1>1, <1>3, TimeAssumption
<1>5. PowerTypeOK'
  BY <1>1, <1>3, <1>4 DEF PowerInv, PowerTypeOK
<1>6. FedInv'
  BY <1>1, <1>2, <1>3 DEF FedInv, Served
<1>7. QED
  BY <1>5, <1>6 DEF PowerInv

(* Both ways to sleep leave the watchdog pulsed not long before.           *)
LEMMA AsleepInv ==
  ASSUME PowerInv, EnterSleep \/ FastPathSleeps
  PROVE  PowerInv'
<1>1. /\ cpu' = "asleep" /\ lpRuns' = TRUE /\ pinOwner' = "LP" /\ poll = "none"
      /\ UNCHANGED <<cause, away, due, otg, guarded, input, attached,
                     driverMode, serviceMode, poll, faults, plugs>>
  BY DEF EnterSleep, FastPathSleeps, Sleeps, chargerVars, cacheVars
<1>2. cpu \in Served /\ ((fed' = 0 /\ halt' = FALSE) \/ UNCHANGED <<fed, halt>>)
  BY DEF EnterSleep, FastPathSleeps, Served
<1>3. ~halt' /\ fed' <= MaxAway /\ fed' \in 0 .. Timeout
  BY <1>2, FedType DEF PowerInv, FedInv
<1>4. PowerTypeOK'
  BY <1>1, <1>3, FedType, <1>2 DEF PowerInv, PowerTypeOK
<1>5. FedInv'
  BY <1>1, <1>3 DEF FedInv, Served
<1>6. QED
  BY <1>4, <1>5 DEF PowerInv

LEMMA SwitchOffInv ==
  ASSUME PowerInv, SwitchOff
  PROVE  PowerInv'
<1>1. /\ cpu = "run" /\ poll = "none"
      /\ UNCHANGED <<cause, away, due, fed, pinOwner, lpRuns, otg, guarded, input,
                     attached, driverMode, serviceMode, poll, plugs>>
  BY DEF SwitchOff, chargerVars, cacheVars
<1>2. PICK ok \in BOOLEAN :
        Transfers(ok) /\ cpu' = (IF ok THEN "off" ELSE "halted") /\ halt' = ~ok
  BY DEF SwitchOff
<1>3. faults' \in 0 .. MaxFaults
  BY <1>2, TransfersType DEF PowerInv
<1>4. PowerTypeOK'
  BY <1>1, <1>2, <1>3 DEF PowerInv, PowerTypeOK
<1>5. fed <= MaxAway
  BY <1>1, FedType DEF PowerInv, FedInv, Served
<1>6. FedInv'
  BY <1>1, <1>2, <1>5 DEF FedInv, Served
<1>7. QED
  BY <1>4, <1>6 DEF PowerInv

(* A boot starts with what the last phase left to the watchdog. *)
LEMMA BootsInv ==
  ASSUME PowerInv, NEW why \in {"PowerOn", "Timer", "Button"}, Boots(why),
         fed' \in 0 .. Timeout, halt' \in BOOLEAN, pinOwner' \in {"CPU", "LP"},
         otg' \in BOOLEAN, guarded' \in BOOLEAN, faults' \in 0 .. MaxFaults,
         halt' \/ fed' <= BootBound(faults')
  PROVE  PowerInv'
<1>1. /\ cpu' = "booting" /\ cause' = why /\ away' = 0 /\ due' = {}
      /\ lpRuns' = FALSE /\ attached' = FALSE /\ poll' = "none"
      /\ driverMode' = "Unknown" /\ serviceMode' = "Unknown"
      /\ UNCHANGED <<input, plugs>>
  BY DEF Boots
<1>2. away' \in 0 .. MaxAway
  BY <1>1, TimeAssumption
<1>3. PowerTypeOK'
  BY <1>1, <1>2 DEF PowerInv, PowerTypeOK, On, Modes
<1>4. halt' \/ fed' <= BootBound(faults') + away'
  <2>1. BootBound(faults') \in Nat /\ BootBound(faults') + 0 = BootBound(faults')
    BY BoundAssumption, BootBoundStep
  <2>2. QED
    BY <1>1, <2>1
<1>5. FedInv'
  BY <1>1, <1>4 DEF FedInv, Served
<1>6. QED
  BY <1>3, <1>5 DEF PowerInv

LEMMA WakeInv ==
  ASSUME PowerInv, Wake
  PROVE  PowerInv'
<1>1. PICK why \in {"PowerOn", "Timer", "Button"} : Boots(why)
  BY DEF Wake
<1>2. cpu \in {"asleep", "halted"} /\ UNCHANGED <<fed, halt, pinOwner, otg, guarded, faults>>
  BY DEF Wake, chargerVars
<1>3. halt \/ fed <= MaxAway
  BY <1>2 DEF PowerInv, FedInv
<1>4. halt \/ fed <= BootBound(faults)
  BY <1>3, FedType, BootBoundStep
<1>5. QED
  BY <1>1, <1>2, <1>4, BootsInv DEF PowerInv, PowerTypeOK

LEMMA NoPulseMissed ==
  ASSUME PowerInv, NEW why \in {"PowerOn"}, Boots(why), fed' = 0, halt' = FALSE,
         pinOwner' = "CPU", otg' \in BOOLEAN, guarded' \in BOOLEAN, UNCHANGED faults
  PROVE  PowerInv'
<1>1. fed' \in 0 .. Timeout
  BY TimeAssumption
<1>2. fed' <= BootBound(faults')
  BY FedType, BootBoundStep
<1>3. QED
  BY <1>1, <1>2, BootsInv DEF PowerInv, PowerTypeOK

LEMMA RestartInv ==
  ASSUME PowerInv, LeaveShipMode \/ WatchdogBites
  PROVE  PowerInv'
BY NoPulseMissed DEF LeaveShipMode, WatchdogBites, chargerVars, PowerInv, PowerTypeOK

(* A reset on the way to power() starts the time until then once more.     *)
LEMMA ResetInv ==
  ASSUME PowerInv, Reset
  PROVE  PowerInv'
<1>1. /\ cpu \in On /\ faults < MaxFaults /\ faults' = faults + 1 /\ Boots("PowerOn")
      /\ UNCHANGED <<fed, halt, pinOwner, otg, guarded>>
  BY DEF Reset, chargerVars
<1>2. faults' \in 0 .. MaxFaults
  BY <1>1, FaultType DEF PowerInv
<1>3. /\ BootBound(faults) \in Nat /\ MaxAway <= BootBound(faults)
      /\ BootBound(faults') = BootBound(faults) + MaxAway
  BY <1>1, FedType, BootBoundStep
<1>4. halt \/ fed <= BootBound(faults) + away
  <2>1. CASE cpu \in {"booting", "ready"}
    BY <2>1 DEF PowerInv, FedInv
  <2>2. CASE cpu \in Served
    BY <1>3, <2>2, FedType DEF PowerInv, FedInv
  <2>3. QED
    BY <1>1, <2>1, <2>2 DEF On, Served
<1>5. halt \/ fed <= BootBound(faults')
  BY <1>3, <1>4, FedType
<1>6. QED
  BY <1>1, <1>2, <1>5, BootsInv DEF PowerInv, PowerTypeOK

LEMMA MinuteInv ==
  ASSUME PowerInv, Minute
  PROVE  PowerInv'
<1>1. /\ cpu # "off" /\ fed < Timeout /\ (cpu \in On => away < MaxAway)
      /\ away' = IF cpu \in On THEN away + 1 ELSE away
      /\ due' = IF cpu = "run" THEN {"poll", "feed"} ELSE due
      /\ fed' = IF lpRuns /\ pinOwner = "LP" THEN 0 ELSE fed + 1
      /\ UNCHANGED <<cpu, cause, halt, pinOwner, lpRuns, otg, guarded, input, attached,
                     driverMode, serviceMode, poll, faults, plugs>>
  BY DEF Minute, chargerVars, cacheVars
<1>2. away' \in 0 .. MaxAway /\ fed' \in 0 .. Timeout
  BY <1>1, FedType
<1>3. PowerTypeOK'
  BY <1>1, <1>2 DEF PowerInv, PowerTypeOK
<1>4. CASE cpu \in Served
  <2>1. pinOwner = "CPU" /\ ~halt /\ fed <= away /\ cpu \in On
    BY <1>4 DEF PowerInv, FedInv, Served, On
  <2>2. fed' <= away'
    BY <1>1, <2>1, FedType
  <2>3. QED
    BY <1>1, <1>3, <1>4, <2>1, <2>2 DEF PowerInv, FedInv, Served
<1>5. CASE cpu = "asleep"
  <2>1. fed' = 0 /\ 0 <= MaxAway
    BY <1>1, <1>5, FedType DEF PowerInv, FedInv
  <2>2. QED
    BY <1>1, <1>3, <1>5, <2>1 DEF PowerInv, FedInv, Served
<1>6. CASE cpu \in {"booting", "ready"}
  <2>1. away' = away + 1 /\ (halt \/ fed <= BootBound(faults) + away)
    BY <1>1, <1>6 DEF PowerInv, FedInv, On
  <2>2. halt \/ fed' <= BootBound(faults) + away'
    BY <1>1, <2>1, FedType, BootBoundStep
  <2>3. QED
    BY <1>1, <1>3, <1>6, <2>2 DEF PowerInv, FedInv, Served
<1>7. CASE cpu = "halted"
  BY <1>1, <1>3, <1>7 DEF PowerInv, FedInv, Served
<1>8. QED
  BY <1>1, <1>4, <1>5, <1>6, <1>7 DEF PowerInv, PowerTypeOK, On, Served

LEMMA ChargerOrCableInv ==
  ASSUME PowerInv, ChargerResets \/ Plug
  PROVE  PowerInv'
<1>1. UNCHANGED <<cpu, cause, away, due, fed, halt, pinOwner, lpRuns, guarded, attached,
                  driverMode, serviceMode, poll, faults>>
  BY DEF ChargerResets, Plug, cpuVars, watchdogVars, chargerVars, cacheVars
<1>2. otg' \in BOOLEAN /\ input' \in BOOLEAN /\ plugs' \in 0 .. MaxPlugs
  <2>1. CASE ChargerResets
    BY <2>1 DEF ChargerResets, PowerInv, PowerTypeOK
  <2>2. CASE Plug
    <3>1. plugs < MaxPlugs /\ plugs' = plugs + 1 /\ input' = ~input /\ otg' = otg
      BY <2>2 DEF Plug, chargerVars
    <3>2. plugs' \in 0 .. MaxPlugs
      BY <3>1, BoundAssumption DEF PowerInv, PowerTypeOK
    <3>3. QED
      BY <3>1, <3>2 DEF PowerInv, PowerTypeOK
  <2>3. QED
    BY <2>1, <2>2
<1>3. PowerTypeOK'
  BY <1>1, <1>2 DEF PowerInv, PowerTypeOK
<1>4. FedInv'
  BY <1>1 DEF PowerInv, FedInv
<1>5. QED
  BY <1>3, <1>4 DEF PowerInv

LEMMA PowerInvariant == PowerSpec => []PowerInv
<1>1. PowerInit => PowerInv
  <2> SUFFICES ASSUME PowerInit
               PROVE  PowerInv
    OBVIOUS
  <2>1. PowerTypeOK
    <3>1. /\ away \in 0 .. MaxAway /\ fed \in 0 .. Timeout
          /\ faults \in 0 .. MaxFaults /\ plugs \in 0 .. MaxPlugs
      BY TimeAssumption, BoundAssumption DEF PowerInit
    <3>2. QED
      BY <3>1 DEF PowerInit, PowerTypeOK, On, Modes
  <2>2. fed = 0 /\ away = 0 /\ faults = 0 /\ 0 <= BootBound(0) + 0
    BY BootBoundStep DEF PowerInit
  <2>3. FedInv
    BY <2>2 DEF PowerInit, FedInv, Served
  <2>4. QED
    BY <2>1, <2>3 DEF PowerInv
<1>2. PowerInv /\ [PowerNext]_powerVars => PowerInv'
  <2> SUFFICES ASSUME PowerInv, [PowerNext]_powerVars
               PROVE  PowerInv'
    OBVIOUS
  <2>1. CASE BootSteps
    BY <2>1, InitBmsInv, PowerUpInv, PromoteInv DEF BootSteps
  <2>2. CASE Polling
    BY <2>2, PollsInv, FinishPollInv DEF Polling
  <2>3. CASE FeedWatchdog
    BY <2>3, FeedWatchdogInv
  <2>4. CASE Power
    BY <2>4, AsleepInv, SwitchOffInv, WakeInv, RestartInv DEF Power
  <2>5. CASE Hardware
    BY <2>5, ResetInv, MinuteInv, RestartInv, ChargerOrCableInv DEF Hardware
  <2>6. CASE UNCHANGED powerVars
    <3>1. /\ UNCHANGED <<cpu, cause, away, due, fed, halt, pinOwner, lpRuns>>
          /\ UNCHANGED <<otg, guarded, input, attached, driverMode, serviceMode, poll,
                         faults, plugs>>
      BY <2>6 DEF powerVars, cpuVars, watchdogVars, chargerVars, cacheVars
    <3>2. PowerTypeOK' /\ FedInv'
      BY <3>1 DEF PowerInv, PowerTypeOK, FedInv
    <3>3. QED
      BY <3>2 DEF PowerInv
  <2>7. QED
    BY <2>1, <2>2, <2>3, <2>4, <2>5, <2>6 DEF PowerNext
<1>3. QED
  BY <1>1, <1>2, PTL DEF PowerSpec

(* Charger, remembered modes and watchdog keep their types; the counts of  *)
(* faults and cable changes their bounds.                                  *)
THEOREM PowerTypeInvariant == PowerSpec => []PowerTypeOK
<1>1. PowerInv => PowerTypeOK
  BY DEF PowerInv
<1>2. QED
  BY <1>1, PowerInvariant, PTL

(* The watchdog may bite a device it was not halted for only in a boot.    *)
FedOnceUp == fed = Timeout => halt \/ cpu \in {"booting", "ready"}

(* However often the charger fails and the CPU is reset: a device that has *)
(* reached power() after its boot, and one that sleeps, is never bitten,   *)
(* if the watchdog waits longer than the CPU may be away.                  *)
THEOREM NeverBittenOnceUp ==
  ASSUME MaxAway < Timeout
  PROVE  PowerSpec => []FedOnceUp
<1>1. PowerInv => FedOnceUp
  <2> SUFFICES ASSUME PowerInv, fed = Timeout, cpu \notin {"booting", "ready"}
               PROVE  halt
    BY DEF FedOnceUp
  <2>1. ~(fed <= MaxAway) /\ ~(fed <= away)
    BY FedType
  <2>2. cpu \in Served \cup {"asleep", "off", "halted"}
    BY DEF PowerInv, PowerTypeOK, On, Served
  <2>3. QED
    BY <2>1, <2>2 DEF PowerInv, FedInv
<1>2. QED
  BY <1>1, PowerInvariant, PTL

(* Nor is a device that boots, although it takes the pin only at power():  *)
(* each of the resets there may be costs one more boot, and the sleep      *)
(* before them one more absence.  With one tick less the watchdog bites.   *)
THEOREM FedUntilHalted ==
  ASSUME (MaxFaults + 2) * MaxAway < Timeout
  PROVE  PowerSpec => []FedUnlessHalted
<1>1. BootBound(MaxFaults) + MaxAway < Timeout /\ MaxAway <= BootBound(MaxFaults)
  BY BootBoundStep, TimeAssumption, BoundAssumption DEF BootBound
<1>2. PowerInv => FedUnlessHalted
  <2> SUFFICES ASSUME PowerInv, fed = Timeout, ~halt
               PROVE  FALSE
    BY DEF FedUnlessHalted
  <2>1. BootBound(faults) <= BootBound(MaxFaults) /\ BootBound(faults) \in Nat
        /\ BootBound(MaxFaults) \in Nat
    BY BootBoundGrows, BoundAssumption, FedType DEF PowerInv, PowerTypeOK
  <2>2. ~(fed <= BootBound(faults) + away) /\ ~(fed <= MaxAway) /\ ~(fed <= away)
    BY <1>1, <2>1, FedType
  <2>3. QED
    BY <2>2 DEF PowerInv, PowerTypeOK, On, FedInv, Served
<1>3. QED
  BY <1>2, PowerInvariant, PTL
=============================================================================
