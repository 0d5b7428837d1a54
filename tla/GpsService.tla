----------------------------- MODULE GpsService -----------------------------
(***************************************************************************)
(* products/go/main/gps: the GPS task, and how the main task starts and    *)
(* stops it.  Both drive one serial line to the receiver: the task while   *)
(* it runs, the main task to silence a receiver that nobody needs.  The    *)
(* task has the higher priority, so what it does between two waits is one  *)
(* step; the main task waits at the steps named in main.                   *)
(*                                                                         *)
(* Positions and times are told apart by the activation they come from:    *)
(* the value n stands for what the receiver said in the n-th activation    *)
(* and 0 for no value.                                                     *)
(***************************************************************************)
EXTENDS Naturals, Sequences

CONSTANTS
  Depth,        \* EVENT_QUEUE_DEPTH
  MaxStarts,    \* bound: activations
  MaxFailures   \* bound: unacknowledged commands and tasks not created

ASSUME GpsAssumption == {Depth, MaxStarts, MaxFailures} \subseteq Nat

VARIABLES
  active,     \* is_gps_active(), from the settings and the tracking state
  main,       \* where the main task is
  call,       \* which of its calls it is in
  running,    \* _running
  sem,        \* _done_sem; _task_handle is set as long as it is created
  task,       \* where the GPS task is
  open,       \* the serial line
  gnss,       \* external: the receiver searches and reports
  acked,      \* the last command to it was acknowledged
  fix,        \* _driver._data: position, while has_valid_fix()
  stamp,      \* _driver._data: timestamp, while valid
  aiding,     \* _aiding_pending
  synced,     \* _clock_synced
  clock,      \* where the system time comes from
  events,     \* GpsFixUpdate events in the Orchestrator's queue
  latest,     \* _latest_gps
  activation, \* ghost: its number
  failures    \* bound: how many there were

mainVars == <<active, main, call, latest>>
driverVars == <<fix, stamp>>
timeVars == <<aiding, synced, clock>>
moduleVars == <<gnss, acked, failures>>
gpsVars == <<mainVars, running, sem, task, open, moduleVars, driverVars, timeVars,
          events, activation>>

NoTime == [source |-> "none", activation |-> 0]
AidingTime == [source |-> "aiding", activation |-> 0]
GpsTime(n) == [source |-> "gps", activation |-> n]

GpsInit == /\ active \in BOOLEAN
           /\ main = "asleep" /\ call = "sleep"
           /\ running = FALSE /\ sem = "none" /\ task = "none" /\ open = FALSE
           /\ gnss \in BOOLEAN /\ acked = FALSE /\ failures = 0
           /\ fix = 0 /\ stamp = 0
           /\ aiding = FALSE /\ synced = FALSE /\ clock = NoTime
           /\ events = <<>> /\ latest = 0
           /\ activation = 0

(* gnss_start(), gnss_stop(): without an acknowledgement after the retry   *)
(* the receiver may have obeyed or not.                                    *)
Command(on) ==
  \/ gnss' = on /\ acked' = TRUE /\ UNCHANGED failures
  \/ /\ failures < MaxFailures
     /\ gnss' \in {gnss, on}
     /\ acked' = FALSE
     /\ failures' = failures + 1
-----------------------------------------------------------------------------
(* The main task.                                                          *)

(* start(): the new task preempts the main task and creates the semaphore. *)
Start ==
  /\ synced' = FALSE
  /\ \/ /\ activation < MaxStarts
        /\ activation' = activation + 1
        /\ running' = TRUE /\ sem' = "empty" /\ task' = "begin"
        /\ UNCHANGED failures
     \/ /\ failures < MaxFailures
        /\ failures' = failures + 1
        /\ UNCHANGED <<running, sem, task, activation>>

(* A setting, a command or the start of a recording asks for GPS.          *)
Activate ==
  /\ main = "idle" /\ ~active
  /\ active' = TRUE
  /\ Start
  /\ UNCHANGED <<main, call, latest, open, gnss, acked, driverVars, aiding,
                 clock, events>>

\* faulty variant of StopAndIdle: no task, nothing to stop
TaskOnly == IF running \/ sem # "none" THEN "join" ELSE "close"
(* stop_and_idle_gnss(): without a task the line has to be opened first *)
StopAndIdle == IF running \/ sem # "none" THEN "join" ELSE "open"

(* deactivate_gps() *)
Deactivate ==
  /\ main = "idle" /\ active
  /\ active' = FALSE
  /\ call' = "deactivate"
  /\ running' = FALSE
  /\ main' = StopAndIdle
  /\ UNCHANGED <<latest, sem, task, open, moduleVars, driverVars, timeVars,
                 events, activation>>

(* prepare_for_sleep(): stop() leaves an active receiver searching.        *)
PrepareForSleep ==
  /\ main = "idle"
  /\ call' = "sleep"
  /\ running' = FALSE
  /\ main' = IF active THEN "join" ELSE StopAndIdle
  /\ UNCHANGED <<active, latest, sem, task, open, moduleVars, driverVars,
                 timeVars, events, activation>>

Hurried == TRUE                             \* faulty variant of Joined
Joined == sem \in {"none", "given"}

(* _done_sem.take() and destroy(), skipped when the task never started *)
Join ==
  /\ main = "join"
  /\ Joined
  /\ sem' = "none"
  /\ main' = IF call = "sleep" /\ active THEN "close" ELSE "command"
  /\ UNCHANGED <<active, call, latest, running, task, open, moduleVars,
                 driverVars, timeVars, events, activation>>

(* idle_gnss() *)
OpenLine ==
  /\ main = "open"
  /\ open' = TRUE
  /\ main' = "command"
  /\ UNCHANGED <<active, call, latest, running, sem, task, moduleVars,
                 driverVars, timeVars, events, activation>>

StopReceiver ==
  /\ main = "command"
  /\ Command(FALSE)
  /\ main' = "close"
  /\ UNCHANGED <<active, call, latest, running, sem, task, open, driverVars,
                 timeVars, events, activation>>

(* _driver.end(), and deactivate_gps() forgets the fix. *)
CloseLine ==
  /\ main = "close"
  /\ open' = FALSE
  /\ IF call = "sleep" THEN main' = "asleep" /\ UNCHANGED latest
                       ELSE main' = "idle" /\ latest' = 0
  /\ UNCHANGED <<active, call, running, sem, task, moduleVars, driverVars,
                 timeVars, events, activation>>

(* A boot, with fresh RAM; the system time survives sleep. *)
Boot ==
  /\ main = "asleep"
  /\ fix' = 0 /\ stamp' = 0 /\ events' = <<>> /\ latest' = 0 /\ aiding' = FALSE
  /\ IF active
       THEN main' = "idle" /\ Start /\ UNCHANGED call
       ELSE /\ main' = "open" /\ call' = "boot" /\ synced' = FALSE
            /\ UNCHANGED <<running, sem, task, activation, failures>>
  /\ UNCHANGED <<active, open, gnss, acked, clock>>

(* gps_read_once(), of a timer wake that sleeps again: no task is involved *)
(* and the driver it makes is its own.                                     *)
ReadOnce ==
  /\ main = "asleep" /\ active
  /\ Command(TRUE)
  /\ UNCHANGED <<mainVars, running, sem, task, open, driverVars, timeVars,
                 events, activation>>

(* set_aiding_data(), whether the task runs or not *)
SetAiding ==
  /\ main = "idle"
  /\ aiding' = TRUE
  /\ UNCHANGED <<mainVars, running, sem, task, open, moduleVars, driverVars,
                 synced, clock, events, activation>>

TakesAnyFix == TRUE                         \* faulty variant of TakesFix
TakesFix == active

(* on_gps_fix() *)
OnGpsFix ==
  /\ main = "idle" /\ events # <<>>
  /\ latest' = IF TakesFix THEN Head(events) ELSE latest
  /\ events' = Tail(events)
  /\ UNCHANGED <<active, main, call, running, sem, task, open, moduleVars,
                 driverVars, timeVars, activation>>
-----------------------------------------------------------------------------
(* The GPS task: run().                                                    *)

TaskBegin ==
  /\ task = "begin"
  /\ open' = TRUE
  /\ task' = "command"
  /\ UNCHANGED <<mainVars, running, sem, moduleVars, driverVars, timeVars,
                 events, activation>>

TaskCommand ==
  /\ task = "command"
  /\ Command(TRUE)
  /\ task' = "loop"
  /\ UNCHANGED <<mainVars, running, sem, open, driverVars, timeVars, events,
                 activation>>

(* What read() finds: nothing, a position, the loss of it, a time, or a    *)
(* time that is not valid.                                                 *)
Sentence == IF gnss THEN {"nothing", "position", "lost", "time", "void"}
                    ELSE {"nothing"}

AidingWins == aiding                        \* faulty variant of AidingSetsClock
AidingSetsClock == aiding /\ ~synced

PostAlways(p) == Append(events, p)          \* faulty variant of Post
(* queue_send() with timeout 0 drops the event when the queue is full *)
Post(p) == IF Len(events) < Depth THEN Append(events, p) ELSE events

(* One turn: the aiding data, a sentence, and the position if one is due;  *)
(* the time of the driver is looked at after every kind of sentence.       *)
Iterate ==
  /\ task = "loop" /\ running
  /\ aiding' = FALSE
  /\ \E said \in Sentence, due \in BOOLEAN :
       /\ fix' = CASE said = "position" -> activation [] said = "lost" -> 0
                   [] OTHER -> fix
       /\ stamp' = CASE said = "time" -> activation [] said = "void" -> 0
                     [] OTHER -> stamp
       /\ LET syncs == said # "nothing" /\ ~synced /\ stamp' # 0 IN
          /\ synced' = (synced \/ syncs)
          /\ clock' = IF syncs THEN GpsTime(stamp')
                      ELSE IF AidingSetsClock THEN AidingTime ELSE clock
       /\ events' = IF due /\ fix' # 0 THEN Post(fix') ELSE events
  /\ UNCHANGED <<mainVars, running, sem, task, open, moduleVars, activation>>

NotGiven == sem                             \* faulty variant of Given
Given == "given"

(* The loop ends; the task gives the semaphore and deletes itself. *)
TaskExit ==
  /\ task = "loop" /\ ~running
  /\ sem' = Given
  /\ task' = "none"
  /\ UNCHANGED <<mainVars, running, open, moduleVars, driverVars, timeVars,
                 events, activation>>
-----------------------------------------------------------------------------
Stopping == Join \/ OpenLine \/ StopReceiver \/ CloseLine
Task == TaskBegin \/ TaskCommand \/ Iterate \/ TaskExit

GpsNext == \/ Activate \/ Deactivate \/ PrepareForSleep \/ Boot \/ ReadOnce
           \/ SetAiding \/ OnGpsFix
           \/ Join \/ OpenLine \/ StopReceiver \/ CloseLine
           \/ TaskBegin \/ TaskCommand \/ Iterate \/ TaskExit

(* Both tasks run when they can; nothing has to be asked of the GPS.       *)
GpsSpec == GpsInit /\ [][GpsNext]_gpsVars /\ WF_gpsVars(Stopping) /\ WF_gpsVars(Task)
-----------------------------------------------------------------------------
Starts == 0 .. MaxStarts

(* TYPE INVARIANT. *)
GpsTypeOK == /\ active \in BOOLEAN /\ running \in BOOLEAN /\ open \in BOOLEAN
             /\ gnss \in BOOLEAN /\ acked \in BOOLEAN
             /\ main \in {"asleep", "idle", "join", "open", "command", "close"}
             /\ call \in {"boot", "deactivate", "sleep"}
             /\ sem \in {"none", "empty", "given"}
             /\ task \in {"none", "begin", "command", "loop"}
             /\ fix \in Starts /\ stamp \in Starts /\ latest \in Starts
             /\ aiding \in BOOLEAN /\ synced \in BOOLEAN
             /\ clock \in [source : {"none", "aiding", "gps"}, activation : Starts]
             /\ events \in Seq(Starts) /\ Len(events) <= Depth
             /\ activation \in Starts /\ failures \in 0 .. MaxFailures

(* The two tasks never use the serial line at the same time, and neither   *)
(* speaks on a closed line or opens an open one: stop() waits for the task *)
(* before it touches the driver.                                           *)
MainHasLine == main \in {"open", "command", "close", "asleep"}
OneUser == /\ MainHasLine => task = "none"
           /\ main = "command" \/ task \in {"command", "loop"} => open
           /\ main \in {"open", "asleep"} \/ task = "begin" => ~open

(* The receiver searches while the task listens to it, and rests when GPS  *)
(* is inactive, asleep or awake, unless it missed the last command.        *)
GnssFollows ==
  acked => /\ task = "loop" => gnss
           /\ main \in {"idle", "asleep"} /\ ~active => ~gnss

(* An inactive GPS leaves no position behind in the Orchestrator, although *)
(* its last events may still be in the queue when it stops.                *)
NoFixWhenInactive == main = "idle" /\ ~active => latest = 0

(* Once the GPS has set the system time, aiding data that arrives later in *)
(* the activation does not replace it by the phone's less accurate time.   *)
GpsTimeStays == synced => clock.source = "gps"

(* A main task that stops the GPS comes back from it.                      *)
StopReturns == (main \in {"join", "open", "command", "close"})
                 ~> (main \in {"idle", "asleep"})

(* A synchronised clock has been set from a time received since start().   *)
TimeOfThisActivation == synced => clock.activation = activation
=============================================================================
