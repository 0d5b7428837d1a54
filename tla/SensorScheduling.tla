-------------------------- MODULE SensorScheduling --------------------------
(***************************************************************************)
(* products/go/main: who reads the sensors, and when.  The Orchestrator's  *)
(* timers ask the SensorProducer task for a measurement once per interval  *)
(* and, when the interval is long enough to switch the PM sensor off in    *)
(* between, for a warmup before it.  A request is a task notification: one *)
(* slot, which the next request overwrites.  The answer is an event.       *)
(*                                                                         *)
(* Time passes in ticks.  The main task is prompt: no tick passes while it *)
(* has an event or a timer to handle.  The producer takes its time, within *)
(* the bounds of the constants.                                            *)
(***************************************************************************)
EXTENDS Naturals, Sequences

CONSTANTS
  Interval,      \* the measurement intervals a user can choose, in ticks
  Threshold,     \* pm_sleep_threshold_ms: power-cycle the PM sensor from here
  Warmup,        \* CONFIG_SENSOR_WARMUP_DURATION_MS: how long a warmup takes
  ReadMax,       \* how long a reading may take
  CalibrateMax,  \* how long a CO2 calibration may take
  Change,        \* what the user does: a subset of ChangeKinds
  MaxUserChanges \* bound: how often each of them

ChangeKinds == {"interval", "mode", "calibrate", "sleep"}

ASSUME IntervalAssumption == Interval \subseteq Nat \ {0} /\ Threshold \in Nat
ASSUME DurationAssumption == {Warmup, ReadMax, CalibrateMax} \subseteq Nat
ASSUME ChangeAssumption == Change \subseteq ChangeKinds /\ MaxUserChanges \in Nat

VARIABLES
  offline,      \* _mode is Offline
  interval,     \* measure_interval_seconds
  since,        \* ticks since _last_measurement_ms
  prepareSent,  \* _pm_prepare_sent
  pm,           \* the PM sensor: off, powered but cold, or warmed up
  slot,         \* the producer's pending notification
  job,          \* what the producer is doing
  worked,       \* ticks spent on it
  results,      \* the producer's results in the Orchestrator's queue
  calibrating,  \* ghost: a client waits for the result of a calibration
  userChanges   \* bound: how often the user has acted

mainVars == <<offline, interval, since, prepareSent, calibrating, userChanges>>
producerVars == <<job, worked>>
scheduleVars == <<mainVars, producerVars, pm, slot, results>>

Request == {"measure", "prepare", "calibrate"}

(* Eligible at interval i: _mode != Offline && should_sleep_pm_sensor(i) *)
EligibleAt(off, i) == ~off /\ i >= Threshold
Eligible == EligibleAt(offline, interval)

(* set_pm_power(true): a sensor that was off has to warm up again. *)
PoweredOn == IF pm = "off" THEN "cold" ELSE pm

ScheduleInit ==
  /\ offline \in BOOLEAN
  /\ interval \in Interval
  /\ since = 0
  /\ prepareSent = FALSE
  /\ pm = "cold"
  /\ slot = "measure"
  /\ job = "boot"
  /\ worked = 0
  /\ results = <<>>
  /\ calibrating = FALSE
  /\ userChanges = [kind \in ChangeKinds |-> 0]
-----------------------------------------------------------------------------
(* The main task.                                                          *)

PreWakeDue == Eligible /\ ~prepareSent /\ since + Warmup >= interval

MeasureLate == since > interval             \* faulty variant of MeasureDue
MeasureDue == since >= interval

(* _pm_prepare_sent after check_timers(): a measurement starts a new cycle *)
PrepareSentAfter(sent) == sent /\ ~MeasureDue

(* check_timers(): the pre-wake timer, then the sensor timer *)
CheckTimers ==
  /\ PreWakeDue \/ MeasureDue
  /\ pm' = IF PreWakeDue THEN PoweredOn ELSE pm
  /\ slot' = IF MeasureDue THEN "measure" ELSE "prepare"
  /\ prepareSent' = PrepareSentAfter(prepareSent \/ PreWakeDue)
  /\ since' = IF MeasureDue THEN 0 ELSE since
  /\ UNCHANGED <<offline, interval, calibrating, userChanges, producerVars, results>>

RailKept == pm                              \* faulty variant of AfterData
(* The PM sensor once on_sensor_data() has run. *)
AfterData == IF Eligible THEN "off" ELSE pm

(* dispatch(): on_sensor_data() or on_co2_calibration_done() *)
HandleEvent ==
  /\ results # <<>>
  /\ results' = Tail(results)
  /\ IF Head(results) = "data"
       THEN pm' = AfterData /\ UNCHANGED calibrating
       ELSE calibrating' = FALSE /\ UNCHANGED pm
  /\ UNCHANGED <<offline, interval, since, prepareSent, userChanges, producerVars, slot>>

May(kind) == /\ kind \in Change
             /\ userChanges[kind] < MaxUserChanges
             /\ userChanges' = [userChanges EXCEPT ![kind] = @ + 1]

(* reschedule_sensor_timer(), called when the interval may be another one: *)
(* it counts from now and sets the rail for the new interval.              *)
ChangeInterval(i) ==
  /\ May("interval")
  /\ i # interval
  /\ interval' = i
  /\ since' = 0
  /\ pm' = IF EligibleAt(offline, i) THEN "off" ELSE PoweredOn
  /\ UNCHANGED <<offline, prepareSent, calibrating, producerVars, slot, results>>

ModeCutsRail == "off"                       \* faulty variant of AfterModeChange
AfterModeChange == PoweredOn

(* change_mode() *)
ChangeMode ==
  /\ May("mode")
  /\ offline' = ~offline
  /\ pm' = AfterModeChange
  /\ UNCHANGED <<interval, since, prepareSent, calibrating, producerVars, slot, results>>

(* request_co2_calibration(), from the menu or a BLE command *)
Calibrate ==
  /\ May("calibrate")
  /\ slot' = "calibrate"
  /\ calibrating' = TRUE
  /\ UNCHANGED <<offline, interval, since, prepareSent, producerVars, pm, results>>

(* Offline, the device sleeps: the task is deleted, and the next boot has  *)
(* measured on its way, or asks for a measurement in Orchestrator::init(). *)
SleepAndWake ==
  /\ May("sleep")
  /\ offline
  /\ since' = 0
  /\ prepareSent' = FALSE
  /\ pm' = "cold"
  /\ slot' \in {"none", "measure"}
  /\ job' = "boot"
  /\ worked' = 0
  /\ results' = <<>>
  /\ calibrating' = FALSE
  /\ UNCHANGED <<offline, interval>>
-----------------------------------------------------------------------------
(* The SensorProducer task.                                                *)

(* task_notify_wait() returns *)
TakeRequest ==
  /\ job = "none"
  /\ slot # "none"
  /\ job' = slot
  /\ slot' = "none"
  /\ worked' = 0
  /\ UNCHANGED <<mainVars, pm, results>>

IsWarmup == job \in {"boot", "prepare"}
WorkDone == IsWarmup => worked >= Warmup

WarmNever == pm                             \* faulty variant of AfterJob
(* A warmup warms the PM sensor, provided it has power. *)
AfterJob == IF IsWarmup /\ pm # "off" THEN "warm" ELSE pm

ResultLost == results                        \* faulty variant of EventsAfterJob
EventsAfterJob == IF job = "measure" THEN Append(results, "data")
                  ELSE IF job = "calibrate" THEN Append(results, "calibrated")
                  ELSE results

(* The blocking call returns, and its result is posted. *)
FinishJob ==
  /\ job # "none"
  /\ WorkDone
  /\ pm' = AfterJob
  /\ results' = EventsAfterJob
  /\ job' = "none"
  /\ worked' = 0
  /\ UNCHANGED <<mainVars, slot>>
-----------------------------------------------------------------------------
MainIdle == results = <<>> /\ ~PreWakeDue /\ ~MeasureDue
ProducerMayWait ==
  CASE job = "none" -> slot = "none"
    [] IsWarmup -> worked < Warmup
    [] job = "measure" -> worked < ReadMax
    [] job = "calibrate" -> worked < CalibrateMax

(* Time passes, when the main task waits and the producer waits or works. *)
Tick == /\ MainIdle
        /\ ProducerMayWait
        /\ since' = since + 1
        /\ worked' = IF job = "none" THEN worked ELSE worked + 1
        /\ UNCHANGED <<offline, interval, prepareSent, calibrating, userChanges,
                       pm, slot, job, results>>

ScheduleNext ==
  \/ CheckTimers \/ HandleEvent \/ Tick
  \/ TakeRequest \/ FinishJob
  \/ ChangeMode \/ Calibrate \/ SleepAndWake
  \/ \E i \in Interval : ChangeInterval(i)

(* Both tasks run when they can, and time passes; the user owes nothing.   *)
ScheduleFairness ==
  /\ WF_scheduleVars(CheckTimers) /\ WF_scheduleVars(HandleEvent)
  /\ WF_scheduleVars(TakeRequest) /\ WF_scheduleVars(FinishJob)
  /\ WF_scheduleVars(Tick)

ScheduleSpec == ScheduleInit /\ [][ScheduleNext]_scheduleVars /\ ScheduleFairness
-----------------------------------------------------------------------------
(* TYPE INVARIANT. *)
ScheduleTypeOK ==
  /\ offline \in BOOLEAN
  /\ interval \in Interval
  /\ since \in 0 .. interval
  /\ prepareSent \in BOOLEAN
  /\ pm \in {"off", "cold", "warm"}
  /\ slot \in Request \cup {"none"}
  /\ job \in Request \cup {"none", "boot"}
  /\ worked \in Nat
  /\ results \in Seq({"data", "calibrated"})
  /\ calibrating \in BOOLEAN
  /\ userChanges \in [ChangeKinds -> 0 .. MaxUserChanges]

(* The flag says what it is for: while it suppresses the pre-wake, the PM  *)
(* sensor has the power the pre-wake gave it.  An interval that changes    *)
(* between the two breaks this, see the run sensors_interval.              *)
PreparedMeansPowered == prepareSent /\ Eligible => pm # "off"

(* What a new interval and a calibration may upset is promised as long as  *)
(* the user asks for neither; changes of mode and sleeps make no exception.*)
Undisturbed == userChanges.interval = 0 /\ userChanges.calibrate = 0

(* The PM sensor has power when a reading starts, and keeps it.            *)
StartsReading == job # "measure" /\ job' = "measure"
KeepsReading == job = "measure" /\ job' = "measure"
ReadsPowered ==
  [][Undisturbed' => /\ StartsReading => pm # "off"
                     /\ KeepsReading /\ pm # "off" => pm' # "off"]_scheduleVars

(* The device goes on measuring, whatever requests were lost on the way.   *)
HasData == results # <<>> /\ Head(results) = "data"
KeepsMeasuring == []<>HasData

(* Once the user lets it be, every reading of a sensor that is switched    *)
(* off between measurements starts on a sensor that is warmed up.          *)
EventuallyReadsWarm == <>[][StartsReading /\ Eligible => pm = "warm"]_scheduleVars

(* Where the interval is long enough, the PM sensor rests in every cycle.  *)
PmRests == <>[]Eligible => []<>(pm = "off")

(* A calibration is answered with a Co2CalibrationDone event.              *)
CalibrationAnswered == calibrating ~> ~calibrating
=============================================================================
