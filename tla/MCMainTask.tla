----------------------------- MODULE MCMainTask -----------------------------
(***************************************************************************)
(* Two jobs of the main task that share no state: the menus and the timing *)
(* of measurements.  Each behaviour is of one of them; the other stays as  *)
(* it is at the start.                                                     *)
(***************************************************************************)
EXTENDS UserInterface, SensorScheduling

VARIABLE part    \* the job that runs

mainTaskVars == <<part, vars, scheduleVars>>

MainTaskInit ==
  /\ part \in {"menus", "measurements"}
  /\ Init /\ ScheduleInit
  /\ part # "menus" => locked /\ ~tracking
  /\ part # "measurements" => interval = 2 /\ ~offline

MainTaskNext ==
  \/ part = "menus" /\ Next /\ UNCHANGED <<part, scheduleVars>>
  \/ part = "measurements" /\ ScheduleNext /\ UNCHANGED <<part, vars>>

(* The fairness of each job, while it is the one that runs. *)
MainTaskFairness ==
  /\ WF_vars(part = "menus" /\ Event) /\ WF_vars(part = "menus" /\ PairingEnds)
  /\ WF_scheduleVars(part = "measurements" /\ CheckTimers)
  /\ WF_scheduleVars(part = "measurements" /\ HandleEvent)
  /\ WF_scheduleVars(part = "measurements" /\ Tick)
  /\ WF_scheduleVars(part = "measurements" /\ TakeRequest)
  /\ WF_scheduleVars(part = "measurements" /\ FinishJob)

MainTaskSpec == MainTaskInit /\ [][MainTaskNext]_mainTaskVars /\ MainTaskFairness

(* KeepsMeasuring, where measurements are what runs: the device goes on    *)
(* measuring, whatever requests were lost on the way (check_timers,        *)
(* on_sensor_data).                                                        *)
MeasurementsGoOn == part = "measurements" => KeepsMeasuring

(* A client writes intervals and lock times the menus offer and others.    *)
WrittenValues == [r \in Settings |-> CASE r = MEASURE_INTERVAL -> {30, 120, 3600}
                                       [] r = AUTO_LOCK -> {0, 10, 45}
                                       [] r = MODE -> 0..2
                                       [] OTHER -> {1}]
=============================================================================
