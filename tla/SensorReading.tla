----------------------------- MODULE SensorReading -----------------------------
(***************************************************************************)
(* components/airgradient-sensors: what the sensor task does with a        *)
(* request.  SensorManager reads the sensors a number of times and         *)
(* averages; the drivers keep a flag that says whether they have put their *)
(* sensor into its measuring mode, and try to restart one that has no      *)
(* data; a calibration is started and then polled.                         *)
(*                                                                         *)
(* The sensors are external: each measures or is idle, and loses its mode  *)
(* when its supply fails or is switched.  A command that is not            *)
(* acknowledged after all its retries counts as one fault.                 *)
(***************************************************************************)
EXTENDS Naturals

CONSTANTS
  Co2Driver,           \* the CO2 sensors the board may find
  Averaged,            \* iterations of a request
  CalibrationAttempts, \* CALIBRATION_MAX_ATTEMPTS
  MaxCommandFaults     \* bound: commands that fail, and supplies

ASSUME ReadingBounds ==
  /\ Co2Driver \subseteq {"STCC4", "SCD4x", "S12"}
  /\ {Averaged, CalibrationAttempts, MaxCommandFaults} \subseteq Nat

VARIABLES
  co2,         \* the CO2 driver in use
  measuring,   \* _measuring of the CO2 and of the PM driver (SPS30)
  sensing,     \* external: the sensor is in its measuring mode
  pmPowered,   \* the load switch of the PM sensor
  cache,       \* _last_temp_hum: "none", "current" (of this iteration) or "stale"
  iteration,   \* i + 1 of start_measures(), 0 outside it
  temps,       \* what was added to sum_temp_hum_a, by iteration
  co2Misses,   \* ghost: iterations of this request whose CO2 read failed
  calibration, \* attempt + 1 of calibrate_co2(), 0 outside it
  isCalibrating, \* _is_calibrating of the S12
  correction,  \* external: how the calibration of the sensor went
  calResult,   \* result of the last calibrate_co2()
  commandFaults

readingVars == <<measuring, sensing, cache, iteration, temps, co2Misses>>
calibrationVars == <<calibration, isCalibrating, correction, calResult>>
sensorVars == <<co2, pmPowered, readingVars, calibrationVars, commandFaults>>

Sensor == {"co2", "pm"}

(* Init succeeded: a sensor whose init() failed is not used at all.        *)
ReadingInit ==
  /\ co2 \in Co2Driver
  /\ measuring = [s \in Sensor |-> TRUE]
  /\ sensing = [s \in Sensor |-> TRUE]
  /\ pmPowered = TRUE
  /\ cache = "none"
  /\ iteration = 0
  /\ temps = {}
  /\ co2Misses = {}
  /\ calibration = 0
  /\ isCalibrating = FALSE
  /\ correction = "none"
  /\ calResult = "none"
  /\ commandFaults = 0

(* A driver and its sensor after a call, whether the call succeeded, and   *)
(* how many commands failed in it.                                         *)
Driven(m, s, ok, failed) == [m |-> m, s |-> s, ok |-> ok, failed |-> failed]
Fails(d) == [d EXCEPT !.ok = FALSE, !.failed = @ + 1]

(* _stop_continuous_measurement(), _stop_measurement() *)
Stopped(m, s) == {Driven(FALSE, FALSE, TRUE, 0), Driven(m, s, FALSE, 1)}

(* _start_continuous_measurement(), _start_measurement(), after stop gave d *)
Started(d) == {Driven(TRUE, TRUE, TRUE, d.failed), Fails(d)}

Restarted(m, s) == UNION {Started(d) : d \in Stopped(m, s)}

(* A sensor in its mode may have no data in time, which is counted as a    *)
(* fault.                                                                  *)
NoRestart(m, s) == {Driven(m, s, FALSE, 0)}       \* faulty variant of Recovered
(* What read() does about a sensor without data. *)
Recovered(m, s) == {[d EXCEPT !.failed = @ + IF s THEN 1 ELSE 0] : d \in Restarted(m, s)}

(* The STCC4 restarts its sensor for the next read, unless all it knows is *)
(* that the transfers failed; the SPS30 restarts it for a second try.  The *)
(* other two do nothing.                                                   *)
ReadBy(driver, m, s) ==
  IF ~m THEN {Driven(m, s, FALSE, 0)}
  ELSE LET Straight == IF s THEN {Driven(m, s, TRUE, 0)} ELSE {}
           NoAnswer == {Driven(m, s, FALSE, 1)}
       IN CASE driver = "S12"   -> {Driven(m, s, TRUE, 0)} \cup NoAnswer
            [] driver = "SCD4x" -> Straight \cup {Driven(m, s, FALSE, IF s THEN 1 ELSE 0)}
            [] driver = "STCC4" -> Straight \cup NoAnswer
                                   \cup {[d EXCEPT !.ok = FALSE] : d \in Recovered(m, s)}
            [] driver = "SPS30" -> LET again == Recovered(m, s) IN
                                   Straight \cup (IF s THEN NoAnswer ELSE {})
                                   \cup again \cup {Fails(d) : d \in {e \in again : e.ok}}

ReadCo2 == ReadBy(co2, measuring["co2"], sensing["co2"])
(* Without power the PM sensor answers nothing. *)
ReadPm  == IF pmPowered THEN ReadBy("SPS30", measuring["pm"], sensing["pm"])
           ELSE {Driven(measuring["pm"], FALSE, FALSE, 0)}

Idle == iteration = 0 /\ calibration = 0

(* start_measures(): one request after the other; the values of earlier    *)
(* requests stay in the drivers.                                           *)
StartMeasures ==
  /\ Idle
  /\ iteration' = 1
  /\ temps' = {}
  /\ co2Misses' = {}
  /\ UNCHANGED <<co2, pmPowered, cache, measuring, sensing, calibrationVars, commandFaults>>

Aged == IF cache = "none" THEN "none" ELSE "stale"
Measures(d) == IF d.ok /\ co2 # "S12" THEN "current" ELSE Aged

ReadFirst(d) == Aged                              \* faulty variant of FallbackTemperature
(* _accumulate_temp_hum_a_fallback(): the CO2 sensor is read before it.    *)
FallbackTemperature(d) == Measures(d)

(* One iteration; the product always asks for all groups. *)
ReadSensors ==
  /\ iteration # 0
  /\ \E d \in ReadCo2, e \in ReadPm :
       /\ commandFaults' = commandFaults + d.failed + e.failed
       /\ measuring' = [co2 |-> d.m, pm |-> e.m]
       /\ sensing' = [co2 |-> d.s, pm |-> e.s]
       /\ cache' = Measures(d)
       /\ temps' = {t \in temps \cup {<<iteration, FallbackTemperature(d)>>} : t[2] # "none"}
       /\ co2Misses' = IF d.ok THEN co2Misses ELSE co2Misses \cup {iteration}
  /\ commandFaults' <= MaxCommandFaults
  /\ iteration' = IF iteration = Averaged THEN 0 ELSE iteration + 1
  /\ UNCHANGED <<co2, pmPowered, calibrationVars>>

(* warmup(): the PM sensor was switched on again, and is read.             *)
WarmUpPm ==
  /\ Idle
  /\ \E e \in ReadPm :
       /\ commandFaults + e.failed <= MaxCommandFaults
       /\ commandFaults' = commandFaults + e.failed
       /\ measuring' = [measuring EXCEPT !["pm"] = e.m]
       /\ sensing' = [sensing EXCEPT !["pm"] = e.s]
  /\ UNCHANGED <<co2, pmPowered, cache, iteration, temps, co2Misses, calibrationVars>>

(* The Orchestrator switches it whatever the task is doing. *)
SwitchPm ==
  /\ pmPowered' = ~pmPowered
  /\ sensing' = [sensing EXCEPT !["pm"] = FALSE]
  /\ UNCHANGED <<co2, measuring, cache, iteration, temps, co2Misses, calibrationVars,
                 commandFaults>>

(* A supply sags and the sensor starts anew, idle; the S12 has one mode.   *)
Sag(s) ==
  /\ s = "co2" => co2 # "S12"
  /\ commandFaults < MaxCommandFaults
  /\ commandFaults' = commandFaults + 1
  /\ sensing' = [sensing EXCEPT ![s] = FALSE]
  /\ UNCHANGED <<co2, pmPowered, measuring, cache, iteration, temps, co2Misses,
                 calibrationVars>>
-----------------------------------------------------------------------------
(* calibrate_co2()                                                         *)

Ignores(ok) == TRUE                               \* faulty variant of Accepted
Accepted(ok) == ok

(* do_baseline_calibration() of the SCD4x: all of it; the sensor refuses   *)
(* when it has not measured long enough.  The first poll finds it done.    *)
ForcedRecalibration ==
  /\ Idle /\ co2 = "SCD4x"
  /\ IF ~measuring["co2"]
       THEN /\ calResult' = "Failed"
            /\ UNCHANGED <<measuring, sensing, correction, commandFaults>>
       ELSE \E d \in Stopped(FALSE, sensing["co2"]), ok \in BOOLEAN :
              \E e \in Started(d) :
                /\ correction' = IF ok THEN "done" ELSE "error"
                /\ calResult' = IF e.ok /\ Accepted(ok) THEN "Success" ELSE "Failed"
                /\ measuring' = [measuring EXCEPT !["co2"] = e.m]
                /\ sensing' = [sensing EXCEPT !["co2"] = e.s]
                /\ commandFaults' = commandFaults + e.failed
  /\ commandFaults' <= MaxCommandFaults
  /\ UNCHANGED <<co2, pmPowered, cache, iteration, temps, co2Misses, calibration, isCalibrating>>

(* do_baseline_calibration() of the S12 writes the command; supports_      *)
(* calibration() of the STCC4 says no.                                     *)
BackgroundCalibration ==
  /\ Idle
  /\ \/ /\ co2 = "STCC4"
        /\ calResult' = "Unsupported"
        /\ UNCHANGED <<calibration, isCalibrating, correction, commandFaults>>
     \/ /\ co2 = "S12"
        /\ commandFaults < MaxCommandFaults
        /\ commandFaults' = commandFaults + 1
        /\ isCalibrating' = FALSE
        /\ calResult' = "Failed"
        /\ UNCHANGED <<calibration, correction>>
     \/ /\ co2 = "S12"
        /\ isCalibrating' = TRUE
        /\ correction' = "running"
        /\ calibration' = 1
        /\ UNCHANGED <<calResult, commandFaults>>
  /\ UNCHANGED <<co2, pmPowered, readingVars>>

SensorCalibrates ==
  /\ correction = "running" /\ calibration # 0
  /\ correction' \in {"done", "error"}
  /\ UNCHANGED <<co2, pmPowered, readingVars, calibration, isCalibrating, calResult,
                 commandFaults>>

(* is_baseline_calibration_done() of the S12: how the poll ends, and what  *)
(* is then left of _is_calibrating.                                        *)
Poll(done, left, failed) == [done |-> done, left |-> left, failed |-> failed]
CalibrationPoll ==
  IF ~isCalibrating THEN {Poll(TRUE, FALSE, 0)}
  ELSE {Poll(FALSE, TRUE, 1)}
       \cup {CASE correction = "error" -> Poll(FALSE, FALSE, 0)
               [] correction = "done"  -> Poll(TRUE, FALSE, 0)
               [] OTHER                -> Poll(FALSE, TRUE, 0)}

CheckCalibration ==
  /\ calibration # 0
  /\ \E p \in CalibrationPoll :
       /\ commandFaults + p.failed <= MaxCommandFaults
       /\ commandFaults' = commandFaults + p.failed
       /\ isCalibrating' = p.left
       /\ IF p.done \/ calibration = CalibrationAttempts
            THEN /\ calibration' = 0
                 /\ calResult' = IF p.done THEN "Success" ELSE "Failed"
            ELSE /\ calibration' = calibration + 1
                 /\ UNCHANGED calResult
  /\ UNCHANGED <<co2, pmPowered, readingVars, correction>>

ReadingNext == \/ StartMeasures
               \/ ReadSensors
               \/ WarmUpPm
               \/ SwitchPm
               \/ \E s \in Sensor : Sag(s)
               \/ ForcedRecalibration
               \/ BackgroundCalibration
               \/ SensorCalibrates
               \/ CheckCalibration

(* Requests come again and again, by a timer, and the task does what it    *)
(* was asked to do; calibrations are up to the user.                       *)
ReadingTask == ReadSensors \/ CheckCalibration
ReadingFairness == SF_sensorVars(StartMeasures) /\ WF_sensorVars(ReadingTask)

ReadingSpec == ReadingInit /\ [][ReadingNext]_sensorVars /\ ReadingFairness
-----------------------------------------------------------------------------
(* A sensor that has fallen out of its measuring mode is put back into it  *)
(* by the reads of its driver (not by those of the SCD4x), unless a        *)
(* restart that failed halfway left the driver believing it is stopped.    *)
ReadsResume ==
  \A s \in Sensor : ~sensing[s] ~>
    (sensing[s] \/ ~measuring[s] \/ (s = "co2" /\ co2 = "SCD4x") \/ (s = "pm" /\ ~pmPowered))

(* The temperature of an iteration is from that iteration, unless the read *)
(* of the CO2 sensor that provides it failed in it.                        *)
StaleOnlyAfterFailure ==
  \A i \in 1 .. Averaged : <<i, "stale">> \in temps => i \in co2Misses

(* A calibration is reported as a success only if the sensor has done it,  *)
(* or has refused it, being an S12.                                        *)
SuccessUnlessRefused ==
  calResult = "Success" /\ calibration = 0 =>
    correction = "done" \/ (co2 = "S12" /\ correction = "error")

(* A calibration the sensor has refused is a failure. *)
SuccessMeansCalibrated ==
  calResult = "Success" /\ calibration = 0 => correction = "done"
=============================================================================
