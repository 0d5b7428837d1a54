------------------------- MODULE SensorInputProofs --------------------------
(***************************************************************************)
(* Proofs about SensorReading, for any number of iterations, polls and     *)
(* faults: what the averages and the results of calibrations of the sensor *)
(* task may be relied on for.  And about InputService, for any buttons,    *)
(* times and bouncing: what a press of a button may be taken for.          *)
(***************************************************************************)
EXTENDS SensorReading, InputService, TLAPS

-----------------------------------------------------------------------------
(* Calibration.                                                            *)

(* Only the S12 is polled; while it is, its driver has stopped waiting     *)
(* only because the sensor has refused.                                    *)
Polled == calibration # 0 => /\ co2 = "S12"
                             /\ isCalibrating \/ correction = "error"

CalibrationInv == calibration \in Nat /\ Polled /\ SuccessUnlessRefused

LEMMA RefusedOrDone ==
  ASSUME CalibrationInv, CheckCalibration
  PROVE  CalibrationInv'
<1>1. PICK p \in CalibrationPoll :
        /\ isCalibrating' = p.left
        /\ IF p.done \/ calibration = CalibrationAttempts
             THEN /\ calibration' = 0
                  /\ calResult' = IF p.done THEN "Success" ELSE "Failed"
             ELSE /\ calibration' = calibration + 1
                  /\ UNCHANGED calResult
  BY DEF CheckCalibration
<1>2. /\ calibration # 0
      /\ UNCHANGED <<co2, correction>>
  BY DEF CheckCalibration
<1>3. /\ co2 = "S12"
      /\ isCalibrating \/ correction = "error"
  BY <1>2 DEF CalibrationInv, Polled
<1>4. p.done => correction \in {"done", "error"}
  BY <1>3 DEF CalibrationPoll, Poll
<1>5. p.done \/ p.left \/ correction = "error"
  BY <1>3 DEF CalibrationPoll, Poll
<1>6. CASE p.done \/ calibration = CalibrationAttempts
  <2>1. calibration' = 0 /\ (calResult' = "Success" => correction \in {"done", "error"})
    BY <1>1, <1>4, <1>6
  <2>2. QED
    BY <1>2, <1>3, <2>1 DEF CalibrationInv, Polled, SuccessUnlessRefused
<1>7. CASE ~(p.done \/ calibration = CalibrationAttempts)
  <2>1. isCalibrating' \/ correction = "error"
    BY <1>1, <1>5, <1>7
  <2>2. calibration' \in Nat \ {0}
    BY <1>1, <1>7 DEF CalibrationInv
  <2>3. QED
    BY <1>2, <1>3, <2>1, <2>2 DEF CalibrationInv, Polled, SuccessUnlessRefused
<1>8. QED
  BY <1>6, <1>7

LEMMA CalibrationStep ==
  ASSUME CalibrationInv, [ReadingNext]_sensorVars
  PROVE  CalibrationInv'
<1>1. CASE CheckCalibration
  BY <1>1, RefusedOrDone
<1>2. CASE ForcedRecalibration
  <2>1. /\ UNCHANGED <<co2, calibration, isCalibrating>>
        /\ calibration = 0
    BY <1>2 DEF ForcedRecalibration, Idle
  <2>2. calResult' = "Success" => correction' = "done"
    BY <1>2 DEF ForcedRecalibration, Accepted
  <2>3. QED
    BY <2>1, <2>2 DEF CalibrationInv, Polled, SuccessUnlessRefused
<1>3. CASE BackgroundCalibration
  <2>1. CASE calibration' = 1 /\ isCalibrating' = TRUE /\ co2 = "S12"
    BY <1>3, <2>1 DEF BackgroundCalibration, CalibrationInv, Polled, SuccessUnlessRefused
  <2>2. CASE calResult' \in {"Unsupported", "Failed"} /\ UNCHANGED calibration
    BY <1>3, <2>2 DEF BackgroundCalibration, Idle, CalibrationInv, Polled, SuccessUnlessRefused
  <2>3. QED
    BY <1>3, <2>1, <2>2 DEF BackgroundCalibration
<1>4. CASE SensorCalibrates
  <2>1. /\ calibration # 0 /\ correction = "running"
        /\ UNCHANGED <<co2, calibration, isCalibrating>>
    BY <1>4 DEF SensorCalibrates
  <2>2. QED
    BY <2>1 DEF CalibrationInv, Polled, SuccessUnlessRefused
<1>5. CASE \/ StartMeasures \/ ReadSensors \/ WarmUpPm \/ SwitchPm
           \/ \E s \in Sensor : Sag(s)
           \/ UNCHANGED sensorVars
  <2>1. UNCHANGED <<co2, calibrationVars>>
    BY <1>5 DEF StartMeasures, ReadSensors, WarmUpPm, SwitchPm, Sag, sensorVars
  <2>2. QED
    BY <2>1 DEF CalibrationInv, Polled, SuccessUnlessRefused, calibrationVars
<1>6. QED
  BY <1>1, <1>2, <1>3, <1>4, <1>5 DEF ReadingNext

(* A calibration that is reported as done was done by the sensor, unless   *)
(* an S12 refused it: the driver then takes its own giving up for success. *)
THEOREM SuccessIsDoneOrRefused == ReadingSpec => []SuccessUnlessRefused
<1>1. ReadingInit => CalibrationInv
  BY DEF ReadingInit, CalibrationInv, Polled, SuccessUnlessRefused
<1>2. CalibrationInv /\ [ReadingNext]_sensorVars => CalibrationInv'
  BY CalibrationStep
<1>3. CalibrationInv => SuccessUnlessRefused
  BY DEF CalibrationInv
<1>4. QED
  BY <1>1, <1>2, <1>3, PTL DEF ReadingSpec

-----------------------------------------------------------------------------
(* Temperatures.                                                           *)

(* The S12, which measures no temperature, never fills the cache.          *)
NoTemperature == co2 = "S12" => cache = "none"

TemperatureInv == NoTemperature /\ StaleOnlyAfterFailure

(* What an iteration adds is stale only if it also counts as a miss.       *)
LEMMA IterationHonest ==
  ASSUME TemperatureInv, ReadSensors
  PROVE  TemperatureInv'
<1>1. PICK d \in ReadCo2 :
        /\ cache' = Measures(d)
        /\ temps' = {t \in temps \cup {<<iteration, FallbackTemperature(d)>>} : t[2] # "none"}
        /\ co2Misses' = IF d.ok THEN co2Misses ELSE co2Misses \cup {iteration}
  BY DEF ReadSensors
<1>2. UNCHANGED co2
  BY DEF ReadSensors
<1>3. NoTemperature'
  BY <1>1, <1>2 DEF TemperatureInv, NoTemperature, Measures, Aged
<1>4. FallbackTemperature(d) = "stale" => ~d.ok
  BY DEF TemperatureInv, NoTemperature, FallbackTemperature, Measures, Aged
<1>5. ASSUME NEW i \in 1 .. Averaged, <<i, "stale">> \in temps'
      PROVE  i \in co2Misses'
  <2>1. CASE <<i, "stale">> \in temps
    <3>1. i \in co2Misses
      BY <1>5, <2>1 DEF TemperatureInv, StaleOnlyAfterFailure
    <3>2. QED
      BY <1>1, <3>1
  <2>2. CASE <<i, "stale">> = <<iteration, FallbackTemperature(d)>>
    <3>1. i = iteration /\ FallbackTemperature(d) = "stale"
      BY <2>2
    <3>2. QED
      BY <1>1, <1>4, <3>1
  <2>3. QED
    BY <1>1, <1>5, <2>1, <2>2
<1>6. StaleOnlyAfterFailure'
  BY <1>5 DEF StaleOnlyAfterFailure
<1>7. QED
  BY <1>3, <1>6 DEF TemperatureInv

LEMMA TemperatureStep ==
  ASSUME TemperatureInv, [ReadingNext]_sensorVars
  PROVE  TemperatureInv'
<1>1. CASE ReadSensors
  BY <1>1, IterationHonest
<1>2. CASE StartMeasures
  <2>1. temps' = {} /\ UNCHANGED <<co2, cache>>
    BY <1>2 DEF StartMeasures
  <2>2. QED
    BY <2>1 DEF TemperatureInv, NoTemperature, StaleOnlyAfterFailure
<1>3. CASE ~ReadSensors /\ ~StartMeasures
  <2>1. UNCHANGED <<co2, cache, temps, co2Misses>>
    BY <1>3 DEF ReadingNext, WarmUpPm, SwitchPm, Sag, ForcedRecalibration,
                BackgroundCalibration, SensorCalibrates, CheckCalibration, sensorVars,
                readingVars
  <2>2. QED
    BY <2>1 DEF TemperatureInv, NoTemperature, StaleOnlyAfterFailure
<1>4. QED
  BY <1>1, <1>2, <1>3

(* A temperature of an earlier iteration enters the average only when the  *)
(* read that should have renewed it failed.                                *)
THEOREM StaleMeansFailed == ReadingSpec => []StaleOnlyAfterFailure
<1>1. ReadingInit => TemperatureInv
  BY DEF ReadingInit, TemperatureInv, NoTemperature, StaleOnlyAfterFailure
<1>2. TemperatureInv /\ [ReadingNext]_sensorVars => TemperatureInv'
  BY TemperatureStep
<1>3. TemperatureInv => StaleOnlyAfterFailure
  BY DEF TemperatureInv
<1>4. QED
  BY <1>1, <1>2, <1>3, PTL DEF ReadingSpec

-----------------------------------------------------------------------------
(* The input task.                                                         *)

ContactType == [held: BOOLEAN, closed: BOOLEAN, moving: BOOLEAN, bounces: Nat,
                unclear: BOOLEAN, heldFor: Nat]
Sources == Button \cup {"touch"}
TrackType == [first: BOOLEAN, pending: BOOLEAN, age: Nat]
ButtonTypeOK == /\ loop \in {"running", "stopping", "ended"}
                /\ raw \in Seq(Sources)
                /\ contact \in [Button -> ContactType]
                /\ tracked \in [Button -> TrackType]

(* What the task still has to learn of b: a press it times has ended only  *)
(* if the queue tells, or if the task does not go on to time it.           *)
Told(b) ==
  /\ Contains(raw, b) => contact[b].moving
  /\ ~contact[b].moving => contact[b].closed = contact[b].held
  /\ ~contact[b].held /\ ~contact[b].unclear => ~contact[b].closed
  /\ tracked[b].pending => \/ Contains(raw, b) \/ contact[b].closed
                           \/ loop = "stopping" /\ contact[b].moving
                           \/ loop = "ended"

(* A press is timed from when it was held at the earliest. *)
Timed(b) ==
  tracked[b].pending => /\ ~tracked[b].first
                        /\ tracked[b].age <= contact[b].heldFor
                        /\ contact[b].held /\ contact[b].moving => tracked[b].age = 0

(* A press that gave its event is not timed again by its bouncing. *)
Spent(b) ==
  b \in reported /\ ~contact[b].unclear =>
    /\ ~tracked[b].pending
    /\ contact[b].held /\ contact[b].moving => ~tracked[b].first /\ tracked[b].age < Debounce

InputInv == /\ ButtonTypeOK
            /\ loop = "stopping" => raw # <<>>
            /\ \A b \in Button : Told(b) /\ Timed(b) /\ Spent(b)
            /\ LongPressIsHeld

(* While the task runs, every change of a contact leaves the queue with an *)
(* entry of its button: its interrupt is lost at most for want of room     *)
(* among others of the same button.                                        *)
EdgeQueued == loop = "running" =>
                \A b \in Button : contact'[b].closed # contact[b].closed => Contains(raw', b)
EdgesQueued == [][EdgeQueued]_inputVars

LEMMA InputNumbers ==
  /\ Debounce \in Nat /\ LongPress \in Nat /\ RawDepth \in Nat
  /\ Debounce > 0 /\ LongPress > 0 /\ RawDepth > 0
BY InputBounds

LEMMA QueuedContains ==
  ASSUME NEW q \in Seq(Sources), NEW source \in Sources
  PROVE  /\ Queued(q, source) \in Seq(Sources)
         /\ Queued(q, source) # <<>>
         /\ \A x : Contains(q, x) => Contains(Queued(q, source), x)
         /\ \A x : x # source /\ Contains(Queued(q, source), x) => Contains(q, x)
<1>1. CASE Len(q) < RawDepth
  <2>1. /\ Queued(q, source) = Append(q, source)
        /\ Append(q, source) \in Seq(Sources) /\ Len(Append(q, source)) = Len(q) + 1
        /\ \A k \in 1 .. Len(q) : Append(q, source)[k] = q[k]
        /\ Append(q, source)[Len(q) + 1] = source
    BY <1>1 DEF Queued
  <2>2. QED
    BY <2>1 DEF Contains
<1>2. CASE ~(Len(q) < RawDepth)
  <2>1. Queued(q, source) = q /\ Len(q) # 0
    BY <1>2, InputNumbers DEF Queued
  <2>2. QED
    BY <2>1
<1>3. QED
  BY <1>1, <1>2

LEMMA TailContains ==
  ASSUME NEW q \in Seq(Sources), q # <<>>
  PROVE  /\ Tail(q) \in Seq(Sources) /\ Head(q) \in Sources
         /\ Contains(q, Head(q))
         /\ \A x : Contains(Tail(q), x) => Contains(q, x)
         /\ \A x : x # Head(q) /\ Contains(q, x) => Contains(Tail(q), x)
<1>1. /\ Tail(q) \in Seq(Sources) /\ Len(q) \in Nat /\ Len(q) >= 1 /\ Len(Tail(q)) = Len(q) - 1
      /\ \A k \in 1 .. Len(Tail(q)) : Tail(q)[k] = q[k + 1]
      /\ Head(q) = q[1] /\ q[1] \in Sources
  OBVIOUS
<1>2. Contains(q, Head(q))
  BY <1>1 DEF Contains
<1>3. ASSUME NEW x, Contains(Tail(q), x) PROVE Contains(q, x)
  BY <1>1, <1>3 DEF Contains
<1>4. ASSUME NEW x, x # Head(q), Contains(q, x) PROVE Contains(Tail(q), x)
  <2>1. PICK k \in 1 .. Len(q) : q[k] = x
    BY <1>4 DEF Contains
  <2>2. k - 1 \in 1 .. Len(Tail(q)) /\ Tail(q)[k - 1] = x
    BY <1>1, <1>4, <2>1
  <2>3. QED
    BY <2>2 DEF Contains
<1>5. QED
  BY <1>1, <1>2, <1>3, <1>4

LEMMA EmptyContains == \A x : ~Contains(<<>>, x)
BY DEF Contains

(* A change of a contact: it is queued, or its button is in the queue.     *)
LEMMA EdgeInv ==
  ASSUME InputInv, NEW b \in Button, NEW state \in ContactType, Edge(b, state), Quiet,
         EdgeQueued, UNCHANGED <<loop, tracked>>, reported' \subseteq reported,
         state.moving, state.closed # contact[b].closed,
         ~state.held /\ ~state.unclear => ~state.closed,
         tracked[b].pending => /\ tracked[b].age <= state.heldFor
                               /\ state.held => tracked[b].age = 0,
         b \in reported' /\ ~state.unclear =>
           /\ ~tracked[b].pending
           /\ state.held => ~tracked[b].first /\ tracked[b].age < Debounce
  PROVE  InputInv'
<1>1. /\ contact' = [contact EXCEPT ![b] = state] /\ raw' = Queued(raw, b) /\ posted' = {}
      /\ loop' = loop /\ tracked' = tracked
  BY DEF Edge, Quiet
<1>2. ButtonTypeOK /\ contact'[b] = state
      /\ \A x \in Button \ {b} : contact'[x] = contact[x]
  BY <1>1 DEF InputInv, ButtonTypeOK
<1>3. /\ raw' \in Seq(Sources) /\ raw' # <<>>
      /\ \A x \in Button : Contains(raw, x) => Contains(raw', x)
      /\ \A x \in Button \ {b} : Contains(raw', x) => Contains(raw, x)
  <2>1. b \in Sources /\ raw \in Seq(Sources)
    BY <1>2 DEF ButtonTypeOK, Sources
  <2>2. QED
    BY <1>1, <2>1, QueuedContains
<1>4. ButtonTypeOK'
  BY <1>1, <1>2, <1>3 DEF ButtonTypeOK
<1>5. loop = "running" => Contains(raw', b)
  BY <1>2 DEF EdgeQueued
<1>6. Told(b)' /\ Timed(b)' /\ Spent(b)'
  BY <1>1, <1>2, <1>5 DEF InputInv, Told, Timed, Spent, ButtonTypeOK
<1>7. ASSUME NEW x \in Button, x # b PROVE Told(x)' /\ Timed(x)' /\ Spent(x)'
  BY <1>1, <1>2, <1>3, <1>7 DEF InputInv, Told, Timed, Spent
<1>8. LongPressIsHeld'
  BY <1>1 DEF LongPressIsHeld
<1>9. QED
  BY <1>3, <1>4, <1>6, <1>7, <1>8 DEF InputInv

(* A press starts when the task has learnt the end of the one before.      *)
LEMMA PressInv ==
  ASSUME InputInv, NEW b \in Button, Press(b), EdgeQueued
  PROVE  InputInv'
<1> DEFINE state == [Released EXCEPT !.held = TRUE, !.closed = TRUE, !.moving = TRUE,
                                     !.unclear = tracked[b].pending]
<1>1. /\ loop # "ended" /\ ~contact[b].held /\ ~contact[b].moving
      /\ Edge(b, state) /\ Quiet /\ reported' = reported \ {b} /\ UNCHANGED <<loop, tracked>>
  BY DEF Press
<1>2. /\ contact[b] \in ContactType /\ tracked[b] \in TrackType
      /\ Told(b)
  BY DEF InputInv, ButtonTypeOK
<1>3. ~tracked[b].pending /\ ~contact[b].closed
  BY <1>1, <1>2 DEF Told
<1>4. /\ state \in ContactType /\ state.held /\ state.closed /\ state.moving
  BY <1>2 DEF Released, ContactType, TrackType
<1>5. b \notin reported' /\ reported' \subseteq reported
  BY <1>1
<1> HIDE DEF state
<1>6. QED
  BY <1>1, <1>3, <1>4, <1>5, EdgeInv

LEMMA ReleaseInv ==
  ASSUME InputInv, NEW b \in Button, Release(b), EdgeQueued
  PROVE  InputInv'
<1> DEFINE state == [contact[b] EXCEPT !.held = FALSE, !.closed = FALSE, !.moving = TRUE]
<1>1. /\ contact[b].held /\ ~contact[b].moving
      /\ Edge(b, state) /\ Quiet /\ reported' = reported /\ UNCHANGED <<loop, tracked>>
  BY DEF Release
<1>2. contact[b] \in ContactType /\ Told(b) /\ Timed(b) /\ Spent(b)
  BY DEF InputInv, ButtonTypeOK
<1>3. contact[b].closed
  BY <1>1, <1>2 DEF Told
<1>4. /\ state \in ContactType /\ ~state.held /\ ~state.closed /\ state.moving
      /\ state.heldFor = contact[b].heldFor /\ state.unclear = contact[b].unclear
  BY <1>2 DEF ContactType
<1> HIDE DEF state
<1>5. /\ tracked[b].pending => tracked[b].age <= state.heldFor
      /\ b \in reported /\ ~state.unclear => ~tracked[b].pending
  BY <1>2, <1>4 DEF Timed, Spent
<1>6. QED
  BY <1>1, <1>3, <1>4, <1>5, EdgeInv

LEMMA FlipInv ==
  ASSUME InputInv, NEW b \in Button, Bounce(b) \/ Settle(b), EdgeQueued
  PROVE  InputInv'
<1> DEFINE state == [contact[b] EXCEPT
                      !.closed = ~@,
                      !.bounces = IF contact[b].closed THEN @ ELSE @ + 1,
                      !.unclear = @ \/ (~contact[b].closed /\ ~contact[b].held)]
<1>1. /\ contact[b].moving \/ contact[b].closed # contact[b].held
      /\ Edge(b, state) /\ Quiet /\ reported' = reported /\ UNCHANGED <<loop, tracked>>
  BY DEF Bounce, Settle, Flip
<1>2. contact[b] \in ContactType /\ Told(b) /\ Timed(b) /\ Spent(b)
  BY DEF InputInv, ButtonTypeOK
<1>3. contact[b].moving
  BY <1>1, <1>2 DEF Told
<1>4. PICK n \in Nat, u \in BOOLEAN :
        /\ u = (contact[b].unclear \/ (~contact[b].closed /\ ~contact[b].held))
        /\ state = [contact[b] EXCEPT !.closed = ~@, !.bounces = n, !.unclear = u]
  <2>1. /\ (IF contact[b].closed THEN contact[b].bounces ELSE contact[b].bounces + 1) \in Nat
        /\ (contact[b].unclear \/ (~contact[b].closed /\ ~contact[b].held)) \in BOOLEAN
    BY <1>2 DEF ContactType
  <2>2. QED
    BY <2>1
<1> HIDE DEF state
<1>5. /\ state \in ContactType /\ state.closed = ~contact[b].closed
      /\ state.held = contact[b].held /\ state.moving = contact[b].moving
      /\ state.heldFor = contact[b].heldFor /\ state.unclear = u
  BY <1>2, <1>4 DEF ContactType
<1>6. /\ state.closed # contact[b].closed
      /\ ~state.held /\ ~state.unclear => ~state.closed
      /\ tracked[b].pending => /\ tracked[b].age <= state.heldFor
                               /\ state.held => tracked[b].age = 0
      /\ b \in reported /\ ~state.unclear =>
           /\ ~tracked[b].pending
           /\ state.held => ~tracked[b].first /\ tracked[b].age < Debounce
  BY <1>2, <1>3, <1>4, <1>5 DEF Timed, Spent, ContactType
<1>7. QED
  BY <1>1, <1>3, <1>5, <1>6, EdgeInv

(* What leaves the buttons and the task alone: at most a "touch" is queued.*)
LEMMA TouchesInv ==
  ASSUME InputInv, FingerDown \/ FingerUp \/ Reassert
  PROVE  InputInv'
<1>1. /\ UNCHANGED <<loop, contact, tracked>> /\ posted' = {} /\ reported' \subseteq reported
      /\ raw' = raw \/ raw' = Queued(raw, "touch")
  BY DEF FingerDown, FingerUp, Reassert, LineFalls, Quiet
<1>2. ButtonTypeOK
  BY DEF InputInv
<1>3. /\ raw' \in Seq(Sources)
      /\ raw # <<>> => raw' # <<>>
      /\ \A x \in Button : Contains(raw', x) <=> Contains(raw, x)
  <2>1. /\ "touch" \in Sources /\ raw \in Seq(Sources)
        /\ \A x \in Button : x # "touch"
    BY <1>2, SourcesDiffer DEF ButtonTypeOK, Sources
  <2>2. QED
    BY <1>1, <2>1, QueuedContains
<1>4. ButtonTypeOK' /\ LongPressIsHeld' /\ (loop' = "stopping" => raw' # <<>>)
  BY <1>1, <1>2, <1>3 DEF InputInv, ButtonTypeOK, LongPressIsHeld
<1>5. \A x \in Button : Told(x)' /\ Timed(x)' /\ Spent(x)'
  BY <1>1, <1>3 DEF InputInv, Told, Timed, Spent
<1>6. QED
  BY <1>4, <1>5 DEF InputInv

LEMMA StopInv ==
  ASSUME InputInv, Stop
  PROVE  InputInv'
<1>1. /\ UNCHANGED <<contact, tracked, reported>> /\ posted' = {}
      /\ loop = "running" /\ loop' = "stopping" /\ raw' = Queued(raw, "touch")
  BY DEF Stop, Quiet
<1>2. ButtonTypeOK
  BY DEF InputInv
<1>3. /\ raw' \in Seq(Sources) /\ raw' # <<>>
      /\ \A x \in Button : Contains(raw', x) <=> Contains(raw, x)
  <2>1. /\ "touch" \in Sources /\ raw \in Seq(Sources)
        /\ \A x \in Button : x # "touch"
    BY <1>2, SourcesDiffer DEF ButtonTypeOK, Sources
  <2>2. QED
    BY <1>1, <2>1, QueuedContains
<1>4. ButtonTypeOK' /\ LongPressIsHeld'
  BY <1>1, <1>2, <1>3 DEF ButtonTypeOK, LongPressIsHeld
<1>5. \A x \in Button : Told(x)' /\ Timed(x)' /\ Spent(x)'
  BY <1>1, <1>3 DEF InputInv, Told, Timed, Spent
<1>6. QED
  BY <1>3, <1>4, <1>5 DEF InputInv

LEMMA OlderIsMonotone ==
  ASSUME NEW m \in Nat, NEW n \in Nat, NEW limit \in Nat
  PROVE  /\ Older(m, limit) \in Nat
         /\ m <= n => Older(m, limit) <= Older(n, limit)
BY DEF Older

(* A press that is timed when time passes is one that is held.             *)
LEMMA TickInv ==
  ASSUME InputInv, Tick
  PROVE  InputInv'
<1>1. /\ loop # "ended" /\ raw = <<>>
      /\ \A b \in Button : contact[b].closed = contact[b].held
      /\ contact' = [b \in Button |-> [contact[b] EXCEPT
             !.moving = FALSE,
             !.heldFor = IF contact[b].held THEN Older(@, LongPress) ELSE @]]
      /\ tracked' = [b \in Button |-> [tracked[b] EXCEPT
             !.age = IF tracked[b].first THEN @ ELSE Older(@, LongPress)]]
      /\ posted' = {} /\ UNCHANGED <<loop, raw, reported>>
  BY DEF Tick, TaskHasWork, Quiet
<1>2. /\ ButtonTypeOK /\ loop = "running"
  BY <1>1 DEF InputInv, ButtonTypeOK
<1>3. ASSUME NEW b \in Button
      PROVE  /\ contact'[b] \in ContactType /\ tracked'[b] \in TrackType
             /\ Told(b)' /\ Timed(b)' /\ Spent(b)'
  <2>1. /\ contact[b] \in ContactType /\ tracked[b] \in TrackType
        /\ Told(b) /\ Timed(b) /\ Spent(b) /\ ~Contains(raw, b)
    BY <1>1, <1>2, EmptyContains DEF InputInv, ButtonTypeOK
  <2>2. /\ Older(contact[b].heldFor, LongPress) \in Nat
        /\ Older(tracked[b].age, LongPress) \in Nat
        /\ tracked[b].age <= contact[b].heldFor =>
             Older(tracked[b].age, LongPress) <= Older(contact[b].heldFor, LongPress)
    BY <2>1, OlderIsMonotone, InputNumbers DEF ContactType, TrackType
  <2>3. /\ contact'[b] = [contact[b] EXCEPT
             !.moving = FALSE,
             !.heldFor = IF contact[b].held THEN Older(@, LongPress) ELSE @]
        /\ tracked'[b] = [tracked[b] EXCEPT
             !.age = IF tracked[b].first THEN @ ELSE Older(@, LongPress)]
    BY <1>1
  <2>4. /\ contact'[b] \in ContactType /\ tracked'[b] \in TrackType
        /\ ~contact'[b].moving /\ contact'[b].closed = contact[b].closed
        /\ contact'[b].held = contact[b].held /\ contact'[b].unclear = contact[b].unclear
        /\ contact[b].held => contact'[b].heldFor = Older(contact[b].heldFor, LongPress)
        /\ tracked'[b].pending = tracked[b].pending /\ tracked'[b].first = tracked[b].first
        /\ ~tracked[b].first => tracked'[b].age = Older(tracked[b].age, LongPress)
    BY <2>1, <2>2, <2>3 DEF ContactType, TrackType
  <2>5. tracked[b].pending => contact[b].held
    BY <1>1, <1>2, <2>1 DEF Told
  <2>6. QED
    BY <1>1, <1>2, <2>1, <2>2, <2>4, <2>5 DEF Told, Timed, Spent
<1>4. /\ contact' = [b \in Button |-> contact'[b]] /\ tracked' = [b \in Button |-> tracked'[b]]
  BY <1>1
<1>5. ButtonTypeOK'
  BY <1>1, <1>2, <1>3, <1>4 DEF ButtonTypeOK
<1>6. LongPressIsHeld' /\ loop' # "stopping"
  BY <1>1, <1>2 DEF LongPressIsHeld
<1>7. QED
  BY <1>3, <1>5, <1>6 DEF InputInv

(* The end of a turn of the loop: the events it posts, and the timers of   *)
(* the buttons, t before check_pending_long_press().                       *)
LEMMA EndTurnInv ==
  ASSUME InputInv, NEW t \in [Button -> TrackType], NEW o, NEW events, EndTurn(t, o, events),
         events \subseteq {<<b, "ShortPress">> : b \in Button \cup {"touch"}},
         raw' \in Seq(Sources),
         \A b \in Button : Contains(raw', b) => Contains(raw, b),
         \A b \in Button : t[b].pending =>
           /\ loop = "running" => Contains(raw', b) \/ contact[b].closed
           /\ ~t[b].first /\ t[b].age <= contact[b].heldFor
           /\ contact[b].held /\ contact[b].moving => t[b].age = 0,
         \A b \in Button : (b \in reported \/ <<b, "ShortPress">> \in events) /\ ~contact[b].unclear =>
           /\ ~t[b].pending
           /\ contact[b].held /\ contact[b].moving => ~t[b].first /\ t[b].age < Debounce
  PROVE  InputInv'
<1>1. /\ tracked' = [b \in Button |-> IF b \in Overdue(t) THEN [t[b] EXCEPT !.pending = FALSE]
                                      ELSE t[b]]
      /\ posted' = events \cup {<<b, PressType(b)>> : b \in Overdue(t)}
      /\ reported' = reported \cup {e[1] : e \in posted'}
      /\ loop' = (IF loop = "stopping" THEN "ended" ELSE loop)
      /\ contact' = contact
  BY DEF EndTurn
<1>2. ButtonTypeOK /\ loop' \in {"running", "ended"}
  BY <1>1 DEF InputInv, ButtonTypeOK
<1>3. ASSUME NEW b \in Button
      PROVE  /\ t[b] \in TrackType /\ contact[b] \in ContactType
             /\ tracked'[b] \in TrackType
             /\ tracked'[b].pending <=> t[b].pending /\ b \notin Overdue(t)
             /\ tracked'[b].first = t[b].first /\ tracked'[b].age = t[b].age
             /\ b \in Overdue(t) <=> t[b].pending /\ t[b].age >= LongPress
  BY <1>1, <1>2 DEF TrackType, ButtonTypeOK, Overdue
<1>4. ButtonTypeOK'
  <2>1. tracked' \in [Button -> TrackType]
    BY <1>1, <1>3
  <2>2. QED
    BY <1>1, <1>2, <2>1 DEF ButtonTypeOK
<1>5. ASSUME NEW b \in Button PROVE Told(b)' /\ Timed(b)'
  <2>1. Told(b)
    BY DEF InputInv
  <2>2. QED
    BY <1>1, <1>2, <1>3, <2>1 DEF Told, Timed
<1>6. ASSUME NEW b \in Button PROVE Spent(b)'
  <2>1. SUFFICES ASSUME b \in reported', ~contact[b].unclear
                 PROVE  /\ ~tracked'[b].pending
                        /\ contact[b].held /\ contact[b].moving =>
                             ~tracked'[b].first /\ tracked'[b].age < Debounce
    BY <1>1 DEF Spent
  <2>2. b \in reported \/ <<b, "ShortPress">> \in events \/ b \in Overdue(t)
    BY <1>1, <2>1, SourcesDiffer
  <2>3. CASE b \in reported \/ <<b, "ShortPress">> \in events
    BY <1>3, <2>1, <2>3
  <2>4. CASE b \in Overdue(t)
    BY <1>3, <2>4, InputNumbers DEF TrackType
  <2>5. QED
    BY <2>2, <2>3, <2>4
<1>7. LongPressIsHeld'
  <2> SUFFICES ASSUME NEW b \in Button, <<b, "LongPress">> \in posted'
               PROVE  contact[b].closed /\ contact[b].heldFor >= LongPress
    BY <1>1 DEF LongPressIsHeld
  <2>1. b \in Overdue(t) /\ PressType(b) = "LongPress"
    BY <1>1
  <2>2. QED
    BY <1>3, <2>1, InputNumbers DEF PressType, ContactType, TrackType
<1>8. QED
  BY <1>2, <1>4, <1>5, <1>6, <1>7 DEF InputInv

(* A turn that takes no entry of a button, the timers being as they were.  *)
LEMMA OtherTurnsInv ==
  ASSUME InputInv, TouchTurn \/ TimedOut
  PROVE  InputInv'
<1> DEFINE Turn(o, events) ==
             /\ events \subseteq {<<"touch", "ShortPress">>}
             /\ EndTurn(tracked, o, events)
             /\ \/ raw # <<>> /\ Head(raw) = "touch" /\ raw' = Tail(raw)
                \/ raw' = raw
<1>1. PICK o, events : Turn(o, events)
  <2>1. CASE TouchTurn
    <3>1. PICK r \in TouchReads, noise \in BOOLEAN :
            EndTurn(tracked, After(r.chip, r.used),
                    IF r.got /\ TouchAccepted /\ chip.status /\ ~noise
                      THEN {<<"touch", "ShortPress">>} ELSE {})
      BY <2>1 DEF TouchTurn
    <3>2. raw # <<>> /\ Head(raw) = "touch" /\ raw' = Tail(raw)
      BY <2>1 DEF TouchTurn
    <3>3. QED
      BY <3>1, <3>2
  <2>2. CASE TimedOut
    <3>1. EndTurn(tracked, After(chip, busFaults), {}) /\ raw' = raw
      BY <2>2 DEF TimedOut
    <3>2. QED
      BY <3>1
  <2>3. QED
    BY <2>1, <2>2
<1>2. ButtonTypeOK
  BY DEF InputInv
<1>3. /\ raw' \in Seq(Sources)
      /\ \A b \in Button : Contains(raw', b) <=> Contains(raw, b)
  <2>1. raw \in Seq(Sources) /\ \A x \in Button : x # "touch"
    BY <1>2, SourcesDiffer DEF ButtonTypeOK
  <2>2. QED
    BY <1>1, <2>1, TailContains
<1>4. \A b \in Button : <<b, "ShortPress">> \notin events
  BY <1>1, SourcesDiffer
<1>5. ASSUME NEW b \in Button
      PROVE  /\ tracked[b].pending =>
                  /\ loop = "running" => Contains(raw', b) \/ contact[b].closed
                  /\ ~tracked[b].first /\ tracked[b].age <= contact[b].heldFor
                  /\ contact[b].held /\ contact[b].moving => tracked[b].age = 0
             /\ b \in reported /\ ~contact[b].unclear =>
                  /\ ~tracked[b].pending
                  /\ contact[b].held /\ contact[b].moving =>
                       ~tracked[b].first /\ tracked[b].age < Debounce
  BY <1>3 DEF InputInv, Told, Timed, Spent
<1>6. QED
  BY <1>1, <1>2, <1>3, <1>4, <1>5, EndTurnInv DEF ButtonTypeOK

(* What process_button_event(b) makes of the timer of b. *)
LEMMA ButtonTrackType ==
  ASSUME InputInv, NEW b \in Button, Contains(raw, b)
  PROVE  /\ ButtonTrack(b) \in TrackType
         /\ ButtonTrack(b).pending =>
              /\ contact[b].closed /\ ~ButtonTrack(b).first
              /\ ButtonTrack(b).age <= contact[b].heldFor
              /\ contact[b].held /\ contact[b].moving => ButtonTrack(b).age = 0
         /\ b \in reported /\ ~contact[b].unclear =>
              /\ ~tracked[b].pending /\ ~ButtonTrack(b).pending
              /\ contact[b].held /\ contact[b].moving =>
                   ~ButtonTrack(b).first /\ ButtonTrack(b).age < Debounce
         /\ ~contact[b].closed => /\ ~ButtonTrack(b).pending
                                  /\ ButtonTrack(b).first = tracked[b].first
                                  /\ ButtonTrack(b).age = tracked[b].age
<1>1. /\ contact[b] \in ContactType /\ tracked[b] \in TrackType
      /\ Told(b) /\ Timed(b) /\ Spent(b) /\ contact[b].moving
  BY DEF InputInv, ButtonTypeOK, Told
<1>2. CASE ~contact[b].closed
  <2>1. ButtonTrack(b) = [tracked[b] EXCEPT !.pending = FALSE]
    BY <1>2 DEF ButtonTrack
  <2>2. QED
    BY <1>1, <1>2, <2>1 DEF Spent, TrackType
<1>3. CASE contact[b].closed /\ ButtonTrack(b) = tracked[b]
  BY <1>1, <1>3 DEF Timed, Spent
<1>4. CASE contact[b].closed /\ ButtonTrack(b) # tracked[b]
  <2>1. /\ ButtonTrack(b) = [first |-> FALSE, pending |-> TRUE, age |-> 0]
        /\ tracked[b].first \/ tracked[b].age >= Debounce
    BY <1>4 DEF ButtonTrack, Pressed
  <2>2. ~(b \in reported /\ ~contact[b].unclear)
    BY <1>1, <1>4, <2>1, InputNumbers DEF Told, Spent, TrackType
  <2>3. 0 <= contact[b].heldFor
    BY <1>1 DEF ContactType
  <2>4. QED
    BY <1>4, <2>1, <2>2, <2>3 DEF TrackType
<1>5. QED
  BY <1>2, <1>3, <1>4

LEMMA ButtonTurnInv ==
  ASSUME InputInv, NEW b \in Button, ButtonTurn(b)
  PROVE  InputInv'
<1> DEFINE t == [tracked EXCEPT ![b] = ButtonTrack(b)]
<1>1. /\ raw # <<>> /\ Head(raw) = b /\ raw' = Tail(raw)
      /\ EndTurn(t, After(chip, busFaults), Shorts(b))
  BY DEF ButtonTurn
<1>2. ButtonTypeOK
  BY DEF InputInv
<1>3. /\ raw' \in Seq(Sources) /\ Contains(raw, b)
      /\ \A x \in Button : Contains(raw', x) => Contains(raw, x)
      /\ \A x \in Button \ {b} : Contains(raw, x) => Contains(raw', x)
  BY <1>1, <1>2, TailContains DEF ButtonTypeOK
<1>4. /\ t \in [Button -> TrackType] /\ t[b] = ButtonTrack(b)
      /\ \A x \in Button \ {b} : t[x] = tracked[x]
  BY <1>2, <1>3, ButtonTrackType DEF ButtonTypeOK
<1> HIDE DEF t
<1>5. /\ Shorts(b) \subseteq {<<b, "ShortPress">>}
      /\ <<b, "ShortPress">> \in Shorts(b) => tracked[b].pending /\ ~contact[b].closed
      /\ \A x \in Button \ {b} : <<x, "ShortPress">> \notin Shorts(b)
  BY DEF Shorts
<1>6. ASSUME NEW x \in Button
      PROVE  /\ t[x].pending =>
                  /\ loop = "running" => Contains(raw', x) \/ contact[x].closed
                  /\ ~t[x].first /\ t[x].age <= contact[x].heldFor
                  /\ contact[x].held /\ contact[x].moving => t[x].age = 0
             /\ (x \in reported \/ <<x, "ShortPress">> \in Shorts(b)) /\ ~contact[x].unclear =>
                  /\ ~t[x].pending
                  /\ contact[x].held /\ contact[x].moving => ~t[x].first /\ t[x].age < Debounce
  <2>1. CASE x = b
    <3>1. Timed(b)
      BY DEF InputInv
    <3>2. QED
      BY <1>3, <1>4, <1>5, <2>1, <3>1, ButtonTrackType, InputNumbers DEF Timed
  <2>2. CASE x # b
    BY <1>3, <1>4, <1>5, <2>2 DEF InputInv, Told, Timed, Spent
  <2>3. QED
    BY <2>1, <2>2
<1>7. Shorts(b) \subseteq {<<x, "ShortPress">> : x \in Button \cup {"touch"}}
  BY <1>5
<1>8. QED
  BY <1>1, <1>3, <1>4, <1>6, <1>7, EndTurnInv

(* After a boot, at the start or after a sleep. *)
LEMMA BootInv ==
  ASSUME loop = "running", raw = <<>>, posted = {}, reported = {},
         contact \in {BootContacts(holds) : holds \in BOOLEAN},
         tracked = [b \in Button |-> Untracked]
  PROVE  InputInv
<1>1. PICK holds \in BOOLEAN : contact = BootContacts(holds)
  OBVIOUS
<1>2. ASSUME NEW b \in Button
      PROVE  /\ contact[b] \in ContactType /\ ~contact[b].moving
             /\ contact[b].closed = contact[b].held /\ ~tracked[b].pending
  BY <1>1 DEF BootContacts, Released, Untracked, ContactType
<1>3. contact = [b \in Button |-> contact[b]]
  BY <1>1 DEF BootContacts
<1>4. ButtonTypeOK
  BY <1>2, <1>3 DEF ButtonTypeOK, Untracked, TrackType
<1>5. \A b \in Button : Told(b) /\ Timed(b) /\ Spent(b)
  BY <1>2, EmptyContains DEF Told, Timed, Spent
<1>6. QED
  BY <1>4, <1>5 DEF InputInv, LongPressIsHeld

LEMMA InputInitInv == ASSUME InputInit PROVE InputInv
BY BootInv DEF InputInit

LEMMA WakeInv ==
  ASSUME Wake
  PROVE  InputInv'
<1>1. PICK holds \in BOOLEAN : contact' = BootContacts(holds)
  BY DEF Wake
<1>2. ASSUME NEW b \in Button
      PROVE  /\ contact'[b] \in ContactType /\ ~contact'[b].moving
             /\ contact'[b].closed = contact'[b].held /\ ~tracked'[b].pending
  BY <1>1 DEF BootContacts, Released, Untracked, ContactType, Wake
<1>3. contact' = [b \in Button |-> contact'[b]]
  BY <1>1 DEF BootContacts
<1>4. ButtonTypeOK'
  BY <1>2, <1>3 DEF ButtonTypeOK, Untracked, TrackType, Wake
<1>5. \A b \in Button : Told(b)' /\ Timed(b)' /\ Spent(b)'
  BY <1>2, EmptyContains DEF Told, Timed, Spent, Wake
<1>6. QED
  BY <1>4, <1>5 DEF InputInv, LongPressIsHeld, Wake

LEMMA InputStepInv ==
  ASSUME InputInv, EdgeQueued \/ UNCHANGED inputVars, [InputNext]_inputVars
  PROVE  InputInv'
<1>1. CASE UNCHANGED inputVars
  <2>1. UNCHANGED <<loop, raw, contact, tracked, posted, reported>>
    BY <1>1 DEF inputVars
  <2>2. QED
    BY <2>1 DEF InputInv, ButtonTypeOK, Told, Timed, Spent, LongPressIsHeld
<1>2. CASE InputNext /\ EdgeQueued
  BY <1>2, PressInv, ReleaseInv, FlipInv, TouchesInv, StopInv, TickInv, OtherTurnsInv,
     ButtonTurnInv, WakeInv DEF InputNext, InputTask
<1>3. QED
  BY <1>1, <1>2

LEMMA InputInvariant == InputSpec /\ EdgesQueued => []InputInv
<1>1. InputInit => InputInv
  BY InputInitInv
<1>2. InputInv /\ [EdgeQueued]_inputVars /\ [InputNext]_inputVars => InputInv'
  BY InputStepInv
<1>3. QED
  BY <1>1, <1>2, PTL DEF InputSpec, EdgesQueued

(* A button reported as pressed long is down and was held all that time:   *)
(* no bounce, late task, stop or suppressed wake press makes two short     *)
(* presses a long one (check_pending_long_press, process_button_edge).     *)
THEOREM LongPressesAreHeld == InputSpec /\ EdgesQueued => []LongPressIsHeld
<1>1. InputInv => LongPressIsHeld
  BY DEF InputInv
<1>2. QED
  BY <1>1, InputInvariant, PTL

(* Only a turn of the task posts events: of the button whose entry it      *)
(* takes, and of those whose timer has run.                                *)
LEMMA StepOneEvent ==
  ASSUME InputInv, InputNext, NEW b \in Button, b \in reported, ~contact[b].unclear,
         NEW e \in posted'
  PROVE  e[1] # b
<1>1. ~tracked[b].pending
  BY DEF InputInv, Spent
<1>2. CASE \E x \in Button : ButtonTurn(x)
  <2>1. PICK x \in Button : ButtonTurn(x)
    BY <1>2
  <2> DEFINE t == [tracked EXCEPT ![x] = ButtonTrack(x)]
  <2>2. /\ raw # <<>> /\ Head(raw) = x
        /\ posted' = Shorts(x) \cup {<<y, PressType(y)>> : y \in Overdue(t)}
    BY <2>1 DEF ButtonTurn, EndTurn
  <2>3. Contains(raw, x)
    BY <2>2, TailContains DEF InputInv, ButtonTypeOK
  <2>4. ~t[b].pending
    BY <1>1, <2>3, ButtonTrackType DEF InputInv, ButtonTypeOK
  <2>5. b \notin Overdue(t)
    BY <2>4 DEF Overdue
  <2>6. x = b => Shorts(x) = {}
    BY <1>1 DEF Shorts
  <2>7. QED
    BY <2>2, <2>5, <2>6 DEF Shorts
<1>3. CASE TouchTurn \/ TimedOut
  <2>1. PICK events \in SUBSET {<<"touch", "ShortPress">>} :
          posted' = events \cup {<<y, PressType(y)>> : y \in Overdue(tracked)}
    BY <1>3 DEF TouchTurn, TimedOut, EndTurn
  <2>2. b \notin Overdue(tracked)
    BY <1>1 DEF Overdue
  <2>3. QED
    BY <2>1, <2>2, SourcesDiffer
<1>4. CASE posted' = {}
  BY <1>4
<1>5. QED
  BY <1>2, <1>3, <1>4 DEF InputNext, InputTask, Press, Release, Bounce, Settle, FingerDown,
     FingerUp, Reassert, Stop, Wake, Tick, Quiet

(* A press that was reported is not reported again, short or long, while   *)
(* its contact bounces, is held or opens.                                  *)
THEOREM OneEventForAPress == InputSpec /\ EdgesQueued => OneEventPerPress
<1> DEFINE Once == \A b \in Button : b \in reported =>
                     contact[b].unclear \/ \A e \in posted' : e[1] # b
<1>1. InputInv /\ [InputNext]_inputVars => [Once]_inputVars
  BY StepOneEvent
<1>2. QED
  BY <1>1, InputInvariant, PTL DEF InputSpec, OneEventPerPress
=============================================================================
