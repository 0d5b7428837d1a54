------------------------- MODULE NetworkRegistration -------------------------
(***************************************************************************)
(* components/airgradient-cellular, drivers/simcom_a7672x: how the modem   *)
(* gets on a network.  start_network_registration() runs one handler per   *)
(* turn of its loop, named by regState, until the data connection stands   *)
(* or the time of the operation is over.  What it learns, the operators    *)
(* found, the one being tried and the last that worked, is kept in the     *)
(* driver from one call to the next.                                       *)
(*                                                                         *)
(* The network is given by what each operator offers, which changes when   *)
(* the device moves.  A command to the module may time out or fail.        *)
(***************************************************************************)
EXTENDS Naturals, Sequences, SequencesExt

CONSTANTS
  Operator,       \* operators: id and access technology
  NoOperator,     \* operator_id 0
  CheckLimit,     \* REGISTRATION_CHECK_TIMEOUT_MS, in polls
  ServiceLimit,   \* SERVICE_STATUS_TIMEOUT_MS, in polls
  MaxCalls,       \* bound: calls that end by operation_timeout_ms
  MaxFaults,      \* bound: commands that time out or fail
  MaxMoves        \* bound: changes of what an operator offers

ASSUME NoOperatorAssumption == NoOperator \notin Operator
ASSUME RegistrationBounds ==
  {CheckLimit, ServiceLimit, MaxCalls, MaxFaults, MaxMoves} \subseteq Nat

VARIABLES
  regState,       \* state, or "Idle" between two calls
  scanned,        \* _scanned_operators
  operatorIndex,  \* _current_operator_index, from 0
  lastSuccessful, \* _last_successful_operator
  registrationAge,       \* time since registration_check_start_ms, in polls
  serviceAge,     \* time since service_status_start_ms, in polls
  selected,       \* the operator the module was told to use
  offer,          \* what each operator offers here
  regFaults, regCalls, moves

driverVars == <<scanned, operatorIndex, lastSuccessful>>
ageVars    == <<registrationAge, serviceAge>>
worldVars  == <<offer, moves>>
regVars    == <<regState, driverVars, ageVars, selected, worldVars, regFaults, regCalls>>

(* From nothing to a working data connection, each including those before: *)
(* not found by a scan, found, accepts the selection, registers, with a    *)
(* strong signal, with a service, with packet data.                        *)
Offers == <<"absent", "refuses", "no registration", "weak", "no service", "no data", "good">>
Level(what) == CHOOSE i \in 1 .. Len(Offers) : Offers[i] = what
Gives(o, what) == o # NoOperator /\ Level(offer[o]) >= Level(what)

(* What _scan_available_operators() can find: every operator in range, in  *)
(* the order the module lists them.                                        *)
ScanResults == SetToSeqs({o \in Operator : offer[o] # "absent"})

RegInit == /\ regState = "Idle"
           /\ scanned = <<>>
           /\ operatorIndex = 0
           /\ lastSuccessful = NoOperator
           /\ registrationAge = 0
           /\ serviceAge = 0
           /\ selected = NoOperator
           /\ offer \in [Operator -> Range(Offers)]
           /\ regFaults = 0
           /\ regCalls = 0
           /\ moves = 0

Outcome == {"ok", "error", "timeout"}

(* _map_at_response_to_status(): how a command ends *)
Answer(r) == \/ r = "ok" /\ UNCHANGED regFaults
             \/ /\ r # "ok"
                /\ regFaults < MaxFaults
                /\ regFaults' = regFaults + 1

(* Each turn of the loop in which a start time matters takes a second or   *)
(* more.                                                                   *)
Aging(age, limit) == IF age > limit THEN age ELSE age + 1

Start == /\ regState = "Idle"
         /\ regState' = "CheckModuleReady"
         /\ UNCHANGED <<driverVars, ageVars, selected, worldVars, regFaults, regCalls>>

(* The loop ends: its condition is read between two handlers. *)
OperationTimesOut ==
  /\ regState # "Idle"
  /\ regCalls < MaxCalls
  /\ regCalls' = regCalls + 1
  /\ regState' = "Idle"
  /\ UNCHANGED <<driverVars, ageVars, selected, worldVars, regFaults>>

(* _impl_check_module_ready: AT and AT+CPIN? *)
CheckModuleReady ==
  /\ regState = "CheckModuleReady"
  /\ \E r \in Outcome :
       /\ Answer(r)
       /\ regState' = IF r = "ok" THEN "PrepareModule" ELSE "CheckModuleReady"
  /\ UNCHANGED <<driverVars, ageVars, selected, worldVars, regCalls>>

(* _impl_prepare_module: the unsolicited codes, the technology, the APN *)
PrepareModule ==
  /\ regState = "PrepareModule"
  /\ \E r \in Outcome :
       /\ Answer(r)
       /\ regState' = IF r # "ok" THEN "CheckModuleReady"
                      ELSE IF scanned # <<>> THEN "ConfigureManualNetwork"
                      ELSE "ScanOperators"
  /\ UNCHANGED <<driverVars, ageVars, selected, worldVars, regCalls>>

(* _impl_scan_operators *)
ScanOperators ==
  /\ regState = "ScanOperators"
  /\ \E r \in Outcome :
       /\ Answer(r)
       /\ \/ /\ r = "ok"
             /\ scanned' \in ScanResults
             /\ IF scanned' = <<>>
                  THEN /\ regState' = "OperatorListExhausted"
                       /\ UNCHANGED operatorIndex
                  ELSE /\ regState' = "ConfigureManualNetwork"
                       /\ operatorIndex' = 0
          \/ /\ r # "ok"
             /\ scanned' = <<>>
             /\ regState' = IF r = "timeout" THEN "CheckModuleReady"
                            ELSE "OperatorListExhausted"
             /\ UNCHANGED operatorIndex
  /\ UNCHANGED <<lastSuccessful, ageVars, selected, worldVars, regCalls>>

(* The next operator of the list from index i, or the end of the list. *)
NextRechecks(i) ==                                \* faulty variant of TryNext
  /\ operatorIndex' = i + 1
  /\ regState' = IF i + 1 < Len(scanned) THEN "CheckNetworkRegistration"
                 ELSE "OperatorListExhausted"
TryNext(i) ==
  /\ operatorIndex' = i + 1
  /\ regState' = IF i + 1 < Len(scanned) THEN "ConfigureManualNetwork"
                 ELSE "OperatorListExhausted"

(* Where to begin: at the operator that worked last, if the list has it. *)
StartIndex ==
  IF operatorIndex = 0 /\ Contains(scanned, lastSuccessful)
    THEN (CHOOSE i \in 1 .. Len(scanned) : scanned[i] = lastSuccessful) - 1
    ELSE operatorIndex

(* _impl_configure_manual_network.  Of a command that timed out it is not  *)
(* known whether the module obeyed.                                        *)
ConfigureManualNetwork ==
  /\ regState = "ConfigureManualNetwork"
  /\ \/ /\ StartIndex >= Len(scanned)
        /\ regState' = "OperatorListExhausted"
        /\ operatorIndex' = StartIndex
        /\ UNCHANGED <<registrationAge, selected, regFaults>>
     \/ /\ StartIndex < Len(scanned)
        /\ LET o == scanned[StartIndex + 1] IN
             \/ /\ Gives(o, "no registration")
                /\ Answer("ok")
                /\ selected' = o
                /\ registrationAge' = 0
                /\ operatorIndex' = StartIndex
                /\ regState' = "CheckNetworkRegistration"
             \/ /\ Answer("timeout")
                /\ selected' \in {selected, o}
                /\ operatorIndex' = StartIndex
                /\ regState' = "CheckModuleReady"
                /\ UNCHANGED registrationAge
             \/ /\ IF Gives(o, "no registration") THEN Answer("error") ELSE Answer("ok")
                /\ TryNext(StartIndex)
                /\ UNCHANGED <<registrationAge, selected>>
  /\ UNCHANGED <<scanned, lastSuccessful, serviceAge, worldVars, regCalls>>

NeverGivesUp(again) == regState' = again /\ UNCHANGED operatorIndex  \* faulty variant of NotYet
(* The operator in use is not good enough: wait, or give it up. *)
NotYet(again) == IF registrationAge > CheckLimit
                   THEN TryNext(operatorIndex)
                   ELSE regState' = again /\ UNCHANGED operatorIndex

(* _impl_check_network_registration: registered, and with a strong signal  *)
CheckNetworkRegistration ==
  /\ regState = "CheckNetworkRegistration"
  /\ registrationAge' = Aging(registrationAge, CheckLimit)
  /\ \/ /\ Answer("timeout")
        /\ regState' = "CheckModuleReady"
        /\ UNCHANGED <<operatorIndex, lastSuccessful, serviceAge>>
     \/ /\ Answer("error")
        /\ UNCHANGED <<regState, operatorIndex, lastSuccessful, serviceAge>>
     \/ /\ IF Gives(selected, "no service") THEN Answer("error") ELSE Answer("ok")
        /\ NotYet("CheckNetworkRegistration")
        /\ UNCHANGED <<lastSuccessful, serviceAge>>
     \/ /\ Gives(selected, "no service")
        /\ Answer("ok")
        /\ lastSuccessful' = IF operatorIndex < Len(scanned) THEN scanned[operatorIndex + 1]
                             ELSE lastSuccessful
        /\ serviceAge' = 0
        /\ regState' = "CheckServiceStatus"
        /\ UNCHANGED operatorIndex
  /\ UNCHANGED <<scanned, selected, worldVars, regCalls>>

(* _impl_check_service_status: service, then the PDP context and the       *)
(* attachment; only the first of them is given up after a while.           *)
CheckServiceStatus ==
  /\ regState = "CheckServiceStatus"
  /\ registrationAge' = Aging(registrationAge, CheckLimit)
  /\ serviceAge' = Aging(serviceAge, ServiceLimit)
  /\ \/ /\ Answer("timeout")
        /\ regState' = "CheckModuleReady"
     \/ /\ IF Gives(selected, "no data") THEN Answer("error") ELSE Answer("ok")
        /\ regState' = IF serviceAge > ServiceLimit THEN "CheckNetworkRegistration"
                       ELSE "CheckServiceStatus"
     \/ /\ Gives(selected, "no data")
        /\ IF Gives(selected, "good") THEN Answer("error") ELSE Answer("ok")
        /\ regState' = "CheckServiceStatus"
     \/ /\ Gives(selected, "good")
        /\ Answer("ok")
        /\ regState' = "NetworkReady"
  /\ UNCHANGED <<driverVars, selected, worldVars, regCalls>>

(* NetworkReady and _impl_network_ready: the signal and an IP address *)
NetworkReady ==
  /\ regState = "NetworkReady"
  /\ registrationAge' = Aging(registrationAge, CheckLimit)
  /\ serviceAge' = Aging(serviceAge, ServiceLimit)
  /\ \/ /\ Answer("timeout")
        /\ regState' = "CheckModuleReady"
     \/ /\ IF Gives(selected, "good") THEN Answer("error") ELSE Answer("ok")
        /\ regState' = "CheckServiceStatus"
     \/ /\ Gives(selected, "good")
        /\ Answer("ok")
        /\ regState' = "Idle"
  /\ UNCHANGED <<driverVars, selected, worldVars, regCalls>>

OperatorListExhausted ==
  /\ regState = "OperatorListExhausted"
  /\ operatorIndex' = 0
  /\ scanned' = <<>>
  /\ regState' = "ScanOperators"
  /\ UNCHANGED <<lastSuccessful, ageVars, selected, worldVars, regFaults, regCalls>>

(* The device moves, or an operator changes what it offers. *)
Move == /\ moves < MaxMoves
        /\ moves' = moves + 1
        /\ \E o \in Operator, what \in Range(Offers) : offer' = [offer EXCEPT ![o] = what]
        /\ UNCHANGED <<regState, driverVars, ageVars, selected, regFaults, regCalls>>

Handler == \/ CheckModuleReady
           \/ PrepareModule
           \/ ScanOperators
           \/ ConfigureManualNetwork
           \/ CheckNetworkRegistration
           \/ CheckServiceStatus
           \/ NetworkReady
           \/ OperatorListExhausted

RegNext == Start \/ Handler \/ OperationTimesOut \/ Move

RegSpec == RegInit /\ [][RegNext]_regVars /\ WF_regVars(Handler)
-----------------------------------------------------------------------------
RegTypeOK ==
  /\ regState \in {"Idle", "CheckModuleReady", "PrepareModule", "ScanOperators",
                   "ConfigureManualNetwork", "CheckNetworkRegistration",
                   "CheckServiceStatus", "NetworkReady", "OperatorListExhausted"}
  /\ scanned \in Seq(Operator)
  /\ operatorIndex \in Nat
  /\ {lastSuccessful, selected} \subseteq Operator \cup {NoOperator}
  /\ offer \in [Operator -> Range(Offers)]
  /\ {registrationAge, serviceAge, regFaults, regCalls, moves} \subseteq Nat

(* While the registration of an operator is being judged, the module uses  *)
(* the operator the driver believes it is trying: time-outs, new scans and *)
(* calls that were given up do not shift the list under the index.  So the *)
(* operator remembered as the last successful one did register.            *)
JudgesSelected ==
  regState \in {"CheckNetworkRegistration", "CheckServiceStatus", "NetworkReady"} =>
    /\ operatorIndex < Len(scanned)
    /\ scanned[operatorIndex + 1] = selected

(* Every operator that is in range and lets the device register gives it   *)
(* a data connection as well, or there is none.                            *)
NoTrap == \A o \in Operator : offer[o] \notin {"no service", "no data"}
SomeGood == \E o \in Operator : offer[o] = "good"
Remembers == /\ lastSuccessful # NoOperator
             /\ offer[lastSuccessful] \notin {"absent", "good"}

(* With a usable operator in range, none that lets the device register     *)
(* without serving it, and none remembered that is in range but no longer  *)
(* usable, a call ends with a data connection, whatever other operators    *)
(* are tried first and whatever commands failed before.                    *)
GetsOnline == <>[](SomeGood /\ NoTrap /\ ~Remembers) => []<>(regState = "Idle")

(* The operator that worked last is only tried first: when it no longer    *)
(* works, the others are tried too.                                        *)
TriesTheOthers == <>[](SomeGood /\ NoTrap) => []<>(regState = "Idle")
=============================================================================
