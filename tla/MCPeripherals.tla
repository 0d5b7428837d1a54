---------------------------- MODULE MCPeripherals ----------------------------
(***************************************************************************)
(* Two peripherals that keep their state while the CPU sleeps or is reset: *)
(* the panel of the display and the charger.  Each behaviour is of one of  *)
(* them; the other stays as it is at the start.                            *)
(***************************************************************************)
EXTENDS DisplayService, PowerPath

VARIABLE part    \* the peripheral in use

peripheralVars == <<part, vars, powerVars>>

PeripheralsInit ==
  /\ part \in {"display", "power"}
  /\ Init /\ PowerInit
  /\ part # "power" => ~input
  /\ part # "display" => frame = CHOOSE f \in HomeFrames : TRUE

PeripheralsNext ==
  \/ part = "display" /\ Next /\ UNCHANGED <<part, powerVars>>
  \/ part = "power" /\ PowerNext /\ UNCHANGED <<part, vars>>

(* The fairness of each, while it is the one that runs. *)
PeripheralsFairness ==
  /\ WF_vars(part = "display" /\ WorkerTake)
  /\ WF_vars(part = "display" /\ WorkerFinish)
  /\ WF_vars(part = "display" /\ SubmitLastFrame)
  /\ WF_vars(part = "display" /\ Stop)
  /\ WF_vars(part = "display" /\ DeepSleep)
  /\ WF_vars(part = "display" /\ OnSensorData)
  /\ WF_powerVars(part = "power" /\ Polling)

PeripheralsSpec ==
  PeripheralsInit /\ [][PeripheralsNext]_peripheralVars /\ PeripheralsFairness
=============================================================================
