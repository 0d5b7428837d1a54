----------------------------- MODULE MCComponents -----------------------------
(***************************************************************************)
(* The components that know nothing of each other: the payload cache, the  *)
(* route files, the two halves of the modem driver, the sensor drivers     *)
(* under their manager, and the input service.  Each behaviour is one of   *)
(* one component; the others stay as they are at the start.                *)
(***************************************************************************)
EXTENDS PayloadCache, RouteStorage, NetworkRegistration, ModemHttp, SensorReading,
        InputService

VARIABLE component    \* the component that runs

Components == {"cache", "route", "registration", "http", "reading", "input"}

allVars == <<component, vars, storageVars, regVars, httpVars, sensorVars, inputVars>>

ComponentsInit ==
  /\ component \in Components
  /\ Init /\ StorageInit /\ RegInit /\ HttpInit /\ ReadingInit /\ InputInit
  /\ component # "registration" => Range(offer) = {"good"}
  /\ component # "reading" => co2 = "S12"
  /\ component # "input" => /\ contact = BootContacts(FALSE)
                            /\ suppressLeft = 0 /\ touchAge = 0

Runs(c, step, others) == component = c /\ step /\ UNCHANGED <<component, others>>

ComponentsNext ==
  \/ Runs("cache", Next, <<storageVars, regVars, httpVars, sensorVars, inputVars>>)
  \/ Runs("route", StorageNext, <<vars, regVars, httpVars, sensorVars, inputVars>>)
  \/ Runs("registration", RegNext, <<vars, storageVars, httpVars, sensorVars, inputVars>>)
  \/ Runs("http", HttpNext, <<vars, storageVars, regVars, sensorVars, inputVars>>)
  \/ Runs("reading", ReadingNext, <<vars, storageVars, regVars, httpVars, inputVars>>)
  \/ Runs("input", InputNext, <<vars, storageVars, regVars, httpVars, sensorVars>>)

(* The fairness of each component, while it is the one that runs. *)
ComponentsFairness ==
  /\ WF_regVars(component = "registration" /\ Handler)
  /\ SF_sensorVars(component = "reading" /\ StartMeasures)
  /\ WF_sensorVars(component = "reading" /\ ReadingTask)
  /\ WF_inputVars(component = "input" /\ Prompt)
  /\ SF_inputVars(component = "input" /\ Tick)

ComponentsSpec == ComponentsInit /\ [][ComponentsNext]_allVars /\ ComponentsFairness
=============================================================================
