------------------------------ MODULE MCServices ------------------------------
(***************************************************************************)
(* Three parts of the device that meet only through calls and events which *)
(* the model of each part leaves open: the life of the device, the GPS     *)
(* service, and the transfer of recorded routes.  Each behaviour is one of *)
(* one part; the others stay as they are at the start.                     *)
(***************************************************************************)
EXTENDS GoDevice, GpsService, HistoryTransfer

VARIABLE part    \* the part that runs

Parts == {"device", "gps", "history"}

servicesVars == <<part, vars, gpsVars, historyVars>>

ServicesInit ==
  /\ part \in Parts
  /\ Init /\ GpsInit /\ HistoryInit
  /\ part # "gps" => ~active /\ ~gnss

Runs(p, step, others) == part = p /\ step /\ UNCHANGED <<part, others>>

ServicesNext ==
  \/ Runs("device", Next, <<gpsVars, historyVars>>)
  \/ Runs("gps", GpsNext, <<vars, historyVars>>)
  \/ Runs("history", HistoryNext, <<vars, gpsVars>>)

(* The fairness of each part, while it is the one that runs. *)
ServicesFairness ==
  /\ WF_gpsVars(part = "gps" /\ Stopping) /\ WF_gpsVars(part = "gps" /\ Task)
  /\ WF_historyVars(part = "history" /\ Main) /\ WF_historyVars(part = "history" /\ Deliver)

ServicesSpec == ServicesInit /\ [][ServicesNext]_servicesVars /\ ServicesFairness
=============================================================================
