------------------------------ MODULE RouteLog ------------------------------
(***************************************************************************)
(* What StorageService promises of the recorded routes: a route is a log,  *)
(* one log is written at a time, and points are added at its end only.  A  *)
(* reset or a write that fails takes nothing but points added since the    *)
(* log was last opened; only a failed look at the file empties a log.      *)
(***************************************************************************)
EXTENDS Naturals, Sequences, Functions

CONSTANTS
  Session,     \* session ids
  NoSession,   \* no route is open
  Point        \* route points

VARIABLES
  log,      \* the points of every stored session
  writer,   \* the session being written, or NoSession
  safe,     \* how many points of the writer's log cannot be taken
  failed    \* what failed since the log last opened was opened

logVars == <<log, writer, safe, failed>>

(* f with e as its value at k, which may be new to its domain *)
With(f, k, e) == [i \in DOMAIN f \cup {k} |-> IF i = k THEN e ELSE f[i]]

LogInit == /\ log = [s \in {} |-> <<>>]
           /\ writer = NoSession
           /\ safe = 0
           /\ failed = {}

Open(s) == /\ writer = NoSession
           /\ writer' = s
           /\ \/ /\ log' = IF s \in DOMAIN log THEN log ELSE With(log, s, <<>>)
                 /\ failed' = {}
              \/ /\ log' = With(log, s, <<>>)
                 /\ failed' = {"stat"}
           /\ safe' = Len(log'[s])

Add(p) == /\ writer # NoSession
          /\ log' = With(log, writer, Append(log[writer], p))
          /\ UNCHANGED <<writer, safe, failed>>

(* The log being written without the points after the first n. *)
Cut(n) == With(log, writer, SubSeq(log[writer], 1, n))

(* A write fails, and takes points with it. *)
Drop == /\ writer # NoSession
        /\ \E n \in safe .. Len(log[writer]) : log' = Cut(n)
        /\ failed' = failed \cup {"write"}
        /\ UNCHANGED <<writer, safe>>

Closed == writer' = NoSession /\ safe' = 0

(* Close the log being written, if any, and forget the logs of gone. *)
Close(gone) == /\ Closed
               /\ log' = Restrict(log, DOMAIN log \ gone)
               /\ UNCHANGED failed

CloseFailing(gone) ==
  /\ writer # NoSession
  /\ Closed
  /\ \E n \in safe .. Len(log[writer]) : log' = Restrict(Cut(n), DOMAIN log \ gone)
  /\ failed' = failed \cup {"write"}

Forget(s) == /\ s \in DOMAIN log \ {writer}
             /\ log' = Restrict(log, DOMAIN log \ {s})
             /\ UNCHANGED <<writer, safe, failed>>

(* A reset. *)
Lose == /\ writer # NoSession
        /\ Closed
        /\ \E n \in safe .. Len(log[writer]) : log' = Cut(n)
        /\ UNCHANGED failed

LogNext == \/ \E s \in Session : Open(s) \/ Forget(s)
           \/ \E p \in Point : Add(p)
           \/ \E gone \in SUBSET DOMAIN log : Close(gone) \/ CloseFailing(gone)
           \/ Drop \/ Lose

LogSpec == LogInit /\ [][LogNext]_logVars
=============================================================================
