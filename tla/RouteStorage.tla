---------------------------- MODULE RouteStorage ----------------------------
(***************************************************************************)
(* products/go/main/go_storage.cpp: the route files of StorageService, on  *)
(* a FATFS volume in NAND flash.                                           *)
(*                                                                         *)
(* A point goes through stdio and the file system's caches; it reaches the *)
(* flash only when end_route() flushes and syncs, whose results are not    *)
(* looked at.  A reset, or a write that fails, may keep any prefix of what *)
(* was accepted since the file was opened.  Every call comes from the main *)
(* task, so an operation is one step.                                      *)
(***************************************************************************)
EXTENDS Naturals, Sequences, Functions

CONSTANTS
  Session,      \* session ids: file names
  NoSession,    \* no route file is open
  Point,        \* the points that can be appended
  NandFaults,   \* the calls that may fail: a subset of NandFaultKinds
  MaxPoints     \* bound: the points of a session the volume has room for

NandFaultKinds == {"mount",
                   "stat",     \* stat() by start_route()
                   "open",     \* mkdir() and fopen()
                   "write",    \* fwrite(), fflush(), fsync(), fclose()
                   "unlink"}   \* unlink(), and what its caller does before

ASSUME NoSessionAssumption == NoSession \notin Session
ASSUME NandFaultsAssumption == NandFaults \subseteq NandFaultKinds
ASSUME MaxPointsAssumption == MaxPoints \in Nat

VARIABLES
  mounted,      \* _nand.is_mounted()
  disk,         \* the points in each existing route file, as last synced
  current,      \* _current_session_id while _route_file is open
  buffer,       \* points accepted by _route_file since it was opened
  pointCount,   \* _current_point_count
  failed        \* ghost: which of "stat" and "write" failed for the route
                \* that is open, or was last, since it was opened

routeVars == <<disk, current, buffer, pointCount, failed>>
storageVars == <<mounted, disk, current, buffer, pointCount, failed>>

(* f with e as its value at k, which may be new to its domain *)
With(f, k, e) == [i \in DOMAIN f \cup {k} |-> IF i = k THEN e ELSE f[i]]

Stored(s) == IF s \in DOMAIN disk THEN disk[s] ELSE <<>>

(* The files with every point that fwrite() accepted. *)
Recorded == IF current = NoSession
              THEN disk
              ELSE With(disk, current, Stored(current) \o buffer)

(* The files when only n of the points accepted since the open one was     *)
(* opened have reached it.                                                 *)
Cut(n) == With(disk, current, Stored(current) \o SubSeq(buffer, 1, n))

MayFail(kinds) == NandFaults \cap kinds # {}

(* What an operation leaves in the files, and what failed for its route.   *)
Left(files, faults) == [files |-> files, failed |-> faults]

StorageInit == /\ mounted = FALSE
               /\ disk = [s \in {} |-> <<>>]
               /\ current = NoSession
               /\ buffer = <<>>
               /\ pointCount = 0
               /\ failed = {}

(* init(): whether the volume of a fresh StorageService is mounted *)
MountOutcomes == {TRUE} \cup (IF MayFail({"mount"}) THEN {FALSE} ELSE {})

Mount == /\ ~mounted
         /\ mounted' \in MountOutcomes
         /\ UNCHANGED routeVars

CountRestarts(files, s) == 0                      \* faulty variant of CountResumed
(* The point count start_route() derives from the size of the file. *)
CountResumed(files, s) == Len(files[s])

Truncated(s) == With(disk, s, <<>>)               \* faulty variant of Opened
(* fopen(): "ab" when the file exists, else "wb" creates it. *)
Opened(s) == With(disk, s, Stored(s))

(* An existing file whose stat() fails is opened with "wb", which empties it. *)
Openings(s) ==
  {Left(Opened(s), {})}
    \cup (IF MayFail({"stat"}) THEN {Left(With(disk, s, <<>>), {"stat"})} ELSE {})

CanStart(m) == current = NoSession /\ m

(* start_route(s) with the volume mounted or not, as m says: refused when  *)
(* a route is open or the volume is not mounted, when the directory can    *)
(* not be made sure of, and when fopen fails.                              *)
StartRouteWhen(m, s) ==
  /\ mounted' = m
  /\ \/ /\ CanStart(m)
        /\ \E o \in Openings(s) : disk' = o.files /\ failed' = o.failed
        /\ current' = s
        /\ buffer' = <<>>
        /\ pointCount' = CountResumed(disk', s)
     \/ /\ CanStart(m) => MayFail({"stat", "open"})
        /\ UNCHANGED routeVars

StartRoute(s) == StartRouteWhen(mounted, s)

CanAppend == current # NoSession /\ pointCount < MaxPoints

(* append_route_point(p): dropped when no route is open or fwrite fails,   *)
(* and then the stdio buffer that could not be written goes with it.       *)
AppendRoutePoint(p) ==
  \/ /\ CanAppend
     /\ buffer' = Append(buffer, p)
     /\ pointCount' = pointCount + 1
     /\ UNCHANGED <<mounted, disk, current, failed>>
  \/ /\ ~CanAppend
     /\ UNCHANGED storageVars
  \/ /\ current # NoSession /\ MayFail({"write"})
     /\ \E n \in 0 .. Len(buffer) : buffer' = SubSeq(buffer, 1, n)
     /\ failed' = failed \cup {"write"}
     /\ UNCHANGED <<mounted, disk, current, pointCount>>

KeptOpen == UNCHANGED <<current, buffer, pointCount>>   \* faulty variant of RouteClosed
RouteClosed == /\ current' = NoSession
               /\ buffer' = <<>>
               /\ pointCount' = 0

LostAtClose == {Left(disk, failed)}            \* faulty variant of Closings
(* What fflush, fsync and fclose leave; without an open file, nothing new. *)
Closings ==
  {Left(Recorded, failed)}
    \cup (IF current # NoSession /\ MayFail({"write"})
            THEN {Left(Cut(n), failed \cup {"write"}) : n \in 0 .. Len(buffer)}
            ELSE {})

(* end_route() *)
EndRoute == /\ \E c \in Closings : disk' = c.files /\ failed' = c.failed
            /\ RouteClosed

(* The files clear_routes() leaves: those whose unlink failed. *)
Survivors == IF ~mounted THEN {DOMAIN Recorded}
             ELSE IF MayFail({"unlink"}) THEN SUBSET DOMAIN Recorded
             ELSE {{}}

(* clear_routes(): ends the open route, then unlinks every file *)
ClearFiles == /\ \E c \in Closings, kept \in Survivors :
                   disk' = Restrict(c.files, kept) /\ failed' = c.failed
              /\ RouteClosed

ClearRoutes == ClearFiles /\ UNCHANGED mounted

(* What clear_routes() returns, seen after the step. *)
AllCleared == mounted /\ DOMAIN disk' = {}

(* delete_route(s): fails when not mounted, no such file, or unlink fails  *)
DeleteRoute(s) ==
  \/ /\ mounted
     /\ s \in DOMAIN disk
     /\ disk' = Restrict(disk, DOMAIN disk \ {s})
     /\ UNCHANGED <<mounted, current, buffer, pointCount, failed>>
  \/ /\ ~mounted \/ s \notin DOMAIN disk \/ MayFail({"unlink"})
     /\ UNCHANGED storageVars

(* The processor resets: of the open file, the synced points and perhaps   *)
(* some of the others remain.  mounted is read again only after Mount.     *)
LoseBuffer ==
  /\ \/ current = NoSession /\ UNCHANGED disk
     \/ /\ current # NoSession
        /\ \E n \in 0 .. Len(buffer) : disk' = Cut(n)
  /\ RouteClosed
  /\ mounted' = FALSE
  /\ UNCHANGED failed

(* The operations as the orchestrator calls them: on_ble_history_write()   *)
(* refuses to delete the session being tracked.                            *)
StorageNext ==
  \/ Mount
  \/ \E s \in Session : StartRoute(s)
  \/ \E p \in Point : AppendRoutePoint(p)
  \/ EndRoute /\ UNCHANGED mounted
  \/ ClearRoutes
  \/ \E s \in Session \ {current} : DeleteRoute(s)
  \/ LoseBuffer

StorageSpec == StorageInit /\ [][StorageNext]_storageVars
-----------------------------------------------------------------------------
(* TYPE INVARIANT. *)
StorageTypeOK == /\ mounted \in BOOLEAN
                 /\ DOMAIN disk \subseteq Session
                 /\ disk \in [DOMAIN disk -> Seq(Point)]
                 /\ current \in Session \cup {NoSession}
                 /\ buffer \in Seq(Point)
                 /\ pointCount \in Nat
                 /\ failed \subseteq NandFaults \cap {"stat", "write"}

(* The file being written exists: no deletion, clearing or failed open     *)
(* leaves _route_file pointing at a file that is gone.                     *)
OpenFileExists == current # NoSession => current \in DOMAIN disk

(* current_route_point_count() is the length of the whole session, counted *)
(* over every time the file was opened, not just the points of this boot;  *)
(* after a write that failed it may count points that are not there.       *)
CountIsWholeSession ==
  IF current = NoSession
    THEN pointCount = 0
    ELSE LET length == Len(Stored(current)) + Len(buffer)
         IN  /\ pointCount >= length
             /\ "write" \notin failed => pointCount = length

(* The files implement the promise of RouteLog.                            *)
Promise == INSTANCE RouteLog WITH
             log <- Recorded, writer <- current, safe <- Len(Stored(current))
ImplementsRouteLog == Promise!LogSpec
=============================================================================
