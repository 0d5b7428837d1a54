------------------------- MODULE RouteStorageProofs -------------------------
(***************************************************************************)
(* Proofs about RouteStorage, for any sets of sessions and points, any     *)
(* capacity, and storage calls that may or may not fail: the invariants,   *)
(* and that the route files implement RouteLog.                            *)
(***************************************************************************)
EXTENDS RouteStorage, SequenceTheorems, TLAPS

StorageInv == StorageTypeOK /\ OpenFileExists /\ CountIsWholeSession

(* Adding or replacing one file keeps a set of files well typed. *)
LEMMA WithType ==
  ASSUME NEW S, NEW T, NEW f, DOMAIN f \subseteq S, f \in [DOMAIN f -> T],
         NEW k \in S, NEW e \in T
  PROVE  /\ DOMAIN With(f, k, e) = DOMAIN f \cup {k}
         /\ DOMAIN With(f, k, e) \subseteq S
         /\ With(f, k, e) \in [DOMAIN With(f, k, e) -> T]
         /\ With(f, k, e)[k] = e
BY DEF With

LEMMA RestrictType ==
  ASSUME NEW S, NEW T, NEW f, DOMAIN f \subseteq S, f \in [DOMAIN f -> T],
         NEW K \in SUBSET DOMAIN f
  PROVE  /\ DOMAIN Restrict(f, K) = K
         /\ DOMAIN Restrict(f, K) \subseteq S
         /\ Restrict(f, K) \in [DOMAIN Restrict(f, K) -> T]
BY DEF Restrict

(* The content of a file, existing or not, is a sequence of points. *)
LEMMA StoredType ==
  ASSUME StorageTypeOK, NEW s
  PROVE  Stored(s) \in Seq(Point) /\ Len(Stored(s)) \in Nat
<1>1. Stored(s) \in Seq(Point)
  BY EmptySeq DEF Stored, StorageTypeOK
<1>2. QED
  BY <1>1, LenProperties

(* The files with every point that was accepted. *)
LEMMA RecordedOpen ==
  ASSUME StorageInv, current # NoSession
  PROVE  /\ Recorded = With(disk, current, Stored(current) \o buffer)
         /\ Stored(current) \o buffer \in Seq(Point)
         /\ Len(Stored(current) \o buffer) = Len(Stored(current)) + Len(buffer)
         /\ DOMAIN Recorded = DOMAIN disk
         /\ Recorded[current] = Stored(current) \o buffer
<1>1. Stored(current) \o buffer \in Seq(Point)
  BY StoredType, ConcatProperties DEF StorageInv, StorageTypeOK
<1>2. Len(Stored(current) \o buffer) = Len(Stored(current)) + Len(buffer)
  BY StoredType, ConcatProperties DEF StorageInv, StorageTypeOK
<1>3. QED
  BY <1>1, <1>2 DEF StorageInv, OpenFileExists, Recorded, With

LEMMA RecordedClosed ==
  ASSUME current = NoSession
  PROVE  Recorded = disk
BY DEF Recorded

LEMMA RecordedType ==
  ASSUME StorageInv
  PROVE  DOMAIN Recorded \subseteq Session /\ Recorded \in [DOMAIN Recorded -> Seq(Point)]
<1>1. CASE current = NoSession
  BY <1>1, RecordedClosed DEF StorageInv, StorageTypeOK
<1>2. CASE current # NoSession
  <2>1. current \in Session
    BY <1>2 DEF StorageInv, StorageTypeOK
  <2>2. /\ Recorded = With(disk, current, Stored(current) \o buffer)
        /\ Stored(current) \o buffer \in Seq(Point)
    BY <1>2, RecordedOpen
  <2>3. /\ DOMAIN disk \subseteq Session
        /\ disk \in [DOMAIN disk -> Seq(Point)]
    BY DEF StorageInv, StorageTypeOK
  <2>4. QED
    BY <2>1, <2>2, <2>3, WithType
<1>3. QED
  BY <1>1, <1>2

(* A prefix of the unsynced points is a sequence of points. *)
LEMMA PrefixType ==
  ASSUME StorageInv, NEW n \in 0 .. Len(buffer)
  PROVE  /\ SubSeq(buffer, 1, n) \in Seq(Point)
         /\ Len(SubSeq(buffer, 1, n)) = n
         /\ \A i \in 1 .. n : SubSeq(buffer, 1, n)[i] = buffer[i]
         /\ Stored(current) \o SubSeq(buffer, 1, n) \in Seq(Point)
<1>1. buffer \in Seq(Point) /\ Len(buffer) \in Nat /\ n \in Nat
  BY LenProperties DEF StorageInv, StorageTypeOK
<1>2. \A i \in 1 .. n : buffer[i] \in Point
  BY <1>1, ElementOfSeq
<1>3. /\ SubSeq(buffer, 1, n) \in Seq(Point)
      /\ Len(SubSeq(buffer, 1, n)) = IF 1 <= n THEN n - 1 + 1 ELSE 0
      /\ \A i \in 1 .. n - 1 + 1 : SubSeq(buffer, 1, n)[i] = buffer[1 + i - 1]
  BY <1>1, <1>2, SubSeqProperties
<1>4. Stored(current) \o SubSeq(buffer, 1, n) \in Seq(Point)
  BY <1>3, StoredType, ConcatProperties DEF StorageInv
<1>5. QED
  BY <1>1, <1>3, <1>4

(* Cutting the open file keeps the files, and their types. *)
LEMMA CutType ==
  ASSUME StorageInv, current # NoSession, NEW n \in 0 .. Len(buffer)
  PROVE  /\ DOMAIN Cut(n) = DOMAIN Recorded /\ DOMAIN Cut(n) \subseteq Session
         /\ Cut(n) \in [DOMAIN Cut(n) -> Seq(Point)]
         /\ Cut(n)[current] = Stored(current) \o SubSeq(buffer, 1, n)
<1> DEFINE kept == Stored(current) \o SubSeq(buffer, 1, n)
<1>1. current \in Session /\ current \in DOMAIN disk
  BY DEF StorageInv, StorageTypeOK, OpenFileExists
<1>2. kept \in Seq(Point)
  BY PrefixType
<1>3. DOMAIN disk \subseteq Session /\ disk \in [DOMAIN disk -> Seq(Point)]
  BY DEF StorageInv, StorageTypeOK
<1>4. Cut(n) = With(disk, current, kept)
  BY DEF Cut
<1>5. DOMAIN Recorded = DOMAIN disk
  BY RecordedOpen
<1> HIDE DEF kept
<1>6. /\ DOMAIN With(disk, current, kept) \subseteq Session
      /\ With(disk, current, kept) \in [DOMAIN With(disk, current, kept) -> Seq(Point)]
  BY <1>1, <1>2, <1>3, WithType
<1>7. /\ DOMAIN With(disk, current, kept) = DOMAIN disk
      /\ With(disk, current, kept)[current] = kept
  BY <1>1 DEF With
<1>8. QED
  BY <1>4, <1>5, <1>6, <1>7 DEF kept

(* The files and faults after a closing are well typed. *)
LEMMA ClosingsType ==
  ASSUME StorageInv, NEW c \in Closings
  PROVE  /\ DOMAIN c.files = DOMAIN Recorded /\ DOMAIN c.files \subseteq Session
         /\ c.files \in [DOMAIN c.files -> Seq(Point)]
         /\ c.failed \subseteq NandFaults \cap {"stat", "write"}
<1>1. failed \subseteq NandFaults \cap {"stat", "write"}
  BY DEF StorageInv, StorageTypeOK
<1>2. CASE c = Left(Recorded, failed)
  <2>1. c.files = Recorded /\ c.failed = failed
    BY <1>2 DEF Left
  <2>2. QED
    BY <1>1, <2>1, RecordedType
<1>3. ASSUME current # NoSession, MayFail({"write"}), NEW n \in 0 .. Len(buffer),
             c = Left(Cut(n), failed \cup {"write"})
      PROVE  /\ DOMAIN c.files = DOMAIN Recorded /\ DOMAIN c.files \subseteq Session
             /\ c.files \in [DOMAIN c.files -> Seq(Point)]
             /\ c.failed \subseteq NandFaults \cap {"stat", "write"}
  <2>1. c.files = Cut(n) /\ c.failed = failed \cup {"write"}
    BY <1>3 DEF Left
  <2>2. c.failed \subseteq NandFaults \cap {"stat", "write"}
    BY <1>1, <1>3, <2>1 DEF MayFail
  <2>3. QED
    BY <1>3, <2>1, <2>2, CutType
<1>4. QED
  BY <1>2, <1>3 DEF Closings

(* Closing the route and leaving the files typed re-establishes it all. *)
LEMMA ClosedInv ==
  ASSUME RouteClosed, mounted' \in BOOLEAN, DOMAIN disk' \subseteq Session,
         disk' \in [DOMAIN disk' -> Seq(Point)],
         failed' \subseteq NandFaults \cap {"stat", "write"}
  PROVE  StorageInv'
BY EmptySeq DEF RouteClosed, StorageInv, StorageTypeOK, OpenFileExists,
                CountIsWholeSession

LEMMA InitInv == StorageInit => StorageInv
<1> SUFFICES ASSUME StorageInit
             PROVE  StorageInv
  OBVIOUS
<1>1. << >> \in Seq(Point)
  BY EmptySeq
<1>2. DOMAIN disk = {} /\ disk \in [DOMAIN disk -> Seq(Point)]
  BY DEF StorageInit
<1>3. mounted \in BOOLEAN
  BY DEF StorageInit
<1>4. StorageTypeOK
  BY <1>1, <1>2, <1>3 DEF StorageInit, StorageTypeOK
<1>5. QED
  BY <1>4 DEF StorageInit, StorageInv, OpenFileExists, CountIsWholeSession

(* What an opening leaves: the files there were and that of s, which holds *)
(* what it held, or nothing when stat() failed.                            *)
LEMMA OpeningsType ==
  ASSUME StorageInv, NEW s \in Session, NEW o \in Openings(s)
  PROVE  /\ DOMAIN o.files = DOMAIN disk \cup {s} /\ DOMAIN o.files \subseteq Session
         /\ o.files \in [DOMAIN o.files -> Seq(Point)]
         /\ \/ o = Left(With(disk, s, Stored(s)), {})
            \/ o = Left(With(disk, s, << >>), {"stat"}) /\ MayFail({"stat"})
         /\ o.failed \subseteq NandFaults \cap {"stat", "write"}
<1>1. DOMAIN disk \subseteq Session /\ disk \in [DOMAIN disk -> Seq(Point)]
  BY DEF StorageInv, StorageTypeOK
<1>2. PICK content \in Seq(Point) :
        \/ content = Stored(s) /\ o = Left(With(disk, s, content), {})
        \/ content = << >> /\ MayFail({"stat"}) /\ o = Left(With(disk, s, content), {"stat"})
  BY StoredType, EmptySeq DEF StorageInv, Openings, Opened
<1>3. o.files = With(disk, s, content) /\ o.failed \subseteq NandFaults \cap {"stat", "write"}
  BY <1>2 DEF Left, MayFail
<1>4. /\ DOMAIN With(disk, s, content) = DOMAIN disk \cup {s}
      /\ DOMAIN With(disk, s, content) \subseteq Session
      /\ With(disk, s, content) \in [DOMAIN With(disk, s, content) -> Seq(Point)]
  BY <1>1, WithType
<1>5. QED
  BY <1>2, <1>3, <1>4

LEMMA StartRouteInv ==
  ASSUME StorageInv, NEW m \in BOOLEAN, NEW s \in Session, StartRouteWhen(m, s)
  PROVE  StorageInv'
<1>1. ASSUME NEW o \in Openings(s), disk' = o.files, failed' = o.failed,
             current' = s, buffer' = << >>, pointCount' = CountResumed(disk', s)
      PROVE  StorageInv'
  <2>1. /\ DOMAIN disk' = DOMAIN disk \cup {s} /\ DOMAIN disk' \subseteq Session
        /\ disk' \in [DOMAIN disk' -> Seq(Point)]
        /\ failed' \subseteq NandFaults \cap {"stat", "write"}
    BY <1>1, OpeningsType
  <2>2. Stored(current)' = disk'[s] /\ disk'[s] \in Seq(Point)
    BY <1>1, <2>1 DEF Stored
  <2>3. Len(<< >>) = 0 /\ << >> \in Seq(Point) /\ Len(disk'[s]) \in Nat
    BY <2>2, EmptySeq, LenProperties
  <2>4. pointCount' = Len(disk'[s])
    BY <1>1 DEF CountResumed
  <2>5. mounted' \in BOOLEAN /\ s # NoSession
    BY NoSessionAssumption DEF StartRouteWhen
  <2>6. Len(Stored(current))' + Len(buffer)' = pointCount'
    BY <1>1, <2>2, <2>3, <2>4
  <2>7. CountIsWholeSession'
    BY <1>1, <2>3, <2>4, <2>5, <2>6 DEF CountIsWholeSession
  <2>8. QED
    BY <1>1, <2>1, <2>3, <2>4, <2>5, <2>7 DEF StorageInv, StorageTypeOK, OpenFileExists
<1>2. CASE UNCHANGED routeVars
  BY <1>2 DEF routeVars, StartRouteWhen, StorageInv, StorageTypeOK, OpenFileExists,
              CountIsWholeSession, Stored
<1>3. QED
  BY <1>1, <1>2 DEF StartRouteWhen

LEMMA AppendInv ==
  ASSUME StorageInv, NEW p \in Point, AppendRoutePoint(p)
  PROVE  StorageInv'
<1>1. CASE /\ CanAppend /\ buffer' = Append(buffer, p) /\ pointCount' = pointCount + 1
           /\ UNCHANGED <<mounted, disk, current, failed>>
  <2>1. buffer' \in Seq(Point) /\ Len(buffer') = Len(buffer) + 1 /\ Len(buffer) \in Nat
    BY <1>1, AppendProperties, LenProperties DEF StorageInv, StorageTypeOK
  <2>2. Stored(current)' = Stored(current) /\ Len(Stored(current)) \in Nat
    BY <1>1, StoredType DEF Stored, StorageInv
  <2>3. current # NoSession /\ pointCount \in Nat
    BY <1>1 DEF CanAppend, StorageInv, StorageTypeOK
  <2>4. CountIsWholeSession'
    <3>1. /\ pointCount >= Len(Stored(current)) + Len(buffer)
          /\ "write" \notin failed => pointCount = Len(Stored(current)) + Len(buffer)
      BY <2>3 DEF StorageInv, CountIsWholeSession
    <3>2. Len(Stored(current))' = Len(Stored(current)) /\ Len(buffer)' = Len(buffer) + 1
      BY <2>1, <2>2
    <3> DEFINE stored == Len(Stored(current))
               added == Len(buffer)
    <3>3. /\ pointCount' = pointCount + 1 /\ added' = added + 1 /\ stored' = stored
          /\ pointCount >= stored + added /\ ("write" \in failed \/ pointCount = stored + added)
          /\ stored \in Nat /\ added \in Nat
      BY <1>1, <2>1, <2>2, <3>1, <3>2
    <3> HIDE DEF stored, added
    <3>4. pointCount' >= stored' + added' /\ ("write" \in failed \/ pointCount' = stored' + added')
      BY <2>3, <3>3
    <3>5. /\ pointCount' >= Len(Stored(current))' + Len(buffer)'
          /\ "write" \notin failed => pointCount' = Len(Stored(current))' + Len(buffer)'
      BY <3>4 DEF stored, added
    <3>6. QED
      BY <1>1, <2>3, <3>5 DEF CountIsWholeSession
  <2>5. QED
    BY <1>1, <2>1, <2>3, <2>4 DEF StorageInv, StorageTypeOK, OpenFileExists
<1>2. CASE UNCHANGED storageVars
  BY <1>2 DEF storageVars, StorageInv, StorageTypeOK, OpenFileExists,
              CountIsWholeSession, Stored
<1>3. ASSUME NEW n \in 0 .. Len(buffer), current # NoSession, MayFail({"write"}),
             buffer' = SubSeq(buffer, 1, n), failed' = failed \cup {"write"},
             UNCHANGED <<mounted, disk, current, pointCount>>
      PROVE  StorageInv'
  <2>1. buffer' \in Seq(Point) /\ Len(buffer') = n /\ n <= Len(buffer)
    BY <1>3, PrefixType, LenProperties DEF StorageInv, StorageTypeOK
  <2>2. Stored(current)' = Stored(current) /\ Len(Stored(current)) \in Nat
    BY <1>3, StoredType DEF Stored, StorageInv
  <2>3. failed' \subseteq NandFaults \cap {"stat", "write"}
    BY <1>3 DEF MayFail, StorageInv, StorageTypeOK
  <2>4. CountIsWholeSession'
    <3>1. /\ pointCount >= Len(Stored(current)) + Len(buffer) /\ pointCount \in Nat
          /\ Len(buffer) \in Nat
      BY <1>3, LenProperties DEF StorageInv, StorageTypeOK, CountIsWholeSession
    <3>2. pointCount' >= Len(Stored(current))' + Len(buffer)'
      BY <1>3, <2>1, <2>2, <3>1
    <3>3. "write" \in failed' /\ current' # NoSession
      BY <1>3
    <3>4. QED
      BY <3>2, <3>3 DEF CountIsWholeSession
  <2>5. QED
    BY <1>3, <2>1, <2>3, <2>4 DEF StorageInv, StorageTypeOK, OpenFileExists
<1>4. QED
  BY <1>1, <1>2, <1>3 DEF AppendRoutePoint

LEMMA EndRouteInv ==
  ASSUME StorageInv, EndRoute, mounted' \in BOOLEAN
  PROVE  StorageInv'
BY ClosingsType, ClosedInv DEF EndRoute

LEMMA ClearFilesInv ==
  ASSUME StorageInv, ClearFiles, mounted' \in BOOLEAN
  PROVE  StorageInv'
<1>1. PICK c \in Closings, kept \in Survivors :
        disk' = Restrict(c.files, kept) /\ failed' = c.failed
  BY DEF ClearFiles
<1>2. kept \in SUBSET DOMAIN c.files
  BY ClosingsType DEF Survivors
<1>3. DOMAIN disk' \subseteq Session /\ disk' \in [DOMAIN disk' -> Seq(Point)]
  BY <1>1, <1>2, ClosingsType, RestrictType
<1>4. failed' \subseteq NandFaults \cap {"stat", "write"}
  BY <1>1, ClosingsType
<1>5. QED
  BY <1>3, <1>4, ClosedInv DEF ClearFiles

(* The open file is never the one deleted. *)
LEMMA DeleteRouteInv ==
  ASSUME StorageInv, NEW s \in Session, s # current, DeleteRoute(s)
  PROVE  StorageInv'
<1>1. CASE /\ disk' = Restrict(disk, DOMAIN disk \ {s})
           /\ UNCHANGED <<mounted, current, buffer, pointCount, failed>>
  <2>1. /\ DOMAIN disk' = DOMAIN disk \ {s} /\ DOMAIN disk' \subseteq Session
        /\ disk' \in [DOMAIN disk' -> Seq(Point)]
    BY <1>1, RestrictType DEF StorageInv, StorageTypeOK
  <2>2. Stored(current)' = Stored(current)
    BY <1>1, <2>1 DEF Stored, Restrict
  <2>3. QED
    BY <1>1, <2>1, <2>2
    DEF StorageInv, StorageTypeOK, OpenFileExists, CountIsWholeSession
<1>2. CASE UNCHANGED storageVars
  BY <1>2 DEF storageVars, StorageInv, StorageTypeOK, OpenFileExists,
              CountIsWholeSession, Stored
<1>3. QED
  BY <1>1, <1>2 DEF DeleteRoute

LEMMA LoseBufferInv ==
  ASSUME StorageInv, LoseBuffer
  PROVE  StorageInv'
<1>1. DOMAIN disk' \subseteq Session /\ disk' \in [DOMAIN disk' -> Seq(Point)]
  <2>1. CASE current = NoSession /\ UNCHANGED disk
    BY <2>1 DEF StorageInv, StorageTypeOK
  <2>2. ASSUME current # NoSession, NEW n \in 0 .. Len(buffer), disk' = Cut(n)
        PROVE  DOMAIN disk' \subseteq Session /\ disk' \in [DOMAIN disk' -> Seq(Point)]
    BY <2>2, CutType
  <2>3. QED
    BY <2>1, <2>2 DEF LoseBuffer
<1>2. QED
  BY <1>1, ClosedInv DEF LoseBuffer, StorageInv, StorageTypeOK

LEMMA StepInv == StorageInv /\ [StorageNext]_storageVars => StorageInv'
<1> SUFFICES ASSUME StorageInv, [StorageNext]_storageVars
             PROVE  StorageInv'
  OBVIOUS
<1>1. CASE Mount
  BY <1>1 DEF Mount, MountOutcomes, routeVars, StorageInv, StorageTypeOK, OpenFileExists,
              CountIsWholeSession, Stored
<1>2. ASSUME NEW s \in Session, StartRoute(s)
      PROVE  StorageInv'
  BY <1>2, StartRouteInv DEF StartRoute, StorageInv, StorageTypeOK
<1>3. ASSUME NEW p \in Point, AppendRoutePoint(p)
      PROVE  StorageInv'
  BY <1>3, AppendInv
<1>4. CASE EndRoute /\ UNCHANGED mounted
  BY <1>4, EndRouteInv DEF StorageInv, StorageTypeOK
<1>5. CASE ClearRoutes
  BY <1>5, ClearFilesInv DEF ClearRoutes, StorageInv, StorageTypeOK
<1>6. ASSUME NEW s \in Session \ {current}, DeleteRoute(s)
      PROVE  StorageInv'
  BY <1>6, DeleteRouteInv
<1>7. CASE LoseBuffer
  BY <1>7, LoseBufferInv
<1>8. CASE UNCHANGED storageVars
  BY <1>8 DEF storageVars, StorageInv, StorageTypeOK, OpenFileExists,
              CountIsWholeSession, Stored
<1>9. QED
  BY <1>1, <1>2, <1>3, <1>4, <1>5, <1>6, <1>7, <1>8 DEF StorageNext

(* The files and the counter stay well formed, the open file exists, and   *)
(* the counter is the length of the whole session unless a write failed.   *)
THEOREM StorageInvariant == StorageSpec => []StorageInv
BY InitInv, StepInv, PTL DEF StorageSpec

(* TYPE INVARIANT. *)
THEOREM StorageTypeInvariant == StorageSpec => []StorageTypeOK
<1>1. StorageInv => StorageTypeOK
  BY DEF StorageInv
<1>2. QED
  BY <1>1, StorageInvariant, PTL

(* No operation leaves _route_file open on a file that is gone. *)
THEOREM OpenFileAlwaysExists == StorageSpec => []OpenFileExists
<1>1. StorageInv => OpenFileExists
  BY DEF StorageInv
<1>2. QED
  BY <1>1, StorageInvariant, PTL

(* current_route_point_count() counts the points of every earlier opening, *)
(* even after resets that took some of them; it falls short of nothing     *)
(* that is in the file, and counts too much only after a write that failed. *)
THEOREM CountAlwaysWholeSession == StorageSpec => []CountIsWholeSession
<1>1. StorageInv => CountIsWholeSession
  BY DEF StorageInv
<1>2. QED
  BY <1>1, StorageInvariant, PTL
-----------------------------------------------------------------------------
(* The route files implement RouteLog.                                     *)

Promised == [Promise!LogNext]_(Promise!logVars)
LogStutters == UNCHANGED Promise!logVars
LogCloses == \E gone \in SUBSET DOMAIN Recorded :
               Promise!Close(gone) \/ Promise!CloseFailing(gone)

(* With no route open the log is what the files hold, and nothing is safe. *)
LEMMA ClosedLog ==
  ASSUME StorageInv, current = NoSession
  PROVE  Recorded = disk /\ Len(Stored(current)) = 0
<1>1. current \notin DOMAIN disk
  BY NoSessionAssumption DEF StorageInv, StorageTypeOK
<1>2. Len(<< >>) = 0
  BY EmptySeq
<1>3. QED
  BY <1>1, <1>2 DEF Recorded, Stored

LEMMA ClosedLogNext ==
  ASSUME StorageInv', RouteClosed
  PROVE  current' = NoSession /\ Recorded' = disk' /\ Len(Stored(current))' = 0
<1>1. current' = NoSession
  BY DEF RouteClosed
<1>2. current' \notin DOMAIN disk'
  BY <1>1, NoSessionAssumption DEF StorageInv, StorageTypeOK
<1>3. Len(<< >>) = 0
  BY EmptySeq
<1>4. QED
  BY <1>1, <1>2, <1>3 DEF Recorded, Stored

(* Nothing the log is read from changes: a stuttering step of RouteLog. *)
LEMMA StutterLog ==
  ASSUME UNCHANGED <<disk, current, buffer, failed>>
  PROVE  LogStutters
<1>1. UNCHANGED Recorded /\ UNCHANGED Stored(current)
  BY DEF Recorded, Stored, With
<1>2. QED
  BY <1>1 DEF LogStutters, Promise!logVars

(* Cutting a concatenation inside its second part. *)
LEMMA SubSeqOfConcat ==
  ASSUME NEW S, NEW s \in Seq(S), NEW t \in Seq(S), NEW n \in 0 .. Len(t)
  PROVE  SubSeq(s \o t, 1, Len(s) + n) = s \o SubSeq(t, 1, n)
<1> DEFINE left == SubSeq(s \o t, 1, Len(s) + n)
           cut == SubSeq(t, 1, n)
           right == s \o cut
<1>1. Len(s) \in Nat /\ Len(t) \in Nat /\ n \in Nat /\ n <= Len(t)
  BY LenProperties
<1>2. /\ s \o t \in Seq(S) /\ Len(s \o t) = Len(s) + Len(t)
      /\ \A i \in 1 .. Len(s) + Len(t) :
           (s \o t)[i] = IF i <= Len(s) THEN s[i] ELSE t[i - Len(s)]
  BY ConcatProperties
<1>3. /\ cut \in Seq(S) /\ Len(cut) = n /\ \A i \in 1 .. n : cut[i] = t[i]
  <2>1. \A i \in 1 .. n : t[i] \in S
    BY <1>1, ElementOfSeq
  <2>2. /\ cut \in Seq(S) /\ Len(cut) = (IF 1 <= n THEN n - 1 + 1 ELSE 0)
        /\ \A i \in 1 .. n - 1 + 1 : cut[i] = t[1 + i - 1]
    BY <1>1, <2>1, SubSeqProperties
  <2>3. QED
    BY <1>1, <2>2
<1>4. /\ left \in Seq(S) /\ Len(left) = Len(s) + n
      /\ \A i \in 1 .. Len(s) + n : left[i] = (s \o t)[i]
  <2> DEFINE m == Len(s) + n
             u == s \o t
  <2>1. m \in Nat /\ m <= Len(u) /\ u \in Seq(S)
    BY <1>1, <1>2
  <2> HIDE DEF m, u
  <2>2. \A i \in 1 .. m : u[i] \in S
    BY <2>1, ElementOfSeq, LenProperties
  <2>3. /\ SubSeq(u, 1, m) \in Seq(S)
        /\ Len(SubSeq(u, 1, m)) = (IF 1 <= m THEN m - 1 + 1 ELSE 0)
        /\ \A i \in 1 .. m - 1 + 1 : SubSeq(u, 1, m)[i] = u[1 + i - 1]
    BY <2>1, <2>2, SubSeqProperties
  <2>4. /\ SubSeq(u, 1, m) \in Seq(S) /\ Len(SubSeq(u, 1, m)) = m
        /\ \A i \in 1 .. m : SubSeq(u, 1, m)[i] = u[i]
    BY <2>1, <2>3
  <2>5. QED
    BY <2>4 DEF m, u
<1> HIDE DEF cut
<1>5. /\ right \in Seq(S) /\ Len(right) = Len(s) + n
      /\ \A i \in 1 .. Len(s) + n :
           right[i] = IF i <= Len(s) THEN s[i] ELSE cut[i - Len(s)]
  BY <1>3, ConcatProperties
<1> HIDE DEF left, right
<1>6. \A i \in 1 .. Len(left) : left[i] = right[i]
  <2> SUFFICES ASSUME NEW i \in 1 .. Len(s) + n
               PROVE  left[i] = right[i]
    BY <1>4
  <2>1. left[i] = IF i <= Len(s) THEN s[i] ELSE t[i - Len(s)]
    BY <1>1, <1>2, <1>4
  <2>2. right[i] = IF i <= Len(s) THEN s[i] ELSE cut[i - Len(s)]
    BY <1>5
  <2>3. ~(i <= Len(s)) => i - Len(s) \in 1 .. n
    BY <1>1
  <2>4. QED
    BY <1>3, <2>1, <2>2, <2>3
<1>7. left = right
  BY <1>4, <1>5, <1>6, SeqEqual
<1>8. QED
  BY <1>7 DEF left, right, cut

(* Keeping n of the points added since the opening cuts the log behind     *)
(* what it held when it was opened.                                        *)
LEMMA CutLog ==
  ASSUME StorageInv, current # NoSession, NEW n \in 0 .. Len(buffer)
  PROVE  \E k \in Len(Stored(current)) .. Len(Recorded[current]) : Cut(n) = Promise!Cut(k)
<1> DEFINE k == Len(Stored(current)) + n
           kept == SubSeq(Stored(current) \o buffer, 1, k)
<1>1. Stored(current) \in Seq(Point) /\ buffer \in Seq(Point)
  BY StoredType DEF StorageInv, StorageTypeOK
<1>2. kept = Stored(current) \o SubSeq(buffer, 1, n)
  BY <1>1, SubSeqOfConcat
<1>3. /\ Recorded = With(disk, current, Stored(current) \o buffer)
      /\ Len(Stored(current) \o buffer) = Len(Stored(current)) + Len(buffer)
      /\ Recorded[current] = Stored(current) \o buffer
  BY RecordedOpen
<1>4. k \in Len(Stored(current)) .. Len(Recorded[current])
  <2>1. Len(Stored(current)) \in Nat /\ Len(buffer) \in Nat
    BY <1>1, LenProperties
  <2>2. QED
    BY <1>3, <2>1
<1> HIDE DEF k
<1>5. Cut(n) = With(disk, current, kept)
  BY <1>2 DEF Cut
<1> HIDE DEF kept
<1>6. Promise!With(Recorded, current, kept) = With(disk, current, kept)
  BY <1>3 DEF With, Promise!With
<1>7. Cut(n) = Promise!Cut(k)
  BY <1>3, <1>5, <1>6 DEF kept, Promise!Cut
<1>8. QED
  BY <1>4, <1>7

(* A step that closes the route and keeps some of the files closes the log *)
(* and forgets the others, whether or not a write failed.                  *)
LEMMA CloseLog ==
  ASSUME StorageInv, StorageInv', RouteClosed, NEW c \in Closings,
         NEW kept \in SUBSET DOMAIN Recorded,
         disk' = Restrict(c.files, kept), failed' = c.failed
  PROVE  LogCloses
<1> DEFINE gone == DOMAIN Recorded \ kept
<1>1. kept = DOMAIN Recorded \ gone /\ gone \in SUBSET DOMAIN Recorded
  OBVIOUS
<1> HIDE DEF gone
<1>2. Promise!Closed /\ Recorded' = disk'
  BY ClosedLogNext DEF Promise!Closed
<1>3. CASE c = Left(Recorded, failed)
  <2>1. disk' = Restrict(Recorded, kept) /\ failed' = failed
    BY <1>3 DEF Left
  <2>2. Promise!Close(gone)
    BY <1>1, <1>2, <2>1 DEF Promise!Close, Restrict, Promise!Restrict
  <2>3. QED
    BY <1>1, <2>2 DEF LogCloses
<1>4. ASSUME current # NoSession, NEW n \in 0 .. Len(buffer),
             c = Left(Cut(n), failed \cup {"write"})
      PROVE  LogCloses
  <2>1. disk' = Restrict(Cut(n), kept) /\ failed' = failed \cup {"write"}
    BY <1>4 DEF Left
  <2>2. PICK k \in Len(Stored(current)) .. Len(Recorded[current]) : Cut(n) = Promise!Cut(k)
    BY <1>4, CutLog
  <2>3. Recorded' = Promise!Restrict(Promise!Cut(k), DOMAIN Recorded \ gone)
    BY <1>1, <1>2, <2>1, <2>2 DEF Restrict, Promise!Restrict
  <2>4. Promise!CloseFailing(gone)
    BY <1>2, <1>4, <2>1, <2>3 DEF Promise!CloseFailing
  <2>5. QED
    BY <1>1, <2>4 DEF LogCloses
<1>5. QED
  BY <1>3, <1>4 DEF Closings

LEMMA InitLog == StorageInit => Promise!LogInit
<1> SUFFICES ASSUME StorageInit
             PROVE  Promise!LogInit
  OBVIOUS
<1>1. StorageInv
  BY InitInv
<1>2. current = NoSession /\ disk = [s \in {} |-> << >>] /\ failed = {}
  BY DEF StorageInit
<1>3. QED
  BY <1>1, <1>2, ClosedLog DEF Promise!LogInit

(* start_route() opens the log of its session, an empty one if it is new   *)
(* or its stat() failed.                                                   *)
LEMMA StartRouteLog ==
  ASSUME StorageInv, StorageInv', NEW m \in BOOLEAN, NEW s \in Session,
         StartRouteWhen(m, s)
  PROVE  Promise!Open(s) \/ LogStutters
<1>1. ASSUME CanStart(m), NEW o \in Openings(s), disk' = o.files, failed' = o.failed,
             current' = s, buffer' = << >>
      PROVE  Promise!Open(s)
  <2>1. current = NoSession /\ Recorded = disk /\ s # NoSession
    BY <1>1, ClosedLog, NoSessionAssumption DEF CanStart
  <2>2. Stored(s) \in Seq(Point) /\ disk \in [DOMAIN disk -> Seq(Point)]
    BY StoredType DEF StorageInv, StorageTypeOK
  <2>3. /\ s \in DOMAIN disk'
        /\ \/ /\ disk' = IF s \in DOMAIN disk THEN disk ELSE Promise!With(disk, s, << >>)
              /\ failed' = {}
           \/ /\ disk' = Promise!With(disk, s, << >>)
              /\ failed' = {"stat"}
    <3>1. CASE o = Left(With(disk, s, Stored(s)), {})
      BY <1>1, <2>2, <3>1 DEF Left, With, Promise!With, Stored
    <3>2. CASE o = Left(With(disk, s, << >>), {"stat"})
      BY <1>1, <2>2, <3>2 DEF Left, With, Promise!With
    <3>3. QED
      BY <1>1, <3>1, <3>2, OpeningsType
  <2>4. disk' \in [DOMAIN disk' -> Seq(Point)] /\ disk'[s] \in Seq(Point)
    BY <2>3 DEF StorageInv, StorageTypeOK
  <2>5. Stored(current)' = disk'[s] /\ disk'[s] \o << >> = disk'[s]
    BY <1>1, <2>3, <2>4, ConcatEmptySeq DEF Stored
  <2>6. Recorded' = disk'
    BY <1>1, <2>1, <2>3, <2>4, <2>5 DEF Recorded, With
  <2>7. QED
    BY <1>1, <2>1, <2>3, <2>5, <2>6 DEF Promise!Open
<1>2. CASE UNCHANGED routeVars
  BY <1>2, StutterLog DEF routeVars
<1>3. QED
  BY <1>1, <1>2 DEF StartRouteWhen

(* append_route_point() adds at the end of the log being written, or drops *)
(* points added since it was opened.                                       *)
LEMMA AppendLog ==
  ASSUME StorageInv, NEW p \in Point, AppendRoutePoint(p)
  PROVE  Promise!Add(p) \/ Promise!Drop \/ LogStutters
<1>1. CASE /\ CanAppend /\ buffer' = Append(buffer, p)
           /\ UNCHANGED <<disk, current, failed>>
  <2>1. current # NoSession /\ current \in DOMAIN disk
    BY <1>1 DEF CanAppend, StorageInv, OpenFileExists
  <2>2. Stored(current) \in Seq(Point) /\ buffer \in Seq(Point) /\ <<p>> \in Seq(Point)
    BY StoredType DEF StorageInv, StorageTypeOK
  <2>3. Append(Stored(current) \o buffer, p) = (Stored(current) \o buffer) \o <<p>>
    BY <2>1, RecordedOpen, AppendIsConcat
  <2>4. Append(buffer, p) = buffer \o <<p>>
    BY <2>2, AppendIsConcat
  <2>5. (Stored(current) \o buffer) \o <<p>> = Stored(current) \o (buffer \o <<p>>)
    BY <2>2, ConcatAssociative
  <2>6. UNCHANGED Stored(current)
    BY <1>1 DEF Stored
  <2>7. Recorded' = With(disk, current, Append(Stored(current) \o buffer, p))
    BY <1>1, <2>1, <2>3, <2>4, <2>5, <2>6 DEF Recorded, With
  <2>8. /\ Recorded = With(disk, current, Stored(current) \o buffer)
        /\ Recorded[current] = Stored(current) \o buffer
    BY <2>1, RecordedOpen
  <2>9. Promise!With(Recorded, current, Append(Stored(current) \o buffer, p))
          = With(disk, current, Append(Stored(current) \o buffer, p))
    BY <2>8 DEF With, Promise!With
  <2>10. Recorded' = Promise!With(Recorded, current, Append(Recorded[current], p))
    BY <2>7, <2>8, <2>9
  <2>11. QED
    BY <1>1, <2>1, <2>6, <2>10 DEF Promise!Add
<1>2. CASE UNCHANGED storageVars
  BY <1>2, StutterLog DEF storageVars
<1>3. ASSUME NEW n \in 0 .. Len(buffer), current # NoSession,
             buffer' = SubSeq(buffer, 1, n), failed' = failed \cup {"write"},
             UNCHANGED <<disk, current>>
      PROVE  Promise!Drop
  <2>1. UNCHANGED Stored(current)
    BY <1>3 DEF Stored
  <2>2. Recorded' = Cut(n)
    BY <1>3, <2>1 DEF Recorded, Cut, With
  <2>3. PICK k \in Len(Stored(current)) .. Len(Recorded[current]) : Cut(n) = Promise!Cut(k)
    BY <1>3, CutLog
  <2>4. QED
    BY <1>3, <2>1, <2>2, <2>3 DEF Promise!Drop
<1>4. QED
  BY <1>1, <1>2, <1>3 DEF AppendRoutePoint

(* end_route() and clear_routes() close it; what unlink removes is gone. *)
LEMMA EndRouteLog ==
  ASSUME StorageInv, StorageInv', EndRoute
  PROVE  LogCloses
<1>1. PICK c \in Closings : disk' = c.files /\ failed' = c.failed
  BY DEF EndRoute
<1>2. c.files = Restrict(c.files, DOMAIN Recorded)
  BY ClosingsType DEF Restrict
<1>3. QED
  BY <1>1, <1>2, CloseLog DEF EndRoute

LEMMA ClearFilesLog ==
  ASSUME StorageInv, StorageInv', ClearFiles
  PROVE  LogCloses
<1>1. PICK c \in Closings, kept \in Survivors :
        disk' = Restrict(c.files, kept) /\ failed' = c.failed
  BY DEF ClearFiles
<1>2. kept \in SUBSET DOMAIN Recorded
  BY DEF Survivors
<1>3. QED
  BY <1>1, <1>2, CloseLog DEF ClearFiles

(* delete_route() forgets a log that is not being written. *)
LEMMA DeleteRouteLog ==
  ASSUME StorageInv, NEW s \in Session, s # current, DeleteRoute(s)
  PROVE  Promise!Forget(s) \/ LogStutters
<1>1. CASE /\ s \in DOMAIN disk /\ disk' = Restrict(disk, DOMAIN disk \ {s})
           /\ UNCHANGED <<current, buffer, failed>>
  <2>1. UNCHANGED Stored(current)
    BY <1>1 DEF Stored, Restrict
  <2>2. DOMAIN Recorded = DOMAIN disk
    BY RecordedOpen, RecordedClosed
  <2>3. Recorded' = Restrict(Recorded, DOMAIN Recorded \ {s})
    <3>1. CASE current = NoSession
      BY <1>1, <3>1, RecordedClosed DEF Recorded
    <3>2. CASE current # NoSession
      <4>1. current \in DOMAIN disk
        BY <3>2 DEF StorageInv, OpenFileExists
      <4>2. Recorded' = With(disk', current, Stored(current) \o buffer)
        BY <1>1, <2>1, <3>2 DEF Recorded, With
      <4>3. Recorded = With(disk, current, Stored(current) \o buffer)
        BY <3>2, RecordedOpen
      <4>4. QED
        BY <1>1, <2>2, <4>1, <4>2, <4>3 DEF With, Restrict
    <3>3. QED
      BY <3>1, <3>2
  <2>4. QED
    BY <1>1, <2>1, <2>2, <2>3 DEF Promise!Forget, Restrict, Promise!Restrict
<1>2. CASE UNCHANGED storageVars
  BY <1>2, StutterLog DEF storageVars
<1>3. QED
  BY <1>1, <1>2 DEF DeleteRoute

(* A reset loses the end of the log being written, from a point that was   *)
(* added since the log was opened.                                         *)
LEMMA LoseBufferLog ==
  ASSUME StorageInv, StorageInv', LoseBuffer
  PROVE  Promise!Lose \/ LogCloses
<1> DEFINE c == Left(Recorded, failed)
<1>1. /\ current' = NoSession /\ Recorded' = disk' /\ Len(Stored(current))' = 0
  BY ClosedLogNext DEF LoseBuffer
<1>2. CASE current = NoSession /\ UNCHANGED disk
  <2>1. c.files = disk /\ c.failed = failed
    BY <1>2, RecordedClosed DEF c, Left
  <2>2. disk = Restrict(disk, DOMAIN disk) /\ DOMAIN disk = DOMAIN Recorded
    BY <1>2, RecordedClosed DEF Restrict, StorageInv, StorageTypeOK
  <2>3. QED
    BY <1>2, <2>1, <2>2, CloseLog DEF LoseBuffer, Closings, c
<1>3. ASSUME current # NoSession, NEW n \in 0 .. Len(buffer), disk' = Cut(n)
      PROVE  Promise!Lose
  <2>1. PICK k \in Len(Stored(current)) .. Len(Recorded[current]) : Cut(n) = Promise!Cut(k)
    BY <1>3, CutLog
  <2>2. QED
    BY <1>1, <1>3, <2>1 DEF Promise!Lose, Promise!Closed, LoseBuffer
<1>4. QED
  BY <1>2, <1>3 DEF LoseBuffer

LEMMA StepLog == StorageInv /\ StorageInv' /\ [StorageNext]_storageVars => Promised
<1> SUFFICES ASSUME StorageInv, StorageInv', [StorageNext]_storageVars
             PROVE  Promised
  OBVIOUS
<1>1. CASE Mount \/ UNCHANGED storageVars
  BY <1>1, StutterLog DEF Mount, routeVars, storageVars, Promised, LogStutters
<1>2. ASSUME NEW s \in Session, StartRoute(s)
      PROVE  Promised
  <2>1. Promise!Open(s) \/ LogStutters
    BY <1>2, StartRouteLog DEF StartRoute, StorageInv, StorageTypeOK
  <2>2. QED
    BY <2>1 DEF Promised, LogStutters, Promise!LogNext
<1>3. ASSUME NEW p \in Point, AppendRoutePoint(p)
      PROVE  Promised
  <2>1. Promise!Add(p) \/ Promise!Drop \/ LogStutters
    BY <1>3, AppendLog
  <2>2. QED
    BY <2>1 DEF Promised, LogStutters, Promise!LogNext
<1>4. CASE EndRoute \/ ClearRoutes
  <2>1. LogCloses
    BY <1>4, EndRouteLog, ClearFilesLog DEF ClearRoutes
  <2>2. QED
    BY <2>1 DEF Promised, LogCloses, Promise!LogNext
<1>5. ASSUME NEW s \in Session \ {current}, DeleteRoute(s)
      PROVE  Promised
  <2>1. Promise!Forget(s) \/ LogStutters
    BY <1>5, DeleteRouteLog
  <2>2. QED
    BY <2>1 DEF Promised, LogStutters, Promise!LogNext
<1>6. CASE LoseBuffer
  <2>1. Promise!Lose \/ LogCloses
    BY <1>6, LoseBufferLog
  <2>2. QED
    BY <2>1 DEF Promised, LogCloses, Promise!LogNext
<1>7. QED
  BY <1>1, <1>2, <1>3, <1>4, <1>5, <1>6 DEF StorageNext

(* The route files keep the promise of RouteLog: points are only ever      *)
(* added at the end of one log; a reset or a write that failed, be it in   *)
(* append_route_point(), end_route() or clear_routes(), takes none that    *)
(* was stored before the log was opened; and without either nothing is     *)
(* taken but by an opening whose stat() failed.                            *)
THEOREM StorageImplementsRouteLog == StorageSpec => ImplementsRouteLog
<1>1. StorageInit => Promise!LogInit
  BY InitLog
<1>2. StorageInv /\ StorageInv' /\ [StorageNext]_storageVars
        => [Promise!LogNext]_(Promise!logVars)
  BY StepLog DEF Promised
<1>3. QED
  BY <1>1, <1>2, StorageInvariant, PTL
  DEF StorageSpec, ImplementsRouteLog, Promise!LogSpec
-----------------------------------------------------------------------------
(* What a step of RouteLog does to the content of each file.               *)

Contents(s) == IF s \in DOMAIN Recorded THEN Recorded[s] ELSE << >>

(* Every file there is after the step holds what it held, or nothing if it *)
(* is new; or file k holds one point more, p, at its end.                  *)
KeepsContents == \A s \in DOMAIN Recorded' : Recorded'[s] = Contents(s)
AddsTo(k, p) == \A s \in DOMAIN Recorded' :
                  \/ Recorded'[s] = Contents(s)
                  \/ s = k /\ Recorded'[s] = Append(Contents(s), p)

(* Of the open file, no point is taken that it held when it was opened.    *)
Shortened(s) == /\ s = current
                /\ \E n \in Len(Stored(s)) .. Len(Recorded[s]) :
                     Recorded'[s] = SubSeq(Recorded[s], 1, n)
ShortensContents == \A s \in DOMAIN Recorded' :
                      Recorded'[s] = Contents(s) \/ Shortened(s)

LEMMA ContentsType ==
  ASSUME StorageInv, NEW s
  PROVE  Contents(s) \in Seq(Point)
BY RecordedType, EmptySeq DEF Contents

LEMMA RecordedDomainNext ==
  ASSUME StorageInv'
  PROVE  DOMAIN Recorded' \subseteq Session
<1>1. DOMAIN disk' \subseteq Session /\ current' \in Session \cup {NoSession}
  BY DEF StorageInv, StorageTypeOK
<1>2. QED
  BY <1>1 DEF Recorded, With

LEMMA StutterKeeps ==
  ASSUME LogStutters
  PROVE  KeepsContents
BY DEF LogStutters, Promise!logVars, KeepsContents, Contents

LEMMA OpenKeeps ==
  ASSUME NEW s, Promise!Open(s)
  PROVE  \/ KeepsContents
         \/ /\ current = NoSession /\ current' = s /\ "stat" \in failed'
            /\ \A t \in DOMAIN Recorded' :
                 Recorded'[t] = Contents(t) \/ (t = s /\ Recorded'[t] = << >>)
BY DEF Promise!Open, Promise!With, KeepsContents, Contents

LEMMA CloseKeeps ==
  ASSUME StorageInv, LogCloses
  PROVE  KeepsContents \/ (ShortensContents /\ "write" \in failed')
<1>1. PICK gone \in SUBSET DOMAIN Recorded :
        Promise!Close(gone) \/ Promise!CloseFailing(gone)
  BY DEF LogCloses
<1>2. CASE Promise!Close(gone)
  BY <1>2 DEF Promise!Close, Promise!Restrict, KeepsContents, Contents
<1>3. CASE Promise!CloseFailing(gone)
  <2>1. PICK n \in Len(Stored(current)) .. Len(Recorded[current]) :
          Recorded' = Promise!Restrict(Promise!Cut(n), DOMAIN Recorded \ gone)
    BY <1>3 DEF Promise!CloseFailing
  <2>2. current \in DOMAIN Recorded /\ "write" \in failed'
    BY <1>3, RecordedOpen DEF Promise!CloseFailing, StorageInv, OpenFileExists
  <2>3. QED
    BY <2>1, <2>2 DEF Promise!Restrict, Promise!Cut, Promise!With, ShortensContents,
                      Shortened, Contents
<1>4. QED
  BY <1>1, <1>2, <1>3

LEMMA CutKeeps ==
  ASSUME StorageInv, Promise!Drop \/ Promise!Lose
  PROVE  ShortensContents
<1>1. PICK n \in Len(Stored(current)) .. Len(Recorded[current]) : Recorded' = Promise!Cut(n)
  BY DEF Promise!Drop, Promise!Lose
<1>2. current \in DOMAIN Recorded
  BY RecordedOpen DEF Promise!Drop, Promise!Lose, StorageInv, OpenFileExists
<1>3. QED
  BY <1>1, <1>2 DEF Promise!Cut, Promise!With, ShortensContents, Shortened, Contents

LEMMA ForgetKeeps ==
  ASSUME NEW s, Promise!Forget(s)
  PROVE  KeepsContents
BY DEF Promise!Forget, Promise!Restrict, KeepsContents, Contents

LEMMA AddAdds ==
  ASSUME StorageInv, NEW p, Promise!Add(p)
  PROVE  AddsTo(current, p)
<1>1. current # NoSession /\ Recorded' = Promise!With(Recorded, current, Append(Recorded[current], p))
  BY DEF Promise!Add
<1>2. current \in DOMAIN Recorded
  BY <1>1, RecordedOpen DEF StorageInv, OpenFileExists
<1>3. QED
  BY <1>1, <1>2 DEF Promise!With, AddsTo, Contents

(* The elements of a sequence, of one with an element more, and of a part. *)
LEMMA RangeOfAppend ==
  ASSUME NEW S, NEW q \in Seq(S), NEW e
  PROVE  Range(Append(q, e)) \subseteq Range(q) \cup {e}
BY DEF Range

LEMMA RangeOfPrefix ==
  ASSUME NEW S, NEW q \in Seq(S), NEW n \in 0 .. Len(q)
  PROVE  Range(SubSeq(q, 1, n)) \subseteq Range(q)
BY DEF Range

(* What is left of a shortened file was there before the step, and is at   *)
(* least what was there when it was opened.                                *)
LEMMA ShortenedRange ==
  ASSUME StorageInv, NEW s \in DOMAIN Recorded, Shortened(s)
  PROVE  Range(Recorded'[s]) \subseteq Range(Recorded[s])
<1>1. PICK n \in Len(Stored(s)) .. Len(Recorded[s]) : Recorded'[s] = SubSeq(Recorded[s], 1, n)
  BY DEF Shortened
<1>2. Recorded[s] \in Seq(Point) /\ Len(Stored(s)) \in Nat /\ Len(Recorded[s]) \in Nat
  BY RecordedType, StoredType, LenProperties DEF StorageInv
<1>3. n \in 0 .. Len(Recorded[s])
  BY <1>2
<1>4. QED
  BY <1>1, <1>2, <1>3, RangeOfPrefix

LEMMA ShortenedKeepsStored ==
  ASSUME StorageInv, NEW s \in DOMAIN Recorded, Shortened(s), current # NoSession
  PROVE  /\ Len(Stored(s)) <= Len(Recorded'[s])
         /\ Stored(s) = SubSeq(Recorded'[s], 1, Len(Stored(s)))
<1> DEFINE old == Stored(s)
           new == Recorded'[s]
           all == Recorded[s]
<1>1. PICK n \in Len(old) .. Len(all) : new = SubSeq(all, 1, n)
  BY DEF Shortened
<1>2. all = old \o buffer /\ Len(all) = Len(old) + Len(buffer)
  BY RecordedOpen DEF Shortened
<1>3. old \in Seq(Point) /\ buffer \in Seq(Point) /\ all \in Seq(Point)
  BY RecordedType, StoredType DEF StorageInv, StorageTypeOK
<1> HIDE DEF old, new, all
<1>4. /\ Len(old) \in Nat /\ Len(all) \in Nat /\ n \in Nat
      /\ Len(old) <= n /\ n <= Len(all)
  <2>1. Len(old) \in Nat /\ Len(all) \in Nat
    BY <1>3, LenProperties
  <2>2. QED
    BY <1>1, <2>1
<1>5. \A i \in 1 .. Len(old) : all[i] = old[i]
  BY <1>2, <1>3, ConcatProperties
<1>6. new \in Seq(Point) /\ Len(new) = n /\ \A i \in 1 .. n : new[i] = all[i]
  <2>1. \A i \in 1 .. n : all[i] \in Point
    BY <1>3, <1>4, ElementOfSeq
  <2>2. /\ SubSeq(all, 1, n) \in Seq(Point)
        /\ Len(SubSeq(all, 1, n)) = (IF 1 <= n THEN n - 1 + 1 ELSE 0)
        /\ \A i \in 1 .. n - 1 + 1 : SubSeq(all, 1, n)[i] = all[1 + i - 1]
    BY <1>4, <2>1, SubSeqProperties
  <2>3. QED
    BY <1>1, <1>4, <2>2
<1> DEFINE m == Len(old)
           head == SubSeq(new, 1, m)
<1>7. head \in Seq(Point) /\ Len(head) = m /\ \A i \in 1 .. m : head[i] = new[i]
  <2> HIDE DEF m
  <2>1. m \in Nat /\ m <= Len(new)
    BY <1>4, <1>6 DEF m
  <2>2. \A i \in 1 .. m : new[i] \in Point
    BY <1>6, <2>1, ElementOfSeq
  <2>3. /\ SubSeq(new, 1, m) \in Seq(Point)
        /\ Len(SubSeq(new, 1, m)) = (IF 1 <= m THEN m - 1 + 1 ELSE 0)
        /\ \A i \in 1 .. m - 1 + 1 : SubSeq(new, 1, m)[i] = new[1 + i - 1]
    BY <2>1, <2>2, SubSeqProperties
  <2>4. QED
    BY <2>1, <2>3
<1> HIDE DEF head
<1>8. \A i \in 1 .. Len(old) : old[i] = head[i]
  BY <1>4, <1>5, <1>6, <1>7
<1>9. old = head
  BY <1>3, <1>7, <1>8, SeqEqual
<1>10. QED
  BY <1>4, <1>6, <1>9 DEF head, old, new
=============================================================================
