--------------------------- MODULE ServicesProofs ---------------------------
(***************************************************************************)
(* Proofs about GpsService, for every queue depth and every number of      *)
(* activations and failures, and about HistoryTransfer, for every set of   *)
(* sessions and every number of connections, requests and mishaps.         *)
(***************************************************************************)
EXTENDS GpsService, HistoryTransfer, FiniteSetTheorems, TLAPS

-----------------------------------------------------------------------------
(* Where the hand-over between the two tasks stands: the semaphore exists  *)
(* from the start of the task until the main task has joined it.           *)
HandOver ==
  /\ main \in {"asleep", "idle", "join", "open", "command", "close"}
  /\ running => sem = "empty"
  /\ sem = "empty" <=> task # "none"
  /\ MainHasLine => ~running /\ sem = "none"
  /\ main = "join" => ~running
  /\ main = "join" /\ sem = "none" => call = "sleep" /\ active
  /\ main = "idle" /\ sem # "none" => running /\ active

(* Who has opened the serial line.                                         *)
Line ==
  /\ main \in {"idle", "join"} => (open <=> task \in {"command", "loop"} \/ sem = "given")
  /\ main = "command" => open
  /\ main \in {"open", "asleep"} => ~open

(* What the receiver was last told, and the calls that silence it.         *)
Receiver ==
  /\ main \in {"join", "open", "command", "close"} /\ call # "sleep" => ~active
  /\ acked /\ task = "loop" => gnss
  /\ acked /\ main \in {"close", "idle", "asleep"} /\ ~active => ~gnss

IInv == HandOver /\ Line /\ Receiver
-----------------------------------------------------------------------------
LEMMA InitIInv == GpsInit => IInv
BY DEF GpsInit, IInv, HandOver, Line, Receiver, MainHasLine

LEMMA NextIInv == ASSUME IInv, [GpsNext]_gpsVars PROVE IInv'
<1> USE DEF IInv
<1>1. CASE Activate
  <2>1. HandOver'  BY <1>1 DEF Activate, Start, HandOver, MainHasLine, mainVars, moduleVars
  <2>2. Line'  BY <1>1 DEF Activate, Start, HandOver, Line, MainHasLine, mainVars, moduleVars
  <2>3. Receiver'  BY <1>1 DEF Activate, Start, Command, HandOver, Receiver, MainHasLine, mainVars, moduleVars
  <2> QED  BY <2>1, <2>2, <2>3 DEF IInv
<1>2. CASE Deactivate
  <2>1. HandOver'  BY <1>2 DEF Deactivate, StopAndIdle, HandOver, MainHasLine, mainVars, moduleVars
  <2>2. Line'  BY <1>2 DEF Deactivate, StopAndIdle, HandOver, Line, MainHasLine, mainVars, moduleVars
  <2>3. Receiver'  BY <1>2 DEF Deactivate, StopAndIdle, Command, HandOver, Receiver, MainHasLine, mainVars, moduleVars
  <2> QED  BY <2>1, <2>2, <2>3 DEF IInv
<1>3. CASE PrepareForSleep
  <2>1. HandOver'  BY <1>3 DEF PrepareForSleep, StopAndIdle, HandOver, MainHasLine, mainVars, moduleVars
  <2>2. Line'  BY <1>3 DEF PrepareForSleep, StopAndIdle, HandOver, Line, MainHasLine, mainVars, moduleVars
  <2>3. Receiver'  BY <1>3 DEF PrepareForSleep, StopAndIdle, Command, HandOver, Receiver, MainHasLine, mainVars, moduleVars
  <2> QED  BY <2>1, <2>2, <2>3 DEF IInv
<1>4. CASE Boot
  <2>1. HandOver'  BY <1>4 DEF Boot, Start, HandOver, MainHasLine, mainVars, moduleVars
  <2>2. Line'  BY <1>4 DEF Boot, Start, HandOver, Line, MainHasLine, mainVars, moduleVars
  <2>3. Receiver'  BY <1>4 DEF Boot, Start, Command, HandOver, Receiver, MainHasLine, mainVars, moduleVars
  <2> QED  BY <2>1, <2>2, <2>3 DEF IInv
<1>5. CASE ReadOnce
  <2>1. HandOver'  BY <1>5 DEF ReadOnce, HandOver, MainHasLine, mainVars, moduleVars
  <2>2. Line'  BY <1>5 DEF ReadOnce, HandOver, Line, MainHasLine, mainVars, moduleVars
  <2>3. Receiver'  BY <1>5 DEF ReadOnce, Command, HandOver, Receiver, MainHasLine, mainVars, moduleVars
  <2> QED  BY <2>1, <2>2, <2>3 DEF IInv
<1>6. CASE SetAiding
  <2>1. HandOver'  BY <1>6 DEF SetAiding, HandOver, MainHasLine, mainVars, moduleVars
  <2>2. Line'  BY <1>6 DEF SetAiding, HandOver, Line, MainHasLine, mainVars, moduleVars
  <2>3. Receiver'  BY <1>6 DEF SetAiding, Command, HandOver, Receiver, MainHasLine, mainVars, moduleVars
  <2> QED  BY <2>1, <2>2, <2>3 DEF IInv
<1>7. CASE OnGpsFix
  <2>1. HandOver'  BY <1>7 DEF OnGpsFix, HandOver, MainHasLine, mainVars, moduleVars
  <2>2. Line'  BY <1>7 DEF OnGpsFix, HandOver, Line, MainHasLine, mainVars, moduleVars
  <2>3. Receiver'  BY <1>7 DEF OnGpsFix, Command, HandOver, Receiver, MainHasLine, mainVars, moduleVars
  <2> QED  BY <2>1, <2>2, <2>3 DEF IInv
<1>8. CASE Join
  <2>1. HandOver'  BY <1>8 DEF Join, Joined, HandOver, MainHasLine, mainVars, moduleVars
  <2>2. Line'  BY <1>8 DEF Join, Joined, HandOver, Line, MainHasLine, mainVars, moduleVars
  <2>3. Receiver'  BY <1>8 DEF Join, Joined, Command, HandOver, Receiver, MainHasLine, mainVars, moduleVars
  <2> QED  BY <2>1, <2>2, <2>3 DEF IInv
<1>9. CASE OpenLine
  <2>1. HandOver'  BY <1>9 DEF OpenLine, HandOver, MainHasLine, mainVars, moduleVars
  <2>2. Line'  BY <1>9 DEF OpenLine, HandOver, Line, MainHasLine, mainVars, moduleVars
  <2>3. Receiver'  BY <1>9 DEF OpenLine, Command, HandOver, Receiver, MainHasLine, mainVars, moduleVars
  <2> QED  BY <2>1, <2>2, <2>3 DEF IInv
<1>10. CASE StopReceiver
  <2>1. HandOver'  BY <1>10 DEF StopReceiver, HandOver, MainHasLine, mainVars, moduleVars
  <2>2. Line'  BY <1>10 DEF StopReceiver, HandOver, Line, MainHasLine, mainVars, moduleVars
  <2>3. Receiver'  BY <1>10 DEF StopReceiver, Command, HandOver, Receiver, MainHasLine, mainVars, moduleVars
  <2> QED  BY <2>1, <2>2, <2>3 DEF IInv
<1>11. CASE CloseLine
  <2>1. HandOver'  BY <1>11 DEF CloseLine, HandOver, MainHasLine, mainVars, moduleVars
  <2>2. Line'  BY <1>11 DEF CloseLine, HandOver, Line, MainHasLine, mainVars, moduleVars
  <2>3. Receiver'  BY <1>11 DEF CloseLine, Command, HandOver, Receiver, MainHasLine, mainVars, moduleVars
  <2> QED  BY <2>1, <2>2, <2>3 DEF IInv
<1>12. CASE TaskBegin
  <2>1. HandOver'  BY <1>12 DEF TaskBegin, HandOver, MainHasLine, mainVars, moduleVars
  <2>2. Line'  BY <1>12 DEF TaskBegin, HandOver, Line, MainHasLine, mainVars, moduleVars
  <2>3. Receiver'  BY <1>12 DEF TaskBegin, Command, HandOver, Receiver, MainHasLine, mainVars, moduleVars
  <2> QED  BY <2>1, <2>2, <2>3 DEF IInv
<1>13. CASE TaskCommand
  <2>1. HandOver'  BY <1>13 DEF TaskCommand, HandOver, MainHasLine, mainVars, moduleVars
  <2>2. Line'  BY <1>13 DEF TaskCommand, HandOver, Line, MainHasLine, mainVars, moduleVars
  <2>3. Receiver'  BY <1>13 DEF TaskCommand, Command, HandOver, Receiver, MainHasLine, mainVars, moduleVars
  <2> QED  BY <2>1, <2>2, <2>3 DEF IInv
<1>14. CASE Iterate
  <2>1. HandOver'  BY <1>14 DEF Iterate, HandOver, MainHasLine, mainVars, moduleVars
  <2>2. Line'  BY <1>14 DEF Iterate, HandOver, Line, MainHasLine, mainVars, moduleVars
  <2>3. Receiver'  BY <1>14 DEF Iterate, Command, HandOver, Receiver, MainHasLine, mainVars, moduleVars
  <2> QED  BY <2>1, <2>2, <2>3 DEF IInv
<1>15. CASE TaskExit
  <2>1. HandOver'  BY <1>15 DEF TaskExit, Given, HandOver, MainHasLine, mainVars, moduleVars
  <2>2. Line'  BY <1>15 DEF TaskExit, Given, HandOver, Line, MainHasLine, mainVars, moduleVars
  <2>3. Receiver'  BY <1>15 DEF TaskExit, Given, Command, HandOver, Receiver, MainHasLine, mainVars, moduleVars
  <2> QED  BY <2>1, <2>2, <2>3 DEF IInv
<1>16. CASE UNCHANGED gpsVars
  BY <1>16 DEF gpsVars, mainVars, moduleVars, IInv, HandOver, Line, Receiver, MainHasLine
<1> QED  BY <1>1, <1>2, <1>3, <1>4, <1>5, <1>6, <1>7, <1>8, <1>9, <1>10, <1>11, <1>12, <1>13, <1>14, <1>15, <1>16 DEF GpsNext

THEOREM AlwaysIInv == GpsSpec => []IInv
BY InitIInv, NextIInv, PTL DEF GpsSpec

(* The main task and the GPS task never use the serial line together.      *)
THEOREM LineHasOneUser == GpsSpec => []OneUser
<1>1. IInv => OneUser
  BY DEF IInv, HandOver, Line, OneUser, MainHasLine
<1> QED  BY <1>1, AlwaysIInv, PTL

(* The receiver searches and rests as the activity of GPS asks for, unless *)
(* it missed the last command.                                             *)
THEOREM ReceiverFollows == GpsSpec => []GnssFollows
<1>1. IInv => GnssFollows
  BY DEF IInv, Receiver, GnssFollows
<1> QED  BY <1>1, AlwaysIInv, PTL

(* An inactive GPS leaves no position behind.                              *)
THEOREM FixIsCleared == GpsSpec => []NoFixWhenInactive
<1>1. GpsInit => NoFixWhenInactive
  BY DEF GpsInit, NoFixWhenInactive
<1>2. ASSUME NoFixWhenInactive, [GpsNext]_gpsVars PROVE NoFixWhenInactive'
  <2> USE DEF NoFixWhenInactive, mainVars
  <2>1. CASE Activate \/ Deactivate \/ PrepareForSleep \/ Boot
    BY <1>2, <2>1 DEF Activate, Deactivate, PrepareForSleep, Boot, StopAndIdle
  <2>2. CASE OnGpsFix
    BY <1>2, <2>2 DEF OnGpsFix, TakesFix
  <2>3. CASE ReadOnce \/ SetAiding
    BY <1>2, <2>3 DEF ReadOnce, SetAiding
  <2>4. CASE Join \/ OpenLine \/ StopReceiver \/ CloseLine
    BY <1>2, <2>4 DEF Join, OpenLine, StopReceiver, CloseLine
  <2>5. CASE TaskBegin \/ TaskCommand \/ Iterate \/ TaskExit
    BY <1>2, <2>5 DEF TaskBegin, TaskCommand, Iterate, TaskExit
  <2>6. CASE UNCHANGED gpsVars
    BY <1>2, <2>6 DEF gpsVars
  <2> QED  BY <1>2, <2>1, <2>2, <2>3, <2>4, <2>5, <2>6 DEF GpsNext
<1> QED  BY <1>1, <1>2, PTL DEF GpsSpec

(* Aiding never replaces the time that the GPS has set.                    *)
THEOREM AidingYields == GpsSpec => []GpsTimeStays
<1>1. GpsInit => GpsTimeStays
  BY DEF GpsInit, GpsTimeStays
<1>2. ASSUME GpsTimeStays, [GpsNext]_gpsVars PROVE GpsTimeStays'
  <2> USE DEF GpsTimeStays, timeVars
  <2>1. CASE Activate \/ Boot
    BY <1>2, <2>1 DEF Activate, Boot, Start
  <2>2. CASE Deactivate \/ PrepareForSleep \/ ReadOnce \/ SetAiding \/ OnGpsFix
    BY <1>2, <2>2 DEF Deactivate, PrepareForSleep, ReadOnce, SetAiding, OnGpsFix
  <2>3. CASE Join \/ OpenLine \/ StopReceiver \/ CloseLine
    BY <1>2, <2>3 DEF Join, OpenLine, StopReceiver, CloseLine
  <2>4. CASE Iterate
    <3>1. PICK said \in Sentence :
            LET syncs == said # "nothing" /\ ~synced /\ stamp' # 0 IN
            /\ synced' = (synced \/ syncs)
            /\ clock' = IF syncs THEN GpsTime(stamp')
                        ELSE IF AidingSetsClock THEN AidingTime ELSE clock
      BY <2>4 DEF Iterate
    <3>2. CASE said # "nothing" /\ ~synced /\ stamp' # 0
      BY <3>1, <3>2 DEF GpsTime
    <3>3. CASE ~(said # "nothing" /\ ~synced /\ stamp' # 0)
      <4>1. synced' => synced
        BY <3>1, <3>3
      <4>2. synced => clock' = clock
        BY <3>1, <3>3 DEF AidingSetsClock
      <4> QED  BY <1>2, <4>1, <4>2
    <3> QED  BY <3>2, <3>3
  <2>5. CASE TaskBegin \/ TaskCommand \/ TaskExit
    BY <1>2, <2>5 DEF TaskBegin, TaskCommand, TaskExit
  <2>6. CASE UNCHANGED gpsVars
    BY <1>2, <2>6 DEF gpsVars
  <2> QED  BY <1>2, <2>1, <2>2, <2>3, <2>4, <2>5, <2>6 DEF GpsNext
<1> QED  BY <1>1, <1>2, PTL DEF GpsSpec

-----------------------------------------------------------------------------
(* The transfer of routes.                                                 *)

Terminal == {"error", "done", "ended", "deleted"}
Message == [type: Terminal \cup {"none", "sessions", "started", "points"}, session: Nat,
            first: Nat, points: Seq(Nat \X Nat), n: Nat]
JobOps == {"none", "reply", "list", "activate", "start", "fill"}
PhoneFields == {"here", "waiting", "op", "session", "asked", "total", "got", "since"}

TransferTypeOK ==
  /\ files \subseteq Sessions
  /\ up \in BOOLEAN /\ connected \in BOOLEAN
  /\ export \in [active: BOOLEAN, session: Nat]
  /\ pending \in [op: Ops, session: Nat, pts: Seq(Nat)]
  /\ job \in [op: JobOps, session: Nat, todo: Seq(Nat), sent: Nat, msg: Message]
  /\ air \in Seq(Message)
  /\ DOMAIN phone = PhoneFields
  /\ phone.here = connected /\ phone.waiting \in BOOLEAN
  /\ phone.op \in Ops /\ phone.total \in Nat

(* A connected phone has a server; what the job can be about to send.      *)
Shape ==
  /\ connected => up
  /\ ~connected => phone = Phone /\ air = <<>>
  /\ job.op = "none" => job = NoJob
  /\ job.op = "activate" => job.msg = NoMsg
  /\ job.op = "reply" <=> job.msg.type \in Terminal
  /\ job.op = "list" => job.msg.type \in {"none", "sessions"}
  /\ job.op = "start" => job.msg.type \in {"none", "started", "points"}
  /\ job.op = "fill" => job.msg.type \in {"none", "points"}

(* m holds points of session s, from its index on. *)
Indexed(m, s) == \A k \in DOMAIN m.points : m.points[k] = <<s, m.first + k - 1>>

(* The phone's request has been taken, and it waits for the answer.        *)
Taking == phone.waiting /\ pending = NoRequest

(* What is on its way belongs to the request the phone waits for, and the  *)
(* points in it to the session the phone files them under, or will.        *)
Fits(m) ==
  /\ m.type = "started" => Taking /\ phone.op = "start"
  /\ m.type = "points" => /\ Taking /\ phone.op \in {"start", "fill"}
                          /\ phone.op = "start" => Indexed(m, phone.asked)
                          /\ phone.session # 0 => Indexed(m, phone.session)
  /\ m.type \in Terminal => Taking /\ phone.op # "list"

JobFits ==
  /\ job.op \in {"activate", "start"} => Taking /\ phone.op = "start" /\ job.session = phone.asked
  /\ job.op = "activate" => export.session = phone.asked
  /\ job.op = "fill" => Taking /\ phone.op = "fill" /\ phone.session \in {0, export.session}
  /\ Fits(job.msg)
AirFits == \A j \in 1 .. Len(air) :
             Fits(air[j]) /\ (air[j].type \in Terminal => j = Len(air) /\ job = NoJob)
PendingFits ==
  pending # NoRequest =>
    IF phone.waiting
      THEN pending.op = phone.op /\ (phone.op = "start" => pending.session = phone.asked)
      ELSE pending.op = "list"
ExportFits ==
  /\ export.active => phone.session \in {0, export.session}
  /\ Taking /\ phone.op = "start" /\ export.active => export.session = phone.asked
  /\ phone.waiting /\ phone.op = "start" => phone.session \in {0, phone.asked}
  /\ phone.waiting => phone.op # "none"
Own == JobFits /\ AirFits /\ PendingFits /\ ExportFits

TransferInv == /\ TransferTypeOK /\ Shape
               /\ connected => Own
               /\ HoldsStoredPoints

(* No phone connects while the device still has a request of the phone     *)
(* before it, taken or not.                                                *)
QuietConnect == connected' /\ ~connected => pending = NoRequest /\ job = NoJob
QuietConnects == [][QuietConnect]_historyVars

LEMMA HistoryNumbers ==
  /\ Sessions \subseteq Nat \ {0} /\ IsFiniteSet(Sessions)
  /\ Points \in Nat \ {0} /\ Batch \in Nat \ {0} /\ PerPage \in Nat \ {0}
  /\ IndexRange \in Nat \ {0}
BY HistoryAssumption

LEMMA Messages ==
  /\ NoMsg \in Message /\ NoMsg.type = "none"
  /\ NoRequest \in [op: Ops, session: Nat, pts: Seq(Nat)] /\ NoRequest.op = "none"
  /\ \A t \in Terminal \cup {"sessions", "started", "points"} : Msg(t) \in Message /\ Msg(t).type = t
<1>1. <<>> \in Seq(Nat \X Nat) /\ <<>> \in Seq(Nat)
  OBVIOUS
<1>2. NoMsg \in Message /\ NoMsg.type = "none"
  BY <1>1 DEF NoMsg, Message
<1>3. NoRequest \in [op: Ops, session: Nat, pts: Seq(Nat)] /\ NoRequest.op = "none"
  BY <1>1 DEF NoRequest, Ops
<1>4. \A t \in Terminal \cup {"sessions", "started", "points"} : Msg(t) \in Message /\ Msg(t).type = t
  BY <1>2 DEF Msg, Message
<1>5. QED
  BY <1>2, <1>3, <1>4

JobType == [op: JobOps, session: Nat, todo: Seq(Nat), sent: Nat, msg: Message]

LEMMA Jobs ==
  /\ NoJob \in JobType /\ NoJob.op = "none" /\ NoJob.msg = NoMsg
  /\ \A m \in Message : Reply(m) \in JobType /\ Reply(m).op = "reply" /\ Reply(m).msg = m
<1>1. <<>> \in Seq(Nat)
  OBVIOUS
<1>2. NoJob \in JobType /\ NoJob.op = "none" /\ NoJob.msg = NoMsg
  BY <1>1, Messages DEF NoJob, JobType, JobOps
<1>3. \A m \in Message : Reply(m) \in JobType /\ Reply(m).op = "reply" /\ Reply(m).msg = m
  BY <1>2 DEF Reply, JobType, JobOps
<1>4. QED
  BY <1>2, <1>3

LEMMA ModSmall == ASSUME NEW n \in Nat \ {0}, NEW i \in Nat
                  PROVE  i % n \in Nat /\ (i < n => i % n = i)
OBVIOUS

LEMMA DivNat == ASSUME NEW a \in Nat, NEW n \in Nat \ {0} PROVE a \div n \in Nat
OBVIOUS

LEMMA TodoType ==
  ASSUME TransferTypeOK
  PROVE  Pages \in Seq(Nat) /\ Offsets \in Seq(Nat)
<1>1. Cardinality(files) \in Nat
  BY HistoryNumbers, FS_Subset, FS_CardinalityType DEF TransferTypeOK
<1>2. /\ (Cardinality(files) + PerPage - 1) \div PerPage \in Nat
      /\ (Points + Batch - 1) \div Batch \in Nat
  BY <1>1, HistoryNumbers, DivNat
<1>3. Pages \in Seq(Nat)
  <2> DEFINE e == IF Cardinality(files) = 0 THEN 1
                  ELSE (Cardinality(files) + PerPage - 1) \div PerPage
  <2>1. e \in Nat /\ Pages = [k \in 1 .. e |-> k]
    BY <1>2 DEF Pages
  <2> HIDE DEF e
  <2>2. QED
    BY <2>1
<1>4. Offsets \in Seq(Nat)
  <2> DEFINE e == (Points + Batch - 1) \div Batch
  <2>1. e \in Nat /\ Offsets = [k \in 1 .. e |-> (k - 1) * Batch]
    BY <1>2 DEF Offsets
  <2> HIDE DEF e
  <2>2. \A k \in 1 .. e : (k - 1) * Batch \in Nat
    BY <2>1, HistoryNumbers
  <2>3. QED
    BY <2>1, <2>2
<1>5. QED
  BY <1>3, <1>4

(* What a batch or a fill reads and sends. *)
LEMMA BinaryType ==
  ASSUME Points <= IndexRange, NEW s \in Nat, NEW i \in Nat, NEW n \in Nat \ {0}
  PROVE  /\ Read(s, i, n) \in Seq(Nat \X Nat)
         /\ Binary(i, Read(s, i, n)) \in Message
         /\ Binary(i, Read(s, i, n)).type = "points"
         /\ Indexed(Binary(i, Read(s, i, n)), s)
<1> DEFINE e == IF i + n <= Points THEN n ELSE IF i < Points THEN Points - i ELSE 0
           m == Binary(i, Read(s, i, n))
<1>1. e \in Nat /\ (e > 0 => i < Points)
  BY HistoryNumbers
<1>2. Read(s, i, n) = <<>> \/ Read(s, i, n) = [k \in 1 .. e |-> <<s, i + k - 1>>]
  BY DEF Read
<1> HIDE DEF e
<1>3. \A k \in 1 .. e : i + k - 1 \in Nat
  BY <1>1
<1>4. Read(s, i, n) \in Seq(Nat \X Nat)
  <2>1. <<>> \in Seq(Nat \X Nat)
    OBVIOUS
  <2>2. \A k \in 1 .. e : <<s, i + k - 1>> \in Nat \X Nat
    BY <1>3
  <2>3. [k \in 1 .. e |-> <<s, i + k - 1>>] \in [1 .. e -> Nat \X Nat]
    BY <2>2
  <2>4. [k \in 1 .. e |-> <<s, i + k - 1>>] \in Seq(Nat \X Nat)
    BY <1>1, <2>3
  <2>5. QED
    BY <1>2, <2>1, <2>4
<1>5. i % IndexRange \in Nat /\ (i < Points => i % IndexRange = i)
  BY HistoryNumbers, ModSmall
<1>6. m \in Message /\ m.type = "points" /\ m.first = i % IndexRange /\ m.points = Read(s, i, n)
  BY <1>4, <1>5, Messages DEF Binary, Msg, NoMsg, Message
<1>7. Indexed(m, s)
  <2> SUFFICES ASSUME NEW k \in DOMAIN m.points
               PROVE  m.points[k] = <<s, m.first + k - 1>>
    BY DEF Indexed
  <2>1. m.points = [j \in 1 .. e |-> <<s, i + j - 1>>] /\ k \in 1 .. e
    <3>1. m.points = Read(s, i, n) /\ m.points # <<>>
      BY <1>6
    <3>2. Read(s, i, n) = [j \in 1 .. e |-> <<s, i + j - 1>>]
      BY <1>2, <3>1
    <3>3. QED
      BY <3>1, <3>2
  <2>2. m.first = i
    BY <1>1, <1>5, <1>6, <2>1
  <2>3. QED
    BY <2>1, <2>2
<1>8. QED
  BY <1>4, <1>6, <1>7

-----------------------------------------------------------------------------
LEMMA OnConnectInv ==
  ASSUME TransferInv, OnConnect, QuietConnect
  PROVE  TransferInv'
<1>1. /\ up /\ ~connected /\ connected' = TRUE /\ phone' = [Phone EXCEPT !.here = TRUE]
      /\ UNCHANGED <<files, up, export, job, pending, air>>
  BY DEF OnConnect, device
<1>2. job = NoJob /\ pending = NoRequest /\ air = <<>> /\ TransferTypeOK /\ Shape
  BY <1>1 DEF QuietConnect, TransferInv, Shape
<1>3. /\ phone'.here /\ ~phone'.waiting /\ phone'.op = "none" /\ phone'.session = 0
      /\ phone'.got = <<>> /\ phone'.total = 0 /\ DOMAIN phone' = PhoneFields
  BY <1>1 DEF Phone, PhoneFields
<1>4. TransferTypeOK' /\ Shape'
  BY <1>1, <1>2, <1>3 DEF TransferTypeOK, Shape, Ops
<1>5. Own'
  <2>1. job'.op = "none" /\ job'.msg.type = "none" /\ air' = <<>> /\ pending' = NoRequest
    BY <1>1, <1>2, Jobs, Messages
  <2>2. JobFits'
    BY <2>1 DEF JobFits, Fits, Terminal
  <2>3. AirFits' /\ PendingFits'
    BY <2>1 DEF AirFits, PendingFits
  <2>4. ExportFits'
    BY <1>3 DEF ExportFits
  <2>5. QED
    BY <2>2, <2>3, <2>4 DEF Own
<1>6. HoldsStoredPoints'
  BY <1>3 DEF HoldsStoredPoints
<1>7. QED
  BY <1>4, <1>5, <1>6 DEF TransferInv

LEMMA PhoneIsReset ==
  /\ DOMAIN Phone = PhoneFields /\ Phone.here = FALSE /\ Phone.waiting = FALSE
  /\ Phone.op = "none"
  /\ Phone.total = 0 /\ Phone.got = <<>>
BY DEF Phone, PhoneFields

LEMMA DisconnectInv ==
  ASSUME TransferInv, OnDisconnect \/ LeaveMode
  PROVE  TransferInv'
<1>1. /\ connected' = FALSE /\ phone' = Phone /\ air' = <<>> /\ up' \in BOOLEAN
      /\ export' \in {export, NoExport} /\ UNCHANGED <<files, pending, job>>
  BY DEF OnDisconnect, LeaveMode, ExportAfterDisconnect, TransferInv, TransferTypeOK
<1>2. TransferTypeOK'
  <2>1. NoExport \in [active: BOOLEAN, session: Nat] /\ <<>> \in Seq(Message)
    BY DEF NoExport
  <2>2. /\ files' \subseteq Sessions /\ up' \in BOOLEAN /\ connected' \in BOOLEAN
        /\ export' \in [active: BOOLEAN, session: Nat]
    BY <1>1, <2>1 DEF TransferInv, TransferTypeOK
  <2>3. /\ pending' \in [op: Ops, session: Nat, pts: Seq(Nat)]
        /\ job' \in [op: JobOps, session: Nat, todo: Seq(Nat), sent: Nat, msg: Message]
        /\ air' \in Seq(Message)
    BY <1>1, <2>1 DEF TransferInv, TransferTypeOK
  <2>4. /\ DOMAIN phone' = PhoneFields
        /\ phone'.here = connected' /\ phone'.waiting \in BOOLEAN
        /\ phone'.op \in Ops /\ phone'.total \in Nat
    <3>1. phone' = Phone /\ connected' = FALSE
      BY <1>1
    <3>2. phone'.here = FALSE /\ phone'.waiting = FALSE /\ phone'.op = "none"
      BY <3>1, PhoneIsReset
    <3>3. DOMAIN phone' = PhoneFields /\ phone'.total = 0
      BY <3>1, PhoneIsReset
    <3>4. phone'.op \in Ops
      BY <3>2 DEF Ops
    <3>5. phone'.here = connected' /\ phone'.waiting \in BOOLEAN
      BY <3>1, <3>2
    <3>6. phone'.total \in Nat
      BY <3>3
    <3>7. QED
      BY <3>3, <3>4, <3>5, <3>6
  <2>5. QED
    BY <2>2, <2>3, <2>4 DEF TransferTypeOK
<1>5. Shape'
  BY <1>1 DEF TransferInv, Shape
<1>3. HoldsStoredPoints'
  BY <1>1, PhoneIsReset DEF HoldsStoredPoints
<1>4. QED
  BY <1>1, <1>2, <1>3, <1>5 DEF TransferInv

(* A step that leaves the transfer alone. *)
LEMMA AloneInv ==
  ASSUME TransferInv, UNCHANGED <<files, up, connected, export, job, pending, air, phone>>
  PROVE  TransferInv'
BY DEF TransferInv, TransferTypeOK, Shape, Own, JobFits, AirFits, PendingFits, ExportFits,
       Fits, Taking, Indexed, HoldsStoredPoints

(* A step of the orchestrator that sends nothing yet: the phone and what   *)
(* is in the air stay as they are.                                         *)
LEMMA JobInv ==
  ASSUME TransferInv, UNCHANGED <<up, connected, air, phone>>,
         files' \subseteq files, export' \in [active: BOOLEAN, session: Nat],
         pending' \in [op: Ops, session: Nat, pts: Seq(Nat)],
         job' \in JobType, Shape',
         connected => /\ JobFits' /\ PendingFits' /\ ExportFits'
                      /\ pending' = pending \/ pending # NoRequest
                      /\ job' = job \/ pending # NoRequest \/ job # NoJob
  PROVE  TransferInv'
<1>1. TransferTypeOK'
  BY DEF TransferInv, TransferTypeOK, JobType
<1>2. HoldsStoredPoints'
  BY DEF TransferInv, HoldsStoredPoints
<1>3. ASSUME connected PROVE AirFits'
  <2> SUFFICES ASSUME NEW j \in 1 .. Len(air)
               PROVE  Fits(air[j])' /\ (air[j].type \in Terminal => j = Len(air) /\ job' = NoJob)
    BY DEF AirFits
  <2>1. Fits(air[j]) /\ (air[j].type \in Terminal => j = Len(air) /\ job = NoJob)
    BY <1>3 DEF TransferInv, Own, AirFits
  <2>2. Fits(air[j])'
    BY <1>3, <2>1 DEF Fits, Taking, Indexed
  <2>3. air[j].type \in Terminal => pending = NoRequest
    BY <2>1 DEF Fits, Taking
  <2>4. QED
    BY <1>3, <2>1, <2>2, <2>3
<1>4. QED
  BY <1>1, <1>2, <1>3 DEF TransferInv, Own

LEMMA ExportKept ==
  ASSUME ExportFits, phone' = phone,
         export' = export \/ ~export'.active,
         phone.waiting /\ phone.op = "start" => ~export'.active
  PROVE  ExportFits'
<1>1. export'.active => phone.session \in {0, export'.session}
  BY DEF ExportFits
<1>2. Taking' /\ phone.op = "start" => ~export'.active
  BY DEF Taking
<1>3. /\ phone.waiting /\ phone.op = "start" => phone.session \in {0, phone.asked}
      /\ phone.waiting => phone.op # "none"
  BY DEF ExportFits
<1>4. QED
  BY <1>1, <1>2, <1>3 DEF ExportFits

(* on_ble_history_write() takes what the phone has asked for. *)
LEMMA DispatchInv ==
  ASSUME TransferInv, Dispatch
  PROVE  TransferInv'
<1>1. job = NoJob /\ UNCHANGED <<up, connected, air, phone>>
  BY DEF Dispatch
<1>2. TransferTypeOK /\ Shape /\ (connected => Own /\ up)
  BY DEF TransferInv, Shape
<1>3. ASSUME UNCHANGED <<files, export, job, pending>> PROVE TransferInv'
  BY <1>1, <1>3, AloneInv
<1>4. ASSUME HandleHistory PROVE TransferInv'
  <2>1. pending' = NoRequest
    BY <1>4 DEF HandleHistory, Taken
  <2>2. ASSUME connected, pending # NoRequest
        PROVE  /\ pending.op # "none"
               /\ pending.op # "list" => phone.waiting /\ phone.op = pending.op
               /\ pending.op = "start" => pending.session = phone.asked
    BY <1>2, <2>2 DEF Own, PendingFits, ExportFits
  <2>3. /\ pending.session \in Nat /\ pending.pts \in Seq(Nat)
        /\ export \in [active: BOOLEAN, session: Nat]
    BY <1>2 DEF TransferTypeOK
  <2>4. pending' \in [op: Ops, session: Nat, pts: Seq(Nat)]
    BY <2>1, Messages
  <2>5. ASSUME NEW m \in Message, m.type \in Terminal, job' = Reply(m),
               connected => pending # NoRequest /\ pending.op \notin {"list", "none"}
        PROVE  Shape' /\ job' \in JobType /\ (connected => JobFits')
    <3>1. job'.op = "reply" /\ job'.msg = m /\ job' \in JobType
      BY <2>5, Jobs
    <3>2. Shape'
      BY <1>1, <1>2, <2>5, <3>1 DEF Shape, Terminal
    <3>3. connected => JobFits'
      BY <1>1, <2>1, <2>2, <2>5, <3>1 DEF JobFits, Fits, Taking, Terminal
    <3>4. QED
      BY <3>1, <3>2, <3>3
  <2>6. NoExport \in [active: BOOLEAN, session: Nat] /\ ~NoExport.active
    BY DEF NoExport
  <2>7. ASSUME files' \subseteq files, export' \in [active: BOOLEAN, session: Nat],
               job' \in JobType, Shape', connected => JobFits',
               connected => pending # NoRequest,
               export' # export => ~export'.active,
               phone.waiting /\ phone.op = "start" => ~export'.active
        PROVE  TransferInv'
    <3>1. connected => ExportFits'
      BY <1>1, <1>2, <2>7, ExportKept DEF Own
    <3>2. PendingFits'
      BY <2>1 DEF PendingFits
    <3>3. QED
      BY <1>1, <2>4, <2>7, <3>1, <3>2, JobInv
  <2>8. CASE pending.op = "end"
    <3>1. HandleEnd
      BY <1>4, <2>8 DEF HandleHistory
    <3>2. export' = NoExport /\ files' = files /\ (job' = Reply(Msg("ended")) \/ (~up /\ job' = NoJob))
      BY <3>1 DEF HandleEnd
    <3>3. connected => pending # NoRequest
      BY <2>8, Messages
    <3>4. Shape' /\ job' \in JobType /\ (connected => JobFits')
      <4>1. CASE job' = Reply(Msg("ended"))
        BY <2>5, <2>8, <3>3, <4>1, Messages DEF Terminal
      <4>2. CASE ~up /\ job' = NoJob
        BY <1>1, <1>2, <4>2, Jobs DEF Shape
      <4>3. QED
        BY <3>2, <4>1, <4>2
    <3>5. QED
      BY <2>6, <2>7, <3>2, <3>3, <3>4
  <2>9. CASE pending.op = "none" \/ (pending.op # "end" /\ ~up)
    <3>1. UNCHANGED <<files, export, job>>
      BY <1>4, <2>9 DEF HandleHistory, device
    <3>2. connected => pending = NoRequest
      BY <1>2, <2>2, <2>9
    <3>3. CASE connected
      BY <1>1, <2>1, <3>1, <3>2, <3>3, AloneInv
    <3>4. CASE ~connected
      BY <1>1, <1>2, <2>1, <2>4, <3>1, <3>4 DEF TransferInv, TransferTypeOK, Shape, HoldsStoredPoints
    <3>5. QED
      BY <3>3, <3>4
  <2>10. CASE pending.op = "list" /\ up
    <3>1. job' = [NoJob EXCEPT !.op = "list", !.todo = Pages] /\ UNCHANGED <<files, export>>
      BY <1>4, <2>10 DEF HandleHistory, HandleList
    <3>2. job' \in JobType /\ job'.op = "list" /\ job'.msg = NoMsg
      BY <1>2, <3>1, Jobs, TodoType DEF JobType, JobOps
    <3>3. Shape'
      BY <1>1, <1>2, <3>2, Messages DEF Shape, Terminal
    <3>4. JobFits'
      BY <3>2, Messages DEF JobFits, Fits, Terminal
    <3>5. connected => pending # NoRequest
      BY <2>10, Messages
    <3>6. connected /\ phone.waiting => phone.op = "list"
      BY <1>2, <2>10, <3>5 DEF Own, PendingFits
    <3>7. connected => ExportFits'
      BY <1>1, <1>2, <3>1, <3>6, ExportKept DEF Own
    <3>8. PendingFits'
      BY <2>1 DEF PendingFits
    <3>9. QED
      BY <1>1, <2>3, <2>4, <3>1, <3>2, <3>3, <3>4, <3>5, <3>7, <3>8, JobInv
  <2>11. CASE pending.op = "start" /\ up
    <3>1. HandleStart(pending.session)
      BY <1>4, <2>11 DEF HandleHistory
    <3>2. connected => pending # NoRequest
      BY <2>11, Messages
    <3>3. /\ files' = files
          /\ export' \in [active: BOOLEAN, session: Nat] /\ ~export'.active
      <4>1. CASE export' = [active |-> FALSE, session |-> pending.session]
        BY <2>3, <3>1, <4>1 DEF HandleStart
      <4>2. CASE export' = [export EXCEPT !.active = FALSE]
        BY <2>3, <3>1, <4>2 DEF HandleStart
      <4>3. QED
        BY <3>1, <4>1, <4>2 DEF HandleStart
    <3>4. Shape' /\ job' \in JobType /\ (connected => JobFits')
      <4>1. CASE job' = Reply(Msg("error"))
        BY <2>5, <2>11, <3>2, <4>1, Messages DEF Terminal
      <4>2. CASE /\ job' = [NoJob EXCEPT !.op = "activate", !.session = pending.session]
                 /\ export'.session = pending.session
        <5>1. /\ job' \in JobType /\ job'.op = "activate" /\ job'.msg = NoMsg
              /\ job'.session = pending.session
          BY <2>3, <4>2, Jobs DEF JobType, JobOps
        <5>2. Shape'
          BY <1>1, <1>2, <5>1, Messages DEF Shape, Terminal
        <5>3. connected => JobFits'
          BY <1>1, <2>1, <2>2, <2>11, <3>2, <4>2, <5>1, Messages DEF JobFits, Fits, Taking, Terminal
        <5>4. QED
          BY <5>1, <5>2, <5>3
      <4>3. QED
        BY <3>1, <4>1, <4>2 DEF HandleStart
    <3>5. QED
      BY <2>7, <3>2, <3>3, <3>4
  <2>12. CASE pending.op = "fill" /\ up
    <3>1. HandleFill(pending.pts)
      BY <1>4, <2>12 DEF HandleHistory
    <3>2. connected => pending # NoRequest
      BY <2>12, Messages
    <3>3. files' = files /\ export' = export
      BY <3>1 DEF HandleFill
    <3>4. connected => phone.op = "fill" /\ phone.waiting
      BY <2>2, <2>12, <3>2
    <3>5. Shape' /\ job' \in JobType /\ (connected => JobFits')
      <4>1. CASE job' = Reply(Msg("error"))
        BY <2>5, <2>12, <3>2, <4>1, Messages DEF Terminal
      <4>2. CASE export.active /\ job' = [NoJob EXCEPT !.op = "fill", !.todo = pending.pts]
        <5>1. job' \in JobType /\ job'.op = "fill" /\ job'.msg = NoMsg
          BY <2>3, <4>2, Jobs DEF JobType, JobOps
        <5>2. Shape'
          BY <1>1, <1>2, <5>1, Messages DEF Shape, Terminal
        <5>3. connected => JobFits'
          BY <1>1, <1>2, <2>1, <3>3, <3>4, <4>2, <5>1, Messages
             DEF JobFits, Fits, Taking, Terminal, Own, ExportFits
        <5>4. QED
          BY <5>1, <5>2, <5>3
      <4>3. QED
        BY <3>1, <4>1, <4>2 DEF HandleFill
    <3>6. connected => ExportFits'
      BY <1>1, <1>2, <3>3, <3>4, ExportKept DEF Own
    <3>7. PendingFits'
      BY <2>1 DEF PendingFits
    <3>8. QED
      BY <1>1, <2>3, <2>4, <3>2, <3>3, <3>5, <3>6, <3>7, JobInv
  <2>13. CASE pending.op = "delete" /\ up
    <3>1. HandleDelete(pending.session)
      BY <1>4, <2>13 DEF HandleHistory
    <3>2. connected => pending # NoRequest
      BY <2>13, Messages
    <3>3. files' \subseteq files /\ export' \in {export, NoExport}
      BY <3>1 DEF HandleDelete
    <3>4. job' = Reply(Msg("error")) \/ job' = Reply(Msg("deleted"))
      BY <3>1 DEF HandleDelete
    <3>5. Shape' /\ job' \in JobType /\ (connected => JobFits')
      BY <2>5, <2>13, <3>2, <3>4, Messages DEF Terminal
    <3>6. connected => phone.op = "delete"
      BY <2>2, <2>13, <3>2
    <3>7. connected => ExportFits'
      BY <1>1, <1>2, <2>6, <3>3, <3>6, ExportKept DEF Own
    <3>8. PendingFits'
      BY <2>1 DEF PendingFits
    <3>9. QED
      BY <1>1, <2>3, <2>4, <2>6, <3>2, <3>3, <3>5, <3>7, <3>8, JobInv
  <2>14. pending.op \in Ops
    BY <1>2 DEF TransferTypeOK
  <2>15. QED
    BY <2>8, <2>9, <2>10, <2>11, <2>12, <2>13, <2>14 DEF Ops
<1>5. QED
  BY <1>3, <1>4 DEF Dispatch

-----------------------------------------------------------------------------
(* A step of a loop: only what the job says and sends changes, and what it *)
(* sends fits.                                                             *)
LEMMA LoopInv ==
  ASSUME TransferInv, job # NoJob,
         UNCHANGED <<files, up, connected, pending, air, phone>>,
         job' \in JobType, Shape',
         export' = export
           \/ (export' \in [active: BOOLEAN, session: Nat] /\ export'.active = FALSE),
         connected => JobFits'
  PROVE  TransferInv'
<1>1. export \in [active: BOOLEAN, session: Nat]
      /\ pending \in [op: Ops, session: Nat, pts: Seq(Nat)]
  BY DEF TransferInv, TransferTypeOK
<1>2. ASSUME connected PROVE PendingFits' /\ ExportFits'
  <2>1. Own
    BY <1>2 DEF TransferInv
  <2>2. PendingFits'
    BY <2>1 DEF Own, PendingFits
  <2>3. ExportFits'
    <3>1. ExportFits
      BY <2>1 DEF Own
    <3>2. export'.active => export' = export
      BY <1>1
    <3>3. /\ export'.active => phone.session \in {0, export'.session}
          /\ Taking' /\ phone.op = "start" /\ export'.active => export'.session = phone.asked
      BY <3>1, <3>2 DEF ExportFits, Taking
    <3>4. QED
      BY <3>1, <3>3 DEF ExportFits
  <2>4. QED
    BY <2>2, <2>3
<1>3. QED
  BY <1>1, <1>2, JobInv

LEMMA ActivateExportInv ==
  ASSUME TransferInv, ActivateExport
  PROVE  TransferInv'
<1>1. /\ job.op = "activate" /\ UNCHANGED <<files, up, connected, pending, air, phone>>
      /\ export' = [export EXCEPT !.active = TRUE]
  BY DEF ActivateExport
<1>2. TransferTypeOK /\ Shape /\ job \in JobType
  BY DEF TransferInv, TransferTypeOK, JobType
<1>3. job # NoJob
  BY <1>1, Jobs
<1>4. /\ export' \in [active: BOOLEAN, session: Nat] /\ export'.active
      /\ export'.session = export.session
  BY <1>1, <1>2 DEF TransferTypeOK
<1>5. /\ job' \in JobType /\ job'.op = "start" /\ job'.msg.type = "started"
      /\ job'.session = job.session
  <2> DEFINE m == [Msg("started") EXCEPT !.session = job.session, !.n = Points]
  <2>1. m \in Message /\ m.type = "started"
    BY <1>2, Messages, HistoryNumbers DEF Message, JobType, Terminal
  <2>2. job' = [job EXCEPT !.op = "start", !.todo = Offsets, !.msg = m]
    BY DEF ActivateExport
  <2> HIDE DEF m
  <2>3. QED
    BY <1>2, <2>1, <2>2, TodoType DEF JobType, JobOps
<1>6. Shape'
  BY <1>1, <1>2, <1>5 DEF Shape, Terminal
<1>7. ASSUME connected PROVE JobFits' /\ PendingFits' /\ ExportFits'
  <2>1. Own
    BY <1>7 DEF TransferInv
  <2>2. Taking /\ phone.op = "start" /\ job.session = phone.asked /\ export.session = phone.asked
    BY <1>1, <2>1 DEF Own, JobFits
  <2>3. Taking'
    BY <1>1, <2>2 DEF Taking
  <2>4. JobFits'
    BY <1>1, <1>5, <2>2, <2>3 DEF JobFits, Fits, Terminal
  <2>5. PendingFits'
    BY <1>1, <2>1 DEF Own, PendingFits
  <2>6. ExportFits'
    <3>1. phone.waiting /\ phone.session \in {0, phone.asked} /\ phone.op # "none"
      BY <2>1, <2>2 DEF Own, ExportFits, Taking
    <3>2. QED
      BY <1>1, <1>4, <2>2, <3>1 DEF ExportFits
  <2>7. QED
    BY <2>4, <2>5, <2>6
<1>8. files' \subseteq files /\ pending' \in [op: Ops, session: Nat, pts: Seq(Nat)]
  BY <1>1, <1>2 DEF TransferTypeOK
<1>9. QED
  BY <1>1, <1>3, <1>4, <1>5, <1>6, <1>7, <1>8, JobInv

LEMMA SendingType ==
  ASSUME TransferTypeOK, NEW msg \in Message, NEW n \in Nat, Sending(msg, n), job.todo # <<>>
  PROVE  /\ job' \in JobType /\ job'.msg = msg
         /\ job'.op = job.op /\ job'.session = job.session
<1>1. job \in JobType
  BY DEF TransferTypeOK, JobType
<1>2. Tail(job.todo) \in Seq(Nat) /\ job.sent + n \in Nat
  BY <1>1 DEF JobType
<1>3. QED
  BY <1>1, <1>2 DEF Sending, JobType

LEMMA TurnInv ==
  ASSUME TransferInv, Turn, Points <= IndexRange
  PROVE  TransferInv'
<1> DEFINE i == Head(job.todo)
           s == IF job.op = "fill" THEN export.session ELSE job.session
           n == IF job.op = "fill" THEN 1 ELSE Batch
           read == Read(s, i, n)
<1>1. /\ Looping /\ job.todo # <<>> /\ connected
      /\ UNCHANGED <<files, up, connected, export, pending, air, phone>>
  BY DEF Turn
<1>2. TransferTypeOK /\ Shape /\ Own /\ job \in JobType
  BY <1>1 DEF TransferInv, TransferTypeOK, JobType
<1>3. job.op \in {"list", "start", "fill"} /\ job # NoJob
  BY <1>1, Jobs DEF Looping
<1>4. i \in Nat /\ s \in Nat /\ n \in Nat \ {0}
  BY <1>1, <1>2, HistoryNumbers DEF JobType, TransferTypeOK
<1>5. /\ read \in Seq(Nat \X Nat) /\ Binary(i, read) \in Message
      /\ Binary(i, read).type = "points" /\ Indexed(Binary(i, read), s)
  BY <1>4, BinaryType
<1>6. \/ job.op = "list" /\ Sending(Msg("sessions"), 0)
      \/ job.op # "list" /\ Sending(NoMsg, 0)
      \/ job.op # "list" /\ Sending(Binary(i, read), Len(read))
  BY DEF Turn
<1> HIDE DEF i, s, n, read
<1>7. PICK m \in Message :
         /\ job' \in JobType /\ job'.msg = m /\ job'.op = job.op /\ job'.session = job.session
         /\ job.op = "list" => m.type = "sessions"
         /\ job.op # "list" => m = NoMsg \/ (m.type = "points" /\ Indexed(m, s))
  <2>1. CASE job.op = "list" /\ Sending(Msg("sessions"), 0)
    BY <1>1, <1>2, <2>1, Messages, SendingType
  <2>2. CASE job.op # "list" /\ Sending(NoMsg, 0)
    BY <1>1, <1>2, <2>2, Messages, SendingType
  <2>3. CASE job.op # "list" /\ Sending(Binary(i, read), Len(read))
    <3>1. Len(read) \in Nat
      BY <1>5
    <3>2. QED
      BY <1>1, <1>2, <1>5, <2>3, <3>1, SendingType
  <2>4. QED
    BY <1>6, <2>1, <2>2, <2>3
<1>8. Shape'
  BY <1>1, <1>2, <1>3, <1>7, Messages DEF Shape, Terminal
<1>9. JobFits'
  <2>1. JobFits /\ ExportFits
    BY <1>2 DEF Own
  <2>2. Taking' = Taking
    BY <1>1 DEF Taking
  <2>3. CASE job.op = "list"
    BY <1>7, <2>3 DEF JobFits, Fits, Terminal
  <2>4. CASE job.op = "start"
    <3>1. Taking /\ phone.op = "start" /\ job.session = phone.asked /\ s = job.session
      BY <2>1, <2>4 DEF JobFits, s
    <3>2. phone.session \in {0, phone.asked}
      BY <2>1, <3>1 DEF ExportFits, Taking
    <3>3. m = NoMsg \/ (m.type = "points" /\ Indexed(m, phone.asked))
      BY <1>7, <2>4, <3>1
    <3>4. Fits(m)'
      BY <1>1, <2>2, <3>1, <3>2, <3>3, Messages DEF Fits, Terminal, Indexed
    <3>5. QED
      BY <1>1, <1>7, <2>2, <2>4, <3>1, <3>4 DEF JobFits
  <2>5. CASE job.op = "fill"
    <3>1. Taking /\ phone.op = "fill" /\ phone.session \in {0, s}
      BY <2>1, <2>5 DEF JobFits, s
    <3>2. m = NoMsg \/ (m.type = "points" /\ Indexed(m, s))
      BY <1>7, <2>5
    <3>3. Fits(m)'
      BY <1>1, <2>2, <3>1, <3>2, Messages DEF Fits, Terminal, Indexed
    <3>4. phone'.session \in {0, export'.session}
      BY <1>1, <2>5, <3>1 DEF s
    <3>5. QED
      BY <1>1, <1>7, <2>2, <2>5, <3>1, <3>3, <3>4 DEF JobFits
  <2>6. QED
    BY <1>3, <2>3, <2>4, <2>5
<1>10. QED
  BY <1>1, <1>3, <1>7, <1>8, <1>9, LoopInv

(* A reply that ends a stream or a fill. *)
LEMMA ReplyFits ==
  ASSUME TransferInv, job.op \in {"start", "fill"}, NEW m \in Message, m.type \in Terminal,
         job' = Reply(m), UNCHANGED <<up, connected, pending, air, phone>>
  PROVE  job' \in JobType /\ Shape' /\ (connected => JobFits')
<1>1. job' \in JobType /\ job'.op = "reply" /\ job'.msg = m
  BY Jobs
<1>2. Shape'
  BY <1>1 DEF TransferInv, Shape, Terminal
<1>3. ASSUME connected PROVE JobFits'
  <2>1. Taking /\ phone.op \in {"start", "fill"}
    BY <1>3 DEF TransferInv, Own, JobFits
  <2>2. Taking'
    BY <2>1 DEF Taking
  <2>3. QED
    BY <1>1, <2>1, <2>2 DEF JobFits, Fits, Terminal
<1>4. QED
  BY <1>1, <1>2, <1>3

(* A loop that goes on without sending. *)
LEMMA SilentFits ==
  ASSUME TransferInv, job.op # "reply", job' \in JobType, job'.op = job.op,
         job'.session = job.session, job'.msg = NoMsg, job.op # "none",
         UNCHANGED <<up, connected, export, pending, air, phone>>
  PROVE  Shape' /\ (connected => JobFits')
<1>1. Shape'
  BY Messages DEF TransferInv, Shape, Terminal
<1>2. ASSUME connected PROVE JobFits'
  BY <1>2, Messages DEF TransferInv, Own, JobFits, Fits, Taking, Terminal
<1>3. QED
  BY <1>1, <1>2

LEMMA ReadErrorInv ==
  ASSUME TransferInv, ReadError
  PROVE  TransferInv'
<1>1. /\ job.todo # <<>> /\ UNCHANGED <<files, up, connected, pending, air, phone>>
      /\ TransferTypeOK
  BY DEF ReadError, TransferInv
<1>2. CASE /\ job.op = "start" /\ job' = Reply(Msg("error"))
           /\ export' = [export EXCEPT !.active = FALSE]
  <2>1. export' \in [active: BOOLEAN, session: Nat] /\ export'.active = FALSE
    BY <1>1, <1>2 DEF TransferTypeOK
  <2>2. job' \in JobType /\ Shape' /\ (connected => JobFits') /\ job # NoJob
    BY <1>1, <1>2, Messages, Jobs, ReplyFits DEF Terminal
  <2>3. QED
    BY <1>1, <2>1, <2>2, LoopInv
<1>3. CASE job.op = "fill" /\ Sending(NoMsg, 0) /\ UNCHANGED export
  <2>1. /\ job' \in JobType /\ job'.op = job.op /\ job'.session = job.session
        /\ job'.msg = NoMsg /\ job # NoJob
    BY <1>1, <1>3, Messages, Jobs, SendingType
  <2>2. Shape' /\ (connected => JobFits')
    BY <1>1, <1>3, <2>1, SilentFits
  <2>3. QED
    BY <1>1, <1>3, <2>1, <2>2, LoopInv
<1>4. QED
  BY <1>2, <1>3 DEF ReadError

LEMMA LeaveLoopInv ==
  ASSUME TransferInv, LeaveLoop
  PROVE  TransferInv'
<1>1. /\ job.op \in {"list", "start", "fill"} /\ job.msg = NoMsg
      /\ job' = [job EXCEPT !.todo = <<>>]
      /\ UNCHANGED <<files, up, connected, export, pending, air, phone>>
  BY DEF LeaveLoop, Looping
<1>2. job \in JobType /\ <<>> \in Seq(Nat)
  BY DEF TransferInv, TransferTypeOK, JobType
<1>3. /\ job' \in JobType /\ job'.op = job.op /\ job'.session = job.session /\ job'.msg = NoMsg
      /\ job # NoJob
  BY <1>1, <1>2, Jobs DEF JobType
<1>4. Shape' /\ (connected => JobFits')
  BY <1>1, <1>3, SilentFits
<1>5. QED
  BY <1>1, <1>3, <1>4, LoopInv

LEMMA EndLoopInv ==
  ASSUME TransferInv, EndLoop
  PROVE  TransferInv'
<1>1. /\ job.op \in {"list", "start", "fill"} /\ job # NoJob
      /\ UNCHANGED <<files, up, connected, export, pending, air, phone>>
  BY Jobs DEF EndLoop, Looping
<1>2. CASE job.op = "list" /\ job' = NoJob
  <2>1. job' \in JobType /\ job'.op = "none" /\ job'.msg = NoMsg
    BY <1>2, Jobs
  <2>2. Shape'
    BY <1>1, <1>2, <2>1, Messages DEF TransferInv, Shape, Terminal
  <2>3. JobFits'
    BY <2>1, Messages DEF JobFits, Fits, Terminal
  <2>4. QED
    BY <1>1, <2>1, <2>2, <2>3, LoopInv
<1>3. CASE job.op # "list" /\ job' = Reply([Msg("done") EXCEPT !.n = job.sent])
  <2> DEFINE m == [Msg("done") EXCEPT !.n = job.sent]
  <2>1. job.sent \in Nat
    BY DEF TransferInv, TransferTypeOK
  <2>2. m \in Message /\ m.type = "done"
    BY <2>1, Messages DEF Message, Terminal
  <2> HIDE DEF m
  <2>3. job' = Reply(m)
    BY <1>3 DEF m
  <2>4. job' \in JobType /\ Shape' /\ (connected => JobFits')
    BY <1>1, <1>3, <2>2, <2>3, ReplyFits DEF Terminal
  <2>5. QED
    BY <1>1, <2>4, LoopInv
<1>4. QED
  BY <1>2, <1>3 DEF EndLoop

-----------------------------------------------------------------------------
(* Messages that end nothing fit whatever the phone waits for. *)
LEMMA QuietMessageFits ==
  ASSUME NEW m, m.type \notin Terminal \cup {"started", "points"}
  PROVE  Fits(m) /\ Fits(m)'
BY DEF Fits

LEMMA NotifyInv ==
  ASSUME TransferInv, Notify
  PROVE  TransferInv'
<1>1. /\ job.msg # NoMsg
      /\ air' = IF connected THEN Append(air, job.msg) ELSE air
      /\ job' = IF job.op = "reply" THEN NoJob ELSE [job EXCEPT !.msg = NoMsg]
      /\ UNCHANGED <<files, up, connected, export, pending, phone>>
  BY DEF Notify
<1>2. TransferTypeOK /\ Shape /\ job \in JobType
  BY DEF TransferInv, TransferTypeOK, JobType
<1>3. job # NoJob /\ job.op \notin {"none", "activate"}
  BY <1>1, <1>2, Jobs DEF Shape
<1>4. job' \in JobType /\ job'.msg = NoMsg
  BY <1>1, <1>2, Messages, Jobs DEF JobType
<1>5. \/ job.op = "reply" /\ job' = NoJob
      \/ job.op # "reply" /\ job'.op = job.op /\ job'.session = job.session
  BY <1>1, <1>2 DEF JobType
<1>6. job.msg \in Message /\ air' \in Seq(Message)
  BY <1>1, <1>2 DEF TransferTypeOK, JobType
<1>7. TransferTypeOK'
  BY <1>1, <1>2, <1>4, <1>6 DEF TransferTypeOK, JobType
<1>8. Shape'
  <2>1. ~connected => air' = <<>>
    BY <1>1, <1>2 DEF Shape
  <2>2. CASE job' = NoJob
    BY <1>1, <1>2, <1>4, <2>1, <2>2, Jobs, Messages DEF Shape, Terminal
  <2>3. CASE job.op # "reply" /\ job'.op = job.op
    BY <1>1, <1>2, <1>3, <1>4, <2>1, <2>3, Messages DEF Shape, Terminal
  <2>4. QED
    BY <1>5, <2>2, <2>3
<1>9. HoldsStoredPoints'
  BY <1>1 DEF TransferInv, HoldsStoredPoints
<1>10. ASSUME connected PROVE Own'
  <2>1. Own /\ Taking' = Taking
    BY <1>1, <1>10 DEF TransferInv, Taking
  <2>2. PendingFits' /\ ExportFits'
    BY <1>1, <2>1 DEF Own, PendingFits, ExportFits
  <2>3. JobFits'
    <3>1. CASE job' = NoJob
      BY <3>1, Jobs, Messages DEF JobFits, Fits, Terminal
    <3>2. CASE job'.op = job.op /\ job'.session = job.session
      BY <1>1, <1>3, <1>4, <2>1, <3>2, Messages DEF Own, JobFits, Fits, Terminal
    <3>3. QED
      BY <1>5, <3>1, <3>2
  <2>4. AirFits'
    <3>1. air \in Seq(Message) /\ air' = Append(air, job.msg)
      BY <1>1, <1>2, <1>10 DEF TransferTypeOK
    <3>2. Len(air') = Len(air) + 1
      BY <3>1
    <3>3. ASSUME NEW j \in 1 .. Len(air)
          PROVE  air'[j] = air[j] /\ Fits(air[j])' /\ air'[j].type \notin Terminal
      <4>1. air'[j] = air[j]
        BY <3>1
      <4>2. Fits(air[j]) /\ air[j].type \notin Terminal
        BY <1>3, <2>1 DEF Own, AirFits
      <4>3. Fits(air[j])'
        BY <1>1, <2>1, <4>1, <4>2 DEF Fits, Indexed
      <4>4. QED
        BY <4>1, <4>2, <4>3
    <3>4. ASSUME NEW j, j = Len(air')
          PROVE  Fits(air[j])' /\ (air'[j].type \in Terminal => job' = NoJob)
      <4>1. air'[j] = job.msg
        BY <3>1, <3>2, <3>4
      <4>2. Fits(job.msg)
        BY <2>1 DEF Own, JobFits
      <4>3. job.msg.type \in Terminal => job' = NoJob
        BY <1>2, <1>5 DEF Shape
      <4>4. Fits(air[j])'
        BY <1>1, <2>1, <4>1, <4>2 DEF Fits, Indexed
      <4>5. QED
        BY <4>1, <4>3, <4>4
    <3>5. \A j \in 1 .. Len(air') : j \in 1 .. Len(air) \/ j = Len(air')
      BY <3>1, <3>2
    <3>6. QED
      BY <3>3, <3>4, <3>5 DEF AirFits
  <2>5. QED
    BY <2>2, <2>3, <2>4 DEF Own
<1>11. QED
  BY <1>1, <1>7, <1>8, <1>9, <1>10 DEF TransferInv

(* The requests of the phone. *)
LEMMA FillType ==
  ASSUME TransferTypeOK, NEW pts \in InOrder(Gaps)
  PROVE  pts \in Seq(Nat)
<1>1. phone.total \in Nat /\ Gaps \subseteq 0 .. phone.total - 1
  BY DEF TransferTypeOK, Gaps
<1>2. IsFiniteSet(0 .. phone.total - 1)
  BY <1>1, FS_Interval
<1>3. IsFiniteSet(Gaps) /\ Cardinality(Gaps) \in Nat
  BY <1>1, <1>2, FS_Subset, FS_CardinalityType
<1>4. pts \in [1 .. Cardinality(Gaps) -> Gaps]
  BY DEF InOrder
<1>5. \A i \in Gaps : i \in Nat
  BY <1>1
<1>6. pts \in [1 .. Cardinality(Gaps) -> Nat]
  BY <1>4, <1>5
<1>7. QED
  BY <1>3, <1>6

LEMMA WriteInv ==
  ASSUME TransferInv, NEW r \in [op: Ops, session: Nat, pts: Seq(Nat)], r.op # "none", Write(r)
  PROVE  TransferInv'
<1>1. /\ phone.here /\ ~phone.waiting /\ connected /\ pending' = r
      /\ UNCHANGED <<files, up, connected, export, job, air>>
  BY DEF Write, OnHistoryWrite, device
<1>2. TransferTypeOK /\ Shape /\ Own /\ HoldsStoredPoints
  BY <1>1 DEF TransferInv
<1>3. /\ DOMAIN phone' = PhoneFields /\ phone'.here = phone.here /\ phone'.waiting = TRUE
      /\ phone'.op = r.op /\ phone'.total = phone.total
      /\ phone'.asked = IF r.op = "start" THEN r.session ELSE phone.asked
      /\ phone'.session = IF r.op = "start" THEN 0 ELSE phone.session
      /\ phone'.got = IF r.op = "start" THEN <<>> ELSE phone.got
  <2>1. DOMAIN phone = PhoneFields
    BY <1>2 DEF TransferTypeOK
  <2>2. phone' = [phone EXCEPT !.waiting = TRUE, !.op = r.op, !.since = Mishaps,
                     !.asked = IF r.op = "start" THEN r.session ELSE @,
                     !.session = IF r.op = "start" THEN 0 ELSE @,
                     !.got = IF r.op = "start" THEN <<>> ELSE @]
    BY DEF Write
  <2>3. QED
    BY <2>1, <2>2 DEF PhoneFields
<1>4. TransferTypeOK'
  BY <1>1, <1>2, <1>3 DEF TransferTypeOK
<1>5. Shape'
  BY <1>1, <1>2 DEF Shape
<1>6. HoldsStoredPoints'
  <2>1. CASE r.op = "start"
    BY <1>3, <2>1 DEF HoldsStoredPoints
  <2>2. CASE r.op # "start"
    BY <1>2, <1>3, <2>2 DEF HoldsStoredPoints
  <2>3. QED
    BY <2>1, <2>2
<1>7. ~Taking /\ pending' # NoRequest
  BY <1>1, Messages DEF Taking
<1>8. JobFits'
  <2>1. job.op \notin {"activate", "start", "fill"}
    BY <1>2, <1>7 DEF Own, JobFits
  <2>2. job.msg.type \notin Terminal \cup {"started", "points"}
    BY <1>2, <1>7 DEF Own, JobFits, Fits
  <2>3. QED
    BY <1>1, <2>1, <2>2, QuietMessageFits DEF JobFits
<1>9. AirFits'
  <2> SUFFICES ASSUME NEW j \in 1 .. Len(air)
               PROVE  Fits(air[j])' /\ air[j].type \notin Terminal
    BY <1>1 DEF AirFits
  <2>1. Fits(air[j])
    BY <1>2 DEF Own, AirFits
  <2>2. air[j].type \notin Terminal \cup {"started", "points"}
    BY <1>7, <2>1 DEF Fits
  <2>3. QED
    BY <1>1, <2>2 DEF Fits
<1>10. PendingFits'
  BY <1>1, <1>3 DEF PendingFits
<1>11. ExportFits'
  BY <1>1, <1>2, <1>3, <1>7 DEF ExportFits, Own, Taking
<1>12. QED
  BY <1>1, <1>4, <1>5, <1>6, <1>8, <1>9, <1>10, <1>11 DEF TransferInv, Own

LEMMA AskInv ==
  ASSUME TransferInv, Ask
  PROVE  TransferInv'
<1> DEFINE R == [op: Ops, session: Nat, pts: Seq(Nat)]
<1>1. ASSUME NEW op \in Ops, NEW s \in Nat, NEW pts \in Seq(Nat)
      PROVE  Request(op, s, pts) \in R /\ Request(op, s, pts).op = op
  BY DEF Request
<1>2. \E r \in R : r.op # "none" /\ Write(r)
  <2>1. <<>> \in Seq(Nat) /\ <<0>> \in Seq(Nat) /\ Sessions \subseteq Nat
        /\ {"list", "end", "start", "delete", "fill"} \subseteq Ops
    BY HistoryNumbers DEF Ops
  <2>2. CASE Write(Request("list", 0, <<>>)) \/ Write(Request("end", 0, <<>>))
    BY <1>1, <2>1, <2>2
  <2>3. CASE \E s \in Sessions : Write(Request("start", s, <<>>)) \/ Write(Request("delete", s, <<>>))
    BY <1>1, <2>1, <2>3
  <2>4. CASE \E pts \in InOrder(Gaps) : Write(Request("fill", 0, pts))
    BY <1>1, <2>1, <2>4, FillType DEF TransferInv
  <2>5. CASE Write(Request("fill", 0, <<0>>))
    BY <1>1, <2>1, <2>5
  <2>6. QED
    BY <2>2, <2>3, <2>4, <2>5 DEF Ask
<1>3. QED
  BY <1>2, WriteInv

-----------------------------------------------------------------------------
(* The air loses its first message, and the phone has made of it what it   *)
(* can: what remains fits if it fits the phone as it is now.               *)
LEMMA TailAir ==
  ASSUME TransferTypeOK, air # <<>>, air' = Tail(air)
  PROVE  /\ Head(air) = air[1] /\ air[1] \in Message /\ 1 \in 1 .. Len(air)
         /\ air' \in Seq(Message) /\ Len(air') = Len(air) - 1
         /\ \A j \in 1 .. Len(air') : air'[j] = air[j + 1] /\ j + 1 \in 1 .. Len(air)
BY DEF TransferTypeOK

LEMMA TailAirFits ==
  ASSUME TransferTypeOK, AirFits, air # <<>>, air' = Tail(air), job' = job,
         \A m \in Message : Fits(m) => Fits(m)'
  PROVE  AirFits'
<1> USE TailAir
<1>1. ASSUME NEW j \in 1 .. Len(air')
      PROVE  Fits(air[j])' /\ (air'[j].type \in Terminal => j = Len(air') /\ job' = NoJob)
  <2>1. air'[j] = air[j + 1] /\ j + 1 \in 1 .. Len(air)
    OBVIOUS
  <2>2. Fits(air[j + 1]) /\ (air[j + 1].type \in Terminal => j + 1 = Len(air) /\ job = NoJob)
    BY <2>1 DEF AirFits
  <2>3. PICK m \in Message : m = air[j + 1]
    BY <2>1 DEF TransferTypeOK
  <2>4. Fits(m)'
    BY <2>2, <2>3
  <2>5. Fits(air[j])'
    BY <2>1, <2>3, <2>4 DEF Fits
  <2>6. QED
    BY <2>1, <2>2, <2>5 DEF TransferTypeOK
<1>2. QED
  BY <1>1 DEF AirFits

LEMMA LoseInv ==
  ASSUME TransferInv, Lose
  PROVE  TransferInv'
<1>1. /\ air # <<>> /\ air' = Tail(air)
      /\ UNCHANGED <<files, up, connected, export, pending, job, phone>>
  BY DEF Lose, device
<1>2. TransferTypeOK /\ Shape
  BY DEF TransferInv
<1>3. connected
  BY <1>1, <1>2 DEF Shape, TransferTypeOK
<1>4. Own
  BY <1>3 DEF TransferInv
<1>5. TransferTypeOK'
  BY <1>1, <1>2, TailAir DEF TransferTypeOK
<1>6. Shape'
  BY <1>1, <1>2, <1>3 DEF Shape
<1>7. HoldsStoredPoints'
  BY <1>1 DEF TransferInv, HoldsStoredPoints
<1>8. \A m \in Message : Fits(m) => Fits(m)'
  BY <1>1 DEF Fits, Taking, Indexed
<1>9. AirFits'
  BY <1>1, <1>2, <1>4, <1>8, TailAirFits DEF Own
<1>10. JobFits' /\ PendingFits' /\ ExportFits'
  BY <1>1, <1>4 DEF Own, JobFits, PendingFits, ExportFits, Fits, Taking, Indexed
<1>11. QED
  BY <1>5, <1>6, <1>7, <1>9, <1>10 DEF TransferInv, Own

(* What the phone makes of a message: a start it has asked for, points to  *)
(* file, the end of its request, or nothing.                               *)
LEMMA DeliverCases ==
  ASSUME TransferInv, Deliver
  PROVE  \E m \in Message :
           /\ m = air[1] /\ Fits(m) /\ (m.type \in Terminal => Len(air) = 1 /\ job = NoJob)
           /\ \/ /\ m.type = "started" /\ phone.waiting /\ phone.op = "start"
                 /\ m.session = phone.asked
                 /\ phone' = [phone EXCEPT !.session = m.session, !.total = m.n, !.got = <<>>]
              \/ /\ m.type = "points" /\ phone.session # 0
                 /\ phone' = [phone EXCEPT !.got =
                      [i \in Filed(m) \cup DOMAIN @ |->
                         IF i \in Filed(m) THEN m.points[i - m.first + 1] ELSE @[i]]]
              \/ /\ phone.waiting /\ Answers(m) /\ m.type \notin {"started", "points"}
                 /\ phone' = [phone EXCEPT !.waiting = FALSE,
                               !.op = IF m.type = "error" THEN "none" ELSE @]
              \/ /\ phone' = phone /\ m.type # "error"
                 /\ m.type = "started" => m.session # phone.asked
                 /\ m.type = "points" => phone.session = 0
<1>1. /\ air # <<>> /\ TransferTypeOK /\ Shape /\ Own
  BY DEF Deliver, TransferInv, Shape, TransferTypeOK
<1>2. PICK m \in Message : m = air[1] /\ m = Head(air)
  BY <1>1, TailAir DEF Deliver
<1>3. Fits(m) /\ (m.type \in Terminal => Len(air) = 1 /\ job = NoJob)
  <2>1. Fits(air[1]) /\ (air[1].type \in Terminal => 1 = Len(air) /\ job = NoJob)
    BY <1>1, TailAir DEF Own, AirFits, Deliver
  <2>2. QED
    BY <1>2, <2>1
<1>4. phone' =
         CASE m.type = "started" /\ phone.waiting /\ phone.op = "start"
                /\ m.session = phone.asked ->
                [phone EXCEPT !.session = m.session, !.total = m.n, !.got = <<>>]
           [] m.type = "points" /\ phone.session # 0 ->
                [phone EXCEPT !.got =
                    [i \in Filed(m) \cup DOMAIN @ |->
                        IF i \in Filed(m) THEN m.points[i - m.first + 1] ELSE @[i]]]
           [] phone.waiting /\ Answers(m) ->
                [phone EXCEPT !.waiting = FALSE,
                              !.op = IF m.type = "error" THEN "none" ELSE @]
           [] OTHER -> phone
  BY <1>2 DEF Deliver
<1>5. phone.waiting /\ Answers(m) => m.type \notin {"started", "points"}
  BY <1>1 DEF Answers, Answer, Own, ExportFits, TransferTypeOK, Ops
<1>6. /\ m.type = "started" => phone.waiting /\ phone.op = "start"
      /\ m.type = "error" => phone.waiting /\ Answers(m)
  BY <1>3 DEF Fits, Taking, Terminal, Answers
<1>7. QED
  BY <1>2, <1>3, <1>4, <1>5, <1>6

LEMMA DeliverInv ==
  ASSUME TransferInv, Deliver
  PROVE  TransferInv'
<1>1. /\ air # <<>> /\ air' = Tail(air)
      /\ UNCHANGED <<files, up, connected, export, pending, job>>
  BY DEF Deliver, device
<1>2. TransferTypeOK /\ Shape /\ HoldsStoredPoints
  BY DEF TransferInv
<1>3. connected
  BY <1>1, <1>2 DEF Shape, TransferTypeOK
<1>4. JobFits /\ AirFits /\ PendingFits /\ ExportFits
  BY <1>3 DEF TransferInv, Own
<1>5. Shape'
  BY <1>1, <1>2, <1>3 DEF Shape
<1>6. DOMAIN phone = PhoneFields
  BY <1>2 DEF TransferTypeOK
<1>7. ASSUME DOMAIN phone' = PhoneFields, phone'.here = phone.here, phone'.waiting \in BOOLEAN,
             phone'.op \in Ops, phone'.total \in Nat
      PROVE  TransferTypeOK'
  BY <1>1, <1>2, <1>7, TailAir DEF TransferTypeOK
<1>8. PICK m \in Message :
         /\ m = air[1] /\ Fits(m) /\ (m.type \in Terminal => Len(air) = 1 /\ job = NoJob)
         /\ \/ /\ m.type = "started" /\ phone.waiting /\ phone.op = "start"
               /\ m.session = phone.asked
               /\ phone' = [phone EXCEPT !.session = m.session, !.total = m.n, !.got = <<>>]
            \/ /\ m.type = "points" /\ phone.session # 0
               /\ phone' = [phone EXCEPT !.got =
                    [i \in Filed(m) \cup DOMAIN @ |->
                       IF i \in Filed(m) THEN m.points[i - m.first + 1] ELSE @[i]]]
            \/ /\ phone.waiting /\ Answers(m) /\ m.type \notin {"started", "points"}
               /\ phone' = [phone EXCEPT !.waiting = FALSE,
                             !.op = IF m.type = "error" THEN "none" ELSE @]
            \/ phone' = phone
  BY DeliverCases
<1>9. CASE /\ m.type = "started" /\ phone.waiting /\ phone.op = "start"
           /\ m.session = phone.asked
           /\ phone' = [phone EXCEPT !.session = m.session, !.total = m.n, !.got = <<>>]
  <2>1. /\ DOMAIN phone' = PhoneFields /\ phone'.here = phone.here
        /\ phone'.waiting = phone.waiting /\ phone'.op = phone.op
        /\ phone'.asked = phone.asked /\ phone'.session = phone.asked
        /\ phone'.total = m.n /\ phone'.got = <<>>
    BY <1>6, <1>9 DEF PhoneFields
  <2>2. TransferTypeOK'
    BY <1>2, <1>7, <2>1 DEF Message, TransferTypeOK
  <2>3. HoldsStoredPoints'
    BY <2>1 DEF HoldsStoredPoints
  <2>4. Taking /\ Taking' /\ pending = NoRequest /\ phone.op = "start"
    BY <1>1, <1>8, <1>9, <2>1 DEF Fits, Taking
  <2>5. \A x \in Message : Fits(x) => Fits(x)'
    BY <2>1, <2>4 DEF Fits, Indexed
  <2>6. AirFits'
    BY <1>1, <1>2, <1>4, <2>5, TailAirFits
  <2>7. JobFits'
    <3>1. Fits(job.msg)'
      <4>1. PICK x \in Message : x = job.msg
        BY <1>2 DEF TransferTypeOK
      <4>2. Fits(x)'
        BY <1>4, <2>5, <4>1 DEF JobFits
      <4>3. QED
        BY <1>1, <4>1, <4>2 DEF Fits, Indexed
    <3>2. QED
      BY <1>1, <1>4, <2>1, <2>4, <3>1 DEF JobFits
  <2>8. PendingFits'
    BY <1>1, <2>4 DEF PendingFits
  <2>9. ExportFits'
    BY <1>1, <1>4, <2>1, <2>4 DEF ExportFits
  <2>10. QED
    BY <1>5, <2>2, <2>3, <2>6, <2>7, <2>8, <2>9 DEF TransferInv, Own
<1>10. CASE /\ m.type = "points" /\ phone.session # 0
            /\ phone' = [phone EXCEPT !.got =
                 [i \in Filed(m) \cup DOMAIN @ |->
                    IF i \in Filed(m) THEN m.points[i - m.first + 1] ELSE @[i]]]
  <2>1. /\ DOMAIN phone' = PhoneFields /\ phone'.here = phone.here
        /\ phone'.waiting = phone.waiting /\ phone'.op = phone.op
        /\ phone'.asked = phone.asked /\ phone'.session = phone.session
        /\ phone'.total = phone.total
        /\ phone'.got = [i \in Filed(m) \cup DOMAIN phone.got |->
             IF i \in Filed(m) THEN m.points[i - m.first + 1] ELSE phone.got[i]]
    BY <1>6, <1>10 DEF PhoneFields
  <2>2. TransferTypeOK'
    BY <1>2, <1>7, <2>1 DEF TransferTypeOK
  <2>3. HoldsStoredPoints'
    <3>1. Indexed(m, phone.session) /\ m.first \in Nat /\ DOMAIN m.points \subseteq Nat
      BY <1>8, <1>10 DEF Fits, Message
    <3>2. ASSUME NEW i \in Filed(m) PROVE m.points[i - m.first + 1] = <<phone.session, i>>
      <4>1. PICK k \in DOMAIN m.points : i = m.first + k - 1
        BY DEF Filed
      <4>2. i - m.first + 1 = k
        BY <3>1, <4>1
      <4>3. QED
        BY <3>1, <4>1, <4>2 DEF Indexed
    <3>3. ASSUME NEW i \in DOMAIN phone'.got PROVE phone'.got[i] = <<phone'.session, i>>
      BY <1>2, <2>1, <3>2, <3>3 DEF HoldsStoredPoints
    <3>4. QED
      BY <3>3 DEF HoldsStoredPoints
  <2>4. \A x \in Message : Fits(x) => Fits(x)'
    BY <1>1, <2>1 DEF Fits, Taking, Indexed
  <2>5. AirFits'
    BY <1>1, <1>2, <1>4, <2>4, TailAirFits
  <2>6. JobFits' /\ PendingFits' /\ ExportFits'
    BY <1>1, <1>4, <2>1 DEF JobFits, PendingFits, ExportFits, Fits, Taking, Indexed
  <2>7. QED
    BY <1>5, <2>2, <2>3, <2>5, <2>6 DEF TransferInv, Own
<1>11. CASE /\ phone.waiting /\ Answers(m) /\ m.type \notin {"started", "points"}
            /\ phone' = [phone EXCEPT !.waiting = FALSE,
                          !.op = IF m.type = "error" THEN "none" ELSE @]
  <2>1. /\ DOMAIN phone' = PhoneFields /\ phone'.here = phone.here
        /\ phone'.waiting = FALSE /\ phone'.op \in {phone.op, "none"}
        /\ phone'.session = phone.session
        /\ phone'.total = phone.total /\ phone'.got = phone.got
    BY <1>6, <1>11 DEF PhoneFields
  <2>2. TransferTypeOK'
    BY <1>2, <1>7, <2>1 DEF TransferTypeOK, Ops
  <2>3. HoldsStoredPoints'
    BY <1>2, <2>1 DEF HoldsStoredPoints
  <2>4. ~Taking'
    BY <2>1 DEF Taking
  <2>5. ExportFits'
    BY <1>1, <1>4, <2>1, <2>4 DEF ExportFits
  <2>6. CASE m.type \in Terminal
    <3>1. job = NoJob /\ Len(air) = 1 /\ pending = NoRequest
      BY <1>8, <2>6 DEF Fits, Taking
    <3>2. AirFits'
      BY <1>1, <1>2, <3>1, TailAir DEF AirFits
    <3>3. JobFits' /\ PendingFits'
      BY <1>1, <3>1, Jobs, Messages DEF JobFits, PendingFits, Fits, Terminal
    <3>4. QED
      BY <1>5, <2>2, <2>3, <2>5, <3>2, <3>3 DEF TransferInv, Own
  <2>7. CASE m.type \notin Terminal
    <3>1. phone.op = "list"
      BY <1>2, <1>4, <1>11, <2>7 DEF Answers, Answer, Terminal, ExportFits, TransferTypeOK, Ops
    <3>2. \A x : Fits(x) => x.type \notin Terminal \cup {"started", "points"}
      BY <3>1 DEF Fits
    <3>3. AirFits'
      <4>1. \A x \in Message : Fits(x) => Fits(x)'
        BY <3>2, QuietMessageFits
      <4>2. QED
        BY <1>1, <1>2, <1>4, <4>1, TailAirFits
    <3>4. JobFits'
      <4>1. job.op \notin {"activate", "start", "fill"}
        BY <1>4, <3>1 DEF JobFits
      <4>2. job.msg.type \notin Terminal \cup {"started", "points"}
        BY <1>4, <3>2 DEF JobFits
      <4>3. QED
        BY <1>1, <4>1, <4>2 DEF JobFits, Fits
    <3>5. PendingFits'
      BY <1>1, <1>4, <1>11, <2>1, <3>1 DEF PendingFits
    <3>6. QED
      BY <1>5, <2>2, <2>3, <2>5, <3>3, <3>4, <3>5 DEF TransferInv, Own
  <2>8. QED
    BY <2>6, <2>7
<1>12. CASE phone' = phone
  <2>1. TransferTypeOK'
    BY <1>2, <1>7, <1>12 DEF TransferTypeOK
  <2>2. \A x \in Message : Fits(x) => Fits(x)'
    BY <1>1, <1>12 DEF Fits, Taking, Indexed
  <2>3. AirFits'
    BY <1>1, <1>2, <1>4, <2>2, TailAirFits
  <2>4. JobFits' /\ PendingFits' /\ ExportFits'
    BY <1>1, <1>4, <1>12 DEF JobFits, PendingFits, ExportFits, Fits, Taking, Indexed
  <2>5. HoldsStoredPoints'
    BY <1>2, <1>12 DEF HoldsStoredPoints
  <2>6. QED
    BY <1>5, <2>1, <2>3, <2>4, <2>5 DEF TransferInv, Own
<1>13. QED
  BY <1>8, <1>9, <1>10, <1>11, <1>12

LEMMA GiveUpInv ==
  ASSUME TransferInv, GiveUp
  PROVE  TransferInv'
<1>1. /\ phone.waiting /\ air = <<>> /\ job = NoJob /\ pending = NoRequest
      /\ phone' = [phone EXCEPT !.waiting = FALSE, !.op = "none"]
      /\ UNCHANGED <<files, up, connected, export, job, pending, air>>
  BY DEF GiveUp, device
<1>2. TransferTypeOK /\ Shape /\ HoldsStoredPoints
  BY DEF TransferInv
<1>3. /\ DOMAIN phone' = PhoneFields /\ phone'.here = phone.here
      /\ phone'.waiting = FALSE /\ phone'.op = "none" /\ phone'.session = phone.session
      /\ phone'.total = phone.total /\ phone'.got = phone.got
  BY <1>1, <1>2 DEF TransferTypeOK, PhoneFields
<1>4. connected
  BY <1>1, <1>2, PhoneIsReset DEF Shape
<1>5. Own
  BY <1>4 DEF TransferInv
<1>6. TransferTypeOK'
  BY <1>1, <1>2, <1>3 DEF TransferTypeOK, Ops
<1>7. Shape'
  BY <1>1, <1>2, <1>4 DEF Shape
<1>8. HoldsStoredPoints'
  BY <1>2, <1>3 DEF HoldsStoredPoints
<1>9. JobFits'
  BY <1>1, Jobs, Messages DEF JobFits, Fits, Terminal
<1>10. AirFits' /\ PendingFits'
  BY <1>1 DEF AirFits, PendingFits
<1>11. ExportFits'
  BY <1>1, <1>3, <1>5 DEF Own, ExportFits, Taking
<1>12. QED
  BY <1>6, <1>7, <1>8, <1>9, <1>10, <1>11 DEF TransferInv, Own

LEMMA TransferInit == HistoryInit => TransferInv
<1> SUFFICES ASSUME HistoryInit PROVE TransferInv
  OBVIOUS
<1>1. /\ files = Sessions /\ up = TRUE /\ connected = FALSE /\ export = NoExport
      /\ pending = NoRequest /\ job = NoJob /\ air = <<>> /\ phone = Phone
  BY DEF HistoryInit
<1>2. NoExport \in [active: BOOLEAN, session: Nat] /\ <<>> \in Seq(Message)
  BY DEF NoExport
<1>3. TransferTypeOK
  <2>1. files \subseteq Sessions /\ up \in BOOLEAN /\ connected \in BOOLEAN
    BY <1>1
  <2>2. /\ export \in [active: BOOLEAN, session: Nat] /\ air \in Seq(Message)
        /\ pending \in [op: Ops, session: Nat, pts: Seq(Nat)]
        /\ job \in [op: JobOps, session: Nat, todo: Seq(Nat), sent: Nat, msg: Message]
    BY <1>1, <1>2, Messages, Jobs DEF JobType
  <2>3. /\ DOMAIN phone = PhoneFields /\ phone.here = FALSE /\ phone.waiting = FALSE
        /\ phone.op = "none" /\ phone.total = 0
    BY <1>1, PhoneIsReset
  <2>4. phone.op \in Ops
    BY <2>3 DEF Ops
  <2>5. phone.total \in Nat
    BY <2>3
  <2>6. phone.here = connected /\ phone.waiting \in BOOLEAN
    BY <1>1, <2>3
  <2>7. QED
    BY <2>1, <2>2, <2>3, <2>4, <2>5, <2>6 DEF TransferTypeOK
<1>4. Shape
  BY <1>1, Jobs, Messages DEF Shape, Terminal
<1>5. HoldsStoredPoints
  BY <1>1, PhoneIsReset DEF HoldsStoredPoints
<1>6. QED
  BY <1>1, <1>3, <1>4, <1>5 DEF TransferInv

LEMMA TransferStep ==
  ASSUME TransferInv, [HistoryNext]_historyVars, [QuietConnect]_historyVars, Points <= IndexRange
  PROVE  TransferInv'
<1>1. CASE UNCHANGED historyVars
  BY <1>1, AloneInv DEF historyVars
<1>2. CASE OnConnect /\ QuietConnect
  BY <1>2, OnConnectInv
<1>3. CASE OnConnect /\ UNCHANGED historyVars
  BY <1>3, AloneInv DEF historyVars
<1>4. CASE OnDisconnect \/ LeaveMode
  BY <1>4, DisconnectInv
<1>5. CASE OtherEvent
  BY <1>5, AloneInv DEF OtherEvent, device
<1>6. CASE Dispatch
  BY <1>6, DispatchInv
<1>7. CASE ActivateExport
  BY <1>7, ActivateExportInv
<1>8. CASE Turn
  BY <1>8, TurnInv
<1>9. CASE ReadError \/ LeaveLoop \/ EndLoop
  BY <1>9, ReadErrorInv, LeaveLoopInv, EndLoopInv
<1>10. CASE Notify
  BY <1>10, NotifyInv
<1>11. CASE Ask
  BY <1>11, AskInv
<1>12. CASE Deliver
  BY <1>12, DeliverInv
<1>13. CASE Lose \/ GiveUp
  BY <1>13, LoseInv, GiveUpInv
<1>14. QED
  BY <1>1, <1>2, <1>3, <1>4, <1>5, <1>6, <1>7, <1>8, <1>9, <1>10, <1>11, <1>12, <1>13 DEF HistoryNext

(* As long as the index of a notification is wide enough for a stored      *)
(* route, and no phone connects while the device still has a request of    *)
(* the phone before it, taken or not: whatever is lost, repeated or cut    *)
(* short, in any number of connections, requests and mode changes, what    *)
(* the phone files under index i of the session it is downloading is       *)
(* point i of that session (handle_history_start, handle_history_fill,     *)
(* on_history_write, on_disconnect).                                       *)
THEOREM PhoneHoldsStoredPoints ==
  ASSUME Points <= IndexRange
  PROVE  HistorySpec /\ QuietConnects => []HoldsStoredPoints
<1>1. HistoryInit => TransferInv
  BY TransferInit
<1>2. TransferInv /\ [HistoryNext]_historyVars /\ [QuietConnect]_historyVars => TransferInv'
  BY TransferStep
<1>3. TransferInv => HoldsStoredPoints
  BY DEF TransferInv
<1>4. QED
  BY <1>1, <1>2, <1>3, PTL DEF HistorySpec, QuietConnects

-----------------------------------------------------------------------------
(* The first connection.  Point i of a download or a fill is covered while *)
(* the phone has it, or it is on the air, about to be sent, or still to be *)
(* read.                                                                   *)
Carries(m, i) == m.type = "points" /\ i \in Filed(m)
Todo(i) ==
  \/ job.op = "activate"
  \/ job.op = "start" /\ \E t \in 1 .. Len(job.todo) : job.todo[t] <= i /\ i < job.todo[t] + Batch
  \/ job.op = "fill" /\ \E t \in 1 .. Len(job.todo) : job.todo[t] = i
Covered(i) ==
  \/ phone.session # 0 /\ i \in DOMAIN phone.got
  \/ \E j \in 1 .. Len(air) : Carries(air[j], i)
  \/ Carries(job.msg, i)
  \/ Todo(i)

(* A download is announced before its first point.  A phone passes over    *)
(* points of a download it has not seen announced.                         *)
Announces(m) == m.type = "started"
Announced ==
  \/ job.op = "activate" \/ Announces(job.msg)
  \/ \E j \in 1 .. Len(air) : Announces(air[j])
AnnouncedFirst ==
  /\ job.op = "activate" \/ Announces(job.msg) =>
       /\ phone.session = 0
       /\ \A j \in 1 .. Len(air) : air[j].type \notin {"started", "points"}
  /\ \A j \in 1 .. Len(air) : Announces(air[j]) =>
       /\ phone.session = 0
       /\ \A k \in 1 .. Len(air) : k < j => air[k].type \notin {"started", "points"}
AnnouncesAsked(m) ==
  Announces(m) => m.session = phone.asked /\ m.session # 0 /\ m.n = Points
AnnouncedAsked ==
  AnnouncesAsked(job.msg) /\ \A j \in 1 .. Len(air) : AnnouncesAsked(air[j])

(* What is downloaded is on the flash, and a download starts anew.         *)
Books ==
  /\ phone.since \in Nat /\ phone.since <= Mishaps
  /\ phone.session # 0 => phone.total = Points
  /\ job.op \in {"activate", "start"} => job.session \in files
  /\ export.active => export.session \in files
  /\ job.op = "fill" => export.active
  /\ phone.waiting /\ phone.op = "start" /\ pending # NoRequest => phone.session = 0
FillAsksGaps ==
  phone.waiting /\ phone.op = "fill" /\ phone.session # 0 /\ pending # NoRequest =>
    \A i \in Gaps : \E t \in 1 .. Len(pending.pts) : pending.pts[t] = i

(* A download or a fill is being answered, and nothing has gone wrong.     *)
Unhurt ==
  /\ Taking /\ phone.op \in {"start", "fill"} /\ Mishaps = phone.since
  /\ phone.op = "fill" => phone.session # 0
  /\ job.msg.type # "error" /\ \A j \in 1 .. Len(air) : air[j].type # "error"
NothingLeft ==
  Unhurt => /\ phone.op = "start" /\ phone.session = 0 => Announced
            /\ \A i \in Indices : Covered(i)
EndsWhole ==
  phone.session # 0 /\ ~phone.waiting /\ phone.op \in {"start", "fill"} /\ Mishaps = phone.since
    => Gaps = {}
Complete ==
  /\ Books /\ AnnouncedFirst /\ AnnouncedAsked
  /\ FillAsksGaps /\ NothingLeft /\ EndsWhole

Counters == {"connections", "requests", "losses", "failures", "others", "modes"}
FirstConnection ==
  /\ used \in [Counters -> Nat] /\ pending.op \in Ops
  /\ used.connections = 0 => /\ ~connected /\ pending = NoRequest
                             /\ job = NoJob /\ export = NoExport
  /\ used.connections <= 1 => TransferInv
  /\ used.connections = 1 /\ connected => Complete

LEMMA UsesCounts ==
  ASSUME used \in [Counters -> Nat], NEW what \in Counters, Uses(what)
  PROVE  /\ used' \in [Counters -> Nat]
         /\ used'.connections = IF what = "connections" THEN used.connections + 1 ELSE used.connections
         /\ Mishaps' = IF what \in {"losses", "failures"} THEN Mishaps + 1 ELSE Mishaps
BY DEF Uses, Counters, Mishaps

LEMMA IncreasingCovers ==
  ASSUME NEW S, S \subseteq Nat, IsFiniteSet(S), NEW pts \in InOrder(S)
  PROVE  \A i \in S : \E t \in 1 .. Len(pts) : pts[t] = i
<1>1. Cardinality(S) \in Nat
  BY FS_CardinalityType
<1>2. /\ pts \in [1 .. Cardinality(S) -> S]
      /\ \A j, k \in DOMAIN pts : j < k => pts[j] < pts[k]
  BY DEF InOrder
<1>3. ASSUME NEW j \in 1 .. Cardinality(S), NEW k \in 1 .. Cardinality(S), pts[j] = pts[k]
      PROVE  j = k
  <2>1. pts[j] \in Nat /\ pts[k] \in Nat
    BY <1>2
  <2>2. ~(j < k) /\ ~(k < j)
    BY <1>2, <1>3, <2>1
  <2>3. QED
    BY <1>1, <2>2
<1>4. pts \in Injection(1 .. Cardinality(S), S)
  BY <1>2, <1>3 DEF Injection, IsInjective
<1>5. Cardinality(1 .. Cardinality(S)) = Cardinality(S)
  BY <1>1, FS_Interval
<1>6. pts \in Surjection(1 .. Cardinality(S), S)
  BY <1>4, <1>5, FS_Injection
<1>7. Len(pts) = Cardinality(S)
  BY <1>1, <1>2
<1>8. QED
  BY <1>6, <1>7 DEF Surjection

LEMMA OffsetsCover ==
  ASSUME NEW i \in Indices
  PROVE  \E t \in 1 .. Len(Offsets) : Offsets[t] <= i /\ i < Offsets[t] + Batch
<1> DEFINE t == i \div Batch + 1
           e == (Points + Batch - 1) \div Batch
<1>1. Points \in Nat \ {0} /\ Batch \in Nat \ {0} /\ i \in Nat /\ i < Points
  BY HistoryNumbers DEF Indices
<1>2. i \div Batch \in Nat /\ (i \div Batch) * Batch <= i /\ i < (i \div Batch) * Batch + Batch
  BY <1>1
<1>3. e \in Nat
  BY <1>1, DivNat
<1>4. t <= e
  <2>1. i <= Points - 1
    BY <1>1
  <2>2. i + Batch <= Points + Batch - 1 /\ i + Batch \in Nat /\ Points + Batch - 1 \in Nat
    BY <1>1, <2>1
  <2>3. (i + Batch) \div Batch = i \div Batch + 1
    BY <1>1
  <2>4. \A a, b \in Nat : a <= b => a \div Batch <= b \div Batch
    BY <1>1
  <2>5. QED
    BY <2>2, <2>3, <2>4
<1>5. Offsets = [k \in 1 .. e |-> (k - 1) * Batch]
  BY DEF Offsets
<1> HIDE DEF e
<1>6. Len(Offsets) = e /\ t \in 1 .. Len(Offsets) /\ Offsets[t] = (t - 1) * Batch
  BY <1>2, <1>3, <1>4, <1>5
<1>7. Offsets[t] = (i \div Batch) * Batch
  BY <1>2, <1>6
<1>8. QED
  BY <1>2, <1>6, <1>7

-----------------------------------------------------------------------------
(* A step of a loop, in which only the job changes, loses nothing if what  *)
(* it no longer has to send it sends now.                                  *)
LEMMA JobComplete ==
  ASSUME TransferInv, connected, Complete,
         UNCHANGED <<files, pending, air, phone, used>>,
         job.msg.type # "error",
         export'.active => export'.session \in files,
         job'.op \in {"activate", "start"} => job'.session \in files,
         job'.op = "fill" => export'.active,
         AnnouncesAsked(job.msg)',
         job'.op = "activate" \/ Announces(job.msg)' => job.op = "activate" \/ Announces(job.msg),
         job.op = "activate" \/ Announces(job.msg) => job'.op = "activate" \/ Announces(job.msg)',
         \A i \in Indices : Carries(job.msg, i) \/ Todo(i) => Carries(job.msg, i)' \/ Todo(i)'
  PROVE  Complete'
<1>1. Mishaps' = Mishaps /\ Taking' = Taking /\ Gaps' = Gaps
  BY DEF Mishaps, Taking, Gaps
<1>2. Books'
  BY <1>1 DEF Complete, Books
<1>3. AnnouncedFirst'
  <2>1. AnnouncedFirst
    BY DEF Complete
  <2>2. job'.op = "activate" \/ Announces(job.msg)' =>
          /\ phone.session = 0
          /\ \A j \in 1 .. Len(air) : air[j].type \notin {"started", "points"}
    BY <2>1 DEF AnnouncedFirst
  <2>3. QED
    BY <2>1, <2>2 DEF AnnouncedFirst, Announces
<1>4. AnnouncedAsked'
  BY DEF Complete, AnnouncedAsked, AnnouncesAsked, Announces
<1>5. FillAsksGaps'
  BY <1>1 DEF Complete, FillAsksGaps
<1>6. EndsWhole'
  BY <1>1 DEF Complete, EndsWhole
<1>7. NothingLeft'
  <2> SUFFICES ASSUME Unhurt'
               PROVE  /\ phone.op = "start" /\ phone.session = 0 => Announced'
                      /\ \A i \in Indices : Covered(i)'
    BY DEF NothingLeft
  <2>1. Unhurt
    BY <1>1 DEF Unhurt
  <2>2. phone.op = "start" /\ phone.session = 0 => Announced'
    <3>1. phone.op = "start" /\ phone.session = 0 => Announced
      BY <2>1 DEF Complete, NothingLeft
    <3>2. QED
      BY <3>1 DEF Announced, Announces
  <2>3. ASSUME NEW i \in Indices PROVE Covered(i)'
    <3>1. Covered(i)
      BY <2>1 DEF Complete, NothingLeft
    <3>2. QED
      BY <3>1 DEF Covered, Carries, Filed
  <2>4. QED
    BY <2>2, <2>3
<1>8. QED
  BY <1>2, <1>3, <1>4, <1>5, <1>6, <1>7 DEF Complete

LEMMA ActivateExportComplete ==
  ASSUME TransferInv, connected, Complete, ActivateExport
  PROVE  Complete'
<1>1. /\ job.op = "activate" /\ UNCHANGED <<files, up, connected, pending, air, phone, used>>
      /\ export' = [export EXCEPT !.active = TRUE]
  BY DEF ActivateExport
<1>2. TransferTypeOK /\ Shape /\ JobFits /\ job \in JobType
  BY DEF TransferInv, Own, TransferTypeOK, JobType
<1>3. /\ job.msg.type = "none" /\ job.session = phone.asked /\ job.session \in files
      /\ export.session = job.session /\ job.session # 0
  <2>1. job.msg.type = "none" /\ job.session = phone.asked /\ export.session = phone.asked
    BY <1>1, <1>2, Messages DEF Shape, JobFits
  <2>2. job.session \in files
    BY <1>1 DEF Complete, Books
  <2>3. QED
    BY <1>2, <2>1, <2>2, HistoryNumbers DEF TransferTypeOK
<1>4. export'.session = job.session
  BY <1>1, <1>2, <1>3 DEF TransferTypeOK
<1>5. /\ job'.op = "start" /\ job'.msg.type = "started" /\ job'.todo = Offsets
      /\ job'.session = job.session /\ job'.msg.session = job.session /\ job'.msg.n = Points
  <2> DEFINE m == [Msg("started") EXCEPT !.session = job.session, !.n = Points]
  <2>1. m.type = "started" /\ m.session = job.session /\ m.n = Points
    BY Messages DEF Message
  <2>2. job' = [job EXCEPT !.op = "start", !.todo = Offsets, !.msg = m]
    BY DEF ActivateExport
  <2> HIDE DEF m
  <2>3. QED
    BY <1>2, <2>1, <2>2 DEF JobType
<1>6. AnnouncesAsked(job.msg)'
  BY <1>1, <1>3, <1>5 DEF AnnouncesAsked
<1>7. \A i \in Indices : Todo(i)'
  BY <1>5, OffsetsCover DEF Todo, Offsets
<1>8. job'.op # "activate" /\ Announces(job.msg)'
  BY <1>5 DEF Announces
<1>9. QED
  BY <1>1, <1>3, <1>4, <1>5, <1>6, <1>7, <1>8, JobComplete

(* Work that a turn takes from the list is done in it. *)
LEMMA TodoTail ==
  ASSUME NEW todo \in Seq(Nat), todo # <<>>
  PROVE  /\ Tail(todo) \in Seq(Nat) /\ Len(Tail(todo)) = Len(todo) - 1 /\ Head(todo) = todo[1]
         /\ \A t \in 1 .. Len(todo) : t = 1 \/ t - 1 \in 1 .. Len(Tail(todo))
         /\ \A t \in 1 .. Len(todo) : t # 1 => Tail(todo)[t - 1] = todo[t]
OBVIOUS

(* A read of a stored session, from an index on, sends the points there.   *)
LEMMA ReadCovers ==
  ASSUME Points <= IndexRange, NEW s \in files, NEW h \in Nat, NEW n \in Nat \ {0},
         NEW i \in Indices, h <= i, i < h + n
  PROVE  Read(s, h, n) # <<>> /\ Carries(Binary(h, Read(s, h, n)), i)
<1> DEFINE e == IF h + n <= Points THEN n ELSE IF h < Points THEN Points - h ELSE 0
           m == Binary(h, Read(s, h, n))
<1>1. /\ e \in Nat /\ e > 0 /\ i - h + 1 \in 1 .. e /\ h < Points
      /\ i \in Nat /\ h + (i - h + 1) - 1 = i
  BY HistoryNumbers DEF Indices
<1>2. Read(s, h, n) = [k \in 1 .. e |-> <<s, h + k - 1>>]
  BY DEF Read
<1> HIDE DEF e
<1>3. h % IndexRange = h
  BY <1>1, HistoryNumbers, ModSmall
<1>4. m.type = "points" /\ m.first = h /\ m.points = Read(s, h, n)
  BY <1>3, Messages DEF Binary, Msg, NoMsg
<1> HIDE DEF m
<1>5. DOMAIN m.points = 1 .. e
  BY <1>2, <1>4
<1>6. i \in Filed(m)
  BY <1>1, <1>4, <1>5 DEF Filed
<1>7. Carries(m, i)
  BY <1>4, <1>6 DEF Carries
<1>8. Read(s, h, n) # <<>>
  <2>1. Len(Read(s, h, n)) = e
    BY <1>1, <1>2
  <2>2. QED
    BY <1>1, <2>1
<1>9. QED
  BY <1>7, <1>8 DEF m

LEMMA TurnComplete ==
  ASSUME TransferInv, connected, Complete, Turn, Points <= IndexRange
  PROVE  Complete'
<1> DEFINE h == Head(job.todo)
           s == IF job.op = "fill" THEN export.session ELSE job.session
           n == IF job.op = "fill" THEN 1 ELSE Batch
           read == Read(s, h, n)
<1>1. /\ job.op \in {"list", "start", "fill"} /\ job.msg = NoMsg /\ job.todo # <<>>
      /\ UNCHANGED <<files, up, connected, export, pending, air, phone, used>>
  BY DEF Turn, Looping
<1>2. TransferTypeOK /\ JobFits /\ job \in JobType /\ job.msg.type = "none"
  BY <1>1, Messages DEF TransferInv, Own, TransferTypeOK, JobType
<1>3. job.todo \in Seq(Nat) /\ h \in Nat /\ n \in Nat \ {0} /\ s \in Nat
  BY <1>1, <1>2, HistoryNumbers DEF JobType, TransferTypeOK
<1>4. \/ job.op = "list" /\ Sending(Msg("sessions"), 0)
      \/ job.op # "list" /\ read = <<>> /\ Sending(NoMsg, 0)
      \/ job.op # "list" /\ read # <<>> /\ Sending(Binary(h, read), Len(read))
  BY DEF Turn
<1> HIDE DEF h, n, s, read
<1>5. /\ job'.op = job.op /\ job'.session = job.session /\ job'.todo = Tail(job.todo)
      /\ job.op = "list" => job'.msg = Msg("sessions")
      /\ job.op # "list" /\ read # <<>> => job'.msg = Binary(h, read)
      /\ job.op # "list" /\ read = <<>> => job'.msg = NoMsg
  BY <1>2, <1>4 DEF Sending, JobType
<1>6. job'.msg.type # "started"
  <2>1. Binary(h, read).type = "points"
    BY <1>3, BinaryType DEF read
  <2>2. Msg("sessions").type = "sessions" /\ NoMsg.type = "none"
    BY Messages
  <2>3. job'.msg \in {Binary(h, read), Msg("sessions"), NoMsg}
    BY <1>5
  <2>4. QED
    BY <2>1, <2>2, <2>3
<1>8. job.op \in {"start", "fill"} => s \in files
  BY DEF Complete, Books, s
<1>7. ASSUME NEW i \in Indices, Carries(job.msg, i) \/ Todo(i)
      PROVE  Carries(job.msg, i)' \/ Todo(i)'
  <2>1. Todo(i) /\ job.op \in {"start", "fill"} /\ i \in Nat
    BY <1>1, <1>2, <1>7 DEF Carries, Todo, Indices
  <2>2. PICK t \in 1 .. Len(job.todo) : job.todo[t] <= i /\ i < job.todo[t] + n
    <3>1. CASE job.op = "start"
      BY <2>1, <3>1 DEF Todo, n
    <3>2. CASE job.op = "fill"
      BY <1>3, <2>1, <3>2 DEF Todo, n
    <3>3. QED
      BY <2>1, <3>1, <3>2
  <2>3. CASE t = 1
    <3>1. h <= i /\ i < h + n
      BY <1>1, <1>3, <2>2, <2>3 DEF h
    <3>2. read # <<>> /\ Carries(Binary(h, read), i)
      BY <1>3, <1>8, <2>1, <3>1, ReadCovers DEF read
    <3>3. job'.msg = Binary(h, read)
      BY <1>5, <2>1, <3>2
    <3>4. QED
      BY <3>2, <3>3 DEF Carries, Filed
  <2>4. CASE t # 1
    <3>1. t - 1 \in 1 .. Len(job'.todo) /\ job'.todo[t - 1] = job.todo[t]
      BY <1>1, <1>3, <1>5, <2>2, <2>4, TodoTail
    <3>2. job.todo[t] \in Nat /\ job'.todo[t - 1] <= i /\ i < job'.todo[t - 1] + n
      BY <1>3, <2>2, <3>1
    <3>3. CASE job.op = "start"
      BY <1>1, <1>5, <3>1, <3>2, <3>3 DEF Todo, n
    <3>4. CASE job.op = "fill"
      <4>1. job'.todo[t - 1] = i
        BY <1>3, <2>1, <3>1, <3>2, <3>4 DEF n
      <4>2. QED
        BY <1>5, <3>1, <3>4, <4>1 DEF Todo
    <3>5. QED
      BY <2>1, <3>3, <3>4
  <2>5. QED
    BY <2>3, <2>4
<1>9. /\ job'.op \in {"activate", "start"} => job'.session \in files
      /\ job'.op = "fill" => export'.active
      /\ export'.active => export'.session \in files
  BY <1>1, <1>5 DEF Complete, Books
<1>10. /\ job.msg.type # "error" /\ AnnouncesAsked(job.msg)'
       /\ ~(job.op = "activate" \/ Announces(job.msg))
       /\ ~(job'.op = "activate" \/ Announces(job.msg)')
  BY <1>1, <1>2, <1>5, <1>6 DEF AnnouncesAsked, Announces
<1>11. QED
  BY <1>1, <1>7, <1>9, <1>10, JobComplete

LEMMA EndLoopComplete ==
  ASSUME TransferInv, connected, Complete, EndLoop
  PROVE  Complete'
<1>1. /\ job.op \in {"list", "start", "fill"} /\ job.msg = NoMsg /\ job.todo = <<>>
      /\ UNCHANGED <<files, up, connected, export, pending, air, phone, used>>
      /\ job' = IF job.op = "list" THEN NoJob ELSE Reply([Msg("done") EXCEPT !.n = job.sent])
  BY DEF EndLoop, Looping
<1>2. job.msg.type = "none" /\ job.sent \in Nat
  BY <1>1, Messages DEF TransferInv, TransferTypeOK
<1>3. job'.op \in {"none", "reply"} /\ job'.msg.type \in {"none", "done"}
  <2> DEFINE m == [Msg("done") EXCEPT !.n = job.sent]
  <2>1. m \in Message /\ m.type = "done"
    <3>1. Msg("done") \in Message /\ Msg("done").type = "done" /\ job.sent \in Nat
      BY <1>2, Messages DEF Terminal
    <3>2. QED
      BY <3>1 DEF Message
  <2> HIDE DEF m
  <2>2. job' = NoJob \/ job' = Reply(m)
    BY <1>1 DEF m
  <2>3. QED
    BY <2>1, <2>2, Jobs, Messages
<1>4. \A i \in Indices : ~Carries(job.msg, i) /\ ~Todo(i)
  BY <1>1, <1>2 DEF Carries, Todo
<1>5. export'.active => export'.session \in files
  BY <1>1 DEF Complete, Books
<1>6. /\ job.msg.type # "error" /\ AnnouncesAsked(job.msg)'
      /\ ~(job.op = "activate" \/ Announces(job.msg))
      /\ ~(job'.op = "activate" \/ Announces(job.msg)')
  BY <1>1, <1>2, <1>3 DEF AnnouncesAsked, Announces
<1>7. QED
  BY <1>1, <1>3, <1>4, <1>5, <1>6, JobComplete

(* A step in which something is lost or cannot be read: the phone may ask  *)
(* for what is missing, and until then nothing is promised.                *)
LEMMA MishapEnds ==
  ASSUME Complete, Mishaps \in Nat, Mishaps' = Mishaps + 1, phone' = phone
  PROVE  NothingLeft' /\ EndsWhole' /\ phone'.since \in Nat /\ phone'.since <= Mishaps'
<1>1. phone.since \in Nat /\ phone.since <= Mishaps
  BY DEF Complete, Books
<1>2. Mishaps' # phone'.since /\ phone'.since <= Mishaps'
  BY <1>1
<1>3. QED
  BY <1>1, <1>2 DEF NothingLeft, EndsWhole, Unhurt

-----------------------------------------------------------------------------
(* A step that changes nothing of the transfer but what it has used up.    *)
LEMMA AloneComplete ==
  ASSUME Complete, UNCHANGED <<files, export, job, pending, air, phone>>, Mishaps' = Mishaps
  PROVE  Complete'
<1>1. Books' /\ AnnouncedFirst'
  BY DEF Complete, Books, AnnouncedFirst, Announces
<1>2. AnnouncedAsked' /\ FillAsksGaps' /\ EndsWhole'
  BY DEF Complete, AnnouncedAsked, AnnouncesAsked, Announces, FillAsksGaps, EndsWhole, Gaps
<1>3. NothingLeft'
  BY DEF Complete, NothingLeft, Unhurt, Taking, Announced, Announces, Covered, Carries, Filed, Todo
<1>4. QED
  BY <1>1, <1>2, <1>3 DEF Complete

(* As long as a job announces nothing anew, what is announced stays in     *)
(* order.                                                                  *)
LEMMA AnnouncedKept ==
  ASSUME Complete, UNCHANGED <<pending, air, phone>>,
         job'.op # "activate", job'.msg.type # "started"
  PROVE  AnnouncedFirst' /\ AnnouncedAsked' /\ FillAsksGaps'
<1>1. AnnouncedFirst'
  BY DEF Complete, AnnouncedFirst, Announces
<1>2. AnnouncedAsked' /\ FillAsksGaps'
  BY DEF Complete, AnnouncedAsked, AnnouncesAsked, Announces, FillAsksGaps, Gaps
<1>3. QED
  BY <1>1, <1>2

LEMMA ReadErrorComplete ==
  ASSUME TransferInv, connected, Complete, ReadError, used \in [Counters -> Nat]
  PROVE  Complete'
<1>1. /\ UNCHANGED <<files, pending, air, phone>> /\ job \in JobType
      /\ export \in [active: BOOLEAN, session: Nat]
  BY DEF ReadError, TransferInv, TransferTypeOK, JobType
<1>2. Mishaps \in Nat /\ Mishaps' = Mishaps + 1
  BY UsesCounts DEF ReadError, Counters, Mishaps
<1>3. /\ job'.op \in {"reply", "fill"} /\ job'.msg.type \in {"error", "none"}
      /\ export'.active => export' = export
      /\ job'.op = "fill" => job.op = "fill" /\ export' = export
  <2>1. CASE /\ job.op = "start" /\ job' = Reply(Msg("error"))
             /\ export' = [export EXCEPT !.active = FALSE]
    <3>1. job'.op = "reply" /\ job'.msg.type = "error"
      BY <2>1, Jobs, Messages DEF Terminal
    <3>2. ~export'.active
      BY <1>1, <2>1
    <3>3. QED
      BY <3>1, <3>2
  <2>2. CASE job.op = "fill" /\ Sending(NoMsg, 0) /\ UNCHANGED export
    BY <1>1, <2>2, Messages DEF Sending, JobType
  <2>3. QED
    BY <2>1, <2>2 DEF ReadError
<1>4. AnnouncedFirst' /\ AnnouncedAsked' /\ FillAsksGaps'
  BY <1>1, <1>3, AnnouncedKept
<1>5. NothingLeft' /\ EndsWhole' /\ phone'.since \in Nat /\ phone'.since <= Mishaps'
  BY <1>1, <1>2, MishapEnds
<1>6. Books'
  BY <1>1, <1>3, <1>5 DEF Complete, Books
<1>7. QED
  BY <1>4, <1>5, <1>6 DEF Complete

LEMMA NotifyComplete ==
  ASSUME TransferInv, connected, Complete, Notify
  PROVE  Complete'
<1>1. /\ job.msg # NoMsg /\ air' = Append(air, job.msg)
      /\ job' = IF job.op = "reply" THEN NoJob ELSE [job EXCEPT !.msg = NoMsg]
      /\ UNCHANGED <<files, export, pending, phone, used>>
  BY DEF Notify
<1>2. /\ job \in JobType /\ job.op \notin {"none", "activate"} /\ air \in Seq(Message)
      /\ job.op = "reply" => job.msg.type \in Terminal
  BY <1>1, Jobs DEF TransferInv, TransferTypeOK, Shape, JobType
<1>3. /\ job'.msg.type = "none"
      /\ job'.op \in {job.op, "none"} \ {"activate"}
      /\ job.op # "reply" => job'.op = job.op /\ job'.session = job.session /\ job'.todo = job.todo
  <2>1. CASE job.op = "reply"
    BY <1>1, <2>1, Jobs, Messages
  <2>2. CASE job.op # "reply"
    BY <1>1, <1>2, <2>2, Messages DEF JobType
  <2>3. QED
    BY <2>1, <2>2
<1>4. /\ Len(air') = Len(air) + 1 /\ Len(air) \in Nat
      /\ air'[Len(air')] = job.msg
      /\ \A j \in 1 .. Len(air) : air'[j] = air[j]
      /\ \A j \in 1 .. Len(air') : j \in 1 .. Len(air) \/ j = Len(air')
  BY <1>1, <1>2 DEF JobType
<1>5. Mishaps' = Mishaps /\ Taking' = Taking /\ Gaps' = Gaps
  BY <1>1 DEF Mishaps, Taking, Gaps
<1>6. Books' /\ FillAsksGaps' /\ EndsWhole'
  <2>1. job'.op \in {"start", "fill"} => job.op = job'.op /\ job'.session = job.session
    BY <1>2, <1>3, Jobs, <1>1
  <2>2. Books'
    BY <1>1, <1>3, <1>5, <2>1 DEF Complete, Books
  <2>3. FillAsksGaps' /\ EndsWhole'
    BY <1>1, <1>5 DEF Complete, FillAsksGaps, EndsWhole
  <2>4. QED
    BY <2>2, <2>3
<1>7. AnnouncedFirst'
  <2>1. AnnouncedFirst
    BY DEF Complete
  <2> SUFFICES ASSUME NEW j \in 1 .. Len(air'), air'[j].type = "started"
               PROVE  /\ phone.session = 0
                      /\ \A k \in 1 .. Len(air') : k < j => air'[k].type \notin {"started", "points"}
    BY <1>1, <1>3 DEF AnnouncedFirst, Announces
  <2>2. \A k \in 1 .. Len(air') : k < j => k \in 1 .. Len(air) /\ air'[k] = air[k]
    BY <1>4
  <2>3. CASE j \in 1 .. Len(air)
    BY <1>4, <2>1, <2>2, <2>3 DEF AnnouncedFirst, Announces
  <2>4. CASE j = Len(air')
    BY <1>4, <2>1, <2>2, <2>4 DEF AnnouncedFirst, Announces
  <2>5. QED
    BY <1>4, <2>3, <2>4
<1>8. AnnouncedAsked'
  BY <1>1, <1>3, <1>4 DEF Complete, AnnouncedAsked, AnnouncesAsked, Announces
<1>9. NothingLeft'
  <2> SUFFICES ASSUME Unhurt'
               PROVE  /\ phone.op = "start" /\ phone.session = 0 => Announced'
                      /\ \A i \in Indices : Covered(i)'
    BY <1>1 DEF NothingLeft
  <2>1. Len(air') \in 1 .. Len(air') /\ \A j \in 1 .. Len(air) : j \in 1 .. Len(air')
    BY <1>4
  <2>2. Unhurt
    <3>1. job.msg.type # "error" /\ \A j \in 1 .. Len(air) : air[j].type # "error"
      BY <1>4, <2>1 DEF Unhurt
    <3>2. QED
      BY <1>1, <1>5, <3>1 DEF Unhurt
  <2>3. phone.op = "start" /\ phone.session = 0 => Announced'
    <3>1. phone.op = "start" /\ phone.session = 0 => Announced
      BY <2>2 DEF Complete, NothingLeft
    <3>2. Announced => \E j \in 1 .. Len(air') : air'[j].type = "started"
      BY <1>2, <1>4, <2>1 DEF Announced, Announces
    <3>3. QED
      BY <3>1, <3>2 DEF Announced, Announces
  <2>4. ASSUME NEW i \in Indices PROVE Covered(i)'
    <3>1. Covered(i)
      BY <2>2 DEF Complete, NothingLeft
    <3>2. CASE phone.session # 0 /\ i \in DOMAIN phone.got
      BY <1>1, <3>2 DEF Covered
    <3>3. CASE \E j \in 1 .. Len(air) : Carries(air[j], i)
      BY <1>4, <2>1, <3>3 DEF Covered, Carries, Filed
    <3>4. CASE Carries(job.msg, i)
      BY <1>4, <2>1, <3>4 DEF Covered, Carries, Filed
    <3>5. CASE Todo(i)
      <4>1. job.op \in {"start", "fill"}
        BY <1>2, <3>5 DEF Todo
      <4>2. job'.op = job.op /\ job'.todo = job.todo
        BY <1>3, <4>1
      <4>3. Todo(i)'
        BY <1>2, <3>5, <4>2 DEF Todo
      <4>4. QED
        BY <4>3 DEF Covered
    <3>6. QED
      BY <3>1, <3>2, <3>3, <3>4, <3>5 DEF Covered
  <2>5. QED
    BY <2>3, <2>4
<1>10. QED
  BY <1>6, <1>7, <1>8, <1>9 DEF Complete

-----------------------------------------------------------------------------
(* The head of the air leaves it. *)
LEMMA TailAnnounced ==
  ASSUME TransferTypeOK, AnnouncedFirst, AnnouncedAsked, air # <<>>, air' = Tail(air), job' = job,
         phone'.asked = phone.asked,
         phone'.session = phone.session \/ Announces(air[1])
  PROVE  AnnouncedFirst' /\ AnnouncedAsked'
<1> USE TailAir
<1>1. AnnouncedAsked'
  BY DEF AnnouncedAsked, AnnouncesAsked, Announces
<1>2. job'.op = "activate" \/ Announces(job.msg)' =>
        /\ phone'.session = 0
        /\ \A j \in 1 .. Len(air') : air'[j].type \notin {"started", "points"}
  BY DEF AnnouncedFirst, Announces
<1>3. ASSUME NEW j \in 1 .. Len(air'), air'[j].type = "started"
      PROVE  /\ phone'.session = 0
             /\ \A k \in 1 .. Len(air') : k < j => air'[k].type \notin {"started", "points"}
  <2>1. air[j + 1].type = "started" /\ j + 1 \in 1 .. Len(air) /\ 1 < j + 1
    BY <1>3
  <2>2. /\ phone.session = 0
        /\ \A k \in 1 .. Len(air) : k < j + 1 => air[k].type \notin {"started", "points"}
    BY <2>1 DEF AnnouncedFirst, Announces
  <2>3. phone'.session = 0
    BY <2>1, <2>2 DEF Announces
  <2>4. \A k \in 1 .. Len(air') : k < j => k + 1 \in 1 .. Len(air) /\ k + 1 < j + 1 /\ air'[k] = air[k + 1]
    OBVIOUS
  <2>5. QED
    BY <2>2, <2>3, <2>4
<1>4. QED
  BY <1>1, <1>2, <1>3 DEF AnnouncedFirst, Announces

LEMMA LoseComplete ==
  ASSUME TransferInv, connected, Complete, Lose, used \in [Counters -> Nat]
  PROVE  Complete'
<1>1. /\ air # <<>> /\ air' = Tail(air) /\ UNCHANGED <<files, export, job, pending, phone>>
      /\ TransferTypeOK
  BY DEF Lose, device, TransferInv
<1>2. Mishaps \in Nat /\ Mishaps' = Mishaps + 1
  BY UsesCounts DEF Lose, Counters, Mishaps
<1>3. AnnouncedFirst' /\ AnnouncedAsked'
  BY <1>1, TailAnnounced DEF Complete
<1>4. NothingLeft' /\ EndsWhole' /\ phone'.since \in Nat /\ phone'.since <= Mishaps'
  BY <1>1, <1>2, MishapEnds
<1>5. Books' /\ FillAsksGaps'
  BY <1>1, <1>4 DEF Complete, Books, FillAsksGaps, Gaps
<1>6. QED
  BY <1>3, <1>4, <1>5 DEF Complete

LEMMA GiveUpComplete ==
  ASSUME TransferInv, connected, Complete, GiveUp
  PROVE  Complete'
<1>1. /\ phone' = [phone EXCEPT !.waiting = FALSE, !.op = "none"]
      /\ UNCHANGED <<files, export, job, pending, air, used>>
  BY DEF GiveUp, device
<1>2. /\ phone'.waiting = FALSE /\ phone'.op = "none" /\ phone'.session = phone.session
      /\ phone'.total = phone.total /\ phone'.since = phone.since /\ phone'.asked = phone.asked
  BY <1>1 DEF TransferInv, TransferTypeOK, PhoneFields
<1>3. Books'
  BY <1>1, <1>2 DEF Complete, Books, Mishaps
<1>4. AnnouncedFirst' /\ AnnouncedAsked'
  BY <1>1, <1>2 DEF Complete, AnnouncedFirst, AnnouncedAsked, AnnouncesAsked, Announces
<1>5. FillAsksGaps' /\ NothingLeft' /\ EndsWhole'
  BY <1>2 DEF FillAsksGaps, NothingLeft, Unhurt, Taking, EndsWhole
<1>6. QED
  BY <1>3, <1>4, <1>5 DEF Complete

(* A request the phone writes: nothing is promised before it is taken, but *)
(* a fill asks for every gap.                                              *)
LEMMA WriteComplete ==
  ASSUME TransferInv, connected, Complete, used \in [Counters -> Nat],
         NEW r \in [op: Ops, session: Nat, pts: Seq(Nat)], r.op # "none", Write(r),
         r.op = "fill" /\ phone.session # 0 =>
           \A i \in Gaps : \E t \in 1 .. Len(r.pts) : r.pts[t] = i
  PROVE  Complete'
<1>1. /\ ~phone.waiting /\ pending' = r /\ UNCHANGED <<files, export, job, air>>
      /\ Own /\ DOMAIN phone = PhoneFields
  BY DEF Write, OnHistoryWrite, device, TransferInv, TransferTypeOK
<1>2. /\ phone'.waiting = TRUE /\ phone'.op = r.op /\ phone'.total = phone.total
      /\ phone'.since = Mishaps
      /\ phone'.session = IF r.op = "start" THEN 0 ELSE phone.session
      /\ phone'.got = IF r.op = "start" THEN <<>> ELSE phone.got
  BY <1>1 DEF Write, PhoneFields
<1>3. Mishaps \in Nat /\ Mishaps' = Mishaps
  BY UsesCounts DEF Write, Counters, Mishaps
<1>4. pending' # NoRequest /\ ~Taking /\ ~Taking'
  BY <1>1, Messages DEF Taking
<1>5. /\ job.op \notin {"activate", "start", "fill"}
      /\ job.msg.type \notin {"started", "points"}
      /\ \A j \in 1 .. Len(air) : air[j].type \notin {"started", "points"}
  BY <1>1, <1>4 DEF Own, JobFits, AirFits, Fits
<1>6. Books'
  BY <1>1, <1>2, <1>3, <1>5 DEF Complete, Books
<1>7. AnnouncedFirst' /\ AnnouncedAsked'
  BY <1>1, <1>5 DEF AnnouncedFirst, AnnouncedAsked, AnnouncesAsked, Announces
<1>8. FillAsksGaps'
  BY <1>1, <1>2 DEF FillAsksGaps, Gaps
<1>9. NothingLeft' /\ EndsWhole'
  BY <1>2, <1>4 DEF NothingLeft, Unhurt, EndsWhole
<1>10. QED
  BY <1>6, <1>7, <1>8, <1>9 DEF Complete

LEMMA AskComplete ==
  ASSUME TransferInv, connected, Complete, used \in [Counters -> Nat], Ask
  PROVE  Complete'
<1> DEFINE R == [op: Ops, session: Nat, pts: Seq(Nat)]
<1>1. ASSUME NEW op \in Ops, NEW s \in Nat, NEW pts \in Seq(Nat)
      PROVE  /\ Request(op, s, pts) \in R /\ Request(op, s, pts).op = op
             /\ Request(op, s, pts).pts = pts
  BY DEF Request
<1>2. <<>> \in Seq(Nat) /\ <<0>> \in Seq(Nat) /\ Sessions \subseteq Nat
      /\ {"list", "end", "start", "delete", "fill"} \subseteq Ops
  BY HistoryNumbers DEF Ops
<1>3. CASE Write(Request("list", 0, <<>>)) \/ Write(Request("end", 0, <<>>))
  <2>1. PICK op \in {"list", "end"} : Write(Request(op, 0, <<>>))
    BY <1>3
  <2>2. Request(op, 0, <<>>) \in R /\ Request(op, 0, <<>>).op = op
    <3>1. op \in Ops /\ <<>> \in Seq(Nat)
      BY <1>2
    <3>2. QED
      BY <3>1 DEF Request
  <2>3. QED
    BY <2>1, <2>2, WriteComplete
<1>4. CASE \E s \in Sessions : Write(Request("start", s, <<>>)) \/ Write(Request("delete", s, <<>>))
  <2>1. PICK op \in {"start", "delete"}, s \in Sessions : Write(Request(op, s, <<>>))
    BY <1>4
  <2>2. Request(op, s, <<>>) \in R /\ Request(op, s, <<>>).op = op
    <3>1. op \in Ops /\ s \in Nat /\ <<>> \in Seq(Nat)
      BY <1>2
    <3>2. QED
      BY <3>1 DEF Request
  <2>3. QED
    BY <2>1, <2>2, WriteComplete
<1>5. CASE \E pts \in InOrder(Gaps) : Write(Request("fill", 0, pts))
  <2>1. PICK pts \in InOrder(Gaps) : Write(Request("fill", 0, pts))
    BY <1>5
  <2>2. Gaps \subseteq Nat /\ IsFiniteSet(Gaps) /\ pts \in Seq(Nat)
    <3>1. phone.total \in Nat /\ Gaps \subseteq 0 .. phone.total - 1
      BY DEF TransferInv, TransferTypeOK, Gaps
    <3>2. IsFiniteSet(0 .. phone.total - 1)
      BY <3>1, FS_Interval
    <3>3. IsFiniteSet(Gaps)
      BY <3>1, <3>2, FS_Subset
    <3>4. Gaps \subseteq Nat
      BY <3>1
    <3>5. QED
      BY <3>3, <3>4, FillType DEF TransferInv
  <2>3. \A i \in Gaps : \E t \in 1 .. Len(pts) : pts[t] = i
    BY <2>2, IncreasingCovers
  <2>4. PICK r \in R : r.op = "fill" /\ r.pts = pts /\ Write(r)
    BY <1>1, <1>2, <2>1, <2>2
  <2>5. QED
    BY <2>3, <2>4, WriteComplete
<1>6. CASE phone.session = 0 /\ Write(Request("fill", 0, <<0>>))
  <2>1. Request("fill", 0, <<0>>) \in R
    BY <1>1, <1>2
  <2>2. QED
    BY <1>6, <2>1, WriteComplete DEF Request
<1>7. QED
  BY <1>3, <1>4, <1>5, <1>6 DEF Ask

-----------------------------------------------------------------------------
(* on_ble_history_write() takes a request: a download it can serve is      *)
(* announced and to be sent in full, a fill is to send what it asks for.   *)
LEMMA TakeComplete ==
  ASSUME TransferInv, connected, Complete, used \in [Counters -> Nat],
         job = NoJob, pending # NoRequest, pending' = NoRequest, UNCHANGED <<air, phone>>,
         Mishaps' \in {Mishaps, Mishaps + 1},
         export'.active => export'.session \in files',
         job'.op # "start", job'.msg.type # "started",
         job'.op = "fill" => export'.active,
         job'.op = "activate" => /\ phone.waiting /\ phone.op = "start"
                                 /\ job'.session \in files',
         phone.waiting /\ phone.op = "start" => job'.op = "activate" \/ job'.msg.type = "error",
         phone.waiting /\ phone.op = "fill" =>
           job'.msg.type = "error" \/ (job'.op = "fill" /\ job'.todo = pending.pts)
  PROVE  Complete'
<1>1. Mishaps \in Nat /\ phone.since \in Nat /\ phone.since <= Mishaps
  BY DEF Counters, Mishaps, Complete, Books
<1>2. \A j \in 1 .. Len(air) : air[j].type \notin {"started", "points"}
  BY DEF TransferInv, Own, AirFits, Fits, Taking
<1>3. phone.waiting /\ phone.op = "start" => phone.session = 0
  BY DEF Complete, Books
<1>4. Books'
  BY <1>1 DEF Complete, Books
<1>5. AnnouncedFirst' /\ AnnouncedAsked' /\ FillAsksGaps'
  BY <1>2, <1>3 DEF AnnouncedFirst, AnnouncedAsked, AnnouncesAsked, Announces, FillAsksGaps
<1>6. EndsWhole'
  BY <1>1 DEF Complete, EndsWhole, Gaps
<1>7. NothingLeft'
  <2> SUFFICES ASSUME Unhurt'
               PROVE  /\ phone.op = "start" /\ phone.session = 0 => Announced'
                      /\ \A i \in Indices : Covered(i)'
    BY DEF NothingLeft
  <2>1. phone.waiting /\ job'.msg.type # "error" /\ phone.op \in {"start", "fill"}
        /\ (phone.op = "fill" => phone.session # 0)
    BY DEF Unhurt, Taking
  <2>2. CASE phone.op = "start"
    BY <2>1, <2>2 DEF Announced, Covered, Todo
  <2>3. CASE phone.op = "fill"
    <3>1. job'.op = "fill" /\ job'.todo = pending.pts /\ phone.session # 0
      BY <2>1, <2>3
    <3>2. \A i \in Gaps : Todo(i)'
      BY <2>1, <2>3, <3>1 DEF Complete, FillAsksGaps, Todo
    <3>3. \A i \in Indices : i \in DOMAIN phone.got \/ i \in Gaps
      BY <3>1 DEF Complete, Books, Indices, Gaps
    <3>4. QED
      BY <2>3, <3>1, <3>2, <3>3 DEF Covered
  <2>4. QED
    BY <2>1, <2>2, <2>3
<1>8. QED
  BY <1>4, <1>5, <1>6, <1>7 DEF Complete

LEMMA DispatchComplete ==
  ASSUME TransferInv, connected, Complete, Dispatch, used \in [Counters -> Nat]
  PROVE  Complete'
<1>1. job = NoJob /\ UNCHANGED <<up, connected, air, phone>> /\ up
  BY DEF Dispatch, TransferInv, Shape
<1>2. TransferTypeOK /\ PendingFits /\ ExportFits
  BY DEF TransferInv, Own
<1>3. ASSUME UNCHANGED <<files, export, job, pending, used>> PROVE Complete'
  BY <1>1, <1>3, AloneComplete DEF Mishaps
<1>4. ASSUME HandleHistory PROVE Complete'
  <2>1. pending' = NoRequest
    BY <1>4 DEF HandleHistory, Taken
  <2>2. CASE pending.op = "none"
    <3>1. UNCHANGED <<files, export, job, used>>
      BY <1>4, <2>2 DEF HandleHistory, device
    <3>2. pending = NoRequest
      BY <1>2, <2>2 DEF PendingFits, ExportFits
    <3>3. QED
      BY <1>1, <2>1, <3>1, <3>2, AloneComplete DEF Mishaps
  <2>3. ASSUME pending.op # "none"
        PROVE  /\ pending # NoRequest
               /\ phone.waiting => phone.op = pending.op
               /\ pending.op # "list" => phone.waiting
    BY <1>2, <2>3, Messages DEF PendingFits
  <2>4. export.active => export.session \in files
    BY DEF Complete, Books
  <2>5. Reply(Msg("error")).op = "reply" /\ Reply(Msg("error")).msg.type = "error"
    BY Jobs, Messages DEF Terminal
  <2>6. \A t \in {"ended", "deleted"} : Reply(Msg(t)).op = "reply" /\ Reply(Msg(t)).msg.type = t
    BY Jobs, Messages DEF Terminal
  <2>7. CASE pending.op = "list"
    <3>1. job' = [NoJob EXCEPT !.op = "list", !.todo = Pages] /\ UNCHANGED <<files, export, used>>
      BY <1>1, <1>4, <2>7 DEF HandleHistory, HandleList
    <3>2. job'.op = "list" /\ job'.msg.type = "none"
      BY <3>1, Jobs, Messages DEF JobType
    <3>3. QED
      BY <1>1, <2>1, <2>3, <2>4, <2>7, <3>1, <3>2, TakeComplete DEF Mishaps
  <2>8. CASE pending.op = "end"
    <3>1. export' = NoExport /\ job' = Reply(Msg("ended")) /\ UNCHANGED <<files, used>>
      BY <1>1, <1>4, <2>8 DEF HandleHistory, HandleEnd
    <3>2. ~export'.active
      BY <3>1 DEF NoExport
    <3>3. QED
      BY <1>1, <2>1, <2>3, <2>6, <2>8, <3>1, <3>2, TakeComplete DEF Mishaps
  <2>9. CASE pending.op = "start"
    <3>1. HandleStart(pending.session)
      BY <1>1, <1>4, <2>9 DEF HandleHistory
    <3>2. UNCHANGED <<files, used>> /\ ~export'.active
      BY <1>2, <3>1 DEF HandleStart, TransferTypeOK
    <3>3. \/ job' = Reply(Msg("error"))
          \/ /\ job'.op = "activate" /\ job'.msg.type = "none"
             /\ job'.session = pending.session /\ pending.session \in files
      BY <3>1, Jobs, Messages DEF HandleStart, JobType
    <3>4. CASE job' = Reply(Msg("error"))
      BY <1>1, <2>1, <2>3, <2>5, <2>9, <3>2, <3>4, TakeComplete DEF Mishaps
    <3>5. CASE /\ job'.op = "activate" /\ job'.msg.type = "none"
               /\ job'.session = pending.session /\ pending.session \in files
      BY <1>1, <2>1, <2>3, <2>9, <3>2, <3>5, TakeComplete DEF Mishaps
    <3>6. QED
      BY <3>3, <3>4, <3>5
  <2>10. CASE pending.op = "fill"
    <3>1. HandleFill(pending.pts)
      BY <1>1, <1>4, <2>10 DEF HandleHistory
    <3>2. UNCHANGED <<files, export, used>>
      BY <3>1 DEF HandleFill
    <3>3. \/ job' = Reply(Msg("error"))
          \/ /\ job'.op = "fill" /\ job'.msg.type = "none" /\ export.active
             /\ job'.todo = pending.pts
      BY <3>1, Jobs, Messages DEF HandleFill, JobType
    <3>4. CASE job' = Reply(Msg("error"))
      BY <1>1, <2>1, <2>3, <2>4, <2>5, <2>10, <3>2, <3>4, TakeComplete DEF Mishaps
    <3>5. CASE /\ job'.op = "fill" /\ job'.msg.type = "none" /\ export.active
               /\ job'.todo = pending.pts
      BY <1>1, <2>1, <2>3, <2>4, <2>10, <3>2, <3>5, TakeComplete DEF Mishaps
    <3>6. QED
      BY <3>3, <3>4, <3>5
  <2>11. CASE pending.op = "delete"
    <3>1. HandleDelete(pending.session)
      BY <1>1, <1>4, <2>11 DEF HandleHistory
    <3>2. Mishaps' \in {Mishaps, Mishaps + 1}
      BY <3>1, UsesCounts DEF HandleDelete, Mishaps, Counters
    <3>3. \E t \in {"error", "deleted"} : job' = Reply(Msg(t))
      BY <3>1 DEF HandleDelete
    <3>4. job'.op = "reply" /\ job'.msg.type # "started"
      BY <2>5, <2>6, <3>3
    <3>5. export'.active => export'.session \in files'
      <4>1. CASE UNCHANGED <<files, export>>
        BY <2>4, <4>1
      <4>2. CASE /\ files' \in {files, files \ {pending.session}}
                 /\ export' = IF export = [active |-> TRUE, session |-> pending.session]
                              THEN NoExport ELSE export
        BY <1>2, <2>4, <4>2 DEF NoExport, TransferTypeOK
      <4>3. QED
        BY <3>1, <4>1, <4>2 DEF HandleDelete
    <3>6. QED
      BY <1>1, <2>1, <2>3, <2>11, <3>2, <3>4, <3>5, TakeComplete
  <2>12. QED
    BY <1>2, <2>2, <2>7, <2>8, <2>9, <2>10, <2>11 DEF TransferTypeOK, Ops
<1>5. QED
  BY <1>3, <1>4 DEF Dispatch

-----------------------------------------------------------------------------
LEMMA DeliverComplete ==
  ASSUME TransferInv, connected, Complete, Deliver
  PROVE  Complete'
<1>1. /\ air # <<>> /\ air' = Tail(air) /\ UNCHANGED <<files, export, job, pending, used>>
      /\ TransferTypeOK /\ Own /\ DOMAIN phone = PhoneFields
  BY DEF Deliver, device, TransferInv, TransferTypeOK
<1>2. PICK m \in Message :
         /\ m = air[1] /\ Fits(m) /\ (m.type \in Terminal => Len(air) = 1 /\ job = NoJob)
         /\ \/ /\ m.type = "started"
               /\ phone' = [phone EXCEPT !.session = m.session, !.total = m.n, !.got = <<>>]
            \/ /\ m.type = "points" /\ phone.session # 0
               /\ phone' = [phone EXCEPT !.got =
                    [i \in Filed(m) \cup DOMAIN @ |->
                       IF i \in Filed(m) THEN m.points[i - m.first + 1] ELSE @[i]]]
            \/ /\ phone.waiting /\ Answers(m) /\ m.type \notin {"started", "points"}
               /\ phone' = [phone EXCEPT !.waiting = FALSE,
                             !.op = IF m.type = "error" THEN "none" ELSE @]
            \/ /\ phone' = phone /\ m.type # "error"
               /\ m.type = "started" => m.session # phone.asked
               /\ m.type = "points" => phone.session = 0
  BY DeliverCases
<1>3. Mishaps' = Mishaps
  BY <1>1 DEF Mishaps
<1>4. \A j \in 1 .. Len(air) : j = 1 \/ (j - 1 \in 1 .. Len(air') /\ air'[j - 1] = air[j])
  <2>1. ASSUME NEW j \in 1 .. Len(air), j # 1 PROVE j - 1 \in 1 .. Len(air') /\ air'[j - 1] = air[j]
    BY <1>1, <2>1 DEF TransferTypeOK
  <2>2. QED
    BY <2>1
<1>5. 1 \in 1 .. Len(air) /\ Len(air) \in Nat
  BY <1>1, TailAir DEF TransferTypeOK
<1>6. AnnouncesAsked(m)
  BY <1>2, <1>5 DEF Complete, AnnouncedAsked
<1>7. ASSUME m.type # "error", Unhurt' PROVE \A j \in 1 .. Len(air) : air[j].type # "error"
  BY <1>2, <1>4, <1>7 DEF Unhurt
<1>8. ASSUME NEW i \in Indices, Covered(i),
             phone.session # 0 /\ i \in DOMAIN phone.got =>
               phone'.session # 0 /\ i \in DOMAIN phone'.got,
             Carries(m, i) => phone'.session # 0 /\ i \in DOMAIN phone'.got
      PROVE  Covered(i)'
  <2>1. CASE \E j \in 1 .. Len(air) : Carries(air[j], i)
    BY <1>2, <1>4, <1>8, <2>1 DEF Covered, Carries, Filed
  <2>2. CASE Carries(job.msg, i) \/ Todo(i)
    BY <1>1, <2>2 DEF Covered, Carries, Filed, Todo
  <2>3. QED
    BY <1>8, <2>1, <2>2 DEF Covered
<1>9. CASE /\ m.type = "started"
           /\ phone' = [phone EXCEPT !.session = m.session, !.total = m.n, !.got = <<>>]
  <2>1. /\ phone'.waiting = phone.waiting /\ phone'.op = phone.op /\ phone'.since = phone.since
        /\ phone'.asked = phone.asked /\ phone'.session = m.session /\ phone'.session # 0
        /\ phone'.total = Points
    BY <1>1, <1>6, <1>9 DEF PhoneFields, AnnouncesAsked, Announces
  <2>2. Taking /\ Taking' /\ phone.op = "start" /\ phone.session = 0
    BY <1>1, <1>2, <1>5, <1>9, <2>1 DEF Fits, Taking, Complete, AnnouncedFirst, Announces
  <2>3. Books'
    BY <1>1, <1>3, <2>1, <2>2 DEF Complete, Books, Taking
  <2>4. AnnouncedFirst' /\ AnnouncedAsked'
    BY <1>1, <1>2, <1>9, <2>1, TailAnnounced DEF Complete, Announces
  <2>5. FillAsksGaps' /\ EndsWhole'
    BY <2>1, <2>2 DEF FillAsksGaps, EndsWhole, Taking
  <2>6. ASSUME Unhurt' PROVE \A i \in Indices : Covered(i)'
    <3>1. Unhurt
      BY <1>1, <1>3, <1>7, <1>9, <2>1, <2>2, <2>6 DEF Unhurt
    <3>2. \A i \in Indices : Covered(i) /\ ~Carries(m, i)
      BY <1>9, <3>1 DEF Complete, NothingLeft, Carries
    <3>3. QED
      BY <1>8, <2>2, <3>2
  <2>7. NothingLeft'
    BY <2>1, <2>6 DEF NothingLeft
  <2>8. QED
    BY <2>3, <2>4, <2>5, <2>7 DEF Complete
<1>10. CASE /\ m.type = "points" /\ phone.session # 0
            /\ phone' = [phone EXCEPT !.got =
                 [i \in Filed(m) \cup DOMAIN @ |->
                    IF i \in Filed(m) THEN m.points[i - m.first + 1] ELSE @[i]]]
  <2>1. /\ phone'.waiting = phone.waiting /\ phone'.op = phone.op /\ phone'.since = phone.since
        /\ phone'.asked = phone.asked /\ phone'.session = phone.session
        /\ phone'.total = phone.total
        /\ DOMAIN phone'.got = Filed(m) \cup DOMAIN phone.got
    BY <1>1, <1>10 DEF PhoneFields
  <2>2. Taking /\ Taking'
    BY <1>1, <1>2, <1>10, <2>1 DEF Fits, Taking
  <2>3. Books'
    BY <1>1, <1>3, <2>1 DEF Complete, Books
  <2>4. AnnouncedFirst' /\ AnnouncedAsked'
    BY <1>1, <2>1, TailAnnounced DEF Complete
  <2>5. FillAsksGaps' /\ EndsWhole'
    BY <2>2 DEF FillAsksGaps, EndsWhole, Taking
  <2>6. ASSUME Unhurt' PROVE \A i \in Indices : Covered(i)'
    <3>1. Unhurt
      BY <1>1, <1>3, <1>7, <1>10, <2>1, <2>2, <2>6 DEF Unhurt
    <3>2. \A i \in Indices : Covered(i)
      BY <3>1 DEF Complete, NothingLeft
    <3>3. QED
      BY <1>8, <1>10, <2>1, <3>2 DEF Carries
  <2>7. NothingLeft'
    BY <1>10, <2>1, <2>6 DEF NothingLeft
  <2>8. QED
    BY <2>3, <2>4, <2>5, <2>7 DEF Complete
<1>11. CASE /\ phone.waiting /\ Answers(m) /\ m.type \notin {"started", "points"}
            /\ phone' = [phone EXCEPT !.waiting = FALSE,
                          !.op = IF m.type = "error" THEN "none" ELSE @]
  <2>1. /\ phone'.waiting = FALSE /\ phone'.since = phone.since
        /\ phone'.op = IF m.type = "error" THEN "none" ELSE phone.op
        /\ phone'.asked = phone.asked /\ phone'.session = phone.session
        /\ phone'.total = phone.total /\ phone'.got = phone.got
    BY <1>1, <1>11 DEF PhoneFields
  <2>2. Books'
    BY <1>1, <1>3, <2>1 DEF Complete, Books
  <2>3. AnnouncedFirst' /\ AnnouncedAsked'
    BY <1>1, <2>1, TailAnnounced DEF Complete
  <2>4. FillAsksGaps' /\ NothingLeft'
    BY <2>1 DEF FillAsksGaps, NothingLeft, Unhurt, Taking
  <2>5. EndsWhole'
    <3> SUFFICES ASSUME phone'.session # 0, phone'.op \in {"start", "fill"}, Mishaps' = phone'.since
                 PROVE  Gaps' = {}
      BY DEF EndsWhole
    <3>1. m.type = "done" /\ phone.op \in {"start", "fill"}
      BY <1>11, <2>1 DEF Answers, Answer
    <3>2. job = NoJob /\ Len(air) = 1 /\ Taking
      BY <1>2, <3>1 DEF Fits, Terminal
    <3>3. Unhurt
      <4>1. job.msg.type # "error"
        BY <3>2, Jobs, Messages
      <4>2. \A j \in 1 .. Len(air) : air[j].type # "error"
        BY <1>2, <3>1, <3>2
      <4>3. QED
        BY <1>3, <2>1, <3>1, <3>2, <4>1, <4>2 DEF Unhurt
    <3>4. ASSUME NEW i \in Indices PROVE i \in DOMAIN phone.got
      <4>1. Covered(i)
        BY <3>3 DEF Complete, NothingLeft
      <4>2. ~Carries(job.msg, i) /\ ~Todo(i)
        BY <3>2, Jobs, Messages DEF Carries, Todo
      <4>3. \A j \in 1 .. Len(air) : ~Carries(air[j], i)
        BY <1>2, <3>1, <3>2 DEF Carries
      <4>4. QED
        BY <4>1, <4>2, <4>3 DEF Covered
    <3>5. QED
      BY <2>1, <3>4 DEF Complete, Books, Gaps, Indices
  <2>6. QED
    BY <2>2, <2>3, <2>4, <2>5 DEF Complete
<1>12. CASE /\ phone' = phone /\ m.type # "error"
            /\ m.type = "started" => m.session # phone.asked
            /\ m.type = "points" => phone.session = 0
  <2>1. m.type # "started"
    BY <1>6, <1>12 DEF AnnouncesAsked, Announces
  <2>2. Books' /\ FillAsksGaps' /\ EndsWhole'
    BY <1>1, <1>3, <1>12 DEF Complete, Books, FillAsksGaps, EndsWhole, Gaps
  <2>3. AnnouncedFirst' /\ AnnouncedAsked'
    BY <1>1, <1>12, TailAnnounced DEF Complete
  <2>4. ASSUME Unhurt'
        PROVE  /\ phone.op = "start" /\ phone.session = 0 => Announced'
               /\ \A i \in Indices : Covered(i)'
    <3>1. Unhurt
      BY <1>1, <1>3, <1>7, <1>12, <2>4 DEF Unhurt, Taking
    <3>2. phone.op = "start" /\ phone.session = 0 => Announced
      BY <3>1 DEF Complete, NothingLeft
    <3>3. Announced => Announced'
      BY <1>1, <1>2, <1>4, <2>1 DEF Announced, Announces
    <3>4. m.type # "points"
      <4> SUFFICES ASSUME m.type = "points" PROVE FALSE
        OBVIOUS
      <4>1. phone.op = "start" /\ phone.session = 0
        BY <1>12, <3>1 DEF Unhurt
      <4>2. Announced
        BY <3>2, <4>1
      <4>3. AnnouncedFirst
        BY DEF Complete
      <4>4. ~(job.op = "activate" \/ Announces(job.msg))
        BY <1>2, <1>5, <4>3 DEF AnnouncedFirst
      <4>5. PICK j \in 1 .. Len(air) : Announces(air[j])
        BY <4>2, <4>4 DEF Announced
      <4>6. j # 1 /\ 1 < j
        BY <1>2, <4>5 DEF Announces
      <4>7. QED
        BY <1>2, <1>5, <4>3, <4>5, <4>6 DEF AnnouncedFirst
    <3>5. \A i \in Indices : Covered(i) /\ ~Carries(m, i)
      BY <3>1, <3>4 DEF Complete, NothingLeft, Carries
    <3>6. QED
      BY <1>8, <1>12, <3>2, <3>3, <3>5
  <2>5. NothingLeft'
    BY <1>12, <2>4 DEF NothingLeft
  <2>6. QED
    BY <2>2, <2>3, <2>5 DEF Complete
<1>13. QED
  BY <1>2, <1>9, <1>10, <1>11, <1>12

-----------------------------------------------------------------------------
LEMMA OnConnectComplete ==
  ASSUME FirstConnection, used.connections = 0, OnConnect
  PROVE  Complete'
<1>1. /\ UNCHANGED <<files, export, job, pending, air>> /\ phone' = [Phone EXCEPT !.here = TRUE]
  BY DEF OnConnect, device
<1>2. TransferInv /\ ~connected /\ pending = NoRequest /\ job = NoJob /\ export = NoExport
  BY DEF FirstConnection
<1>3. air = <<>>
  BY <1>2 DEF TransferInv, Shape
<1>4. /\ phone'.waiting = FALSE /\ phone'.op = "none" /\ phone'.session = 0 /\ phone'.since = 0
  BY <1>1 DEF Phone
<1>5. Mishaps' \in Nat
  BY UsesCounts DEF FirstConnection, OnConnect, Mishaps, Counters
<1>6. job.op = "none" /\ job.msg.type = "none" /\ ~export.active
  BY <1>2, Jobs, Messages DEF NoExport
<1>7. Books'
  BY <1>1, <1>4, <1>5, <1>6 DEF Books
<1>8. AnnouncedFirst' /\ AnnouncedAsked'
  BY <1>1, <1>3, <1>6 DEF AnnouncedFirst, AnnouncedAsked, AnnouncesAsked, Announces
<1>9. FillAsksGaps' /\ NothingLeft' /\ EndsWhole'
  BY <1>4 DEF FillAsksGaps, NothingLeft, Unhurt, Taking, EndsWhole
<1>10. QED
  BY <1>7, <1>8, <1>9 DEF Complete

(* Only on_connect() connects and counts a connection, and before it the   *)
(* device does nothing for a phone.                                        *)
LEMMA ConnectionCounts ==
  ASSUME FirstConnection, [HistoryNext]_historyVars
  PROVE  /\ used' \in [Counters -> Nat]
         /\ \/ OnConnect /\ used'.connections = used.connections + 1
            \/ used'.connections = used.connections /\ (connected' => connected)
<1>0. used \in [Counters -> Nat]
  BY DEF FirstConnection
<1>1. CASE UNCHANGED historyVars
  BY <1>0, <1>1 DEF historyVars
<1>2. CASE OnConnect
  BY <1>0, <1>2, UsesCounts DEF OnConnect, Counters
<1>3. CASE OnDisconnect \/ ActivateExport \/ Turn \/ LeaveLoop \/ EndLoop \/ Notify \/ Deliver \/ GiveUp
  <2>1. used' = used /\ (connected' => connected)
    BY <1>3 DEF OnDisconnect, ActivateExport, Turn, LeaveLoop, EndLoop, Notify, Deliver, GiveUp,
                device
  <2>2. QED
    BY <1>0, <2>1
<1>4. CASE OtherEvent \/ ReadError \/ LeaveMode \/ Lose
  <2>1. /\ \E what \in Counters \ {"connections"} : Uses(what)
        /\ connected' => connected
    BY <1>4 DEF OtherEvent, ReadError, LeaveMode, Lose, device, Counters
  <2>2. QED
    BY <1>0, <2>1, UsesCounts
<1>5. CASE Dispatch
  <2>1. connected' = connected /\ (used' = used \/ HandleHistory)
    BY <1>5 DEF Dispatch
  <2>2. ASSUME HandleHistory PROVE used' = used \/ Uses("failures")
    <3>1. \/ HandleEnd \/ HandleList \/ HandleStart(pending.session) \/ HandleFill(pending.pts)
          \/ HandleDelete(pending.session) \/ used' = used
      <4>1. pending.op \in Ops
        BY DEF FirstConnection
      <4>2. QED
        BY <2>2, <4>1 DEF HandleHistory, Ops
    <3>2. QED
      BY <3>1 DEF HandleEnd, HandleList, HandleStart, HandleFill, HandleDelete
  <2>3. QED
    BY <1>0, <2>1, <2>2, UsesCounts DEF Counters
<1>6. CASE Ask
  <2>1. connected' = connected /\ Uses("requests")
    BY <1>6 DEF Ask, Write
  <2>2. QED
    BY <1>0, <2>1, UsesCounts DEF Counters
<1>7. QED
  BY <1>1, <1>2, <1>3, <1>4, <1>5, <1>6 DEF HistoryNext

(* Without a phone no request is made or taken. *)
LEMMA NoPhoneNoJob ==
  ASSUME FirstConnection, [HistoryNext]_historyVars, used.connections = 0,
         used'.connections = 0
  PROVE  ~connected' /\ pending' = NoRequest /\ job' = NoJob /\ export' = NoExport
<1>1. ~connected /\ pending = NoRequest /\ job = NoJob /\ export = NoExport /\ TransferInv
  BY DEF FirstConnection
<1>2. ~connected'
  BY <1>1, ConnectionCounts
<1>3. job.op = "none" /\ job.msg = NoMsg /\ pending.op = "none"
  BY <1>1, Jobs, Messages
<1>4. ~phone.waiting
  BY <1>1, PhoneIsReset DEF TransferInv, Shape
<1>5. ~(OnDisconnect \/ ActivateExport \/ Turn \/ ReadError \/ LeaveLoop \/ EndLoop \/ Notify
        \/ Ask \/ GiveUp)
  BY <1>1, <1>3, <1>4 DEF OnDisconnect, ActivateExport, Turn, ReadError, LeaveLoop, EndLoop,
     Looping, Notify, Ask, Write, OnHistoryWrite, GiveUp
<1>6. CASE Dispatch
  <2>1. CASE UNCHANGED <<export, job, pending>>
    BY <1>1, <1>2, <2>1
  <2>2. CASE HandleHistory
    BY <1>1, <1>2, <1>3, <2>2 DEF HandleHistory, Taken, device
  <2>3. QED
    BY <1>6, <2>1, <2>2 DEF Dispatch
<1>7. CASE OnConnect \/ OtherEvent \/ LeaveMode \/ Deliver \/ Lose
  BY <1>1, <1>2, <1>7 DEF OnConnect, OtherEvent, LeaveMode, Deliver, Lose, device
<1>8. CASE UNCHANGED historyVars
  BY <1>1, <1>2, <1>8 DEF historyVars
<1>9. QED
  BY <1>5, <1>6, <1>7, <1>8 DEF HistoryNext

LEMMA CompleteStep ==
  ASSUME FirstConnection, [HistoryNext]_historyVars, Points <= IndexRange,
         used.connections = 1, used'.connections = 1, connected'
  PROVE  Complete'
<1>1. TransferInv /\ connected /\ Complete /\ used \in [Counters -> Nat]
  BY ConnectionCounts DEF FirstConnection
<1>2. CASE UNCHANGED historyVars
  BY <1>1, <1>2, AloneComplete DEF historyVars, Mishaps
<1>3. CASE OnConnect \/ OnDisconnect \/ LeaveMode \/ LeaveLoop
  BY <1>1, <1>3 DEF OnConnect, OnDisconnect, LeaveMode, LeaveLoop
<1>4. CASE OtherEvent
  <2>1. Mishaps' = Mishaps
    BY <1>1, <1>4, UsesCounts DEF OtherEvent, Counters
  <2>2. QED
    BY <1>1, <1>4, <2>1, AloneComplete DEF OtherEvent, device
<1>5. CASE Dispatch
  BY <1>1, <1>5, DispatchComplete
<1>6. CASE ActivateExport \/ Turn \/ EndLoop
  BY <1>1, <1>6, ActivateExportComplete, TurnComplete, EndLoopComplete
<1>7. CASE ReadError \/ Notify
  BY <1>1, <1>7, ReadErrorComplete, NotifyComplete
<1>8. CASE Ask \/ GiveUp
  BY <1>1, <1>8, AskComplete, GiveUpComplete
<1>9. CASE Deliver \/ Lose
  BY <1>1, <1>9, DeliverComplete, LoseComplete
<1>10. QED
  BY <1>2, <1>3, <1>4, <1>5, <1>6, <1>7, <1>8, <1>9 DEF HistoryNext

LEMMA PendingOps ==
  ASSUME pending.op \in Ops, [HistoryNext]_historyVars
  PROVE  pending'.op \in Ops
<1>1. CASE Dispatch
  <2>1. NoRequest.op \in Ops
    BY Messages DEF Ops
  <2>2. pending' \in {pending, NoRequest}
    BY <1>1 DEF Dispatch, HandleHistory, Taken
  <2>3. QED
    BY <2>1, <2>2
<1>2. CASE Ask
  <2>1. \E op \in Ops : \E s, pts : pending' = Request(op, s, pts)
    BY <1>2 DEF Ask, Write, OnHistoryWrite, Ops
  <2>2. QED
    BY <2>1 DEF Request
<1>3. CASE ~Dispatch /\ ~Ask
  BY <1>3 DEF HistoryNext, historyVars, OnConnect, OnDisconnect, OtherEvent, ActivateExport, Turn,
     ReadError, LeaveLoop, EndLoop, Notify, LeaveMode, Deliver, Lose, GiveUp
<1>4. QED
  BY <1>1, <1>2, <1>3

LEMMA FirstConnectionStep ==
  ASSUME FirstConnection, [HistoryNext]_historyVars, Points <= IndexRange
  PROVE  FirstConnection'
<1>1. /\ used \in [Counters -> Nat] /\ used' \in [Counters -> Nat]
      /\ \/ OnConnect /\ used'.connections = used.connections + 1
         \/ used'.connections = used.connections /\ (connected' => connected)
  BY ConnectionCounts DEF FirstConnection
<1>2. used.connections \in Nat
  BY <1>1 DEF Counters
<1>3. used'.connections = 0 => used.connections = 0
  BY <1>1, <1>2
<1>4. ASSUME used'.connections <= 1 PROVE TransferInv'
  <2>1. used.connections <= 1
    BY <1>1, <1>2, <1>4
  <2>2. QuietConnect
    <3>1. ASSUME connected', ~connected PROVE used.connections = 0
      BY <1>1, <1>2, <1>4, <3>1
    <3>2. QED
      BY <3>1 DEF QuietConnect, FirstConnection
  <2>3. QED
    BY <2>1, <2>2, TransferStep DEF FirstConnection
<1>5. ASSUME used'.connections = 1, connected' PROVE Complete'
  <2>1. CASE used.connections = 0
    BY <1>1, <1>5, <2>1, OnConnectComplete
  <2>2. CASE used.connections = 1
    BY <1>5, <2>2, CompleteStep
  <2>3. QED
    BY <1>1, <1>2, <1>5, <2>1, <2>2
<1>6. QED
  BY <1>1, <1>3, <1>4, <1>5, NoPhoneNoJob, PendingOps DEF FirstConnection

LEMMA FirstConnectionInit == HistoryInit => FirstConnection
<1> SUFFICES ASSUME HistoryInit PROVE FirstConnection
  OBVIOUS
<1>1. used = [what \in Counters |-> 0]
  BY DEF HistoryInit, Bound, Counters
<1>2. used \in [Counters -> Nat] /\ used.connections = 0
  BY <1>1 DEF Counters
<1>3. NoRequest.op \in Ops
  BY Messages DEF Ops
<1>4. QED
  BY <1>2, <1>3, TransferInit DEF HistoryInit, FirstConnection

(* As long as the index of a notification is wide enough for a stored      *)
(* route: in the first connection, a download or a fill that has ended     *)
(* without an error, and during which nothing was lost or unreadable, has  *)
(* left no gap, for any route, batch and window, and however its steps     *)
(* interleave with the other events, the deliveries and the writes         *)
(* (handle_history_start, handle_history_fill, send_history_binary).       *)
THEOREM DownloadsAreComplete ==
  ASSUME Points <= IndexRange
  PROVE  HistorySpec => []CompleteUnlessLost
<1>1. HistoryInit => FirstConnection
  BY FirstConnectionInit
<1>2. FirstConnection /\ [HistoryNext]_historyVars => FirstConnection'
  BY FirstConnectionStep
<1>3. FirstConnection => CompleteUnlessLost
  <2> SUFFICES ASSUME FirstConnection, used.connections = 1, Mishaps = phone.since,
                      phone.session # 0, ~phone.waiting, phone.op \in {"start", "fill"}
               PROVE  Gaps = {}
    BY DEF CompleteUnlessLost
  <2>1. TransferInv
    BY DEF FirstConnection
  <2>2. connected
    BY <2>1, PhoneIsReset DEF TransferInv, Shape
  <2>3. Complete
    BY <2>2 DEF FirstConnection
  <2>4. QED
    BY <2>3 DEF Complete, EndsWhole
<1>4. QED
  BY <1>1, <1>2, <1>3, PTL DEF HistorySpec
=============================================================================
