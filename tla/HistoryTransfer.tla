--------------------------- MODULE HistoryTransfer ---------------------------
(***************************************************************************)
(* The History characteristic of go_ble.cpp: a phone lists, downloads,     *)
(* completes and deletes recorded routes.  Three parties interleave:       *)
(*   - the NimBLE host task runs on_connect, on_disconnect and             *)
(*     on_history_write, and drains the notifications it has accepted;     *)
(*   - the orchestrator task takes the one pending write, and streams a    *)
(*     session in a blocking loop, notification by notification;           *)
(*   - the phone is external: it follows section 8.5 of the repository's   *)
(*     client specification, and may disconnect at any moment.             *)
(* A route point is the pair <<session, index>>; every stored session has  *)
(* Points of them.                                                         *)
(***************************************************************************)
EXTENDS Integers, Sequences, FiniteSets

CONSTANTS
    Sessions,      \* identifiers of the sessions stored at the start
    Recording,     \* the session being recorded, or 0
    Points,        \* points in each stored session
    Batch,         \* ROUTE_READ_BATCH: points per notification
    PerPage,       \* SESSIONS_PER_PAGE
    IndexRange,    \* 2^16: values of the index field of a notification
    QueueDepth,    \* EVENT_QUEUE_DEPTH
    Window,        \* notifications the BLE stack buffers
    MaxConnections, MaxRequests, MaxLosses,  \* bounds: how often each happens
    MaxReadErrors, MaxOthers, MaxModes

ASSUME HistoryAssumption ==
    /\ Sessions \subseteq Nat \ {0} /\ IsFiniteSet(Sessions)
    /\ Recording \in Sessions \cup {0}
    /\ {Points, Batch, PerPage, IndexRange, QueueDepth, Window} \subseteq Nat \ {0}

VARIABLES
    files,      \* sessions on the flash
    up,         \* _server # nullptr, and with it _history_char
    connected,  \* _connected
    export,     \* _export_active, _export_session_id
    pending,    \* _history_write_buf, _history_write_pending
    eventQueue, \* the orchestrator's event queue
    job,        \* what the orchestrator is doing for the phone
    air,        \* notifications accepted by the stack, not yet delivered
    phone,      \* the connected phone
    used        \* how often each bounded action has happened

device == <<files, up, export, job>>
historyVars == <<files, up, connected, export, pending, eventQueue, job, air, phone, used>>

NoRequest == [op |-> "none", session |-> 0, pts |-> <<>>]
Request(op, s, pts) == [op |-> op, session |-> s, pts |-> pts]
NoMsg == [type |-> "none", session |-> 0, first |-> 0, points |-> <<>>, n |-> 0]
Msg(type) == [NoMsg EXCEPT !.type = type]
NoJob == [op |-> "none", session |-> 0, todo |-> <<>>, sent |-> 0, msg |-> NoMsg]
NoExport == [active |-> FALSE, session |-> 0]

\* A phone has at most one request outstanding; "since" is the number of
\* losses and failures when it wrote that request.
Phone == [here |-> FALSE, waiting |-> FALSE, op |-> "none", session |-> 0,
          asked |-> 0, total |-> 0, got |-> <<>>, since |-> 0]

Bound == [connections |-> MaxConnections, requests |-> MaxRequests,
          losses |-> MaxLosses, failures |-> MaxReadErrors,
          others |-> MaxOthers, modes |-> MaxModes]
Uses(what) ==
    /\ used[what] < Bound[what]
    /\ used' = [used EXCEPT ![what] = @ + 1]
Mishaps == used.losses + used.failures

\* queue_send with timeout 0: a full queue drops the event.
Posted(q, e) == IF Len(q) < QueueDepth THEN Append(q, e) ELSE q

HistoryInit ==
    /\ files = Sessions
    /\ up = TRUE
    /\ connected = FALSE
    /\ export = NoExport
    /\ pending = NoRequest
    /\ eventQueue = <<>>
    /\ job = NoJob
    /\ air = <<>>
    /\ phone = Phone
    /\ used = [what \in DOMAIN Bound |-> 0]

-----------------------------------------------------------------------------
(* NimBLE host task                                                        *)

OnConnect ==
    /\ up /\ ~connected
    /\ Uses("connections")
    /\ connected' = TRUE
    /\ phone' = [Phone EXCEPT !.here = TRUE]
    /\ eventQueue' = Posted(eventQueue, "connected")
    /\ UNCHANGED <<device, pending, air>>

ExportAfterDisconnect == NoExport

OnDisconnect ==
    /\ connected
    /\ connected' = FALSE
    /\ export' = ExportAfterDisconnect
    /\ eventQueue' = Posted(eventQueue, "disconnected")
    /\ phone' = Phone
    /\ air' = <<>>
    /\ UNCHANGED <<files, up, pending, job, used>>

\* on_history_write: one slot, so a second write replaces an untaken first.
OnHistoryWrite(r) ==
    /\ connected /\ phone.here
    /\ pending' = r
    /\ eventQueue' = Posted(eventQueue, "history")

\* Sensor data, fixes, touches: what else waits in the same queue.
OtherEvent ==
    /\ Uses("others")
    /\ eventQueue' = Posted(eventQueue, "other")
    /\ UNCHANGED <<device, connected, pending, air, phone>>

-----------------------------------------------------------------------------
(* Orchestrator task: taking a request                                     *)

Reply(msg) == [NoJob EXCEPT !.op = "reply", !.msg = msg]

WholeBatches == [k \in 1 .. Points \div Batch |-> (k - 1) * Batch]

\* Offsets at which handle_history_start reads a batch.
Offsets == [k \in 1 .. (Points + Batch - 1) \div Batch |-> (k - 1) * Batch]

\* An empty list is still one page.
Pages == LET n == Cardinality(files)
         IN  [k \in 1 .. IF n = 0 THEN 1 ELSE (n + PerPage - 1) \div PerPage |-> k]

HandleList ==
    /\ job' = [NoJob EXCEPT !.op = "list", !.todo = Pages]
    /\ UNCHANGED <<files, export, used>>

\* handle_history_start up to the store of _export_session_id; the store of
\* _export_active is ActivateExport, because on_disconnect writes both fields from
\* the other task.
HandleStart(s) ==
    /\ IF s \in files
       THEN /\ export' = [active |-> FALSE, session |-> s]
            /\ job' = [NoJob EXCEPT !.op = "activate", !.session = s]
       ELSE /\ export' = [export EXCEPT !.active = FALSE]
            /\ job' = Reply(Msg("error"))
    /\ UNCHANGED <<files, used>>

HandleFill(pts) ==
    /\ job' = IF export.active THEN [NoJob EXCEPT !.op = "fill", !.todo = pts]
                               ELSE Reply(Msg("error"))
    /\ UNCHANGED <<files, export, used>>

HandleEnd ==
    /\ export' = NoExport
    /\ job' = IF up THEN Reply(Msg("ended")) ELSE NoJob
    /\ UNCHANGED <<files, used>>

MayDelete(s) == s \in files /\ s # Recording

HandleDelete(s) ==
    IF ~MayDelete(s)
    THEN /\ job' = Reply(Msg("error"))
         /\ UNCHANGED <<files, export, used>>
    ELSE /\ export' = IF export = [active |-> TRUE, session |-> s]
                      THEN NoExport ELSE export
         /\ \/ /\ files' = files \ {s}
               /\ job' = Reply(Msg("deleted"))
               /\ UNCHANGED used
            \/ /\ Uses("failures")
               /\ job' = Reply(Msg("error"))
               /\ UNCHANGED files

StillPending == pending
Taken == NoRequest

\* on_ble_history_write.  Without a characteristic every handler but "end"
\* returns at once; the recorded session is refused before that test.
HandleHistory ==
    LET r == pending IN
    /\ pending' = Taken
    /\ CASE r.op = "end" -> HandleEnd
         [] r.op = "none" \/ (r.op # "end" /\ ~up) -> UNCHANGED <<device, used>>
         [] r.op = "list" /\ up -> HandleList
         [] r.op = "start" /\ up -> HandleStart(r.session)
         [] r.op = "fill" /\ up -> HandleFill(r.pts)
         [] r.op = "delete" /\ up -> HandleDelete(r.session)

\* The other handlers do not touch the transfer.
Dispatch ==
    /\ job = NoJob /\ eventQueue # <<>>
    /\ eventQueue' = Tail(eventQueue)
    /\ IF Head(eventQueue) = "history"
       THEN HandleHistory
       ELSE UNCHANGED <<files, export, job, pending, used>>
    /\ UNCHANGED <<up, connected, air, phone>>

-----------------------------------------------------------------------------
(* Orchestrator task: the blocking loops                                   *)

ActivateExport ==
    /\ job.op = "activate"
    /\ export' = [export EXCEPT !.active = TRUE]
    /\ job' = [job EXCEPT !.op = "start", !.todo = Offsets,
                   !.msg = [Msg("started") EXCEPT !.session = job.session, !.n = Points]]
    /\ UNCHANGED <<files, up, connected, pending, eventQueue, air, phone, used>>

Unclipped(s, i, n) == [k \in 1 .. n |-> <<s, i + k - 1>>]

\* read_route_points: up to n points of session s from index i.
Read(s, i, n) ==
    IF s \notin files THEN <<>>
    ELSE [k \in 1 .. (IF i + n <= Points THEN n ELSE IF i < Points THEN Points - i ELSE 0)
             |-> <<s, i + k - 1>>]

BatchNumber(i, points) ==
    [Msg("points") EXCEPT !.first = i \div Batch, !.points = points]

\* send_history_binary: the index is truncated to its field.
Binary(i, points) ==
    [Msg("points") EXCEPT !.first = i % IndexRange, !.points = points]

Sending(msg, n) ==
    job' = [job EXCEPT !.todo = Tail(@), !.msg = msg, !.sent = @ + n]

Looping == job.op \in {"list", "start", "fill"} /\ job.msg = NoMsg

\* One turn of a loop while the phone is connected.  The stream reads the
\* session it was asked for, the fill the session in _export_session_id, and
\* passes over a point it cannot read.
Turn ==
    /\ Looping /\ job.todo # <<>> /\ connected
    /\ LET i == Head(job.todo)
           read == Read(IF job.op = "fill" THEN export.session ELSE job.session,
                        i, IF job.op = "fill" THEN 1 ELSE Batch)
       IN  IF job.op = "list" THEN Sending(Msg("sessions"), 0)
           ELSE IF read = <<>> THEN Sending(NoMsg, 0)
           ELSE Sending(Binary(i, read), Len(read))
    /\ UNCHANGED <<files, up, connected, export, pending, eventQueue, air, phone, used>>

\* A read of the flash fails: the stream is given up, the fill goes on.
ReadError ==
    /\ Looping /\ job.todo # <<>> /\ connected
    /\ Uses("failures")
    /\ \/ /\ job.op = "start"
          /\ job' = Reply(Msg("error"))
          /\ export' = [export EXCEPT !.active = FALSE]
       \/ /\ job.op = "fill"
          /\ Sending(NoMsg, 0)
          /\ UNCHANGED export
    /\ UNCHANGED <<files, up, connected, pending, eventQueue, air, phone>>

\* The loop condition fails: the remaining turns are skipped.
LeaveLoop ==
    /\ Looping /\ job.todo # <<>> /\ ~connected
    /\ job' = [job EXCEPT !.todo = <<>>]
    /\ UNCHANGED <<files, up, connected, export, pending, eventQueue, air, phone, used>>

\* After its loop a stream or a fill reports how many points it sent.
EndLoop ==
    /\ Looping /\ job.todo = <<>>
    /\ job' = IF job.op = "list" THEN NoJob
              ELSE Reply([Msg("done") EXCEPT !.n = job.sent])
    /\ UNCHANGED <<files, up, connected, export, pending, eventQueue, air, phone, used>>

\* send_history_cbor, send_history_binary: retry until the stack has room or
\* the phone is gone.
WaitsForRoom == connected /\ Len(air) < Window
SendStops == connected => Len(air) < Window

Notify ==
    /\ job.msg # NoMsg
    /\ SendStops
    /\ air' = IF connected THEN Append(air, job.msg) ELSE air
    /\ job' = IF job.op = "reply" THEN NoJob ELSE [job EXCEPT !.msg = NoMsg]
    /\ UNCHANGED <<files, up, connected, export, pending, eventQueue, phone, used>>

\* change_mode away from Portable and back: deinit, then init.  The pending
\* write survives both.  Stopping the server disconnects the phone, whose
\* callback still runs.
LeaveMode ==
    /\ job = NoJob
    /\ Uses("modes")
    /\ up' = ~up
    /\ connected' = FALSE
    /\ export' = IF up THEN NoExport ELSE export
    /\ eventQueue' = IF connected THEN Posted(eventQueue, "disconnected") ELSE eventQueue
    /\ phone' = Phone
    /\ air' = <<>>
    /\ UNCHANGED <<files, pending, job>>

-----------------------------------------------------------------------------
(* The phone and the link (external)                                       *)

Gaps == {i \in 0 .. phone.total - 1 : i \notin DOMAIN phone.got}

\* "pts" of a fill: the missing indices in order.
InOrder(S) == {pts \in [1 .. Cardinality(S) -> S] :
                  \A j, k \in DOMAIN pts : j < k => pts[j] < pts[k]}

Write(r) ==
    /\ phone.here /\ ~phone.waiting
    /\ Uses("requests")
    /\ OnHistoryWrite(r)
    /\ phone' = [phone EXCEPT !.waiting = TRUE, !.op = r.op, !.since = Mishaps,
                     !.asked = IF r.op = "start" THEN r.session ELSE @,
                     !.session = IF r.op = "start" THEN 0 ELSE @,
                     !.got = IF r.op = "start" THEN <<>> ELSE @]
    /\ UNCHANGED <<device, connected, air>>

Ask ==
    \/ Write(Request("list", 0, <<>>))
    \/ Write(Request("end", 0, <<>>))
    \/ \E s \in Sessions : Write(Request("start", s, <<>>))
    \/ \E s \in Sessions : Write(Request("delete", s, <<>>))
    \/ /\ phone.session # 0 /\ Gaps # {}
       /\ \E pts \in InOrder(Gaps) : Write(Request("fill", 0, pts))
    \/ phone.session = 0 /\ Write(Request("fill", 0, <<0>>))

\* Indices at which the phone files the points of a notification.
Filed(m) == {m.first + k - 1 : k \in DOMAIN m.points}

\* The answer that ends each request.
Answer == [list |-> "sessions", start |-> "done", fill |-> "done",
           end |-> "ended", delete |-> "deleted", none |-> "none"]

Answers(m) ==
    \/ m.type = "error"
    \/ m.type = Answer[phone.op] /\ (phone.op = "start" => phone.session # 0)

Deliver ==
    /\ air # <<>>
    /\ air' = Tail(air)
    /\ LET m == Head(air) IN
       phone' =
         CASE m.type = "started" /\ phone.waiting /\ phone.op = "start"
                /\ m.session = phone.asked ->
                [phone EXCEPT !.session = m.session, !.total = m.n, !.got = <<>>]
           [] m.type = "points" /\ phone.session # 0 ->
                [phone EXCEPT !.got =
                    [i \in Filed(m) \cup DOMAIN @ |->
                        IF i \in Filed(m) THEN m.points[i - m.first + 1] ELSE @[i]]]
           [] phone.waiting /\ Answers(m) ->
                [phone EXCEPT !.waiting = FALSE,
                              !.op = IF m.type = "error" THEN "none" ELSE @]
           [] OTHER -> phone
    /\ UNCHANGED <<device, connected, pending, eventQueue, used>>

Lose ==
    /\ air # <<>>
    /\ Uses("losses")
    /\ air' = Tail(air)
    /\ UNCHANGED <<device, connected, pending, eventQueue, phone>>

\* The phone gives up on an answer when nothing is on its way any more.
GiveUp ==
    /\ phone.waiting /\ air = <<>> /\ job = NoJob /\ pending = NoRequest
    /\ phone' = [phone EXCEPT !.waiting = FALSE, !.op = "none"]
    /\ UNCHANGED <<device, connected, pending, eventQueue, air, used>>

-----------------------------------------------------------------------------

Main == Dispatch \/ ActivateExport \/ Turn \/ ReadError \/ LeaveLoop \/ EndLoop \/ Notify

HistoryNext ==
    \/ OnConnect \/ OnDisconnect \/ OtherEvent
    \/ Dispatch \/ ActivateExport \/ Turn \/ ReadError \/ LeaveLoop \/ EndLoop \/ Notify
    \/ LeaveMode
    \/ Ask \/ Deliver \/ Lose \/ GiveUp

\* The orchestrator keeps running, and the link delivers what the stack has
\* accepted or is lost.
Fairness == WF_historyVars(Main) /\ WF_historyVars(Deliver)

HistorySpec == HistoryInit /\ [][HistoryNext]_historyVars /\ Fairness
-----------------------------------------------------------------------------

Ops == {"none", "list", "start", "fill", "end", "delete"}
Indices == 0 .. Points - 1

(* Types of the state.                                                     *)
HistoryTypeOK ==
    /\ files \subseteq Sessions
    /\ up \in BOOLEAN /\ connected \in BOOLEAN
    /\ export \in [active : BOOLEAN, session : Sessions \cup {0}]
    /\ pending.op \in Ops /\ pending.session \in Sessions \cup {0}
    /\ eventQueue \in Seq({"connected", "disconnected", "history", "other"})
    /\ Len(eventQueue) <= QueueDepth /\ Len(air) <= Window
    /\ job.op \in {"none", "reply", "list", "activate", "start", "fill"}
    /\ job.session \in Sessions \cup {0} /\ job.sent \in 0 .. Points
    /\ phone.here = connected
    /\ phone.session \in Sessions \cup {0} /\ phone.total \in {0, Points}
    /\ DOMAIN phone.got \subseteq Indices

(* Whatever was lost, repeated or interrupted, what the phone files under  *)
(* index i of the session it is downloading is point i of that session     *)
(* (handle_history_start, handle_history_fill, send_history_binary).  It   *)
(* needs that at most two connections overlap: two requests left behind by *)
(* two phones can answer a third (see the README).                         *)
HoldsStoredPoints ==
    \A i \in DOMAIN phone.got : phone.got[i] = <<phone.session, i>>

(* In the first connection, a download or a fill that ended without an     *)
(* error, and during which nothing was lost or unreadable, leaves no gap:  *)
(* the loops skip no point, and a fill resends all that was asked for.     *)
CompleteUnlessLost ==
    /\ used.connections = 1 /\ Mishaps = phone.since
    /\ phone.session # 0 /\ ~phone.waiting /\ phone.op \in {"start", "fill"}
    => Gaps = {}

(* A write is eventually taken, although the orchestrator may be streaming *)
(* when it arrives and only the event, not the write, wakes it.            *)
RequestsHandled == (pending # NoRequest) ~> (pending = NoRequest)

(* The orchestrator always gets out of a blocking loop, whether the phone  *)
(* reads on, disconnects or comes back.                                    *)
StreamsEnd == (job # NoJob) ~> (job = NoJob)
=============================================================================
