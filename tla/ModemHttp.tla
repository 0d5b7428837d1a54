------------------------------ MODULE ModemHttp ------------------------------
(***************************************************************************)
(* components/airgradient-cellular: http_get() and http_post() of the      *)
(* modem driver, over the AT command handler.                              *)
(*                                                                         *)
(* A command is text on a serial line, and so is its answer; nothing in an *)
(* answer says which command it belongs to.  A wait skips what it does not *)
(* expect and gives up after its time-out, but the answer may still come,  *)
(* and is then there for the next wait.  The module works through its      *)
(* commands in order, so line holds, in the order of the commands, what    *)
(* was not yet read: a wait that gives up with its answer still in line is *)
(* one whose answer is late.                                               *)
(***************************************************************************)
EXTENDS Naturals, Sequences, FiniteSets, SequencesExt

CONSTANTS
  Kinds,        \* the kinds of request the application makes
  MaxRequests,  \* bound: requests
  MaxLate,      \* bound: answers of the module overdue at one time
  BodySizes,    \* sizes of a response, in units of half a chunk
  BufferSizes   \* sizes of the caller's buffer, 0 for none

ASSUME HttpBounds == /\ {MaxRequests, MaxLate} \subseteq Nat
                     /\ Kinds \subseteq {"get", "post"}
                     /\ BodySizes \subseteq Nat
                     /\ BufferSizes \subseteq Nat

HTTP_READ_CHUNK_SIZE == 2
HTTP_GET_MAX_RETRIES == 3

VARIABLES
  httpStep,  \* what the driver waits for
  request,   \* number, kind and buffer size of the request
  todo,      \* commands before the action; the answer of the first is awaited
  attempt,   \* retry_count
  response,  \* what +HTTPACTION said: whose response it is, and its size
  offset,    \* offset of the next chunk
  body,      \* response_body: the units written so far
  result,    \* how the last request ended
  line,      \* the answers of the module, not yet read
  module,    \* the module: session, URL and response
  lateness,  \* ghost: waits that gave up since all was read
  trouble,   \* ghost: something went wrong in this request
  before,    \* ghost: something went wrong in the previous one
  missed,    \* ghost: the prompt for the body of a POST was once missed
  short      \* ghost: a read of this request brought less than it asked for

requestVars == <<request, todo, attempt, response, offset, body>>
httpVars == <<httpStep, requestVars, result, line, module, lateness, trouble, before, missed,
              short>>

Token(t) == [t |-> t]
ActionDone(r, size) == [t |-> "+HTTPACTION", of |-> r, size |-> size]
ModuleError == [t |-> "+HTTPACTION", of |-> 0, size |-> 0]
Body(units) == [t |-> "+HTTPREAD", units |-> units]

Closed == [open |-> FALSE, prompt |-> FALSE, target |-> 0, served |-> 0]
Unit(r, i) == <<r, i>>

(* What the module answers to command c, and its state after it.           *)
Reply(tokens, state) == [tokens |-> tokens, state |-> state]
Replies(c) ==
  IF module.prompt THEN {Reply(<<Token("OK")>>, [module EXCEPT !.prompt = FALSE])}
  ELSE IF module.open = (c = "HTTPINIT") THEN {Reply(<<Token("ERROR")>>, module)}
  ELSE CASE c = "HTTPINIT" -> {Reply(<<Token("OK")>>, [Closed EXCEPT !.open = TRUE])}
         [] c = "URL"      -> {Reply(<<Token("OK")>>, [module EXCEPT !.target = request.number])}
         [] c = "PARA"     -> {Reply(<<Token("OK")>>, module)}
         [] c = "HTTPDATA" -> {Reply(<<Token("DOWNLOAD")>>, [module EXCEPT !.prompt = TRUE])}
         [] c = "body"     -> {Reply(<<Token("ERROR")>>, module)}
         [] c = "HTTPTERM" -> {Reply(<<Token("OK")>>, Closed)}
         [] c = "HTTPACTION" ->
              {Reply(<<Token("OK")>>, module),
               Reply(<<Token("OK"), ModuleError, Token("OK")>>, module)}
              \cup {Reply(<<Token("OK"), ActionDone(module.target, n), Token("OK")>>,
                          [module EXCEPT !.served = n]) : n \in BodySizes}

(* The answer to HTTPREAD when the module returns n units.  For n = 0 it   *)
(* has one "+HTTPREAD: 0", where the driver reads a length and then waits  *)
(* in vain for the end marker.                                             *)
ReadReply(from, n) ==
  IF module.prompt \/ ~module.open THEN CHOOSE r \in Replies("HTTPREAD") : TRUE
  ELSE LET end == IF from + n > module.served THEN module.served ELSE from + n IN
       Reply(IF end > from
               THEN <<Body([i \in 1 .. end - from |-> Unit(module.target, from + i)]), Token("OK")>>
               ELSE <<Token("OK")>>,
             module)

HttpInit == /\ httpStep = "idle"
            /\ request = [number |-> 0, kind |-> "get", buffer |-> 0]
            /\ todo = <<>>
            /\ attempt = 0
            /\ response = [of |-> 0, size |-> 0]
            /\ offset = 0
            /\ body = <<>>
            /\ result = "none"
            /\ line = <<>>
            /\ module = Closed
            /\ lateness = 0
            /\ trouble = FALSE
            /\ before = FALSE
            /\ missed = FALSE
            /\ short = FALSE

(* send_at(c), with rest still unread *)
Send(c, rest) == \E r \in Replies(c) : line' = rest \o r.tokens /\ module' = r.state
(* HTTPREAD=from,asked, of which the module may return any first part. *)
SendRead(from, rest) ==
  LET left  == response.size - from
      asked == IF left < HTTP_READ_CHUNK_SIZE THEN left ELSE HTTP_READ_CHUNK_SIZE
  IN \E n \in 0 .. asked :
       /\ line' = rest \o ReadReply(from, n).tokens
       /\ module' = ReadReply(from, n).state
       /\ short' = (short \/ n < asked)

Unread(n) == SubSeq(line, n + 1, Len(line))

(* wait_response(expected): the token it ends with, what is then unread,   *)
(* and whether an answer was late.  It skips what it does not expect; a    *)
(* time-out may leave any of what it would have skipped or taken.          *)
Waits(expected) ==
  LET Matches == {i \in 1 .. Len(line) : line[i].t \in expected}
      Taken   == {[token |-> line[n], rest |-> Unread(n), late |-> 0] :
                    n \in {i \in Matches : \A j \in Matches : i <= j}}
      GivenUp == {[token |-> Token("timeout"), rest |-> Unread(n),
                   late |-> IF n = Len(line) THEN 0 ELSE 1] :
                    n \in {k \in 0 .. Len(line) : \A j \in Matches : k < j}}
  IN {w \in Taken \cup GivenUp : lateness + w.late <= MaxLate}

Bad(w) == w.token.t \notin {"OK", "DOWNLOAD", "+HTTPACTION", "+HTTPREAD"}
Heard(w) == /\ lateness' = IF w.rest = <<>> THEN 0 ELSE lateness + w.late
            /\ missed' = (missed \/ (httpStep = "setup" /\ Head(todo) = "HTTPDATA"
                                     /\ module.prompt /\ w.token.t # "DOWNLOAD"))
            /\ UNCHANGED before

(* faulty variant of Terminate *)
ReturnWithoutTerm(r, rest) == /\ line' = rest
                              /\ UNCHANGED module
                              /\ httpStep' = "idle"
                              /\ result' = r
(* _http_terminate() and then the return of the request with outcome r *)
Terminate(r, rest) == /\ Send("HTTPTERM", rest)
                      /\ httpStep' = "term"
                      /\ result' = r

(* http_get(), http_post(): the commands that lead to the action. *)
Scripts(kind) ==
  {<<"HTTPINIT">> \o params \o <<"URL">> \o (IF kind = "post" THEN <<"HTTPDATA", "body">> ELSE <<>>) :
     params \in {<<>>, <<"PARA">>}}

Request ==
  /\ httpStep = "idle"
  /\ request.number < MaxRequests
  /\ \E kind \in Kinds, n \in BufferSizes :
       /\ request' = [number |-> request.number + 1, kind |-> kind, buffer |-> n]
       /\ todo' \in Scripts(kind)
  /\ Send("HTTPINIT", line)
  /\ httpStep' = "setup"
  /\ attempt' = 0
  /\ response' = [of |-> 0, size |-> 0]
  /\ offset' = 0
  /\ body' = <<>>
  /\ result' = "none"
  /\ before' = trouble
  /\ trouble' = FALSE
  /\ short' = FALSE
  /\ UNCHANGED <<lateness, missed>>

(* The next command, once the one before it was answered as it should be.  *)
Proceed(rest) ==
  /\ todo' = Tail(todo)
  /\ IF Tail(todo) # <<>>
       THEN Send(Head(Tail(todo)), rest) /\ httpStep' = "setup"
       ELSE Send("HTTPACTION", rest) /\ httpStep' = "action"
  /\ UNCHANGED result

(* _http_init(), _http_set_timeouts(), _http_set_url(), the upload *)
Setup ==
  /\ httpStep = "setup"
  /\ \E w \in Waits({"ERROR", IF Head(todo) = "HTTPDATA" THEN "DOWNLOAD" ELSE "OK"}) :
       /\ Heard(w)
       /\ trouble' = (trouble \/ w.token.t = "timeout")
       /\ \/ ~Bad(w) /\ Proceed(w.rest)
          \/ /\ Head(todo) = "HTTPINIT" /\ w.token.t = "ERROR"
             /\ Send("HTTPINIT", w.rest)
             /\ httpStep' = "reinit"
             /\ UNCHANGED <<todo, result>>
          \/ /\ Head(todo) = "HTTPINIT" /\ w.token.t = "timeout"
             /\ httpStep' = "idle"
             /\ result' = "failed"
             /\ line' = w.rest
             /\ UNCHANGED <<todo, module>>
          \/ /\ Head(todo) # "HTTPINIT" /\ Bad(w)
             /\ Terminate("failed", w.rest)
             /\ UNCHANGED todo
  /\ UNCHANGED <<request, attempt, response, offset, body, short>>

(* The second HTTPINIT of _http_init(); when it fails nothing is closed. *)
Reinit ==
  /\ httpStep = "reinit"
  /\ \E w \in Waits({"OK", "ERROR"}) :
       /\ Heard(w)
       /\ trouble' = (trouble \/ w.token.t = "timeout")
       /\ \/ ~Bad(w) /\ Proceed(w.rest)
          \/ /\ Bad(w)
             /\ httpStep' = "idle"
             /\ result' = "failed"
             /\ line' = w.rest
             /\ UNCHANGED <<todo, module>>
  /\ UNCHANGED <<request, attempt, response, offset, body, short>>

(* _http_action(): the immediate answer to HTTPACTION *)
Action ==
  /\ httpStep = "action"
  /\ \E w \in Waits({"OK", "ERROR"}) :
       /\ Heard(w)
       /\ trouble' = (trouble \/ w.token.t = "timeout")
       /\ \/ /\ ~Bad(w)
             /\ httpStep' = "urc"
             /\ line' = w.rest
             /\ UNCHANGED <<module, result>>
          \/ Bad(w) /\ Terminate("failed", w.rest)
  /\ UNCHANGED <<requestVars, short>>

(* _http_action(): the result; only a GET is retried, on a module error *)
ActionResult ==
  /\ httpStep = "urc"
  /\ \E w \in Waits({"+HTTPACTION", "ERROR"}) :
       /\ Heard(w)
       /\ trouble' = (trouble \/ w.token.t = "timeout" \/ w.token = ModuleError)
       /\ \/ /\ w.token.t = "+HTTPACTION" /\ w.token # ModuleError
             /\ response' = [of |-> w.token.of, size |-> w.token.size]
             /\ httpStep' = "drain"
             /\ line' = w.rest
             /\ UNCHANGED <<module, result, attempt>>
          \/ /\ w.token = ModuleError /\ request.kind = "get"
             /\ attempt + 1 < HTTP_GET_MAX_RETRIES
             /\ attempt' = attempt + 1
             /\ Send("HTTPACTION", w.rest)
             /\ httpStep' = "action"
             /\ UNCHANGED <<result, response>>
          \/ /\ w.token = ModuleError =>
                  request.kind = "post" \/ attempt + 1 >= HTTP_GET_MAX_RETRIES
             /\ w.token = ModuleError \/ Bad(w)
             /\ Terminate("failed", w.rest)
             /\ UNCHANGED <<attempt, response>>
  /\ UNCHANGED <<request, todo, offset, body, short>>

(* _drain_terminal_response(), and the body if there is one to read *)
Drain ==
  /\ httpStep = "drain"
  /\ \E w \in Waits({"OK", "ERROR"}) :
       /\ Heard(w)
       /\ IF response.size > 0 /\ request.buffer > 0
            THEN SendRead(0, w.rest) /\ httpStep' = "read" /\ UNCHANGED result
            ELSE Terminate("ok", w.rest) /\ UNCHANGED short
  /\ UNCHANGED <<requestVars, trouble>>

WithoutLimit(units) == body \o units              \* faulty variant of Written
(* What fits into the buffer of the caller. *)
Written(units) ==
  LET space == request.buffer - Len(body) IN
  body \o SubSeq(units, 1, IF Len(units) < space THEN Len(units) ELSE space)

(* _http_read_body(): one chunk; clear_buffer() drops what has arrived.    *)
(* The offset moves on by what was asked for, whatever came.               *)
ReadChunk ==
  /\ httpStep = "read"
  /\ \E w \in Waits({"+HTTPREAD", "ERROR"}) :
       /\ Heard(w)
       /\ trouble' = (trouble \/ w.token.t = "timeout")
       /\ \/ /\ ~Bad(w)
             /\ body' = Written(w.token.units)
             /\ offset' = offset + HTTP_READ_CHUNK_SIZE
             /\ \E n \in 0 .. Len(w.rest) :
                  LET rest == SubSeq(w.rest, n + 1, Len(w.rest)) IN
                  IF offset' < response.size
                    THEN SendRead(offset', rest) /\ UNCHANGED <<httpStep, result>>
                    ELSE Terminate("ok", rest) /\ UNCHANGED short
          \/ /\ Bad(w)
             /\ Terminate("failed", w.rest)
             /\ UNCHANGED <<body, offset, short>>
  /\ UNCHANGED <<request, todo, attempt, response>>

(* The end of _http_terminate(): whatever the answer, the request returns. *)
Terminated ==
  /\ httpStep = "term"
  /\ \E w \in Waits({"OK", "ERROR"}) : Heard(w) /\ line' = w.rest
                                        /\ trouble' = (trouble \/ w.token.t = "timeout")
  /\ httpStep' = "idle"
  /\ UNCHANGED <<requestVars, result, module, short>>

HttpNext == \/ Request
            \/ Setup
            \/ Reinit
            \/ Action
            \/ ActionResult
            \/ Drain
            \/ ReadChunk
            \/ Terminated

HttpSpec == HttpInit /\ [][HttpNext]_httpVars
-----------------------------------------------------------------------------
(* What a request that succeeds returns is the answer to that request: the *)
(* status of its own action, and a body of units of its own response, in   *)
(* their order and each once, that fits into the buffer.  If every read    *)
(* brought what it asked for it is the first part of the response, as much *)
(* as the buffer holds; a read that came short leaves a gap that the       *)
(* caller cannot see.                                                      *)
InOrder(units, limit) ==
  \A i \in 1 .. Len(units) :
    /\ \E p \in 1 .. limit : units[i] = Unit(request.number, p)
    /\ \A k \in 1 .. i - 1 : units[k][2] < units[i][2]
ResponseIsOwn ==
  result = "ok" =>
    /\ response.of = request.number
    /\ Len(body) <= request.buffer
    /\ InOrder(body, response.size)
    /\ ~short =>
         body = [i \in 1 .. IF response.size < request.buffer THEN response.size ELSE request.buffer
                   |-> Unit(request.number, i)]

(* A request fails only if something went wrong in it or in the one before *)
(* it: answers that come late do not put the following requests out of     *)
(* step with the module for good.                                          *)
FailureDoesNotSpread == result = "failed" => trouble \/ before

(* There is one exception: the commands that follow a missed prompt.       *)
OnlyMissedPromptSpreads == result = "failed" => trouble \/ before \/ missed
=============================================================================
