----------------------------- MODULE ModemProofs -----------------------------
(***************************************************************************)
(* The modem driver.                                                       *)
(*                                                                         *)
(* NetworkRegistration, for every set of operators, every number of faults *)
(* and moves and every limit: the driver judges the operator the module    *)
(* uses, and remembers only one that has registered.                       *)
(*                                                                         *)
(* ModemHttp, for every number of requests, every size of a response and   *)
(* of a buffer, with at most one answer overdue at a time: a request that  *)
(* succeeds returns its own response, and one that fails does so for a     *)
(* reason that is not older than the request before it, but for a missed   *)
(* prompt.                                                                 *)
(***************************************************************************)
EXTENDS NetworkRegistration, ModemHttp, SequenceTheorems, TLAPS

Judging == {"CheckNetworkRegistration", "CheckServiceStatus", "NetworkReady"}

(* The two ways to leave an operator end the judging. *)
LEMMA NextOperatorNotJudged ==
  ASSUME NEW i, TryNext(i)
  PROVE  regState' \notin Judging
BY DEF TryNext, Judging

LEMMA GivingUpNotJudged ==
  ASSUME NEW again, NotYet(again)
  PROVE  \/ regState' \notin Judging
         \/ regState' = again /\ UNCHANGED operatorIndex
BY NextOperatorNotJudged DEF NotYet

(* A handler that keeps list, index and selection, and begins no judging.  *)
LEMMA KeptInPlace ==
  ASSUME JudgesSelected, UNCHANGED <<scanned, operatorIndex, selected>>,
         regState' \in Judging => regState \in Judging
  PROVE  JudgesSelected'
BY DEF JudgesSelected, Judging

LEMMA ConfiguringSelects ==
  ASSUME ConfigureManualNetwork
  PROVE  JudgesSelected'
<1>1. UNCHANGED scanned
  BY DEF ConfigureManualNetwork
<1>2. CASE regState' \notin Judging
  BY <1>2 DEF JudgesSelected, Judging
<1>3. CASE regState' \in Judging
  <2>1. /\ StartIndex < Len(scanned)
        /\ selected' = scanned[StartIndex + 1]
        /\ operatorIndex' = StartIndex
    BY <1>3, NextOperatorNotJudged DEF ConfigureManualNetwork, Judging
  <2>2. QED
    BY <1>1, <2>1 DEF JudgesSelected
<1>4. QED
  BY <1>2, <1>3

LEMMA CheckingKeepsSelection ==
  ASSUME JudgesSelected, CheckNetworkRegistration
  PROVE  JudgesSelected'
<1>1. UNCHANGED <<scanned, selected>>
  BY DEF CheckNetworkRegistration
<1>2. regState \in Judging
  BY DEF CheckNetworkRegistration, Judging
<1>3. regState' \notin Judging \/ UNCHANGED operatorIndex
  <2>1. CASE NotYet("CheckNetworkRegistration")
    BY <2>1, GivingUpNotJudged
  <2>2. CASE ~NotYet("CheckNetworkRegistration")
    BY <2>2 DEF CheckNetworkRegistration
  <2>3. QED
    BY <2>1, <2>2
<1>4. CASE regState' \notin Judging
  BY <1>4 DEF JudgesSelected, Judging
<1>5. CASE UNCHANGED operatorIndex
  BY <1>1, <1>2, <1>5, KeptInPlace
<1>6. QED
  BY <1>3, <1>4, <1>5

LEMMA RegStep ==
  ASSUME JudgesSelected, [RegNext]_regVars
  PROVE  JudgesSelected'
<1>1. CASE Start \/ CheckModuleReady \/ PrepareModule \/ ScanOperators
           \/ OperatorListExhausted \/ OperationTimesOut
  <2>1. regState' \notin Judging
    BY <1>1 DEF Start, CheckModuleReady, PrepareModule, ScanOperators,
                OperatorListExhausted, OperationTimesOut, Judging
  <2>2. QED
    BY <2>1 DEF JudgesSelected, Judging
<1>2. CASE ConfigureManualNetwork
  BY <1>2, ConfiguringSelects
<1>3. CASE CheckNetworkRegistration
  BY <1>3, CheckingKeepsSelection
<1>4. CASE CheckServiceStatus
  BY <1>4, KeptInPlace DEF CheckServiceStatus, driverVars, Judging
<1>5. CASE NetworkReady
  BY <1>5, KeptInPlace DEF NetworkReady, driverVars, Judging
<1>6. CASE Move
  BY <1>6, KeptInPlace DEF Move, driverVars
<1>7. CASE UNCHANGED regVars
  BY <1>7, KeptInPlace DEF regVars, driverVars
<1>8. QED
  BY <1>1, <1>2, <1>3, <1>4, <1>5, <1>6, <1>7 DEF RegNext, Handler

(* While an operator is being judged it is the one the module was told to  *)
(* use, whatever timed out, failed or moved before.                        *)
THEOREM JudgedIsSelected == RegSpec => []JudgesSelected
<1>1. RegInit => JudgesSelected
  BY DEF RegInit, JudgesSelected
<1>2. JudgesSelected /\ [RegNext]_regVars => JudgesSelected'
  BY RegStep
<1>3. QED
  BY <1>1, <1>2, PTL DEF RegSpec

(* The operator that is remembered, to be tried first next time, is the    *)
(* one in use, and it does let the device register.                        *)
THEOREM RemembersWhatRegistered ==
  RegSpec => [][lastSuccessful' = lastSuccessful
                \/ (lastSuccessful' = selected /\ Gives(selected, "no service"))]_regVars
<1>1. ASSUME JudgesSelected, RegNext
      PROVE  \/ lastSuccessful' = lastSuccessful
             \/ lastSuccessful' = selected /\ Gives(selected, "no service")
  <2>1. CASE CheckNetworkRegistration
    BY <1>1, <2>1 DEF CheckNetworkRegistration, JudgesSelected
  <2>2. CASE ~CheckNetworkRegistration
    BY <1>1, <2>2 DEF RegNext, Handler, Start, CheckModuleReady, PrepareModule, ScanOperators,
                      ConfigureManualNetwork, CheckServiceStatus, NetworkReady,
                      OperatorListExhausted, OperationTimesOut, Move, driverVars
  <2>3. QED
    BY <2>1, <2>2
<1>2. QED
  BY <1>1, JudgedIsSelected, PTL DEF RegSpec
-----------------------------------------------------------------------------
(* The tokens of a line.                                                   *)
Tok == [t : {"OK", "ERROR", "DOWNLOAD"}]
       \cup [t : {"+HTTPACTION"}, of : Nat, size : Nat]
       \cup [t : {"+HTTPREAD"}, units : Seq(Nat \X Nat)]

HttpTypes ==
  /\ httpStep \in {"idle", "setup", "reinit", "action", "urc", "drain", "read", "term"}
  /\ request \in [number : Nat, kind : {"get", "post"}, buffer : Nat]
  /\ response \in [of : Nat, size : Nat]
  /\ offset \in Nat
  /\ line \in Seq(Tok)
  /\ module \in [open : BOOLEAN, prompt : BOOLEAN, target : Nat, served : Nat]
  /\ lateness \in {0, 1}

(* What is in line: words that answer a command (OK, ERROR), and stale     *)
(* tokens of other kinds, at most so far from its head.                    *)
Plain(i) == line[i].t \in {"OK", "ERROR"}
HasError == \E i \in 1 .. Len(line) : line[i].t = "ERROR"
StaleWithin(n) == \A i \in 1 .. Len(line) : Plain(i) \/ i <= n
ErrorsWithin(n) == \A i \in 1 .. Len(line) : line[i].t = "ERROR" => i <= n
AllOK == \A i \in 1 .. Len(line) : line[i].t = "OK"

OwnAction(m) == m = ModuleError \/ m = ActionDone(request.number, module.served)
Serves == module.open /\ ~module.prompt /\ module.target = request.number
Nothing == offset = 0 /\ body = <<>> /\ result = "none"
OnlyOwn == \A i \in 1 .. Len(line) : Plain(i) \/ (i = Len(line) - 1 /\ OwnAction(line[i]))

Commands == {"HTTPINIT", "PARA", "URL", "HTTPDATA", "body"}
Follows == {<<"HTTPINIT", "PARA">>, <<"HTTPINIT", "URL">>, <<"PARA", "URL">>,
            <<"URL", "HTTPDATA">>, <<"HTTPDATA", "body">>}
(* The commands of a request that are still to be sent.                    *)
IsChain(s) == /\ s \in Seq(Commands) /\ Len(s) > 0
              /\ \A i \in 1 .. Len(s) - 1 : <<s[i], s[i + 1]>> \in Follows
IsScript(s) == IsChain(s) /\ s[Len(s)] \in {"URL", "body"}

(* The invariant, for each thing the driver may be waiting for.  How far   *)
(* from the head of the line a stale token or an ERROR can be shrinks with *)
(* every command that is answered: none is left when the result of the     *)
(* action, or a chunk of the body, is awaited.  With nothing overdue the   *)
(* line holds no more than the answer to the last command and one word.    *)
AtIdle ==
  /\ ~module.prompt /\ StaleWithin(2)
  /\ module.open \/ HasError => Len(line) <= 2
  /\ lateness = 0 => AllOK /\ Len(line) <= (IF module.open THEN 0 ELSE 1)
  /\ ~missed => ~HasError /\ (module.open => AllOK /\ Len(line) > 0 /\ trouble)
AtTerm ==
  /\ ~module.prompt /\ Len(line) > 0 /\ Plain(Len(line)) /\ StaleWithin(3)
  /\ module.open \/ HasError => Len(line) <= 3
  /\ lateness = 0 => ~module.open /\ Len(line) <= 2 /\ AllOK
  /\ ~missed => ~HasError /\ ~module.open
(* While command c is awaited: how far a stale token, and an ERROR, can be. *)
StaleAt(c) == IF c = "HTTPINIT" THEN 2 ELSE IF c \in {"PARA", "URL"} THEN 1 ELSE 0
ErrorAt(c) == CASE c = "HTTPINIT" -> 3
                [] c \in {"PARA", "URL"} -> 2
                [] c = "HTTPDATA" -> 1
                [] c = "body" -> 0
Awaits(c) ==
  /\ module.open /\ Len(line) > 0 /\ Nothing
  /\ module.prompt <=> c = "HTTPDATA"
  /\ IF c = "HTTPDATA" THEN line[Len(line)].t = "DOWNLOAD" ELSE Plain(Len(line))
  /\ c \notin {"HTTPINIT", "PARA"} => module.target = request.number
  /\ \A i \in 1 .. Len(line) : Plain(i) \/ i <= StaleAt(c) \/ (i = Len(line) /\ c = "HTTPDATA")
  /\ ErrorsWithin(ErrorAt(c))
  /\ HasError => Len(line) <= 3
  /\ lateness = 0 => /\ Len(line) <= 2 /\ (HasError => c = "HTTPINIT" /\ Len(line) = 1)
                     /\ \A i \in 1 .. Len(line) : Plain(i) \/ (i = Len(line) /\ c = "HTTPDATA")
  /\ ~missed /\ HasError =>
       /\ before /\ (c = "HTTPINIT" => line[1].t = "OK")
       /\ \A i, k \in 1 .. Len(line) : line[i].t = "ERROR" /\ line[k].t = "ERROR" => i = k
AtSetup == IsScript(todo) /\ Awaits(Head(todo))
AtReinit ==
  /\ IsScript(todo) /\ Head(todo) = "HTTPINIT" /\ module.open /\ ~module.prompt /\ Nothing
  /\ missed /\ Len(line) > 0 /\ Plain(Len(line)) /\ StaleWithin(1) /\ Len(line) <= 3
  /\ lateness = 0 => Len(line) = 1 /\ line[1].t = "ERROR"
AtAction ==
  /\ Serves /\ Nothing /\ Len(line) > 0 /\ Plain(1) /\ OnlyOwn /\ ErrorsWithin(1)
  /\ HasError => Len(line) <= 5 /\ (before \/ missed)
  /\ lateness = 0 => Len(line) <= 4 /\ ~HasError
AtUrc ==
  /\ Serves /\ Nothing /\ OnlyOwn /\ ~HasError
  /\ lateness = 0 => Len(line) <= 3
Knows == Serves /\ result = "none" /\ response = [of |-> request.number, size |-> module.served]
AtDrain == Knows /\ offset = 0 /\ body = <<>> /\ Len(line) = 1 /\ AllOK
Least(a, b) == IF a < b THEN a ELSE b
(* The first n units of the response, and n units of it after from.        *)
FirstUnits(n) == [i \in 1 .. n |-> Unit(request.number, i)]
Part(from, n) == [i \in 1 .. n |-> Unit(request.number, from + i)]
Asked(from) == Least(HTTP_READ_CHUNK_SIZE, response.size - from)
(* The chunk read at from, which is whole if no read came short.           *)
IsChunk(m, from) ==
  \E n \in 1 .. Asked(from) :
    /\ m = Body(Part(from, n))
    /\ ~short => n = Asked(from)
(* The body once the response was read up to to.                           *)
ReadUpTo(to) ==
  /\ body \in Seq(Nat \X Nat) /\ Len(body) <= request.buffer /\ InOrder(body, to)
  /\ ~short => body = FirstUnits(Least(to, request.buffer))
AtRead ==
  /\ Knows /\ offset < response.size /\ ReadUpTo(offset)
  /\ Len(line) \in 1 .. 3
  /\ \A i \in 1 .. Len(line) :
       line[i].t = "OK" \/ (i = Len(line) - 1 /\ IsChunk(line[i], offset))

HttpInv ==
  /\ HttpTypes
  /\ httpStep = "idle" => AtIdle
  /\ httpStep = "term" => AtTerm
  /\ httpStep = "setup" => AtSetup
  /\ httpStep = "reinit" => AtReinit
  /\ httpStep = "action" => AtAction
  /\ httpStep = "urc" => AtUrc
  /\ httpStep = "drain" => AtDrain
  /\ httpStep = "read" => AtRead
  /\ ResponseIsOwn /\ OnlyMissedPromptSpreads

(* A wait for X that ends with w has read the first n tokens of line.      *)
Waited(w, n, X) ==
  /\ w.rest \in Seq(Tok) /\ Len(w.rest) = Len(line) - n
  /\ \A i \in 1 .. Len(w.rest) : w.rest[i] = line[n + i]
  /\ \A i \in 1 .. n - 1 : line[i].t \notin X
  /\ lateness' \in {0, 1}
  /\ \/ /\ n > 0 /\ w.token = line[n] /\ line[n] \in Tok /\ line[n].t \in X
        /\ lateness' = 0 => n = Len(line) \/ lateness = 0
     \/ /\ w.token = Token("timeout")
        /\ n > 0 => line[n].t \notin X
        /\ n = Len(line) \/ (lateness = 0 /\ lateness' = 1)

LEMMA UnreadProperties ==
  ASSUME line \in Seq(Tok), NEW n \in 0 .. Len(line)
  PROVE  /\ Unread(n) \in Seq(Tok) /\ Len(Unread(n)) = Len(line) - n
         /\ \A i \in 1 .. Len(Unread(n)) : Unread(n)[i] = line[n + i]
<1>1. \A i \in n + 1 .. Len(line) : line[i] \in Tok
  BY ElementOfSeq, LenProperties
<1>2. /\ Unread(n) \in Seq(Tok)
      /\ Len(Unread(n)) = IF n + 1 <= Len(line) THEN Len(line) - (n + 1) + 1 ELSE 0
      /\ \A i \in 1 .. Len(line) - (n + 1) + 1 : Unread(n)[i] = line[n + 1 + i - 1]
  BY <1>1, SubSeqProperties, LenProperties DEF Unread
<1>3. QED
  BY <1>2, LenProperties

LEMMA WaitEnds ==
  ASSUME HttpTypes, MaxLate <= 1, NEW X, NEW w \in Waits(X), Heard(w)
  PROVE  \E n \in 0 .. Len(line) : Waited(w, n, X)
<1> DEFINE Matches == {i \in 1 .. Len(line) : line[i].t \in X}
<1>1. line \in Seq(Tok) /\ Len(line) \in Nat /\ lateness \in {0, 1} /\ MaxLate \in Nat
  BY LenProperties, HttpBounds DEF HttpTypes
<1>2. lateness' = IF w.rest = <<>> THEN 0 ELSE lateness + w.late
  BY DEF Heard
<1>3. lateness + w.late <= MaxLate
  BY DEF Waits
<1>4. CASE \E n \in Matches : /\ w = [token |-> line[n], rest |-> Unread(n), late |-> 0]
                              /\ \A j \in Matches : n <= j
  <2>1. PICK n \in Matches : /\ w = [token |-> line[n], rest |-> Unread(n), late |-> 0]
                             /\ \A j \in Matches : n <= j
    BY <1>4
  <2>2. n \in 1 .. Len(line) /\ line[n].t \in X
    OBVIOUS
  <2>3. \A i \in 1 .. n - 1 : line[i].t \notin X
    BY <1>1, <2>1, <2>2
  <2>4. w.token = line[n] /\ w.rest = Unread(n) /\ w.late = 0
    BY <2>1
  <2>5. /\ Unread(n) \in Seq(Tok) /\ Len(Unread(n)) = Len(line) - n
        /\ \A i \in 1 .. Len(Unread(n)) : Unread(n)[i] = line[n + i]
    BY <1>1, <2>2, UnreadProperties
  <2>6. w.rest = <<>> <=> n = Len(line)
    BY <1>1, <2>2, <2>3, <2>4, <2>5, EmptySeq
  <2>7. Waited(w, n, X)
    BY <1>1, <1>2, <2>2, <2>3, <2>4, <2>5, <2>6, ElementOfSeq DEF Waited
  <2>8. QED
    BY <1>1, <2>2, <2>7
<1>5. CASE \E n \in 0 .. Len(line) :
             /\ w = [token |-> Token("timeout"), rest |-> Unread(n),
                     late |-> IF n = Len(line) THEN 0 ELSE 1]
             /\ \A j \in Matches : n < j
  <2>1. PICK n \in 0 .. Len(line) :
             /\ w = [token |-> Token("timeout"), rest |-> Unread(n),
                     late |-> IF n = Len(line) THEN 0 ELSE 1]
             /\ \A j \in Matches : n < j
    BY <1>5
  <2>2. \A i \in 1 .. n : line[i].t \notin X
    BY <1>1, <2>1
  <2>3. /\ w.token = Token("timeout") /\ w.rest = Unread(n)
        /\ w.late = (IF n = Len(line) THEN 0 ELSE 1)
    BY <2>1
  <2>4. lateness + w.late <= 1
    BY <1>1, <1>3, <2>3
  <2>5. /\ Unread(n) \in Seq(Tok) /\ Len(Unread(n)) = Len(line) - n
        /\ \A i \in 1 .. Len(Unread(n)) : Unread(n)[i] = line[n + i]
    BY <1>1, <2>2, UnreadProperties
  <2>6. w.rest = <<>> <=> n = Len(line)
    BY <1>1, <2>2, <2>3, <2>4, <2>5, EmptySeq
  <2>7. Waited(w, n, X)
    BY <1>1, <1>2, <2>2, <2>3, <2>4, <2>5, <2>6, ElementOfSeq DEF Waited
  <2>8. QED
    BY <1>1, <2>2, <2>7
<1>6. QED
  BY <1>4, <1>5 DEF Waits

LEMMA Answered ==
  ASSUME NEW rest \in Seq(Tok), NEW tok \in Tok
  PROVE  /\ rest \o <<tok>> \in Seq(Tok)
         /\ Len(rest \o <<tok>>) = Len(rest) + 1
         /\ \A i \in 1 .. Len(rest) : (rest \o <<tok>>)[i] = rest[i]
         /\ (rest \o <<tok>>)[Len(rest) + 1] = tok
<1>1. <<tok>> \in Seq(Tok) /\ Len(<<tok>>) = 1 /\ <<tok>>[1] = tok
  OBVIOUS
<1>2. QED
  BY <1>1, ConcatProperties, LenProperties

LEMMA Words == \A t \in {"OK", "ERROR", "DOWNLOAD"} : Token(t) \in Tok /\ Token(t).t = t
BY DEF Token, Tok

(* line' after an answer of one word *)
AnswerIs(rest, t) ==
  /\ line' \in Seq(Tok) /\ Len(line') = Len(rest) + 1
  /\ \A i \in 1 .. Len(rest) : line'[i] = rest[i]
  /\ line'[Len(rest) + 1] = Token(t) /\ Token(t).t = t

LEMMA AnswerOf ==
  ASSUME NEW rest \in Seq(Tok), NEW t \in {"OK", "ERROR", "DOWNLOAD"},
         line' = rest \o <<Token(t)>>
  PROVE  AnswerIs(rest, t)
BY Words, Answered DEF AnswerIs

LEMMA SendsOnly ==
  ASSUME NEW c, NEW rest, NEW tokens, NEW state,
         Replies(c) = {Reply(tokens, state)}, Send(c, rest)
  PROVE  line' = rest \o tokens /\ module' = state
<1>1. PICK r \in Replies(c) : line' = rest \o r.tokens /\ module' = r.state
  BY DEF Send
<1>2. r = [tokens |-> tokens, state |-> state]
  BY <1>1 DEF Reply
<1>3. r.tokens = tokens /\ r.state = state
  BY <1>2
<1>4. QED
  BY <1>1, <1>3

LEMMA SendInit ==
  ASSUME HttpTypes, ~module.prompt, NEW rest \in Seq(Tok), Send("HTTPINIT", rest)
  PROVE  /\ AnswerIs(rest, IF module.open THEN "ERROR" ELSE "OK")
         /\ module' = IF module.open THEN module ELSE [Closed EXCEPT !.open = TRUE]
<1>1. CASE module.open
  <2>1. Replies("HTTPINIT") = {Reply(<<Token("ERROR")>>, module)}
    BY <1>1 DEF Replies, HttpTypes
  <2>2. line' = rest \o <<Token("ERROR")>> /\ module' = module
    BY <2>1, SendsOnly
  <2>3. QED
    BY <1>1, <2>2, AnswerOf
<1>2. CASE ~module.open
  <2>1. Replies("HTTPINIT") = {Reply(<<Token("OK")>>, [Closed EXCEPT !.open = TRUE])}
    BY <1>2 DEF Replies, HttpTypes
  <2>2. line' = rest \o <<Token("OK")>> /\ module' = [Closed EXCEPT !.open = TRUE]
    BY <2>1, SendsOnly
  <2>3. QED
    BY <1>2, <2>2, AnswerOf
<1>3. QED
  BY <1>1, <1>2

LEMMA SendTerm ==
  ASSUME HttpTypes, module.open, NEW rest \in Seq(Tok), Send("HTTPTERM", rest)
  PROVE  /\ AnswerIs(rest, "OK")
         /\ module' = IF module.prompt THEN [module EXCEPT !.prompt = FALSE] ELSE Closed
<1> DEFINE after == IF module.prompt THEN [module EXCEPT !.prompt = FALSE] ELSE Closed
<1>1. Replies("HTTPTERM") = {Reply(<<Token("OK")>>, after)}
  BY DEF Replies, HttpTypes
<1>2. QED
  <2> HIDE DEF after
  <2>1. line' = rest \o <<Token("OK")>> /\ module' = after
    BY <1>1, SendsOnly
  <2>2. QED
    BY <2>1, AnswerOf DEF after

LEMMA SendParameter ==
  ASSUME HttpTypes, module.open, ~module.prompt, NEW rest \in Seq(Tok),
         NEW c \in {"PARA", "URL"}, Send(c, rest)
  PROVE  /\ AnswerIs(rest, "OK")
         /\ module' = IF c = "URL" THEN [module EXCEPT !.target = request.number] ELSE module
<1>1. Replies(c) = {Reply(<<Token("OK")>>,
        IF c = "URL" THEN [module EXCEPT !.target = request.number] ELSE module)}
  BY DEF Replies, HttpTypes
<1>2. /\ line' = rest \o <<Token("OK")>>
      /\ module' = IF c = "URL" THEN [module EXCEPT !.target = request.number] ELSE module
  BY <1>1, SendsOnly
<1>3. QED
  BY <1>2, AnswerOf

LEMMA SendData ==
  ASSUME HttpTypes, module.open, ~module.prompt, NEW rest \in Seq(Tok), Send("HTTPDATA", rest)
  PROVE  /\ AnswerIs(rest, "DOWNLOAD")
         /\ module' = [module EXCEPT !.prompt = TRUE]
<1>1. Replies("HTTPDATA") = {Reply(<<Token("DOWNLOAD")>>, [module EXCEPT !.prompt = TRUE])}
  BY DEF Replies, HttpTypes
<1>2. line' = rest \o <<Token("DOWNLOAD")>> /\ module' = [module EXCEPT !.prompt = TRUE]
  BY <1>1, SendsOnly
<1>3. QED
  BY <1>2, AnswerOf

LEMMA SendBody ==
  ASSUME HttpTypes, module.prompt, NEW rest \in Seq(Tok), Send("body", rest)
  PROVE  /\ AnswerIs(rest, "OK")
         /\ module' = [module EXCEPT !.prompt = FALSE]
<1>1. Replies("body") = {Reply(<<Token("OK")>>, [module EXCEPT !.prompt = FALSE])}
  BY DEF Replies, HttpTypes
<1>2. line' = rest \o <<Token("OK")>> /\ module' = [module EXCEPT !.prompt = FALSE]
  BY <1>1, SendsOnly
<1>3. QED
  BY <1>2, AnswerOf

(* line' after the answer to HTTPACTION                                    *)
LEMMA SendAction ==
  ASSUME HttpTypes, module.open, ~module.prompt, module.target = request.number,
         NEW rest \in Seq(Tok), Send("HTTPACTION", rest)
  PROVE  /\ line' \in Seq(Tok)
         /\ \A i \in 1 .. Len(rest) : line'[i] = rest[i]
         /\ line'[Len(rest) + 1] = Token("OK")
         /\ \/ Len(line') = Len(rest) + 1
            \/ /\ Len(line') = Len(rest) + 3 /\ line'[Len(rest) + 3] = Token("OK")
               /\ \/ line'[Len(rest) + 2] = ModuleError
                  \/ line'[Len(rest) + 2] = ActionDone(request.number, module'.served)
         /\ module' \in [open : BOOLEAN, prompt : BOOLEAN, target : Nat, served : Nat]
         /\ module'.open /\ ~module'.prompt /\ module'.target = request.number
<1>1. \A m \in Tok : /\ <<Token("OK"), m, Token("OK")>> \in Seq(Tok)
                     /\ Len(<<Token("OK"), m, Token("OK")>>) = 3
                     /\ <<Token("OK"), m, Token("OK")>>[1] = Token("OK")
                     /\ <<Token("OK"), m, Token("OK")>>[2] = m
                     /\ <<Token("OK"), m, Token("OK")>>[3] = Token("OK")
  BY Words
<1>2. ASSUME NEW m \in Tok, line' = rest \o <<Token("OK"), m, Token("OK")>>
      PROVE  /\ line' \in Seq(Tok) /\ Len(line') = Len(rest) + 3
             /\ \A i \in 1 .. Len(rest) : line'[i] = rest[i]
             /\ line'[Len(rest) + 1] = Token("OK")
             /\ line'[Len(rest) + 2] = m
             /\ line'[Len(rest) + 3] = Token("OK")
  BY <1>1, <1>2, ConcatProperties, LenProperties
<1>3. Replies("HTTPACTION") =
              {Reply(<<Token("OK")>>, module),
               Reply(<<Token("OK"), ModuleError, Token("OK")>>, module)}
              \cup {Reply(<<Token("OK"), ActionDone(module.target, n), Token("OK")>>,
                          [module EXCEPT !.served = n]) : n \in BodySizes}
  BY DEF Replies, HttpTypes
<1>4. CASE line' = rest \o <<Token("OK")>> /\ module' = module
  BY <1>4, AnswerOf DEF AnswerIs, HttpTypes
<1>5. CASE line' = rest \o <<Token("OK"), ModuleError, Token("OK")>> /\ module' = module
  <2>1. ModuleError \in Tok
    BY DEF ModuleError, Tok
  <2>2. QED
    BY <1>2, <1>5, <2>1 DEF HttpTypes
<1>6. ASSUME NEW n \in BodySizes,
             line' = rest \o <<Token("OK"), ActionDone(module.target, n), Token("OK")>>,
             module' = [module EXCEPT !.served = n]
      PROVE  /\ line'[Len(rest) + 2] = ActionDone(request.number, module'.served)
             /\ line' \in Seq(Tok) /\ Len(line') = Len(rest) + 3
             /\ \A i \in 1 .. Len(rest) : line'[i] = rest[i]
             /\ line'[Len(rest) + 1] = Token("OK")
             /\ line'[Len(rest) + 3] = Token("OK")
             /\ module' \in [open : BOOLEAN, prompt : BOOLEAN, target : Nat, served : Nat]
             /\ module'.open /\ ~module'.prompt /\ module'.target = request.number
  <2>1. n \in Nat /\ ActionDone(module.target, n) \in Tok
    BY HttpBounds DEF ActionDone, Tok, HttpTypes
  <2>2. module' \in [open : BOOLEAN, prompt : BOOLEAN, target : Nat, served : Nat]
        /\ module'.open /\ ~module'.prompt /\ module'.target = request.number /\ module'.served = n
    BY <1>6, <2>1 DEF HttpTypes
  <2>3. QED
    BY <1>2, <1>6, <2>1, <2>2
<1>7. PICK r \in Replies("HTTPACTION") : line' = rest \o r.tokens /\ module' = r.state
  BY DEF Send
<1>8. CASE r = Reply(<<Token("OK")>>, module)
  BY <1>4, <1>7, <1>8 DEF Reply
<1>9. CASE r = Reply(<<Token("OK"), ModuleError, Token("OK")>>, module)
  BY <1>5, <1>7, <1>9 DEF Reply
<1>10. ASSUME NEW n \in BodySizes,
              r = Reply(<<Token("OK"), ActionDone(module.target, n), Token("OK")>>,
                          [module EXCEPT !.served = n])
       PROVE  /\ line' = rest \o <<Token("OK"), ActionDone(module.target, n), Token("OK")>>
              /\ module' = [module EXCEPT !.served = n]
  BY <1>7, <1>10 DEF Reply
<1>11. QED
  BY <1>3, <1>6, <1>7, <1>8, <1>9, <1>10

(* The line once n tokens are read and the word t is answered.             *)
Moved(n, t) ==
  /\ line' \in Seq(Tok) /\ Len(line') = Len(line) - n + 1
  /\ \A i \in 1 .. Len(line) - n : line'[i] = line[n + i]
  /\ line'[Len(line) - n + 1].t = t
Left(n) ==
  /\ line' \in Seq(Tok) /\ Len(line') = Len(line) - n
  /\ \A i \in 1 .. Len(line) - n : line'[i] = line[n + i]

LEMMA MovedOn ==
  ASSUME NEW w, NEW n, NEW X, Waited(w, n, X), NEW t, AnswerIs(w.rest, t)
  PROVE  Moved(n, t)
BY DEF Waited, AnswerIs, Moved

LEMMA LeftOver ==
  ASSUME NEW w, NEW n, NEW X, Waited(w, n, X), line' = w.rest
  PROVE  Left(n)
BY DEF Waited, Left

(* The length of the line, in the form the steps need it.                  *)
LEMMA Lengths ==
  ASSUME HttpTypes
  PROVE  /\ Len(line) \in Nat
         /\ \A i \in 1 .. Len(line) : line[i] \in Tok /\ line[i].t # "timeout"
<1>1. \A m \in Tok : m.t # "timeout"
  BY DEF Tok
<1>2. QED
  BY <1>1, ElementOfSeq, LenProperties DEF HttpTypes

LEMMA MovedProperties ==
  ASSUME HttpTypes, NEW n \in 0 .. Len(line), NEW t, Moved(n, t)
  PROVE  /\ Len(line') = Len(line) - n + 1 /\ Len(line') \in Nat
         /\ \A i \in 1 .. Len(line') - 1 : n + i \in 1 .. Len(line) /\ line'[i] = line[n + i]
         /\ line'[Len(line')].t = t
BY Lengths DEF Moved

LEMMA HeardGhosts ==
  ASSUME NEW w, Heard(w)
  PROVE  /\ missed => missed'
         /\ before' = before
         /\ ~(httpStep = "setup" /\ Head(todo) = "HTTPDATA") => (missed' => missed)
         /\ httpStep = "setup" /\ Head(todo) = "HTTPDATA" /\ module.prompt
              /\ w.token.t # "DOWNLOAD" => missed'
<1>1. before' = before
  BY DEF Heard
<1>2. missed' = (missed \/ (httpStep = "setup" /\ Head(todo) = "HTTPDATA"
                            /\ module.prompt /\ w.token.t # "DOWNLOAD"))
  BY DEF Heard
<1>3. QED
  BY <1>1, <1>2, Zenon

LEMMA NothingLeft ==
  ASSUME NEW S, NEW s \in Seq(S), NEW n \in Nat, Len(s) = n - 1
  PROVE  s = <<>> <=> n = 1
BY EmptySeq

LEMMA ScriptGoesOn ==
  ASSUME NEW s, IsScript(s)
  PROVE  /\ Head(s) \in Commands /\ s # <<>>
         /\ \/ Tail(s) = <<>> /\ Head(s) \in {"URL", "body"}
            \/ Tail(s) # <<>> /\ IsScript(Tail(s)) /\ <<Head(s), Head(Tail(s))>> \in Follows
<1>1. s \in Seq(Commands) /\ Len(s) \in Nat /\ s # <<>> /\ Head(s) = s[1] /\ s[1] \in Commands
  BY LenProperties, EmptySeq, ElementOfSeq DEF IsScript, IsChain
<1>2. /\ Tail(s) \in Seq(Commands) /\ Len(Tail(s)) = Len(s) - 1
      /\ \A i \in 1 .. Len(Tail(s)) : Tail(s)[i] = s[i + 1]
  BY <1>1, HeadTailProperties
<1>3. Tail(s) = <<>> <=> Len(s) = 1
  BY <1>1, <1>2, NothingLeft
<1>4. CASE Len(s) = 1
  <2>1. Tail(s) = <<>>
    BY <1>4, <1>3
  <2>2. QED
    BY <1>1, <1>4, <2>1 DEF IsScript, IsChain
<1>5. CASE Len(s) > 1
  <2>1. Tail(s) # <<>> /\ Head(Tail(s)) = s[2]
    BY <1>1, <1>2, <1>5, <1>3
  <2>2. <<s[1], s[2]>> \in Follows
    BY <1>1, <1>5 DEF IsScript, IsChain
  <2>3. IsScript(Tail(s))
    BY <1>1, <1>2, <1>5 DEF IsScript, IsChain
  <2>4. QED
    BY <1>1, <2>1, <2>2, <2>3
<1>6. QED
  BY <1>1, <1>4, <1>5 DEF IsScript, IsChain

LEMMA ChainsJoin ==
  ASSUME NEW r, NEW s, IsChain(r), IsChain(s), <<r[Len(r)], s[1]>> \in Follows
  PROVE  /\ IsChain(r \o s)
         /\ (r \o s)[1] = r[1]
         /\ (r \o s)[Len(r \o s)] = s[Len(s)]
<1> DEFINE t == r \o s
<1>1. Len(r) \in Nat /\ Len(s) \in Nat /\ Len(r) > 0 /\ Len(s) > 0
      /\ r \in Seq(Commands) /\ s \in Seq(Commands)
  BY LenProperties DEF IsChain
<1>2. /\ t \in Seq(Commands) /\ Len(t) = Len(r) + Len(s)
      /\ \A i \in 1 .. Len(r) + Len(s) : t[i] = IF i <= Len(r) THEN r[i] ELSE s[i - Len(r)]
  BY <1>1, ConcatProperties
<1> HIDE DEF t
<1>3. t[1] = r[1] /\ t[Len(t)] = s[Len(s)]
  BY <1>1, <1>2
<1>4. ASSUME NEW i \in 1 .. Len(t) - 1
      PROVE  <<t[i], t[i + 1]>> \in Follows
  <2>1. CASE i < Len(r)
    <3>1. t[i] = r[i] /\ t[i + 1] = r[i + 1] /\ i \in 1 .. Len(r) - 1
      BY <1>1, <1>2, <2>1
    <3>2. QED
      BY <3>1 DEF IsChain
  <2>2. CASE i = Len(r)
    <3>1. t[i] = r[Len(r)] /\ t[i + 1] = s[1]
      BY <1>1, <1>2, <2>2
    <3>2. QED
      BY <3>1
  <2>3. CASE i > Len(r)
    <3>1. /\ i - Len(r) \in 1 .. Len(s) - 1
          /\ t[i] = s[i - Len(r)] /\ t[i + 1] = s[(i - Len(r)) + 1]
      BY <1>1, <1>2, <2>3
    <3>2. QED
      BY <3>1 DEF IsChain
  <2>4. QED
    BY <1>1, <2>1, <2>2, <2>3
<1>5. IsChain(t)
  BY <1>1, <1>2, <1>4 DEF IsChain
<1>6. QED
  BY <1>3, <1>5 DEF t

LEMMA ScriptsAreScripts ==
  ASSUME NEW kind, NEW s \in Scripts(kind)
  PROVE  IsScript(s) /\ Head(s) = "HTTPINIT"
<1> DEFINE upload == IF kind = "post" THEN <<"HTTPDATA", "body">> ELSE <<>>
<1>1. PICK params \in {<<>>, <<"PARA">>} :
         s = <<"HTTPINIT">> \o params \o <<"URL">> \o upload
  BY DEF Scripts
<1>2. /\ IsChain(<<"HTTPINIT">>) /\ IsChain(<<"PARA">>) /\ IsChain(<<"URL">>)
      /\ IsChain(<<"HTTPDATA", "body">>)
  BY DEF IsChain, Commands, Follows
<1>3. /\ IsChain(<<"HTTPINIT">> \o params)
      /\ (<<"HTTPINIT">> \o params)[1] = "HTTPINIT"
      /\ (<<"HTTPINIT">> \o params)[Len(<<"HTTPINIT">> \o params)] \in {"HTTPINIT", "PARA"}
  <2>1. CASE params = <<>>
    <3>1. <<"HTTPINIT">> \o params = <<"HTTPINIT">>
      BY <2>1
    <3>2. <<"HTTPINIT">>[1] = "HTTPINIT" /\ Len(<<"HTTPINIT">>) = 1
      OBVIOUS
    <3>3. QED
      BY <1>2, <3>1, <3>2
  <2>2. CASE params = <<"PARA">>
    <3>1. <<"HTTPINIT", "PARA">> \in Follows
      BY DEF Follows
    <3>2. <<"HTTPINIT">>[Len(<<"HTTPINIT">>)] = "HTTPINIT" /\ <<"PARA">>[1] = "PARA"
          /\ <<"HTTPINIT">>[1] = "HTTPINIT" /\ <<"PARA">>[Len(<<"PARA">>)] = "PARA"
      OBVIOUS
    <3>3. QED
      BY <1>2, <2>2, <3>1, <3>2, ChainsJoin
  <2>3. QED
    BY <2>1, <2>2
<1> DEFINE first == <<"HTTPINIT">> \o params
           all   == first \o <<"URL">>
<1>4. IsChain(all) /\ all[1] = "HTTPINIT" /\ all[Len(all)] = "URL"
  <2> HIDE DEF first
  <2>1. IsChain(first) /\ first[1] = "HTTPINIT" /\ <<first[Len(first)], "URL">> \in Follows
    BY <1>3 DEF Follows, first
  <2>2. <<"URL">>[1] = "URL" /\ <<"URL">>[Len(<<"URL">>)] = "URL"
    OBVIOUS
  <2>3. QED
    BY <1>2, <2>1, <2>2, ChainsJoin
<1>5. s = all \o upload
  BY <1>1
<1> HIDE DEF all
<1>6. IsScript(s) /\ s[1] = "HTTPINIT"
  <2>1. CASE kind = "post"
    <3>1. <<"URL", "HTTPDATA">> \in Follows
      BY DEF Follows
    <3>2. <<"HTTPDATA", "body">>[1] = "HTTPDATA"
          /\ <<"HTTPDATA", "body">>[Len(<<"HTTPDATA", "body">>)] = "body"
      OBVIOUS
    <3>3. QED
      BY <1>2, <1>4, <1>5, <2>1, <3>1, <3>2, ChainsJoin DEF IsScript
  <2>2. CASE kind # "post"
    <3>1. s = all
      BY <1>4, <1>5, <2>2, ConcatEmptySeq DEF IsChain
    <3>2. QED
      BY <1>4, <3>1 DEF IsScript
  <2>3. QED
    BY <2>1, <2>2
<1>7. QED
  BY <1>6, EmptySeq DEF IsScript, IsChain

LEMMA RequestKeeps ==
  ASSUME HttpTypes, AtIdle, Request
  PROVE  HttpTypes' /\ httpStep' = "setup" /\ AtSetup' /\ result' = "none"
<1>1. /\ httpStep' = "setup" /\ result' = "none" /\ offset' = 0 /\ body' = <<>>
      /\ lateness' = lateness
      /\ response' = [of |-> 0, size |-> 0]
      /\ Send("HTTPINIT", line)
  BY DEF Request
<1>2. PICK kind \in Kinds, n \in BufferSizes :
        /\ request' = [number |-> request.number + 1, kind |-> kind, buffer |-> n]
        /\ todo' \in Scripts(kind)
  BY DEF Request
<1>3. IsScript(todo') /\ Head(todo') = "HTTPINIT"
  BY <1>2, ScriptsAreScripts
<1>4. ~module.prompt /\ line \in Seq(Tok)
  BY DEF AtIdle, HttpTypes
<1>5. /\ AnswerIs(line, IF module.open THEN "ERROR" ELSE "OK")
      /\ module' = IF module.open THEN module ELSE [Closed EXCEPT !.open = TRUE]
  BY <1>1, <1>4, SendInit
<1>6. module' \in [open : BOOLEAN, prompt : BOOLEAN, target : Nat, served : Nat]
      /\ module'.open /\ ~module'.prompt
  BY <1>4, <1>5 DEF HttpTypes, Closed
<1>7. request' \in [number : Nat, kind : {"get", "post"}, buffer : Nat]
  BY <1>2, HttpBounds DEF HttpTypes
<1>8. HttpTypes'
  BY <1>1, <1>5, <1>6, <1>7 DEF HttpTypes, AnswerIs
<1>9. (missed' => missed) /\ (missed => missed') /\ (trouble => before')
  <2>1. missed' = missed /\ before' = trouble
    BY DEF Request
  <2>2. QED
    BY <2>1, Zenon
<1>10. Awaits("HTTPINIT")'
  <2>1. /\ Len(line) \in Nat /\ Len(line') = Len(line) + 1
        /\ \A i \in 1 .. Len(line) : line'[i] = line[i]
    BY <1>5, Lengths DEF AnswerIs
  <2>2. CASE module.open
    <3>1. line'[Len(line')].t = "ERROR" /\ Len(line) <= 2
      BY <1>5, <2>1, <2>2 DEF AnswerIs, AtIdle
    <3>2. ~missed => AllOK /\ Len(line) > 0 /\ trouble
      BY <2>2 DEF AtIdle
    <3>3. lateness = 0 => Len(line) = 0
      BY <2>1, <2>2 DEF AtIdle
    <3>4. /\ \A i \in 1 .. Len(line') : Plain(i)' \/ i <= 2
          /\ lateness' = 0 => Len(line') = 1
          /\ Len(line') <= 3 /\ Len(line') > 0
          /\ Plain(Len(line))'
      BY <1>1, <2>1, <3>1, <3>3 DEF AtIdle, StaleWithin, Plain
    <3>5. ~missed => /\ before' /\ line'[1].t = "OK"
                     /\ \A i \in 1 .. Len(line') : line'[i].t = "ERROR" => i = Len(line')
      BY <1>9, <2>1, <3>2 DEF AllOK
    <3>6. QED
      BY <1>1, <1>6, <1>9, <2>1, <3>1, <3>4, <3>5 
         DEF Awaits, ErrorsWithin, HasError, StaleAt, ErrorAt, Nothing
  <2>3. CASE ~module.open
    <3>1. line'[Len(line')].t = "OK"
      BY <1>5, <2>1, <2>3 DEF AnswerIs
    <3>2. ~missed => ~HasError'
      BY <2>1, <3>1 DEF AtIdle, HasError
    <3>3. HasError' => Len(line') <= 3 /\ lateness' # 0
      BY <1>1, <2>1, <3>1 DEF AtIdle, HasError, AllOK
    <3>4. /\ \A i \in 1 .. Len(line') : Plain(i)' \/ i <= 2
          /\ lateness' = 0 => Len(line') <= 2 /\ \A i \in 1 .. Len(line') : Plain(i)'
          /\ Plain(Len(line))' /\ Len(line') > 0
      BY <1>1, <2>1, <2>3, <3>1 DEF AtIdle, StaleWithin, Plain, AllOK
    <3>5. \A i \in 1 .. Len(line') : line'[i].t = "ERROR" => i <= 3
      BY <2>1, <3>3 DEF HasError
    <3>6. QED
      BY <1>1, <1>6, <1>9, <2>1, <3>2, <3>3, <3>4, <3>5
         DEF Awaits, ErrorsWithin, StaleAt, ErrorAt, Nothing
  <2>4. QED
    BY <2>2, <2>3
<1>11. QED
  BY <1>1, <1>3, <1>8, <1>10 DEF AtSetup

LEMMA Took ==
  ASSUME HttpTypes, NEW w, NEW n \in 0 .. Len(line), NEW X, Waited(w, n, X),
         w.token.t # "timeout"
  PROVE  /\ n \in 1 .. Len(line) /\ w.token = line[n] /\ line[n].t \in X
         /\ \A i \in 1 .. n - 1 : line[i].t \notin X
         /\ lateness' = 0 => n = Len(line) \/ lateness = 0
BY Lengths DEF Waited, Token

LEMMA GaveUp ==
  ASSUME HttpTypes, NEW w, NEW n \in 0 .. Len(line), NEW X, Waited(w, n, X),
         w.token.t = "timeout"
  PROVE  /\ \A i \in 1 .. n : line[i].t \notin X
         /\ n = Len(line) \/ (lateness = 0 /\ lateness' = 1)
BY Lengths DEF Waited, Token

(* A wait that would take the answer to its own command, the last in line, *)
(* gives up only when nothing is overdue, and leaves that answer.          *)
LEMMA GaveUpEarly ==
  ASSUME HttpTypes, NEW w, NEW n \in 0 .. Len(line), NEW X, Waited(w, n, X),
         w.token.t = "timeout", Len(line) > 0, line[Len(line)].t \in X
  PROVE  n < Len(line) /\ lateness = 0 /\ lateness' = 1
<1>1. /\ \A i \in 1 .. n : line[i].t \notin X
      /\ n = Len(line) \/ (lateness = 0 /\ lateness' = 1)
  BY GaveUp
<1>2. Len(line) \in Nat
  BY Lengths
<1>3. n # Len(line)
  BY <1>1, <1>2
<1>4. QED
  BY <1>1, <1>2, <1>3

OneError == \A i, k \in 1 .. Len(line) : line[i].t = "ERROR" /\ line[k].t = "ERROR" => i = k

LEMMA ErrorsMove ==
  ASSUME HttpTypes, NEW n \in 1 .. Len(line), NEW t, t # "ERROR", Moved(n, t)
  PROVE  /\ HasError' => HasError
         /\ \A k \in Nat : ErrorsWithin(k + 1) => ErrorsWithin(k)'
         /\ OneError => OneError'
         /\ line[n].t = "ERROR" /\ OneError => ~HasError'
         /\ n = Len(line) => ~HasError'
<1>1. Len(line) \in Nat
  BY Lengths
<1>2. /\ Len(line') = Len(line) - n + 1
      /\ \A i \in 1 .. Len(line') - 1 : n + i \in 1 .. Len(line) /\ line'[i] = line[n + i]
      /\ line'[Len(line')].t = t
  BY <1>1 DEF Moved
<1>3. \A i \in 1 .. Len(line') : line'[i].t = "ERROR" =>
         i \in 1 .. Len(line') - 1 /\ n + i \in 1 .. Len(line) /\ line[n + i].t = "ERROR"
  BY <1>1, <1>2
<1>4. (HasError' => HasError) /\ (n = Len(line) => ~HasError')
  <2>1. HasError' => HasError
    BY <1>3 DEF HasError
  <2>2. ASSUME n = Len(line)
        PROVE  ~HasError'
    <3>1. Len(line') = 1
      BY <1>1, <1>2, <2>2
    <3>2. \A i \in 1 .. Len(line') : line'[i].t # "ERROR"
      BY <1>3, <3>1
    <3>3. QED
      BY <3>2 DEF HasError
  <2>3. QED
    BY <2>1, <2>2
<1>5. ASSUME NEW k \in Nat, ErrorsWithin(k + 1)
      PROVE  ErrorsWithin(k)'
  BY <1>1, <1>2, <1>3, <1>5 DEF ErrorsWithin
<1>6. ASSUME OneError
      PROVE  OneError'
  <2>1. ASSUME NEW i \in 1 .. Len(line'), NEW k \in 1 .. Len(line'),
               line'[i].t = "ERROR", line'[k].t = "ERROR"
        PROVE  i = k
    <3>1. n + i = n + k
      BY <1>3, <1>6, <2>1 DEF OneError
    <3>2. QED
      BY <1>1, <1>2, <3>1
  <2>2. QED
    BY <2>1 DEF OneError
<1>7. line[n].t = "ERROR" /\ OneError => ~HasError'
  <2>1. SUFFICES ASSUME line[n].t = "ERROR", OneError,
                        NEW i \in 1 .. Len(line'), line'[i].t = "ERROR"
                 PROVE  FALSE
    BY DEF HasError
  <2>2. n + i \in 1 .. Len(line) /\ line[n + i].t = "ERROR"
    BY <1>3, <2>1
  <2>3. n = n + i
    BY <2>1, <2>2 DEF OneError
  <2>4. QED
    BY <1>1, <1>2, <2>3
<1>8. QED
  BY <1>4, <1>5, <1>6, <1>7

(* The commands between HTTPINIT and the address.                          *)
LEMMA ParameterNext ==
  ASSUME HttpTypes, NEW c \in {"HTTPINIT", "PARA"}, Awaits(c), NEW d \in {"PARA", "URL"},
         NEW n \in 1 .. Len(line), Moved(n, "OK"),
         lateness' = 0 => n = Len(line) \/ lateness = 0,
         module'.open, ~module'.prompt, d = "URL" => module'.target = request'.number,
         Nothing', missed => missed', before' = before
  PROVE  Awaits(d)'
<1>1. /\ Len(line) \in Nat /\ Len(line') = Len(line) - n + 1
      /\ \A i \in 1 .. Len(line') - 1 : n + i \in 1 .. Len(line) /\ line'[i] = line[n + i]
      /\ line'[Len(line')].t = "OK"
  BY Lengths DEF Moved
<1>2. \A i \in 1 .. Len(line) : Plain(i) \/ i <= 2
  BY DEF Awaits, StaleAt
<1>3. (\A i \in 1 .. Len(line') : Plain(i)' \/ i <= 1) /\ Plain(Len(line))'
  BY <1>1, <1>2 DEF Plain
<1>4. ErrorsWithin(2)' /\ (HasError' => HasError)
  <2>1. ErrorsWithin(3)
    BY DEF Awaits, ErrorsWithin, ErrorAt
  <2>2. QED
    BY <2>1, ErrorsMove
<1>5. HasError' => Len(line') <= 3
  BY <1>1, <1>4 DEF Awaits
<1>6. lateness' = 0 => Len(line') <= 2 /\ ~HasError' /\ \A i \in 1 .. Len(line') : Plain(i)'
  <2>1. CASE n = Len(line)
    BY <1>1, <1>3, <2>1, ErrorsMove
  <2>2. CASE lateness = 0 /\ n < Len(line)
    <3>1. Len(line) <= 2 /\ ~HasError /\ \A i \in 1 .. Len(line) : Plain(i)
      BY <1>1, <2>2 DEF Awaits
    <3>2. QED
      BY <1>1, <1>4, <3>1 DEF Plain
  <2>3. QED
    BY <1>1, <2>1, <2>2
<1>7. ~missed' /\ HasError' => before' /\ OneError'
  BY <1>4, ErrorsMove DEF Awaits, OneError
<1>8. QED
  BY <1>1, <1>3, <1>4, <1>5, <1>6, <1>7 DEF Awaits, StaleAt, ErrorAt, OneError

(* HTTPDATA, once the address is set                                       *)
LEMMA UploadNext ==
  ASSUME HttpTypes, Awaits("URL"),
         NEW n \in 1 .. Len(line), Moved(n, "DOWNLOAD"),
         lateness' = 0 => n = Len(line) \/ lateness = 0,
         module'.open, module'.prompt, module'.target = request'.number,
         Nothing', missed => missed', before' = before
  PROVE  Awaits("HTTPDATA")'
<1>1. /\ Len(line) \in Nat /\ Len(line') = Len(line) - n + 1
      /\ \A i \in 1 .. Len(line') - 1 : n + i \in 1 .. Len(line) /\ line'[i] = line[n + i]
      /\ line'[Len(line')].t = "DOWNLOAD"
  BY Lengths DEF Moved
<1>2. \A i \in 1 .. Len(line) : Plain(i) \/ i <= 1
  BY DEF Awaits, StaleAt
<1>3. \A i \in 1 .. Len(line') : Plain(i)' \/ i = Len(line')
  <2>1. \A i \in 1 .. Len(line') - 1 : Plain(n + i)
    BY <1>1, <1>2
  <2>2. \A i \in 1 .. Len(line') - 1 : Plain(i)'
    BY <1>1, <2>1 DEF Plain
  <2>3. ASSUME NEW i \in 1 .. Len(line'), i # Len(line')
        PROVE  Plain(i)'
    <3>1. Len(line') \in Nat
      BY <1>1
    <3>2. i \in 1 .. Len(line') - 1
      BY <2>3, <3>1
    <3>3. QED
      BY <2>2, <3>2 DEF Plain
  <2>4. QED
    BY <2>3 DEF Plain
<1>4. ErrorsWithin(1)' /\ (HasError' => HasError)
  <2>1. ErrorsWithin(2)
    BY DEF Awaits, ErrorsWithin, ErrorAt
  <2>2. QED
    BY <2>1, ErrorsMove
<1>5. HasError' => Len(line') <= 3
  BY <1>1, <1>4 DEF Awaits
<1>6. lateness' = 0 => Len(line') <= 2 /\ ~HasError'
  <2>1. CASE n = Len(line)
    BY <1>1, <2>1, ErrorsMove
  <2>2. CASE lateness = 0
    BY <1>1, <1>4, <2>2 DEF Awaits
  <2>3. QED
    BY <2>1, <2>2
<1>7. ~missed' /\ HasError' => before' /\ OneError'
  BY <1>4, ErrorsMove DEF Awaits, OneError
<1>8. QED
  BY <1>1, <1>3, <1>4, <1>5, <1>6, <1>7 DEF Awaits, StaleAt, ErrorAt, OneError

(* The body, once the prompt was seen: nothing else is left to read.       *)
LEMMA PromptIsLast ==
  ASSUME HttpTypes, Awaits("HTTPDATA"), NEW n \in 1 .. Len(line), line[n].t = "DOWNLOAD"
  PROVE  n = Len(line)
<1>1. \A i \in 1 .. Len(line) : Plain(i) \/ i <= 0 \/ i = Len(line)
  BY DEF Awaits, StaleAt
<1>2. QED
  BY <1>1 DEF Plain

LEMMA BodyNext ==
  ASSUME HttpTypes, Awaits("HTTPDATA"),
         Moved(Len(line), "OK"),
         module'.open, ~module'.prompt, module'.target = request'.number, Nothing'
  PROVE  Awaits("body")'
<1>1. Len(line) \in Nat /\ Len(line') = 1 /\ line'[1].t = "OK"
  BY Lengths DEF Moved
<1>2. (\A i \in 1 .. Len(line') : Plain(i)' /\ line'[i].t # "ERROR") /\ Plain(Len(line))'
  BY <1>1 DEF Plain
<1>3. QED
  BY <1>1, <1>2 DEF Awaits, StaleAt, ErrorAt, HasError, ErrorsWithin

(* line once n tokens are read and HTTPACTION is answered *)
ActionSent(n) ==
  /\ line' \in Seq(Tok)
  /\ \A i \in 1 .. Len(line) - n : line'[i] = line[n + i]
  /\ line'[Len(line) - n + 1] = Token("OK")
  /\ \/ Len(line') = Len(line) - n + 1
     \/ /\ Len(line') = Len(line) - n + 3 /\ line'[Len(line) - n + 3] = Token("OK")
        /\ \/ line'[Len(line) - n + 2] = ModuleError
           \/ line'[Len(line) - n + 2] = ActionDone(request.number, module'.served)

LEMMA ActionMoves ==
  ASSUME HttpTypes, module.open, ~module.prompt, module.target = request.number,
         NEW w, NEW n, NEW X, Waited(w, n, X), Send("HTTPACTION", w.rest)
  PROVE  /\ ActionSent(n)
         /\ module' \in [open : BOOLEAN, prompt : BOOLEAN, target : Nat, served : Nat]
         /\ module'.open /\ ~module'.prompt /\ module'.target = request.number
<1>1. w.rest \in Seq(Tok) /\ Len(w.rest) = Len(line) - n
      /\ \A i \in 1 .. Len(w.rest) : w.rest[i] = line[n + i]
  BY DEF Waited
<1>2. QED
  BY <1>1, SendAction DEF ActionSent

(* After the last command of the script, the action.                       *)
LEMMA ActionNext ==
  ASSUME HttpTypes, NEW n \in 1 .. Len(line), ActionSent(n),
         StaleWithin(1), ErrorsWithin(2),
         HasError => Len(line) <= 3 /\ (before \/ missed),
         lateness = 0 => Len(line) <= 2 /\ ~HasError,
         lateness' = 0 => n = Len(line) \/ lateness = 0,
         Serves', Nothing', request' = request, missed => missed', before' = before
  PROVE  AtAction'
<1> DEFINE OwnIs(m) == m = ModuleError \/ m = ActionDone(request'.number, module'.served)
<1>1. Len(line) \in Nat /\ Len(line') \in Nat /\ Token("OK").t = "OK"
  BY Lengths, Words DEF ActionSent
<1>2. Len(line') \in {Len(line) - n + 1, Len(line) - n + 3}
  BY DEF ActionSent
<1>3. \A i \in 1 .. Len(line) - n :
         /\ n + i \in 1 .. Len(line) /\ line'[i] = line[n + i] /\ n + i > 1
  BY <1>1 DEF ActionSent
<1>4. \A i \in 1 .. Len(line) - n : Plain(i)'
  BY <1>1, <1>3 DEF StaleWithin, Plain
<1>5. line'[Len(line) - n + 1].t = "OK"
  BY <1>1 DEF ActionSent
<1>6. Len(line') = Len(line) - n + 3 =>
         /\ line'[Len(line) - n + 3].t = "OK"
         /\ OwnIs(line'[Len(line) - n + 2])
         /\ line'[Len(line) - n + 2].t = "+HTTPACTION"
  <2>1. CASE Len(line') = Len(line) - n + 1
    BY <1>1, <2>1
  <2>2. CASE Len(line') = Len(line) - n + 3
    BY <1>1, <2>2 DEF ActionSent, OwnAction, ModuleError, ActionDone
  <2>3. QED
    BY <1>2, <2>1, <2>2
<1>7. ASSUME NEW i \in 1 .. Len(line')
      PROVE  \/ i \in 1 .. Len(line) - n
             \/ i = Len(line) - n + 1
             \/ Len(line') = Len(line) - n + 3 /\ i = Len(line) - n + 2
             \/ Len(line') = Len(line) - n + 3 /\ i = Len(line) - n + 3
  BY <1>1, <1>2
<1>8. OnlyOwn'
  <2>1. ASSUME NEW i \in 1 .. Len(line')
        PROVE  Plain(i)' \/ (i = Len(line') - 1 /\ OwnIs(line'[i]))
    BY <1>1, <1>4, <1>5, <1>6, <1>7 DEF Plain
  <2>2. QED
    BY <2>1 DEF OnlyOwn, Plain, OwnAction
<1>9. \A i \in 1 .. Len(line') : line'[i].t = "ERROR" =>
         i \in 1 .. Len(line) - n /\ n + i \in 1 .. Len(line) /\ line[n + i].t = "ERROR"
  BY <1>1, <1>3, <1>5, <1>6, <1>7
<1>10. ErrorsWithin(1)'
  <2>1. \A i \in 1 .. Len(line') : line'[i].t = "ERROR" => i <= 1
    <3>1. SUFFICES ASSUME NEW i \in 1 .. Len(line'), line'[i].t = "ERROR"
                   PROVE  i <= 1
      OBVIOUS
    <3>2. i \in 1 .. Len(line) - n /\ n + i <= 2
      BY <1>9, <3>1 DEF ErrorsWithin
    <3>3. QED
      BY <1>1, <3>2
  <2>2. QED
    BY <2>1 DEF ErrorsWithin
<1>11. (HasError' => HasError) /\ (n = Len(line) => ~HasError')
  BY <1>1, <1>9 DEF HasError
<1>12. HasError' => Len(line') <= 5 /\ (before' \/ missed')
  BY <1>1, <1>2, <1>11
<1>13. lateness' = 0 => Len(line') <= 4 /\ ~HasError'
  BY <1>1, <1>2, <1>11
<1>14. Plain(1)' /\ Len(line') > 0
  <2>1. CASE n = Len(line)
    BY <1>1, <1>2, <1>5, <2>1 DEF Plain
  <2>2. CASE n < Len(line)
    BY <1>1, <1>2, <1>4, <2>2 DEF Plain
  <2>3. QED
    BY <1>1, <2>1, <2>2
<1>15. QED
  BY <1>8, <1>10, <1>12, <1>13, <1>14 DEF AtAction

(* A command that is not answered in time, and one that is refused.        *)
LEMMA TermAfterTimeout ==
  ASSUME HttpTypes, NEW c \in {"PARA", "URL", "body"}, Awaits(c),
         NEW n \in 0 .. Len(line), Moved(n, "OK"), n < Len(line), lateness = 0, lateness' = 1,
         module' = Closed
  PROVE  AtTerm'
<1>1. /\ Len(line) \in Nat /\ Len(line') = Len(line) - n + 1
      /\ \A i \in 1 .. Len(line') - 1 : n + i \in 1 .. Len(line) /\ line'[i] = line[n + i]
      /\ line'[Len(line')].t = "OK"
  BY Lengths DEF Moved
<1>2. \A i \in 1 .. Len(line) : Plain(i) /\ line[i].t # "ERROR"
  BY DEF Awaits, HasError
<1>3. \A i \in 1 .. Len(line') - 1 : Plain(i)' /\ line'[i].t # "ERROR"
  BY <1>1, <1>2 DEF Plain
<1>4. Plain(Len(line))' /\ StaleWithin(3)' /\ ~HasError'
  BY <1>1, <1>3 DEF Plain, StaleWithin, HasError
<1>5. QED
  BY <1>1, <1>4 DEF AtTerm, Closed

LEMMA TermAfterError ==
  ASSUME HttpTypes, NEW c \in {"PARA", "URL", "body"}, Awaits(c),
         NEW n \in 1 .. Len(line), Moved(n, "OK"), line[n].t = "ERROR",
         lateness' = 0 => n = Len(line) \/ lateness = 0,
         module' = Closed, missed => missed'
  PROVE  AtTerm' /\ (before \/ missed)
<1>1. /\ Len(line) \in Nat /\ Len(line') = Len(line) - n + 1
      /\ \A i \in 1 .. Len(line') - 1 : n + i \in 1 .. Len(line) /\ line'[i] = line[n + i]
      /\ line'[Len(line')].t = "OK"
  BY Lengths DEF Moved
<1>2. HasError /\ Len(line) <= 3 /\ lateness # 0 /\ (missed \/ before) /\ (~missed => OneError)
  BY <1>1 DEF HasError, Awaits, OneError
<1>3. Len(line') <= 3
  BY <1>1, <1>2
<1>4. StaleWithin(3)' /\ Plain(Len(line))'
  BY <1>1, <1>3 DEF StaleWithin, Plain
<1>5. ~missed' => ~HasError'
  BY <1>2, ErrorsMove
<1>6. lateness' = 0 => Len(line') = 1 /\ AllOK'
  BY <1>1, <1>2 DEF AllOK
<1>7. QED
  BY <1>1, <1>2, <1>3, <1>4, <1>5, <1>6 DEF AtTerm, Closed

(* The prompt for the body is missed: the session of the module stays.     *)
LEMMA TermAfterPrompt ==
  ASSUME HttpTypes, Awaits("HTTPDATA"), NEW n \in 0 .. Len(line), Moved(n, "OK"),
         \/ n < Len(line) /\ lateness = 0 /\ lateness' = 1
         \/ /\ n > 0 /\ line[n].t = "ERROR" /\ lateness' \in {0, 1}
            /\ lateness' = 0 => n = Len(line) \/ lateness = 0,
         module' = [module EXCEPT !.prompt = FALSE], missed'
  PROVE  AtTerm'
<1>1. /\ Len(line) \in Nat /\ Len(line') = Len(line) - n + 1 /\ line'[Len(line')].t = "OK"
  BY Lengths DEF Moved
<1>2. Len(line') <= 3 /\ lateness' = 1
  <2>1. CASE n < Len(line) /\ lateness = 0 /\ lateness' = 1
    BY <1>1, <2>1 DEF Awaits
  <2>2. CASE /\ n > 0 /\ line[n].t = "ERROR" /\ lateness' \in {0, 1}
             /\ lateness' = 0 => n = Len(line) \/ lateness = 0
    <3>0. line[Len(line)].t = "DOWNLOAD" /\ n # Len(line)
      BY <2>2 DEF Awaits
    <3>1. HasError
      BY <1>1, <2>2 DEF HasError
    <3>2. Len(line) <= 3 /\ lateness # 0
      BY <3>1 DEF Awaits
    <3>3. QED
      BY <1>1, <2>2, <3>0, <3>2
  <2>3. QED
    BY <2>1, <2>2
<1>3. StaleWithin(3)' /\ Plain(Len(line))' /\ Len(line') > 0
  BY <1>1, <1>2 DEF StaleWithin, Plain
<1>4. ~module'.prompt
  BY DEF HttpTypes
<1>5. QED
  BY <1>2, <1>3, <1>4 DEF AtTerm

(* HTTPINIT is refused: the session of another request is still open.      *)
LEMMA ReinitNext ==
  ASSUME HttpTypes, Awaits("HTTPINIT"), NEW n \in 1 .. Len(line), Moved(n, "ERROR"),
         line[n].t = "ERROR", \A i \in 1 .. n - 1 : line[i].t \notin {"ERROR", "OK"},
         lateness' = 0 => n = Len(line) \/ lateness = 0,
         IsScript(todo)', Head(todo)' = "HTTPINIT", module' = module, Nothing', missed => missed'
  PROVE  AtReinit'
<1>1. /\ Len(line) \in Nat /\ Len(line') = Len(line) - n + 1
      /\ \A i \in 1 .. Len(line') - 1 : n + i \in 1 .. Len(line) /\ line'[i] = line[n + i]
      /\ line'[Len(line')].t = "ERROR"
  BY Lengths DEF Moved
<1>2. HasError /\ Len(line) <= 3 /\ (lateness = 0 => Len(line) = 1)
  BY <1>1 DEF HasError, Awaits
<1>3. ~missed => line[1].t = "OK"
  BY <1>2 DEF Awaits
<1>4. missed
  BY <1>1, <1>3
<1>5. \A i \in 1 .. Len(line) : Plain(i) \/ i <= 2
  BY DEF Awaits, StaleAt
<1>6. StaleWithin(1)' /\ Plain(Len(line))' /\ Len(line') <= 3 /\ Len(line') > 0
  BY <1>1, <1>2, <1>5 DEF StaleWithin, Plain
<1>7. lateness' = 0 => Len(line') = 1 /\ line'[1].t = "ERROR"
  BY <1>1, <1>2
<1>8. QED
  BY <1>4, <1>6, <1>7 DEF AtReinit, Awaits

(* HTTPINIT is not answered in time: the request returns.                  *)
LEMMA IdleAfterInit ==
  ASSUME HttpTypes, Awaits("HTTPINIT"), NEW n \in 0 .. Len(line), Left(n),
         n < Len(line), lateness = 0, lateness' = 1,
         \A i \in 1 .. n : line[i].t \notin {"ERROR", "OK"},
         module' = module, missed => missed', trouble'
  PROVE  AtIdle'
<1>1. Len(line) \in Nat /\ Len(line') = Len(line) - n
      /\ \A i \in 1 .. Len(line') : n + i \in 1 .. Len(line) /\ line'[i] = line[n + i]
  BY Lengths DEF Left
<1>2. Len(line) <= 2 /\ \A i \in 1 .. Len(line) : Plain(i)
  BY DEF Awaits
<1>3. n = 0
  BY <1>1, <1>2 DEF Plain
<1>4. ~missed => \A i \in 1 .. Len(line) : line[i].t = "OK"
  <2>1. HasError => Len(line) = 1
    BY DEF Awaits
  <2>2. ~missed /\ HasError => line[1].t = "OK"
    BY DEF Awaits
  <2>3. ~missed => ~HasError
    BY <2>1, <2>2 DEF HasError
  <2>4. QED
    BY <1>2, <2>3 DEF HasError, Plain
<1>5. Len(line') <= 2 /\ Len(line') > 0 /\ StaleWithin(2)'
  BY <1>1, <1>2, <1>3 DEF StaleWithin
<1>6. ~missed' => ~HasError' /\ AllOK'
  BY <1>1, <1>3, <1>4 DEF HasError, AllOK
<1>7. ~module'.prompt
  BY DEF Awaits
<1>8. QED
  BY <1>5, <1>6, <1>7 DEF AtIdle

(* What the driver does after a command was answered, and its effect.      *)
LEMMA ProceedsTo ==
  ASSUME HttpTypes, NEW c, IsScript(todo), Head(todo) = c, NEW rest, Proceed(rest)
  PROVE  /\ result' = result
         /\ \/ /\ c \in {"URL", "body"} /\ Send("HTTPACTION", rest) /\ httpStep' = "action"
            \/ /\ httpStep' = "setup" /\ IsScript(todo)'
               /\ <<c, Head(todo')>> \in Follows /\ Send(Head(todo'), rest)
BY ScriptGoesOn DEF Proceed

LEMMA ProceedKeeps ==
  ASSUME HttpTypes, NEW c, IsScript(todo), Head(todo) = c, Awaits(c),
         NEW w, NEW n \in 1 .. Len(line), NEW X, Waited(w, n, X), Proceed(w.rest),
         c = "HTTPDATA" => n = Len(line),
         lateness' \in {0, 1}, lateness' = 0 => n = Len(line) \/ lateness = 0,
         missed => missed', before' = before,
         UNCHANGED <<request, attempt, response, offset, body>>
  PROVE  /\ HttpTypes' /\ result' = result
         /\ \/ httpStep' = "action" /\ AtAction'
            \/ httpStep' = "setup" /\ AtSetup'
<1>1. /\ w.rest \in Seq(Tok) /\ result' = result /\ Nothing'
      /\ request' = request /\ response' = response /\ offset' = offset
      /\ module.open /\ (module.prompt <=> c = "HTTPDATA")
      /\ c \notin {"HTTPINIT", "PARA"} => module.target = request.number
  BY ProceedsTo DEF Waited, Awaits, Nothing
<1>2. CASE c \in {"URL", "body"} /\ Send("HTTPACTION", w.rest) /\ httpStep' = "action"
  <2>1. Serves
    BY <1>1, <1>2 DEF Serves
  <2>2. /\ ActionSent(n) /\ Serves'
        /\ module' \in [open : BOOLEAN, prompt : BOOLEAN, target : Nat, served : Nat]
    BY <1>1, <1>2, <2>1, ActionMoves DEF Serves
  <2>3. StaleWithin(1) /\ ErrorsWithin(2)
    BY <1>2 DEF Awaits, StaleWithin, ErrorsWithin, StaleAt, ErrorAt
  <2>4. /\ HasError => Len(line) <= 3 /\ (before \/ missed)
        /\ lateness = 0 => Len(line) <= 2 /\ ~HasError
    BY <1>2 DEF Awaits
  <2>5. AtAction'
    BY <1>1, <2>2, <2>3, <2>4, ActionNext
  <2>6. HttpTypes'
    BY <1>1, <1>2, <2>2 DEF HttpTypes, ActionSent
  <2>7. QED
    BY <1>1, <1>2, <2>5, <2>6
<1>3. ASSUME httpStep' = "setup", IsScript(todo)', <<c, Head(todo')>> \in Follows,
             Send(Head(todo'), w.rest)
      PROVE  HttpTypes' /\ AtSetup'
  <2>0. PICK d : d = Head(todo')
    OBVIOUS
  <2>1. <<c, d>> \in Follows /\ Send(d, w.rest)
    BY <1>3, <2>0
  <2>2. CASE c \in {"HTTPINIT", "PARA"} /\ d \in {"PARA", "URL"}
    <3>1. /\ AnswerIs(w.rest, "OK")
          /\ module' = IF d = "URL" THEN [module EXCEPT !.target = request.number] ELSE module
      BY <1>1, <2>1, <2>2, SendParameter
    <3>2. /\ module' \in [open : BOOLEAN, prompt : BOOLEAN, target : Nat, served : Nat]
          /\ module'.open /\ ~module'.prompt /\ (d = "URL" => module'.target = request'.number)
      BY <1>1, <2>2, <3>1 DEF HttpTypes
    <3>3. Moved(n, "OK")
      BY <3>1, MovedOn
    <3>4. Awaits(d)'
      BY <1>1, <2>2, <3>2, <3>3, ParameterNext
    <3>5. QED
      BY <1>1, <1>3, <2>0, <3>2, <3>3, <3>4 DEF HttpTypes, AtSetup, Moved
  <2>3. CASE c = "URL" /\ d = "HTTPDATA"
    <3>1. AnswerIs(w.rest, "DOWNLOAD") /\ module' = [module EXCEPT !.prompt = TRUE]
      BY <1>1, <2>1, <2>3, SendData
    <3>2. /\ module' \in [open : BOOLEAN, prompt : BOOLEAN, target : Nat, served : Nat]
          /\ module'.open /\ module'.prompt /\ module'.target = request'.number
      BY <1>1, <2>3, <3>1 DEF HttpTypes
    <3>3. Moved(n, "DOWNLOAD")
      BY <3>1, MovedOn
    <3>4. Awaits("HTTPDATA")'
      BY <1>1, <2>3, <3>2, <3>3, UploadNext
    <3>5. QED
      BY <1>1, <1>3, <2>0, <2>3, <3>2, <3>3, <3>4 DEF HttpTypes, AtSetup, Moved
  <2>4. CASE c = "HTTPDATA" /\ d = "body"
    <3>1. AnswerIs(w.rest, "OK") /\ module' = [module EXCEPT !.prompt = FALSE]
      BY <1>1, <2>1, <2>4, SendBody
    <3>2. /\ module' \in [open : BOOLEAN, prompt : BOOLEAN, target : Nat, served : Nat]
          /\ module'.open /\ ~module'.prompt /\ module'.target = request'.number
      BY <1>1, <2>4, <3>1 DEF HttpTypes
    <3>3. Moved(n, "OK") /\ n = Len(line)
      BY <2>4, <3>1, MovedOn
    <3>4. Awaits("body")'
      BY <1>1, <2>4, <3>2, <3>3, BodyNext
    <3>5. QED
      BY <1>1, <1>3, <2>0, <2>4, <3>2, <3>3, <3>4 DEF HttpTypes, AtSetup, Moved
  <2>5. QED
    BY <2>1, <2>2, <2>3, <2>4 DEF Follows
<1>4. QED
  BY <1>1, <1>2, <1>3, ProceedsTo

LEMMA ReinitAwaits ==
  ASSUME HttpTypes, AtReinit
  PROVE  Awaits("HTTPINIT")
<1>1. Len(line) \in Nat
  BY Lengths
<1>2. lateness = 0 => /\ Len(line) <= 2 /\ (HasError => Len(line) = 1)
                      /\ \A i \in 1 .. Len(line) : Plain(i)
  <2>1. lateness = 0 => Len(line) = 1 /\ line[1].t = "ERROR"
    BY DEF AtReinit
  <2>2. QED
    BY <2>1 DEF Plain
<1>3. ErrorsWithin(3) /\ \A i \in 1 .. Len(line) : Plain(i) \/ i <= 2
  BY <1>1 DEF AtReinit, ErrorsWithin, StaleWithin
<1>4. QED
  BY <1>1, <1>2, <1>3 DEF AtReinit, Awaits, StaleAt, ErrorAt

(* What a step that ends the request, or is one of its steps, has to keep. *)
LEMMA GoesOn ==
  ASSUME HttpTypes', result' = "none",
         \/ httpStep' = "setup" /\ AtSetup'
         \/ httpStep' = "reinit" /\ AtReinit'
         \/ httpStep' = "action" /\ AtAction'
         \/ httpStep' = "urc" /\ AtUrc'
         \/ httpStep' = "drain" /\ AtDrain'
         \/ httpStep' = "read" /\ AtRead'
  PROVE  HttpInv'
BY DEF HttpInv, ResponseIsOwn, OnlyMissedPromptSpreads

LEMMA Fails ==
  ASSUME HttpTypes', result' = "failed", trouble' \/ before' \/ missed',
         \/ httpStep' = "idle" /\ AtIdle'
         \/ httpStep' = "term" /\ AtTerm'
  PROVE  HttpInv'
BY DEF HttpInv, ResponseIsOwn, OnlyMissedPromptSpreads

LEMMA TerminateSends ==
  ASSUME HttpTypes, module.open, NEW w, NEW n, NEW X, Waited(w, n, X), NEW r, Terminate(r, w.rest)
  PROVE  /\ Moved(n, "OK") /\ line' \in Seq(Tok) /\ httpStep' = "term" /\ result' = r
         /\ module' = IF module.prompt THEN [module EXCEPT !.prompt = FALSE] ELSE Closed
         /\ module' \in [open : BOOLEAN, prompt : BOOLEAN, target : Nat, served : Nat]
<1>1. w.rest \in Seq(Tok) /\ Send("HTTPTERM", w.rest) /\ httpStep' = "term" /\ result' = r
  BY DEF Waited, Terminate
<1>2. /\ AnswerIs(w.rest, "OK")
      /\ module' = IF module.prompt THEN [module EXCEPT !.prompt = FALSE] ELSE Closed
  BY <1>1, SendTerm
<1>3. module' \in [open : BOOLEAN, prompt : BOOLEAN, target : Nat, served : Nat]
  BY <1>2 DEF HttpTypes, Closed
<1>4. Moved(n, "OK")
  BY <1>2, MovedOn
<1>5. QED
  BY <1>1, <1>2, <1>3, <1>4 DEF Moved

LEMMA SetupFails ==
  ASSUME HttpTypes, NEW c \in {"PARA", "URL", "HTTPDATA", "body"}, Awaits(c),
         NEW w, NEW n \in 0 .. Len(line),
         Waited(w, n, {"ERROR", IF c = "HTTPDATA" THEN "DOWNLOAD" ELSE "OK"}),
         Bad(w), Terminate("failed", w.rest),
         missed => missed', before' = before, c = "HTTPDATA" => missed',
         w.token.t = "timeout" => trouble',
         UNCHANGED <<request, response, offset>>
  PROVE  HttpInv'
<1> DEFINE X == {"ERROR", IF c = "HTTPDATA" THEN "DOWNLOAD" ELSE "OK"}
<1>1. /\ Moved(n, "OK") /\ line' \in Seq(Tok) /\ httpStep' = "term" /\ result' = "failed"
      /\ module' = IF module.prompt THEN [module EXCEPT !.prompt = FALSE] ELSE Closed
      /\ module' \in [open : BOOLEAN, prompt : BOOLEAN, target : Nat, served : Nat]
  BY TerminateSends DEF Awaits
<1>2. Len(line) > 0 /\ (line[Len(line)].t \in X \/ line[Len(line)].t = "ERROR")
  BY DEF Awaits, Plain
<1>3. HttpTypes'
  BY <1>1 DEF HttpTypes, Waited
<1>4. CASE w.token.t = "timeout"
  <2>1. n < Len(line) /\ lateness = 0 /\ lateness' = 1
    BY <1>2, <1>4, GaveUpEarly DEF Awaits
  <2>2. AtTerm'
    <3>1. CASE c = "HTTPDATA"
      <4>1. module' = [module EXCEPT !.prompt = FALSE]
        BY <1>1, <3>1 DEF Awaits
      <4>2. QED
        BY <1>1, <2>1, <3>1, <4>1, TermAfterPrompt
    <3>2. CASE c # "HTTPDATA"
      <4>1. module' = Closed
        BY <1>1, <3>2 DEF Awaits
      <4>2. QED
        BY <1>1, <2>1, <3>2, <4>1, TermAfterTimeout
    <3>3. QED
      BY <3>1, <3>2
  <2>3. QED
    BY <1>1, <1>3, <1>4, <2>2, Fails
<1>5. CASE w.token.t # "timeout"
  <2>1. /\ n \in 1 .. Len(line) /\ w.token = line[n] /\ line[n].t \in X
        /\ lateness' = 0 => n = Len(line) \/ lateness = 0
    BY <1>5, Took
  <2>2. line[n].t = "ERROR"
    BY <2>1 DEF Bad
  <2>3. CASE c = "HTTPDATA"
    <3>1. module' = [module EXCEPT !.prompt = FALSE]
      BY <1>1, <2>3 DEF Awaits
    <3>2. n > 0 /\ lateness' \in {0, 1} /\ missed' /\ Awaits("HTTPDATA")
      BY <1>3, <2>1, <2>3 DEF HttpTypes
    <3>3. AtTerm'
      BY <1>1, <2>1, <2>2, <3>1, <3>2, TermAfterPrompt
    <3>4. QED
      BY <1>1, <1>3, <2>3, <3>3, Fails
  <2>4. CASE c # "HTTPDATA"
    <3>1. module' = Closed
      BY <1>1, <2>4 DEF Awaits
    <3>2. AtTerm' /\ (before \/ missed)
      BY <1>1, <2>1, <2>2, <2>4, <3>1, TermAfterError
    <3>3. QED
      BY <1>1, <1>3, <3>2, Fails
  <2>5. QED
    BY <2>3, <2>4
<1>6. QED
  BY <1>4, <1>5

LEMMA SetupKeeps ==
  ASSUME HttpTypes, AtSetup, MaxLate <= 1, Setup
  PROVE  HttpInv'
<1>0. PICK c : c = Head(todo)
  OBVIOUS
<1> DEFINE X == {"ERROR", IF c = "HTTPDATA" THEN "DOWNLOAD" ELSE "OK"}
<1>1. PICK w \in Waits(X) :
       /\ Heard(w)
       /\ trouble' = (trouble \/ w.token.t = "timeout")
       /\ \/ ~Bad(w) /\ Proceed(w.rest)
          \/ /\ c = "HTTPINIT" /\ w.token.t = "ERROR"
             /\ Send("HTTPINIT", w.rest)
             /\ httpStep' = "reinit"
             /\ UNCHANGED <<todo, result>>
          \/ /\ c = "HTTPINIT" /\ w.token.t = "timeout"
             /\ httpStep' = "idle"
             /\ result' = "failed"
             /\ line' = w.rest
             /\ UNCHANGED <<todo, module>>
          \/ /\ c # "HTTPINIT" /\ Bad(w)
             /\ Terminate("failed", w.rest)
             /\ UNCHANGED todo
  BY <1>0 DEF Setup
<1>2. PICK n \in 0 .. Len(line) : Waited(w, n, X)
  BY <1>1, WaitEnds
<1> HIDE DEF X
<1>3. /\ IsScript(todo) /\ Awaits(c) /\ c \in Commands
      /\ UNCHANGED <<request, attempt, response, offset, body>>
      /\ httpStep = "setup" /\ result = "none"
  BY <1>0, ScriptGoesOn DEF AtSetup, Setup, Awaits, Nothing
<1>4. /\ missed => missed'
      /\ before' = before
      /\ c = "HTTPDATA" /\ module.prompt /\ w.token.t # "DOWNLOAD" => missed'
  BY <1>0, <1>1, <1>3, HeardGhosts
<1>5. w.token.t = "timeout" => trouble'
  BY <1>1, Zenon
<1>6. /\ w.rest \in Seq(Tok) /\ lateness' \in {0, 1}
      /\ module.open /\ Len(line) > 0 /\ (module.prompt <=> c = "HTTPDATA")
  BY <1>2, <1>3 DEF Waited, Awaits
<1>7. CASE ~Bad(w) /\ Proceed(w.rest)
  <2>1. /\ n \in 1 .. Len(line) /\ w.token = line[n] /\ line[n].t \in X
        /\ lateness' = 0 => n = Len(line) \/ lateness = 0
    BY <1>2, <1>7, Took DEF Bad
  <2>2. c = "HTTPDATA" => n = Len(line)
    BY <1>3, <1>7, <2>1, PromptIsLast DEF Bad, X
  <2>3. /\ HttpTypes' /\ result' = result
        /\ \/ httpStep' = "action" /\ AtAction'
           \/ httpStep' = "setup" /\ AtSetup'
    BY <1>0, <1>2, <1>3, <1>4, <1>6, <1>7, <2>1, <2>2, ProceedKeeps
  <2>4. QED
    BY <1>3, <2>3, GoesOn
<1>8. CASE /\ c = "HTTPINIT" /\ w.token.t = "ERROR"
           /\ Send("HTTPINIT", w.rest)
           /\ httpStep' = "reinit"
           /\ UNCHANGED <<todo, result>>
  <2>1. /\ n \in 1 .. Len(line) /\ w.token = line[n]
        /\ \A i \in 1 .. n - 1 : line[i].t \notin X
        /\ lateness' = 0 => n = Len(line) \/ lateness = 0
    BY <1>2, <1>8, Took
  <2>2. AnswerIs(w.rest, "ERROR") /\ module' = module
    BY <1>6, <1>8, SendInit
  <2>3. Moved(n, "ERROR")
    BY <1>2, <2>2, MovedOn
  <2>4. IsScript(todo)' /\ Head(todo)' = "HTTPINIT" /\ Nothing'
    <3>1. todo' = todo
      BY <1>8
    <3>2. QED
      BY <1>0, <1>3, <1>8, <3>1 DEF Awaits, Nothing
  <2>5. AtReinit'
    BY <1>3, <1>4, <1>8, <2>1, <2>2, <2>3, <2>4, ReinitNext DEF X
  <2>6. HttpTypes'
    BY <1>3, <1>6, <1>8, <2>2, <2>3 DEF HttpTypes, Moved
  <2>7. QED
    BY <1>3, <1>8, <2>5, <2>6, GoesOn
<1>9. CASE /\ c = "HTTPINIT" /\ w.token.t = "timeout"
           /\ httpStep' = "idle"
           /\ result' = "failed"
           /\ line' = w.rest
           /\ UNCHANGED <<todo, module>>
  <2>1. line[Len(line)].t \in X
    BY <1>3, <1>9 DEF Awaits, Plain, X
  <2>2. n < Len(line) /\ lateness = 0 /\ lateness' = 1
    BY <1>2, <1>6, <1>9, <2>1, GaveUpEarly
  <2>3. \A i \in 1 .. n : line[i].t \notin X
    BY <1>2, <1>9, GaveUp
  <2>4. Left(n)
    BY <1>2, <1>9, LeftOver
  <2>5. AtIdle'
    BY <1>3, <1>4, <1>5, <1>9, <2>2, <2>3, <2>4, IdleAfterInit DEF X
  <2>6. HttpTypes'
    BY <1>3, <1>6, <1>9 DEF HttpTypes
  <2>7. QED
    BY <1>5, <1>9, <2>5, <2>6, Fails
<1>10. CASE /\ c # "HTTPINIT" /\ Bad(w)
            /\ Terminate("failed", w.rest)
            /\ UNCHANGED todo
  <2>1. c = "HTTPDATA" => missed'
    BY <1>4, <1>6, <1>10 DEF Bad
  <2>2. QED
    BY <1>2, <1>3, <1>4, <1>5, <1>10, <2>1, SetupFails DEF Commands, X
<1>11. QED
  BY <1>1, <1>7, <1>8, <1>9, <1>10

LEMMA ReinitKeeps ==
  ASSUME HttpTypes, AtReinit, MaxLate <= 1, Reinit
  PROVE  HttpInv'
<1>1. PICK w \in Waits({"OK", "ERROR"}) :
       /\ Heard(w)
       /\ trouble' = (trouble \/ w.token.t = "timeout")
       /\ \/ ~Bad(w) /\ Proceed(w.rest)
          \/ /\ Bad(w)
             /\ httpStep' = "idle"
             /\ result' = "failed"
             /\ line' = w.rest
             /\ UNCHANGED <<todo, module>>
  BY DEF Reinit
<1> DEFINE X == {"OK", "ERROR"}
<1>2. PICK n \in 0 .. Len(line) : Waited(w, n, X)
  BY <1>1, WaitEnds
<1> HIDE DEF X
<1>3. /\ IsScript(todo) /\ Head(todo) = "HTTPINIT" /\ Awaits("HTTPINIT")
      /\ UNCHANGED <<request, attempt, response, offset, body>>
      /\ httpStep = "reinit" /\ result = "none" /\ missed /\ ~module.prompt
  BY ReinitAwaits DEF AtReinit, Reinit, Nothing
<1>4. missed' /\ before' = before
  BY <1>1, <1>3, HeardGhosts
<1>5. w.rest \in Seq(Tok) /\ lateness' \in {0, 1} /\ Len(line) \in Nat
  BY <1>2, Lengths DEF Waited
<1>6. CASE ~Bad(w) /\ Proceed(w.rest)
  <2>1. /\ n \in 1 .. Len(line)
        /\ lateness' = 0 => n = Len(line) \/ lateness = 0
    BY <1>2, <1>6, Took DEF Bad
  <2>2. /\ HttpTypes' /\ result' = result
        /\ \/ httpStep' = "action" /\ AtAction'
           \/ httpStep' = "setup" /\ AtSetup'
    BY <1>2, <1>3, <1>4, <1>5, <1>6, <2>1, ProceedKeeps
  <2>3. QED
    BY <1>3, <2>2, GoesOn
<1>7. CASE /\ Bad(w)
           /\ httpStep' = "idle"
           /\ result' = "failed"
           /\ line' = w.rest
           /\ UNCHANGED <<todo, module>>
  <2>1. Left(n)
    BY <1>2, <1>7, LeftOver
  <2>2. /\ Len(line') = Len(line) - n
        /\ \A i \in 1 .. Len(line') : n + i \in 1 .. Len(line) /\ line'[i] = line[n + i]
    BY <1>5, <2>1 DEF Left
  <2>3. Len(line') <= 2 /\ StaleWithin(2)' /\ (lateness' = 0 => Len(line') = 0)
    <3>1. CASE w.token.t = "timeout"
      <4>1. n < Len(line) /\ lateness = 0 /\ lateness' = 1
        BY <1>2, <3>1, GaveUpEarly DEF AtReinit, Plain, X
      <4>2. Len(line) = 1
        BY <4>1 DEF AtReinit
      <4>3. QED
        BY <1>5, <2>2, <4>1, <4>2 DEF StaleWithin
    <3>2. CASE w.token.t # "timeout"
      <4>1. n \in 1 .. Len(line) /\ (lateness' = 0 => n = Len(line) \/ lateness = 0)
        BY <1>2, <3>2, Took
      <4>2. Len(line) <= 3 /\ (lateness = 0 => Len(line) = 1)
        BY DEF AtReinit
      <4>3. QED
        BY <1>5, <2>2, <4>1, <4>2 DEF StaleWithin
    <3>3. QED
      BY <3>1, <3>2
  <2>4. AtIdle'
    BY <1>3, <1>4, <1>5, <1>7, <2>2, <2>3 DEF AtIdle, AllOK
  <2>5. HttpTypes'
    BY <1>3, <1>5, <1>7 DEF HttpTypes
  <2>6. QED
    BY <1>4, <1>7, <2>4, <2>5, Fails
<1>8. QED
  BY <1>1, <1>6, <1>7

LEMMA TerminatedKeeps ==
  ASSUME HttpTypes, AtTerm, ResponseIsOwn, OnlyMissedPromptSpreads, MaxLate <= 1, Terminated
  PROVE  HttpInv'
<1> DEFINE X == {"OK", "ERROR"}
<1>1. PICK w \in Waits(X) : /\ Heard(w) /\ line' = w.rest
                            /\ trouble' = (trouble \/ w.token.t = "timeout")
  BY DEF Terminated
<1>2. PICK n \in 0 .. Len(line) : Waited(w, n, X)
  BY <1>1, WaitEnds
<1> HIDE DEF X
<1>3. /\ httpStep = "term" /\ httpStep' = "idle" /\ UNCHANGED <<request, response, offset, body>>
      /\ UNCHANGED <<result, module, short>>
  BY DEF Terminated, requestVars
<1>4. (missed => missed') /\ (missed' => missed) /\ before' = before
  BY <1>1, <1>3, HeardGhosts
<1>5. trouble => trouble'
  BY <1>1, Zenon
<1>6. w.rest \in Seq(Tok) /\ lateness' \in {0, 1} /\ Len(line) \in Nat
  BY <1>2, Lengths DEF Waited
<1>7. HttpTypes'
  BY <1>1, <1>3, <1>6 DEF HttpTypes
<1>8. ResponseIsOwn' /\ OnlyMissedPromptSpreads'
  <2>1. ResponseIsOwn'
    BY <1>3 DEF ResponseIsOwn, InOrder
  <2>2. OnlyMissedPromptSpreads'
    BY <1>3, <1>4, <1>5 DEF OnlyMissedPromptSpreads
  <2>3. QED
    BY <2>1, <2>2
<1>9. /\ Len(line') = Len(line) - n
      /\ \A i \in 1 .. Len(line') : n + i \in 1 .. Len(line) /\ line'[i] = line[n + i]
  <2>1. Left(n)
    BY <1>1, <1>2, LeftOver
  <2>2. QED
    BY <1>6, <2>1 DEF Left
<1>10. HasError' => HasError
  BY <1>6, <1>9 DEF HasError
<1>11. CASE w.token.t = "timeout"
  <2>1. n < Len(line) /\ lateness = 0 /\ lateness' = 1
    BY <1>2, <1>11, GaveUpEarly DEF AtTerm, Plain, X
  <2>2. ~module.open /\ Len(line) <= 2 /\ AllOK
    BY <2>1 DEF AtTerm
  <2>3. Len(line') <= 2 /\ StaleWithin(2)'
    BY <1>6, <1>9, <2>1, <2>2 DEF StaleWithin
  <2>4. AtIdle'
    BY <1>3, <1>4, <1>10, <2>1, <2>2, <2>3 DEF AtIdle, AtTerm
  <2>5. QED
    BY <1>3, <1>7, <1>8, <2>4 DEF HttpInv
<1>12. CASE w.token.t # "timeout"
  <2>1. n \in 1 .. Len(line) /\ (lateness' = 0 => n = Len(line) \/ lateness = 0)
    BY <1>2, <1>12, Took
  <2>2. StaleWithin(2)'
    <3>1. StaleWithin(3)
      BY DEF AtTerm
    <3>2. QED
      BY <1>6, <1>9, <2>1, <3>1 DEF StaleWithin, Plain
  <2>3. module'.open \/ HasError' => Len(line') <= 2
    <3>1. module'.open \/ HasError' => Len(line) <= 3
      BY <1>3, <1>10 DEF AtTerm
    <3>2. QED
      BY <1>6, <1>9, <2>1, <3>1
  <2>4. lateness' = 0 => AllOK' /\ Len(line') <= (IF module'.open THEN 0 ELSE 1)
    <3>1. CASE n = Len(line)
      BY <1>6, <1>9, <3>1 DEF AllOK
    <3>2. CASE lateness = 0
      <4>1. ~module'.open /\ Len(line) <= 2 /\ AllOK
        BY <1>3, <3>2 DEF AtTerm
      <4>2. QED
        BY <1>6, <1>9, <2>1, <4>1 DEF AllOK
    <3>3. QED
      BY <2>1, <3>1, <3>2
  <2>5. ~missed' => ~HasError' /\ ~module'.open
    BY <1>3, <1>4, <1>10 DEF AtTerm
  <2>6. AtIdle'
    BY <1>3, <2>2, <2>3, <2>4, <2>5 DEF AtIdle, AtTerm
  <2>7. QED
    BY <1>3, <1>7, <1>8, <2>6 DEF HttpInv
<1>13. QED
  BY <1>11, <1>12

LEMMA ActionKeeps ==
  ASSUME HttpTypes, AtAction, MaxLate <= 1, Action
  PROVE  HttpInv'
<1> DEFINE X == {"OK", "ERROR"}
<1>1. PICK w \in Waits(X) :
         /\ Heard(w)
         /\ trouble' = (trouble \/ w.token.t = "timeout")
         /\ \/ /\ ~Bad(w)
               /\ httpStep' = "urc"
               /\ line' = w.rest
               /\ UNCHANGED <<module, result>>
            \/ Bad(w) /\ Terminate("failed", w.rest)
  BY DEF Action
<1>2. PICK n \in 0 .. Len(line) : Waited(w, n, X)
  BY <1>1, WaitEnds
<1> HIDE DEF X
<1>3. /\ httpStep = "action" /\ UNCHANGED <<request, response, offset, body>>
      /\ Serves /\ Nothing /\ Len(line) > 0 /\ Plain(1) /\ OnlyOwn /\ ErrorsWithin(1)
  BY DEF Action, requestVars, AtAction
<1>4. (missed => missed') /\ before' = before
  BY <1>1, <1>3, HeardGhosts
<1>5. w.token.t = "timeout" => trouble'
  BY <1>1, Zenon
<1>6. w.rest \in Seq(Tok) /\ lateness' \in {0, 1} /\ Len(line) \in Nat
  BY <1>2, Lengths DEF Waited
<1>7. w.token.t # "timeout" => /\ n = 1 /\ w.token = line[1] /\ line[1].t \in X
                               /\ lateness' = 0 => n = Len(line) \/ lateness = 0
  <2>1. ASSUME w.token.t # "timeout"
        PROVE  /\ n \in 1 .. Len(line) /\ w.token = line[n] /\ line[n].t \in X
               /\ \A i \in 1 .. n - 1 : line[i].t \notin X
               /\ lateness' = 0 => n = Len(line) \/ lateness = 0
    BY <1>2, <2>1, Took
  <2>2. line[1].t \in X
    BY <1>3 DEF Plain, X
  <2>3. ASSUME w.token.t # "timeout"
        PROVE  n = 1
    BY <1>6, <2>1, <2>2, <2>3
  <2>4. QED
    BY <2>1, <2>3
<1>8. w.token.t = "timeout" => n = 0 /\ lateness = 0 /\ lateness' = 1
  <2>1. ASSUME w.token.t = "timeout"
        PROVE  /\ \A i \in 1 .. n : line[i].t \notin X
               /\ n = Len(line) \/ (lateness = 0 /\ lateness' = 1)
    BY <1>2, <2>1, GaveUp
  <2>2. line[1].t \in X
    BY <1>3 DEF Plain, X
  <2>3. ASSUME w.token.t = "timeout"
        PROVE  n = 0
    BY <1>6, <2>1, <2>2, <2>3
  <2>4. QED
    BY <1>3, <1>6, <2>1, <2>3
<1>9. CASE /\ ~Bad(w)
           /\ httpStep' = "urc"
           /\ line' = w.rest
           /\ UNCHANGED <<module, result>>
  <2>1. n = 1 /\ (lateness' = 0 => n = Len(line) \/ lateness = 0)
    BY <1>7, <1>9 DEF Bad
  <2>2. /\ Len(line') = Len(line) - 1
        /\ \A i \in 1 .. Len(line') : 1 + i \in 1 .. Len(line) /\ line'[i] = line[1 + i]
    BY <1>2, <1>6, <1>9, <2>1, LeftOver DEF Left
  <2>3. \A i \in 1 .. Len(line') : Plain(i)' \/ (i = Len(line') - 1 /\ OwnAction(line[1 + i]))
    BY <1>3, <1>6, <2>2 DEF OnlyOwn, Plain
  <2>4. OnlyOwn'
    BY <1>3, <1>9, <2>2, <2>3 DEF OnlyOwn, Plain, OwnAction
  <2>5. ~HasError'
    BY <1>3, <1>6, <2>2 DEF ErrorsWithin, HasError
  <2>6. lateness' = 0 => Len(line') <= 3
    BY <1>6, <2>1, <2>2 DEF AtAction
  <2>7. Serves' /\ Nothing' /\ result' = "none"
    BY <1>3, <1>9 DEF Serves, Nothing
  <2>8. HttpTypes'
    BY <1>3, <1>6, <1>9 DEF HttpTypes
  <2>9. QED
    BY <1>9, <2>4, <2>5, <2>6, <2>7, <2>8, GoesOn DEF AtUrc
<1>10. CASE Bad(w) /\ Terminate("failed", w.rest)
  <2>1. /\ Moved(n, "OK") /\ line' \in Seq(Tok) /\ httpStep' = "term" /\ result' = "failed"
        /\ module' = Closed
        /\ module' \in [open : BOOLEAN, prompt : BOOLEAN, target : Nat, served : Nat]
    BY <1>2, <1>3, <1>10, TerminateSends DEF Serves
  <2>2. HttpTypes'
    BY <1>3, <1>6, <2>1 DEF HttpTypes
  <2>3. /\ Len(line') = Len(line) - n + 1
        /\ \A i \in 1 .. Len(line') - 1 : n + i \in 1 .. Len(line) /\ line'[i] = line[n + i]
        /\ line'[Len(line')].t = "OK"
    BY <1>6, <2>1 DEF Moved
  <2>4. CASE w.token.t = "timeout"
    <3>1. n = 0 /\ Len(line) <= 4 /\ lateness' = 1 /\ ~HasError
      BY <1>8, <2>4 DEF AtAction
    <3>2. ~HasError'
      BY <1>6, <2>3, <3>1 DEF HasError
    <3>3. StaleWithin(3)' /\ Plain(Len(line))'
      BY <1>3, <1>6, <2>3, <3>1 DEF StaleWithin, Plain, OnlyOwn
    <3>4. AtTerm'
      BY <1>6, <2>1, <2>3, <3>1, <3>2, <3>3 DEF AtTerm, Closed
    <3>5. QED
      BY <1>5, <2>1, <2>2, <2>4, <3>4, Fails
  <2>5. CASE w.token.t # "timeout"
    <3>1. n = 1 /\ line[1].t = "ERROR" /\ (lateness' = 0 => n = Len(line) \/ lateness = 0)
      BY <1>7, <1>10, <2>5 DEF Bad, X
    <3>2. HasError
      BY <1>3, <1>6, <3>1 DEF HasError
    <3>3. Len(line) <= 5 /\ (before \/ missed) /\ lateness # 0
      BY <3>2 DEF AtAction
    <3>4. ~HasError'
      BY <1>3, <1>6, <2>3, <3>1 DEF HasError, ErrorsWithin
    <3>5. StaleWithin(3)' /\ Plain(Len(line))'
      BY <1>3, <1>6, <2>3, <3>1, <3>3 DEF StaleWithin, Plain, OnlyOwn
    <3>6. lateness' = 0 => Len(line') = 1 /\ AllOK'
      BY <1>6, <2>3, <3>1, <3>3 DEF AllOK
    <3>7. AtTerm'
      BY <1>6, <2>1, <2>3, <3>1, <3>4, <3>5, <3>6 DEF AtTerm, Closed
    <3>8. before' \/ missed'
      BY <1>4, <3>3
    <3>9. QED
      BY <2>1, <2>2, <3>7, <3>8, Fails
  <2>6. QED
    BY <2>4, <2>5
<1>11. QED
  BY <1>1, <1>9, <1>10

LEMMA ActionResultKeeps ==
  ASSUME HttpTypes, AtUrc, MaxLate <= 1, ActionResult
  PROVE  HttpInv'
<1> DEFINE X == {"+HTTPACTION", "ERROR"}
<1>1. PICK w \in Waits(X) :
       /\ Heard(w)
       /\ trouble' = (trouble \/ w.token.t = "timeout" \/ w.token = ModuleError)
       /\ \/ /\ w.token.t = "+HTTPACTION" /\ w.token # ModuleError
             /\ response' = [of |-> w.token.of, size |-> w.token.size]
             /\ httpStep' = "drain"
             /\ line' = w.rest
             /\ UNCHANGED <<module, result, attempt>>
          \/ /\ w.token = ModuleError
             /\ Send("HTTPACTION", w.rest)
             /\ httpStep' = "action"
             /\ UNCHANGED <<result, response>>
          \/ /\ w.token = ModuleError \/ Bad(w)
             /\ Terminate("failed", w.rest)
             /\ UNCHANGED response
  BY DEF ActionResult
<1>2. PICK n \in 0 .. Len(line) : Waited(w, n, X)
  BY <1>1, WaitEnds
<1> HIDE DEF X
<1>3. /\ httpStep = "urc" /\ UNCHANGED <<request, offset, body>>
      /\ Serves /\ Nothing /\ OnlyOwn /\ ~HasError
  BY DEF ActionResult, AtUrc
<1>4. (missed => missed') /\ before' = before
  BY <1>1, <1>3, HeardGhosts
<1>5. w.token.t = "timeout" \/ w.token = ModuleError => trouble'
  BY <1>1, Zenon
<1>6. w.rest \in Seq(Tok) /\ lateness' \in {0, 1} /\ Len(line) \in Nat
  BY <1>2, Lengths DEF Waited
<1>7. ASSUME w.token.t # "timeout"
      PROVE  /\ n \in 1 .. Len(line) /\ n = Len(line) - 1 /\ w.token = line[n] /\ OwnAction(w.token)
             /\ line[Len(line)].t = "OK" /\ w.token.t # "ERROR"
  <2>1. n \in 1 .. Len(line) /\ w.token = line[n] /\ line[n].t \in X
    BY <1>2, <1>7, Took
  <2>2. line[n].t # "ERROR" /\ ~Plain(n)
    BY <1>3, <2>1 DEF HasError, Plain, X
  <2>3. n = Len(line) - 1 /\ OwnAction(line[n])
    BY <1>3, <2>1, <2>2 DEF OnlyOwn
  <2>4. Len(line) \in 1 .. Len(line) /\ Len(line) # Len(line) - 1
    BY <1>6, <2>1
  <2>5. Plain(Len(line)) /\ line[Len(line)].t # "ERROR"
    BY <1>3, <2>4 DEF OnlyOwn, HasError
  <2>6. QED
    BY <2>1, <2>2, <2>3, <2>5 DEF Plain
<1>8. ModuleError.t = "+HTTPACTION"
  BY DEF ModuleError
<1>9. CASE /\ w.token.t = "+HTTPACTION" /\ w.token # ModuleError
           /\ response' = [of |-> w.token.of, size |-> w.token.size]
           /\ httpStep' = "drain"
           /\ line' = w.rest
           /\ UNCHANGED <<module, result, attempt>>
  <2>1. /\ n \in 1 .. Len(line) /\ n = Len(line) - 1 /\ OwnAction(w.token)
        /\ line[Len(line)].t = "OK"
    BY <1>7, <1>9
  <2>2. Left(n)
    BY <1>2, <1>9, LeftOver
  <2>3. Len(line') = 1 /\ line'[1].t = "OK"
    BY <1>6, <2>1, <2>2 DEF Left
  <2>4. w.token = ActionDone(request.number, module.served)
    BY <1>9, <2>1 DEF OwnAction
  <2>5. response' = [of |-> request'.number, size |-> module'.served]
    BY <1>3, <1>9, <2>4 DEF ActionDone
  <2>6. response' \in [of : Nat, size : Nat]
    BY <1>3, <1>9, <2>5 DEF HttpTypes
  <2>7. HttpTypes'
    BY <1>3, <1>6, <1>9, <2>6 DEF HttpTypes
  <2>8. Serves' /\ Nothing' /\ result' = "none"
    BY <1>3, <1>9 DEF Serves, Nothing
  <2>9. AtDrain'
    BY <2>3, <2>5, <2>8 DEF AtDrain, Knows, AllOK, Nothing
  <2>10. QED
    BY <1>9, <2>7, <2>8, <2>9, GoesOn
<1>10. CASE /\ w.token = ModuleError
            /\ Send("HTTPACTION", w.rest)
            /\ httpStep' = "action"
            /\ UNCHANGED <<result, response>>
  <2>1. n \in 1 .. Len(line) /\ n = Len(line) - 1 /\ line[Len(line)].t = "OK"
    BY <1>7, <1>8, <1>10
  <2>2. /\ ActionSent(n) /\ Serves'
        /\ module' \in [open : BOOLEAN, prompt : BOOLEAN, target : Nat, served : Nat]
    BY <1>2, <1>3, <1>10, ActionMoves DEF Serves
  <2>3. /\ line' \in Seq(Tok) /\ Len(line') \in {2, 4}
        /\ line'[1].t = "OK" /\ line'[2].t = "OK"
        /\ Len(line') = 4 => /\ line'[4].t = "OK"
                             /\ \/ line'[3] = ModuleError
                                \/ line'[3] = ActionDone(request'.number, module'.served)
    <3>1. Len(line) - n = 1 /\ n + 1 = Len(line)
      BY <1>6, <2>1
    <3>2. Len(line) - n + 1 = 2 /\ Len(line) - n + 2 = 3 /\ Len(line) - n + 3 = 4
      BY <1>6, <2>1
    <3>3. line'[1] = line[Len(line)] /\ line'[2] = Token("OK")
      <4>1. 1 \in 1 .. Len(line) - n
        BY <3>1
      <4>2. line'[1] = line[n + 1]
        BY <2>2, <4>1 DEF ActionSent
      <4>3. line'[2] = Token("OK")
        BY <2>2, <3>2 DEF ActionSent
      <4>4. QED
        BY <3>1, <4>2, <4>3
    <3>4. \/ Len(line') = 2
          \/ /\ Len(line') = 4 /\ line'[4] = Token("OK")
             /\ \/ line'[3] = ModuleError
                \/ line'[3] = ActionDone(request'.number, module'.served)
      BY <1>3, <2>2, <3>2 DEF ActionSent
    <3>5. QED
      BY <2>1, <2>2, <3>3, <3>4, Words DEF ActionSent
  <2>4. Len(line') = 4 => line'[3].t = "+HTTPACTION"
    BY <2>3 DEF ModuleError, ActionDone
  <2>5. \A i \in 1 .. Len(line') : i \in {1, 2} \/ (Len(line') = 4 /\ i \in {3, 4})
    <3>1. CASE Len(line') = 2
      BY <3>1
    <3>2. CASE Len(line') = 4
      BY <3>2
    <3>3. QED
      BY <2>3, <3>1, <3>2
  <2>6. OnlyOwn'
    BY <2>3, <2>5 DEF OnlyOwn, OwnAction, Plain
  <2>7. ~HasError'
    BY <2>3, <2>4, <2>5 DEF HasError
  <2>8. AtAction'
    BY <1>3, <1>10, <2>2, <2>3, <2>6, <2>7 DEF AtAction, Nothing, ErrorsWithin, HasError, Plain
  <2>9. HttpTypes'
    BY <1>3, <1>6, <1>10, <2>2, <2>3 DEF HttpTypes
  <2>10. QED
    BY <1>3, <1>10, <2>8, <2>9, GoesOn DEF Nothing
<1>11. CASE /\ w.token = ModuleError \/ Bad(w)
            /\ Terminate("failed", w.rest)
            /\ UNCHANGED response
  <2>1. /\ Moved(n, "OK") /\ line' \in Seq(Tok) /\ httpStep' = "term" /\ result' = "failed"
        /\ module' = Closed
        /\ module' \in [open : BOOLEAN, prompt : BOOLEAN, target : Nat, served : Nat]
    BY <1>2, <1>3, <1>11, TerminateSends DEF Serves
  <2>2. HttpTypes'
    BY <1>3, <1>6, <1>11, <2>1 DEF HttpTypes
  <2>3. /\ Len(line') = Len(line) - n + 1
        /\ \A i \in 1 .. Len(line') - 1 : n + i \in 1 .. Len(line) /\ line'[i] = line[n + i]
        /\ line'[Len(line')].t = "OK" /\ Len(line') \in Nat
    BY <2>1, MovedProperties
  <2>4. ~HasError' /\ Plain(Len(line))'
    <3>1. \A i \in 1 .. Len(line') - 1 : line'[i].t # "ERROR"
      BY <1>3, <2>3 DEF HasError
    <3>2. \A i \in 1 .. Len(line') : line'[i].t # "ERROR"
      BY <2>3, <3>1
    <3>3. QED
      BY <2>3, <3>2 DEF HasError, Plain
  <2>5. trouble'
    <3>1. CASE w.token = ModuleError
      BY <1>5, <3>1
    <3>2. CASE w.token # ModuleError /\ w.token.t # "timeout"
      <4>1. w.token.t = "+HTTPACTION"
        BY <1>7, <3>2 DEF OwnAction, ActionDone, ModuleError
      <4>2. QED
        BY <1>11, <3>2, <4>1 DEF Bad
    <3>3. CASE w.token.t = "timeout"
      BY <1>5, <3>3
    <3>4. QED
      BY <3>1, <3>2, <3>3
  <2>6. StaleWithin(3)' /\ (lateness' = 0 => Len(line') <= 2 /\ AllOK')
    <3>1. CASE w.token.t = "timeout"
      <4>1. n = Len(line) \/ (lateness = 0 /\ lateness' = 1)
        BY <1>2, <3>1, GaveUp
      <4>2. CASE n = Len(line)
        BY <1>6, <2>3, <4>2 DEF StaleWithin, AllOK, Plain
      <4>3. CASE lateness = 0 /\ lateness' = 1
        <5>1. Len(line) <= 3
          BY <4>3 DEF AtUrc
        <5>2. Len(line') <= 4
          BY <1>6, <2>3, <5>1
        <5>3. \A i \in 1 .. Len(line') : i <= 3 \/ i = Len(line')
          BY <2>3, <5>2
        <5>4. QED
          BY <2>3, <4>3, <5>3 DEF StaleWithin, Plain
      <4>4. QED
        BY <4>1, <4>2, <4>3
    <3>2. CASE w.token.t # "timeout"
      <4>1. n \in 1 .. Len(line) /\ n = Len(line) - 1 /\ line[Len(line)].t = "OK"
        BY <1>7, <3>2
      <4>2. Len(line') = 2
        BY <1>6, <2>3, <4>1
      <4>3. line'[1] = line[n + 1] /\ n + 1 = Len(line)
        BY <1>6, <2>3, <4>1, <4>2
      <4>4. line'[1].t = "OK" /\ line'[2].t = "OK"
        BY <2>3, <4>1, <4>2, <4>3
      <4>5. QED
        BY <4>2, <4>4 DEF StaleWithin, AllOK
    <3>3. QED
      BY <3>1, <3>2
  <2>7. AtTerm'
    BY <1>6, <2>1, <2>3, <2>4, <2>6 DEF AtTerm, Closed
  <2>8. QED
    BY <2>1, <2>2, <2>5, <2>7, Fails
<1>12. QED
  BY <1>1, <1>9, <1>10, <1>11

(* A read brings a first part of what was asked for, or only an OK.        *)
LEMMA PartType ==
  ASSUME HttpTypes, NEW from \in Nat, NEW n \in Nat
  PROVE  /\ Part(from, n) \in Seq(Nat \X Nat) /\ Len(Part(from, n)) = n
         /\ \A i \in 1 .. n : Part(from, n)[i] = Unit(request.number, from + i)
         /\ Body(Part(from, n)) \in Tok
<1>1. request.number \in Nat
  BY DEF HttpTypes
<1>2. \A i \in 1 .. n : Unit(request.number, from + i) \in Nat \X Nat
  BY <1>1 DEF Unit
<1>3. /\ Part(from, n) \in Seq(Nat \X Nat) /\ Len(Part(from, n)) = n
      /\ \A i \in 1 .. n : Part(from, n)[i] = Unit(request.number, from + i)
  BY <1>2 DEF Part
<1>4. QED
  BY <1>3 DEF Body, Tok

LEMMA ReadSends ==
  ASSUME HttpTypes, Serves, response.size = module.served,
         NEW from \in Nat, from < response.size, NEW rest \in Seq(Tok), SendRead(from, rest)
  PROVE  /\ module' = module /\ (~short' => ~short)
         /\ \/ line' = rest \o <<Token("OK")>>
            \/ \E n \in 1 .. Asked(from) :
                 /\ line' = rest \o <<Body(Part(from, n)), Token("OK")>>
                 /\ ~short' => n = Asked(from)
<1>1. response.size \in Nat /\ module.served = response.size
      /\ module.target = request.number /\ module.target \in Nat
  BY DEF HttpTypes, Serves
<1> DEFINE left  == response.size - from
           asked == IF left < HTTP_READ_CHUNK_SIZE THEN left ELSE HTTP_READ_CHUNK_SIZE
<1>2. asked = Asked(from) /\ asked \in Nat /\ asked > 0 /\ from + asked <= response.size
  BY <1>1 DEF Asked, Least, HTTP_READ_CHUNK_SIZE
<1>3. PICK n \in 0 .. asked : /\ line' = rest \o ReadReply(from, n).tokens
                              /\ module' = ReadReply(from, n).state
                              /\ short' = (short \/ n < asked)
  BY DEF SendRead
<1> HIDE DEF asked
<1> DEFINE brought == n < asked
<1>4. short' = (short \/ brought)
  BY <1>3
<1>5. n \in Nat /\ n <= asked /\ from + n <= module.served /\ (~brought => n = asked)
  BY <1>1, <1>2, <1>3
<1> HIDE DEF brought
<1>6. (~short' => ~short) /\ (~short' => n = asked)
  BY <1>4, <1>5, Zenon
<1> DEFINE end   == IF from + n > module.served THEN module.served ELSE from + n
           units == [i \in 1 .. end - from |-> Unit(module.target, from + i)]
<1>7. end = from + n /\ end - from = n
  BY <1>1, <1>5
<1>8. ReadReply(from, n) =
        Reply(IF end > from THEN <<Body(units), Token("OK")>> ELSE <<Token("OK")>>, module)
  BY DEF ReadReply, Serves
<1>9. units = Part(from, n)
  BY <1>1, <1>7 DEF Part
<1> HIDE DEF end, units
<1>10. /\ line' = rest \o (IF end > from THEN <<Body(Part(from, n)), Token("OK")>>
                                         ELSE <<Token("OK")>>)
       /\ module' = module
  BY <1>3, <1>8, <1>9 DEF Reply
<1>11. CASE n = 0
  <2>1. ~(end > from)
    BY <1>7, <1>11
  <2>2. line' = rest \o <<Token("OK")>>
    BY <1>10, <2>1
  <2>3. QED
    BY <1>6, <1>10, <2>2
<1>12. CASE n > 0
  <2>1. n \in 1 .. Asked(from) /\ end > from
    BY <1>2, <1>5, <1>7, <1>12
  <2>2. line' = rest \o <<Body(Part(from, n)), Token("OK")>>
    BY <1>10, <2>1
  <2>3. QED
    BY <1>2, <1>6, <1>10, <2>1, <2>2
<1>13. n = 0 \/ n > 0
  BY <1>5
<1>14. QED
  BY <1>11, <1>12, <1>13

(* The line while a chunk is awaited, after at most one OK that was left.  *)
LEMMA ReadAwaits ==
  ASSUME HttpTypes, Knows, NEW from \in Nat, from < response.size,
         NEW rest \in Seq(Tok), Len(rest) <= 1, \A i \in 1 .. Len(rest) : rest[i].t = "OK",
         SendRead(from, rest), request' = request, response' = response, offset' = from,
         httpStep' = "read", result' = "none", lateness' \in {0, 1},
         body' \in Seq(Nat \X Nat), Len(body') <= request.buffer, InOrder(body', from),
         ~short => body' = FirstUnits(Least(from, request.buffer))
  PROVE  HttpInv'
<1>1. Serves /\ response.size = module.served /\ module \in [open : BOOLEAN, prompt : BOOLEAN,
                                                             target : Nat, served : Nat]
  BY DEF Knows, HttpTypes
<1>2. /\ module' = module /\ (~short' => ~short)
      /\ \/ line' = rest \o <<Token("OK")>>
         \/ \E n \in 1 .. Asked(from) :
              /\ line' = rest \o <<Body(Part(from, n)), Token("OK")>>
              /\ ~short' => n = Asked(from)
  BY <1>1, ReadSends
<1>3. Knows' /\ offset' < response'.size
  BY <1>2 DEF Knows, Serves
<1>4. ReadUpTo(offset)'
  <2>1. InOrder(body, offset)'
    BY DEF InOrder
  <2>2. ~short' => body' = FirstUnits(Least(offset, request.buffer))'
    BY <1>2 DEF FirstUnits
  <2>3. QED
    BY <2>1, <2>2 DEF ReadUpTo
<1>5. Len(rest) \in {0, 1} /\ Len(rest) \in Nat
  <2>1. Len(rest) \in Nat
    BY LenProperties
  <2>2. \A k \in Nat : k <= 1 => k \in {0, 1}
    OBVIOUS
  <2>3. QED
    BY <2>1, <2>2
<1>6. /\ line' \in Seq(Tok) /\ Len(line') \in 1 .. 3
      /\ \A i \in 1 .. Len(line') :
           \/ line'[i].t = "OK"
           \/ i = Len(line') - 1 /\ IsChunk(line[i], offset)'
  <2>1. CASE line' = rest \o <<Token("OK")>>
    <3>1. /\ line' \in Seq(Tok) /\ Len(line') = Len(rest) + 1
          /\ \A i \in 1 .. Len(rest) : line'[i] = rest[i]
          /\ line'[Len(rest) + 1] = Token("OK")
      BY <2>1, Words, Answered
    <3>2. \A i \in 1 .. Len(line') : i \in 1 .. Len(rest) \/ i = Len(rest) + 1
      BY <1>5, <3>1
    <3>3. line'[Len(rest) + 1].t = "OK"
      BY <3>1, Words
    <3>4. \A i \in 1 .. Len(line') : line'[i].t = "OK"
      <4>1. SUFFICES ASSUME NEW i \in 1 .. Len(line')
                     PROVE  line'[i].t = "OK"
        OBVIOUS
      <4>2. CASE i \in 1 .. Len(rest)
        <5>1. line'[i] = rest[i] /\ rest[i].t = "OK"
          BY <3>1, <4>2
        <5>2. QED
          BY <5>1
      <4>3. QED
        BY <3>2, <3>3, <4>2
    <3>5. QED
      BY <1>5, <3>1, <3>4
  <2>2. ASSUME NEW n \in 1 .. Asked(from),
               line' = rest \o <<Body(Part(from, n)), Token("OK")>>,
               ~short' => n = Asked(from)
        PROVE  /\ line' \in Seq(Tok) /\ Len(line') \in 1 .. 3
               /\ \A i \in 1 .. Len(line') :
                    \/ line'[i].t = "OK"
                    \/ i = Len(line') - 1 /\ IsChunk(line[i], offset)'
    <3>1. PICK chunk \in Tok : chunk = Body(Part(from, n))
      <4>1. Asked(from) \in Nat
        BY DEF Asked, Least, HTTP_READ_CHUNK_SIZE, HttpTypes
      <4>2. n \in Nat
        BY <4>1
      <4>3. QED
        BY <4>2, PartType
    <3>2. IsChunk(chunk, offset)'
      BY <2>2, <3>1 DEF IsChunk, Asked, Part, Body
    <3>3. /\ <<chunk, Token("OK")>> \in Seq(Tok) /\ Len(<<chunk, Token("OK")>>) = 2
          /\ <<chunk, Token("OK")>>[1] = chunk /\ <<chunk, Token("OK")>>[2] = Token("OK")
      BY <3>1, Words
    <3>4. /\ line' \in Seq(Tok) /\ Len(line') = Len(rest) + 2
          /\ \A i \in 1 .. Len(rest) : line'[i] = rest[i]
          /\ line'[Len(rest) + 1] = chunk
          /\ line'[Len(rest) + 2] = Token("OK")
      BY <2>2, <3>1, <3>3, ConcatProperties, LenProperties
    <3>5. \A i \in 1 .. Len(line') : \/ i \in 1 .. Len(rest) \/ i = Len(rest) + 2
                                     \/ i = Len(rest) + 1 /\ i = Len(line') - 1
      <4>1. PICK k \in {0, 1} : k = Len(rest)
        BY <1>5
      <4>2. \A i \in 1 .. k + 2 : \/ i \in 1 .. k \/ i = k + 2
                                  \/ i = k + 1 /\ i = k + 2 - 1
        OBVIOUS
      <4>3. QED
        BY <3>4, <4>1, <4>2
    <3>6. QED
      BY <1>5, <3>2, <3>4, <3>5, Words
  <2>3. QED
    BY <1>2, <2>1, <2>2
<1>7. AtRead'
  BY <1>3, <1>4, <1>6 DEF AtRead
<1>8. HttpTypes'
  BY <1>1, <1>2, <1>6 DEF HttpTypes
<1>9. QED
  BY <1>7, <1>8, GoesOn

(* More of the response may have been read.                                *)
LEMMA InOrderUpTo ==
  ASSUME NEW units, NEW m \in Nat, NEW k \in Nat, m <= k, InOrder(units, m)
  PROVE  InOrder(units, k)
<1>1. \A p \in 1 .. m : p \in 1 .. k
  OBVIOUS
<1>2. QED
  BY <1>1 DEF InOrder

(* The buffer after a chunk that came whole, as all before it did: the     *)
(* first units of the response.                                            *)
LEMMA WrittenIsPrefix ==
  ASSUME NEW units, HttpTypes, offset < response.size,
         body = FirstUnits(Least(offset, request.buffer)), units = Part(offset, Asked(offset))
  PROVE  Written(units) =
           FirstUnits(Least(Least(offset + HTTP_READ_CHUNK_SIZE, response.size), request.buffer))
<1> DEFINE b == Least(offset, request.buffer)
           k == Least(HTTP_READ_CHUNK_SIZE, response.size - offset)
           all == Least(Least(offset + HTTP_READ_CHUNK_SIZE, response.size), request.buffer)
           S == Nat \X Nat
           space == request.buffer - Len(body)
           fits == IF Len(units) < space THEN Len(units) ELSE space
<1>1. request.buffer \in Nat /\ offset \in Nat /\ response.size \in Nat /\ request.number \in Nat
  BY DEF HttpTypes
<1>2. b \in Nat /\ k \in Nat /\ all \in Nat /\ b <= offset /\ b <= request.buffer
  BY <1>1 DEF Least, HTTP_READ_CHUNK_SIZE
<1>3. all = b + (IF k < request.buffer - b THEN k ELSE request.buffer - b)
      /\ (b # offset => b = request.buffer)
  BY <1>1 DEF Least, HTTP_READ_CHUNK_SIZE
<1> HIDE DEF b, k, all
<1>4. body \in Seq(S) /\ Len(body) = b /\ \A i \in 1 .. b : body[i] = Unit(request.number, i)
  BY <1>1, <1>2 DEF FirstUnits, Unit, b
<1>5. /\ units \in Seq(S) /\ Len(units) = k
      /\ \A i \in 1 .. k : units[i] = Unit(request.number, offset + i)
  <2>1. units = [i \in 1 .. k |-> Unit(request.number, offset + i)]
    BY DEF Part, Asked, k
  <2>2. \A i \in 1 .. k : Unit(request.number, offset + i) \in S
    BY <1>1, <1>2 DEF Unit
  <2>3. QED
    BY <1>2, <2>1, <2>2
<1>6. fits = all - b /\ fits \in Nat /\ fits <= k
  BY <1>1, <1>2, <1>3, <1>4, <1>5
<1> HIDE DEF fits
<1>7. /\ SubSeq(units, 1, fits) \in Seq(S)
      /\ Len(SubSeq(units, 1, fits)) = fits
      /\ \A i \in 1 .. fits : SubSeq(units, 1, fits)[i] = units[i]
  <2>1. \A i \in 1 .. fits : units[i] \in S
    BY <1>2, <1>5, <1>6, ElementOfSeq
  <2>2. /\ SubSeq(units, 1, fits) \in Seq(S)
        /\ Len(SubSeq(units, 1, fits)) = IF 1 <= fits THEN fits - 1 + 1 ELSE 0
        /\ \A i \in 1 .. fits - 1 + 1 : SubSeq(units, 1, fits)[i] = units[1 + i - 1]
    BY <1>6, <2>1, SubSeqProperties
  <2>3. QED
    BY <1>6, <2>2
<1> DEFINE more == SubSeq(units, 1, fits)
           now  == body \o more
<1> HIDE DEF more
<1>8. /\ now \in Seq(S) /\ Len(now) = b + fits
      /\ \A i \in 1 .. b + fits : now[i] = IF i <= b THEN body[i] ELSE more[i - b]
  BY <1>4, <1>7, ConcatProperties DEF more
<1> HIDE DEF now
<1>9. \A i \in 1 .. all : now[i] = Unit(request.number, i)
  <2>1. ASSUME NEW i \in 1 .. all, i > b
        PROVE  now[i] = Unit(request.number, i)
    <3>1. b = offset /\ i - b \in 1 .. fits
      BY <1>1, <1>2, <1>3, <1>6, <2>1
    <3>2. now[i] = units[i - b] /\ i - b \in 1 .. k
      BY <1>2, <1>6, <1>7, <1>8, <2>1, <3>1 DEF more
    <3>3. units[i - b] = Unit(request.number, offset + (i - b)) /\ offset + (i - b) = i
      BY <1>1, <1>2, <1>5, <3>1, <3>2
    <3>4. QED
      BY <3>2, <3>3
  <2>2. ASSUME NEW i \in 1 .. all, i <= b
        PROVE  now[i] = Unit(request.number, i)
    <3>1. i \in 1 .. b /\ i \in 1 .. b + fits
      BY <1>2, <1>6, <2>2
    <3>2. QED
      BY <1>4, <1>8, <2>2, <3>1
  <2>3. QED
    BY <1>2, <2>1, <2>2
<1>10. now = FirstUnits(all)
  <2>1. Len(now) = all
    BY <1>2, <1>6, <1>8
  <2>2. FirstUnits(all) \in Seq(S) /\ Len(FirstUnits(all)) = all
        /\ \A i \in 1 .. all : FirstUnits(all)[i] = Unit(request.number, i)
    BY <1>1, <1>2 DEF FirstUnits, Unit
  <2>3. QED
    BY <1>8, <1>9, <2>1, <2>2, SeqEqual
<1>11. QED
  BY <1>10 DEF Written, now, more, fits, all

(* The buffer after any chunk: its units follow those that were there.     *)
LEMMA WrittenKeepsOrder ==
  ASSUME HttpTypes, body \in Seq(Nat \X Nat), Len(body) <= request.buffer,
         InOrder(body, offset), NEW n \in Nat, NEW units, units = Part(offset, n)
  PROVE  /\ Written(units) \in Seq(Nat \X Nat) /\ Len(Written(units)) <= request.buffer
         /\ InOrder(Written(units), offset + n)
<1> DEFINE S == Nat \X Nat
           b == Len(body)
           space == request.buffer - b
           fits == IF Len(units) < space THEN Len(units) ELSE space
           more == SubSeq(units, 1, fits)
           now  == body \o more
           r == request.number
<1>1. request.buffer \in Nat /\ offset \in Nat /\ r \in Nat /\ b \in Nat
  BY LenProperties DEF HttpTypes
<1>2. /\ units \in Seq(S) /\ Len(units) = n
      /\ \A i \in 1 .. n : units[i] = Unit(r, offset + i)
  BY <1>1, PartType
<1>3. fits \in Nat /\ fits <= n /\ b + fits <= request.buffer
  BY <1>1, <1>2
<1> HIDE DEF b, fits, r
<1>4. more \in Seq(S) /\ Len(more) = fits /\ \A i \in 1 .. fits : more[i] = units[i]
  <2>1. \A i \in 1 .. fits : units[i] \in S
    BY <1>2, <1>3, ElementOfSeq
  <2>2. /\ SubSeq(units, 1, fits) \in Seq(S)
        /\ Len(SubSeq(units, 1, fits)) = IF 1 <= fits THEN fits - 1 + 1 ELSE 0
        /\ \A i \in 1 .. fits - 1 + 1 : SubSeq(units, 1, fits)[i] = units[1 + i - 1]
    BY <1>3, <2>1, SubSeqProperties
  <2>3. QED
    BY <1>3, <2>2
<1> HIDE DEF more
<1>5. /\ now \in Seq(S) /\ Len(now) = b + fits
      /\ \A i \in 1 .. b + fits : now[i] = IF i <= b THEN body[i] ELSE more[i - b]
  BY <1>4, ConcatProperties DEF b
<1> HIDE DEF now
<1>6. \A i \in 1 .. b : now[i] = body[i]
  BY <1>1, <1>3, <1>5
<1>7. \A i \in b + 1 .. b + fits : now[i] = Unit(r, offset + (i - b))
  <2>1. SUFFICES ASSUME NEW i \in b + 1 .. b + fits
                 PROVE  now[i] = Unit(r, offset + (i - b))
    OBVIOUS
  <2>2. i \in 1 .. b + fits /\ ~(i <= b) /\ i - b \in 1 .. fits /\ i - b \in 1 .. n
    BY <1>1, <1>3
  <2>3. now[i] = more[i - b] /\ more[i - b] = units[i - b]
    BY <1>4, <1>5, <2>2
  <2>4. QED
    BY <1>2, <2>2, <2>3
<1>8. ASSUME NEW i \in 1 .. b + fits
      PROVE  \E p \in 1 .. offset + n : now[i] = Unit(r, p)
  <2>1. CASE i \in 1 .. b
    <3>1. PICK p \in 1 .. offset : body[i] = Unit(r, p)
      BY <2>1 DEF InOrder, b, r
    <3>2. p \in 1 .. offset + n /\ now[i] = Unit(r, p)
      BY <1>1, <1>6, <2>1, <3>1
    <3>3. QED
      BY <3>2
  <2>2. CASE i \in b + 1 .. b + fits
    <3>1. offset + (i - b) \in 1 .. offset + n
      BY <1>1, <1>3, <2>2
    <3>2. QED
      BY <1>7, <2>2, <3>1
  <2>3. QED
    BY <1>1, <1>3, <2>1, <2>2
<1>9. ASSUME NEW i \in 1 .. b + fits, NEW k \in 1 .. i - 1
      PROVE  now[k][2] < now[i][2]
  <2>1. CASE i \in 1 .. b
    <3>1. k \in 1 .. b
      BY <1>1, <2>1
    <3>2. now[k] = body[k] /\ now[i] = body[i]
      BY <1>6, <2>1, <3>1
    <3>3. body[k][2] < body[i][2]
      BY <2>1 DEF InOrder, b
    <3>4. QED
      BY <3>2, <3>3
  <2>2. CASE i \in b + 1 .. b + fits /\ k \in 1 .. b
    <3>1. PICK p \in 1 .. offset : body[k] = Unit(r, p)
      BY <2>2 DEF InOrder, b, r
    <3>2. now[k][2] = p /\ now[i][2] = offset + (i - b)
      BY <1>6, <1>7, <2>2, <3>1 DEF Unit
    <3>3. p < offset + (i - b)
      BY <1>1, <1>3, <2>2
    <3>4. QED
      BY <3>2, <3>3
  <2>3. CASE i \in b + 1 .. b + fits /\ k \in b + 1 .. b + fits
    <3>1. now[k][2] = offset + (k - b) /\ now[i][2] = offset + (i - b)
      BY <1>7, <2>3 DEF Unit
    <3>2. offset + (k - b) < offset + (i - b)
      BY <1>1, <1>3, <2>3
    <3>3. QED
      BY <3>1, <3>2
  <2>4. QED
    BY <1>1, <1>3, <2>1, <2>2, <2>3
<1>10. InOrder(now, offset + n)
  BY <1>5, <1>8, <1>9 DEF InOrder, r
<1>11. QED
  BY <1>3, <1>5, <1>10 DEF Written, now, more, fits, b

(* The buffer once the chunk at offset, of n units, is written.            *)
LEMMA WrittenReads ==
  ASSUME HttpTypes, offset < response.size, ReadUpTo(offset),
         NEW n \in 1 .. Asked(offset), ~short => n = Asked(offset),
         NEW units, units = Part(offset, n)
  PROVE  LET to == Least(offset + HTTP_READ_CHUNK_SIZE, response.size)
         IN  /\ Written(units) \in Seq(Nat \X Nat) /\ Len(Written(units)) <= request.buffer
             /\ InOrder(Written(units), to)
             /\ ~short => Written(units) = FirstUnits(Least(to, request.buffer))
<1> DEFINE to == Least(offset + HTTP_READ_CHUNK_SIZE, response.size)
<1>1. /\ n \in Nat /\ offset + n \in Nat /\ to \in Nat
      /\ offset + n <= to
  BY DEF HttpTypes, Asked, Least, HTTP_READ_CHUNK_SIZE
<1>2. /\ Written(units) \in Seq(Nat \X Nat) /\ Len(Written(units)) <= request.buffer
      /\ InOrder(Written(units), offset + n)
  BY <1>1, WrittenKeepsOrder DEF ReadUpTo
<1>3. ~short => Written(units) = FirstUnits(Least(to, request.buffer))
  BY WrittenIsPrefix DEF ReadUpTo
<1> HIDE DEF to
<1>4. InOrder(Written(units), to)
  BY <1>1, <1>2, InOrderUpTo
<1>5. QED
  BY <1>2, <1>3, <1>4 DEF to

LEMMA Succeeds ==
  ASSUME HttpTypes', result' = "ok", httpStep' = "term", AtTerm',
         response'.of = request'.number, Len(body') <= request.buffer,
         InOrder(body', response.size),
         ~short' => body' = FirstUnits(Least(response.size, request.buffer)),
         request' = request, response' = response
  PROVE  HttpInv'
<1>1. InOrder(body, response.size)'
  BY DEF InOrder
<1>2. ResponseIsOwn'
  BY <1>1 DEF ResponseIsOwn, FirstUnits, Least
<1>3. QED
  BY <1>2 DEF HttpInv, OnlyMissedPromptSpreads

(* The request ends with at most an OK left to read, and OK is answered.   *)
LEMMA TermAfterResponse ==
  ASSUME HttpTypes, Serves, NEW rest \in Seq(Tok), Len(rest) <= 1,
         \A i \in 1 .. Len(rest) : rest[i].t = "OK", NEW r, Terminate(r, rest)
  PROVE  /\ AtTerm' /\ line' \in Seq(Tok) /\ httpStep' = "term" /\ result' = r
         /\ module' \in [open : BOOLEAN, prompt : BOOLEAN, target : Nat, served : Nat]
<1>1. Send("HTTPTERM", rest) /\ httpStep' = "term" /\ result' = r
  BY DEF Terminate
<1>2. AnswerIs(rest, "OK") /\ module' = Closed
  BY <1>1, SendTerm DEF Serves
<1>3. Len(rest) \in {0, 1}
  <2>1. Len(rest) \in Nat
    BY LenProperties
  <2>2. \A k \in Nat : k <= 1 => k \in {0, 1}
    OBVIOUS
  <2>3. QED
    BY <2>1, <2>2
<1>4. /\ line' \in Seq(Tok) /\ Len(line') = Len(rest) + 1
      /\ \A i \in 1 .. Len(line') : line'[i].t = "OK"
  BY <1>2, <1>3 DEF AnswerIs
<1>5. AtTerm'
  BY <1>2, <1>3, <1>4 DEF AtTerm, Closed, Plain, StaleWithin, HasError, AllOK
<1>6. QED
  BY <1>1, <1>2, <1>4, <1>5 DEF Closed

LEMMA DrainKeeps ==
  ASSUME HttpTypes, AtDrain, MaxLate <= 1, Drain
  PROVE  HttpInv'
<1> DEFINE X == {"OK", "ERROR"}
<1>1. PICK w \in Waits(X) :
         /\ Heard(w)
         /\ IF response.size > 0 /\ request.buffer > 0
              THEN SendRead(0, w.rest) /\ httpStep' = "read" /\ UNCHANGED result
              ELSE Terminate("ok", w.rest) /\ UNCHANGED short
  BY DEF Drain
<1>2. PICK n \in 0 .. Len(line) : Waited(w, n, X)
  BY <1>1, WaitEnds
<1>3. /\ UNCHANGED <<request, response, offset, body>>
      /\ Knows /\ Serves /\ offset = 0 /\ body = <<>> /\ Len(line) = 1 /\ line[1].t = "OK"
      /\ response = [of |-> request.number, size |-> module.served]
  BY DEF Drain, requestVars, AtDrain, Knows, AllOK
<1>4. /\ w.rest \in Seq(Tok) /\ lateness' \in {0, 1} /\ Len(w.rest) \in {0, 1}
      /\ \A i \in 1 .. Len(w.rest) : w.rest[i].t = "OK"
  BY <1>2, <1>3 DEF Waited
<1>5. /\ request.number \in Nat /\ request.buffer \in Nat /\ response.size \in Nat
      /\ response.size = module.served
  BY <1>3 DEF HttpTypes
<1>6. /\ body' \in Seq(Nat \X Nat) /\ Len(body') = 0 /\ Len(body') <= request.buffer
      /\ \A k \in Nat : InOrder(body', k)
      /\ body' = FirstUnits(0)
  BY <1>3, <1>5, EmptySeq DEF FirstUnits, InOrder
<1>7. CASE response.size > 0 /\ request.buffer > 0
  <2>1. SendRead(0, w.rest) /\ httpStep' = "read" /\ result' = "none"
    BY <1>1, <1>3, <1>7 DEF Knows
  <2>2. Least(0, request.buffer) = 0
    BY <1>5, <1>7 DEF Least
  <2>3. body' = FirstUnits(Least(0, request.buffer)) /\ InOrder(body', 0)
    BY <1>6, <2>2
  <2>4. Len(w.rest) <= 1 /\ 0 < response.size /\ offset' = 0
    BY <1>3, <1>4, <1>7
  <2>5. QED
    BY <1>3, <1>4, <1>6, <2>1, <2>3, <2>4, ReadAwaits
<1>8. CASE ~(response.size > 0 /\ request.buffer > 0)
  <2>1. Terminate("ok", w.rest)
    BY <1>1, <1>8
  <2>2. /\ AtTerm' /\ line' \in Seq(Tok) /\ httpStep' = "term" /\ result' = "ok"
        /\ module' \in [open : BOOLEAN, prompt : BOOLEAN, target : Nat, served : Nat]
    <3>1. Len(w.rest) <= 1
      BY <1>4
    <3>2. QED
      BY <1>3, <1>4, <2>1, <3>1, TermAfterResponse
  <2>3. Least(response.size, request.buffer) = 0
    BY <1>5, <1>8 DEF Least
  <2>4. body' = FirstUnits(Least(response.size, request.buffer)) /\ InOrder(body', response.size)
    BY <1>5, <1>6, <2>3
  <2>5. HttpTypes' /\ response'.of = request'.number
    BY <1>3, <1>4, <2>2 DEF HttpTypes
  <2>6. QED
    BY <1>3, <1>6, <2>2, <2>4, <2>5, Succeeds
<1>9. QED
  BY <1>7, <1>8

(* What the wait for a chunk can find.                                     *)
LEMMA ReadLine ==
  ASSUME HttpTypes, AtRead
  PROVE  /\ Len(line) \in Nat /\ Len(line) >= 1 /\ Len(line) <= 3
         /\ \A i \in 1 .. Len(line) : line[i].t \in {"OK", "+HTTPREAD"}
         /\ \A i \in 1 .. Len(line) : line[i].t # "OK" => i = Len(line) - 1
         /\ \A i \in 1 .. Len(line) : line[i].t = "+HTTPREAD" =>
              \E n \in 1 .. Asked(offset) : /\ line[i].units = Part(offset, n)
                                            /\ ~short => n = Asked(offset)
<1>1. \A k \in 1 .. 3 : k \in Nat /\ k >= 1 /\ k <= 3
  OBVIOUS
<1>2. \A m : IsChunk(m, offset) =>
               /\ m.t = "+HTTPREAD"
               /\ \E n \in 1 .. Asked(offset) : /\ m.units = Part(offset, n)
                                                /\ ~short => n = Asked(offset)
  <2>1. SUFFICES ASSUME NEW m, IsChunk(m, offset)
                 PROVE  /\ m.t = "+HTTPREAD"
                        /\ \E n \in 1 .. Asked(offset) : /\ m.units = Part(offset, n)
                                                         /\ ~short => n = Asked(offset)
    OBVIOUS
  <2>2. PICK n \in 1 .. Asked(offset) : m = Body(Part(offset, n)) /\ (~short => n = Asked(offset))
    BY <2>1 DEF IsChunk
  <2>3. m.t = "+HTTPREAD" /\ m.units = Part(offset, n)
    BY <2>2 DEF Body
  <2>4. QED
    BY <2>2, <2>3
<1>3. QED
  BY <1>1, <1>2 DEF AtRead

LEMMA ReadChunkKeeps ==
  ASSUME HttpTypes, AtRead, MaxLate <= 1, ReadChunk
  PROVE  HttpInv'
<1> DEFINE X == {"+HTTPREAD", "ERROR"}
<1>1. PICK w \in Waits(X) :
       /\ Heard(w)
       /\ trouble' = (trouble \/ w.token.t = "timeout")
       /\ \/ /\ ~Bad(w)
             /\ body' = Written(w.token.units)
             /\ offset' = offset + HTTP_READ_CHUNK_SIZE
             /\ \E n \in 0 .. Len(w.rest) :
                  LET rest == SubSeq(w.rest, n + 1, Len(w.rest)) IN
                  IF offset' < response.size
                    THEN SendRead(offset', rest) /\ UNCHANGED <<httpStep, result>>
                    ELSE Terminate("ok", rest) /\ UNCHANGED short
          \/ /\ Bad(w)
             /\ Terminate("failed", w.rest)
             /\ UNCHANGED <<body, offset, short>>
  BY DEF ReadChunk
<1>2. PICK n \in 0 .. Len(line) : Waited(w, n, X)
  BY <1>1, WaitEnds
<1> HIDE DEF X
<1>3. /\ UNCHANGED <<request, response>> /\ httpStep = "read" /\ Knows /\ Serves
      /\ offset < response.size /\ ReadUpTo(offset)
      /\ result = "none" /\ response = [of |-> request.number, size |-> module.served]
  BY DEF ReadChunk, AtRead, Knows
<1>4. w.rest \in Seq(Tok) /\ lateness' \in {0, 1} /\ Len(w.rest) = Len(line) - n
      /\ \A i \in 1 .. Len(w.rest) : w.rest[i] = line[n + i]
  BY <1>2 DEF Waited
<1>5. /\ request.number \in Nat /\ request.buffer \in Nat /\ response.size \in Nat
      /\ offset \in Nat /\ response.size = module.served
  BY <1>3 DEF HttpTypes
<1>6. /\ \A i \in 1 .. Len(line) : line[i].t \in {"OK", "+HTTPREAD"}
      /\ \A i \in 1 .. Len(line) : line[i].t # "OK" => i = Len(line) - 1
      /\ \A i \in 1 .. Len(line) : line[i].t = "+HTTPREAD" =>
           \E k \in 1 .. Asked(offset) : /\ line[i].units = Part(offset, k)
                                         /\ ~short => k = Asked(offset)
  BY ReadLine
<1>7. Len(line) \in Nat /\ Len(line) <= 3 /\ Len(line) >= 1
  BY ReadLine
<1>8. CASE Bad(w) /\ Terminate("failed", w.rest) /\ UNCHANGED <<body, offset>>
  <2>1. w.token.t = "timeout"
    <3>1. SUFFICES ASSUME w.token.t # "timeout"
                   PROVE  FALSE
      OBVIOUS
    <3>2. n \in 1 .. Len(line) /\ w.token = line[n] /\ line[n].t \in X
      BY <1>2, <3>1, Took
    <3>3. line[n].t = "ERROR"
      BY <1>8, <3>2 DEF Bad, X
    <3>4. QED
      BY <1>6, <3>2, <3>3
  <2>2. trouble'
    BY <1>1, <2>1, Zenon
  <2>3. n = Len(line) \/ (lateness = 0 /\ lateness' = 1)
    BY <1>2, <2>1, GaveUp
  <2>5. /\ Moved(n, "OK") /\ line' \in Seq(Tok) /\ httpStep' = "term" /\ result' = "failed"
        /\ module' = Closed
        /\ module' \in [open : BOOLEAN, prompt : BOOLEAN, target : Nat, served : Nat]
    BY <1>2, <1>3, <1>8, TerminateSends DEF Serves
  <2>6. /\ Len(line') = Len(line) - n + 1 /\ Len(line') \in Nat
        /\ \A i \in 1 .. Len(line') - 1 : n + i \in 1 .. Len(line) /\ line'[i] = line[n + i]
        /\ line'[Len(line')].t = "OK"
    BY <2>5, MovedProperties
  <2>7. Len(line') <= 4 /\ Len(line') > 0 /\ (lateness' = 1 \/ Len(line') = 1)
    BY <1>7, <2>3, <2>6
  <2>8. StaleWithin(3)' /\ Plain(Len(line))'
    <3>1. \A i \in 1 .. Len(line') : i <= 3 \/ i = Len(line')
      BY <2>6, <2>7
    <3>2. QED
      BY <2>6, <3>1 DEF StaleWithin, Plain
  <2>9. ~HasError'
    <3>1. \A i \in 1 .. Len(line) : line[i].t # "ERROR"
      BY <1>6
    <3>2. \A i \in 1 .. Len(line') - 1 : line'[i].t # "ERROR"
      BY <2>6, <3>1
    <3>3. \A i \in 1 .. Len(line') : line'[i].t # "ERROR"
      BY <2>6, <3>2
    <3>4. QED
      BY <3>3 DEF HasError
  <2>10. lateness' = 0 => Len(line') <= 2 /\ AllOK'
    <3>1. SUFFICES ASSUME Len(line') = 1
                   PROVE  Len(line') <= 2 /\ AllOK'
      BY <2>7
    <3>2. \A i \in 1 .. 1 : line'[i].t = "OK"
      <4>1. line'[1].t = "OK"
        BY <2>6, <3>1
      <4>2. QED
        BY <4>1
    <3>3. QED
      BY <3>1, <3>2 DEF AllOK
  <2>11. AtTerm'
    BY <2>5, <2>7, <2>8, <2>9, <2>10 DEF AtTerm, Closed
  <2>12. HttpTypes'
    BY <1>3, <1>4, <1>8, <2>5 DEF HttpTypes
  <2>13. QED
    BY <2>2, <2>5, <2>11, <2>12, Fails
<1>9. CASE /\ ~Bad(w)
           /\ body' = Written(w.token.units)
           /\ offset' = offset + HTTP_READ_CHUNK_SIZE
           /\ \E m \in 0 .. Len(w.rest) :
                LET rest == SubSeq(w.rest, m + 1, Len(w.rest)) IN
                IF offset' < response.size
                  THEN SendRead(offset', rest) /\ UNCHANGED <<httpStep, result>>
                  ELSE Terminate("ok", rest) /\ UNCHANGED short
  <2> DEFINE to == Least(offset + HTTP_READ_CHUNK_SIZE, response.size)
  <2>1. n = Len(line) - 1 /\ n \in 1 .. Len(line) /\ w.token = line[n] /\ line[n].t = "+HTTPREAD"
    <3>1. n \in 1 .. Len(line) /\ w.token = line[n] /\ line[n].t \in X
      BY <1>2, <1>9, Took DEF Bad
    <3>2. line[n].t # "OK"
      BY <3>1 DEF X
    <3>3. QED
      BY <1>6, <3>1, <3>2
  <2>2. Len(w.rest) = 1 /\ w.rest[1].t = "OK"
    <3>1. Len(w.rest) = 1 /\ n + 1 = Len(line) /\ Len(line) \in 1 .. Len(line)
          /\ Len(line) # Len(line) - 1
      BY <1>4, <1>7, <2>1
    <3>2. w.rest[1] = line[Len(line)]
      BY <1>4, <3>1
    <3>3. QED
      BY <1>6, <3>1, <3>2
  <2>3. /\ body' \in Seq(Nat \X Nat) /\ Len(body') <= request.buffer
        /\ InOrder(body', to)
        /\ ~short => body' = FirstUnits(Least(to, request.buffer))
    <3>1. PICK k \in 1 .. Asked(offset) : /\ w.token.units = Part(offset, k)
                                          /\ ~short => k = Asked(offset)
      BY <1>6, <2>1
    <3>2. QED
      BY <1>3, <1>9, <3>1, WrittenReads
  <2>4. offset' \in Nat /\ HTTP_READ_CHUNK_SIZE = 2
    BY <1>5, <1>9 DEF HTTP_READ_CHUNK_SIZE
  <2>5. PICK m \in 0 .. Len(w.rest) :
                LET rest == SubSeq(w.rest, m + 1, Len(w.rest)) IN
                IF offset' < response.size
                  THEN SendRead(offset', rest) /\ UNCHANGED <<httpStep, result>>
                  ELSE Terminate("ok", rest) /\ UNCHANGED short
    BY <1>9
  <2> DEFINE rest == SubSeq(w.rest, m + 1, Len(w.rest))
  <2>6. /\ rest \in Seq(Tok) /\ Len(rest) <= 1
        /\ \A i \in 1 .. Len(rest) : rest[i].t = "OK"
    <3>1. \A i \in m + 1 .. Len(w.rest) : w.rest[i] \in Tok
      BY <1>4, ElementOfSeq
    <3>2. /\ rest \in Seq(Tok)
          /\ Len(rest) = IF m + 1 <= Len(w.rest) THEN Len(w.rest) - (m + 1) + 1 ELSE 0
          /\ \A i \in 1 .. Len(w.rest) - (m + 1) + 1 : rest[i] = w.rest[m + 1 + i - 1]
      BY <2>2, <3>1, SubSeqProperties
    <3>3. m = 0 \/ m = 1
      BY <2>2
    <3>4. CASE m = 0
      <4>1. Len(rest) = 1 /\ rest[1] = w.rest[1]
        BY <2>2, <3>2, <3>4
      <4>2. QED
        BY <2>2, <3>2, <4>1
    <3>5. CASE m = 1
      <4>1. Len(rest) = 0
        BY <2>2, <3>2, <3>5
      <4>2. QED
        BY <3>2, <4>1
    <3>6. QED
      BY <3>3, <3>4, <3>5
  <2>7. IF offset' < response.size
          THEN SendRead(offset', rest) /\ UNCHANGED <<httpStep, result>>
          ELSE Terminate("ok", rest) /\ UNCHANGED short
    BY <2>5
  <2> HIDE DEF rest
  <2>8. CASE offset' < response.size
    <3>1. PICK from \in Nat : from = offset'
      BY <2>4
    <3>2. SendRead(from, rest) /\ httpStep' = "read" /\ result' = "none" /\ from < response.size
      BY <1>3, <2>7, <2>8, <3>1
    <3>3. to = from
      BY <1>5, <1>9, <2>4, <2>8, <3>1 DEF Least
    <3> HIDE DEF to
    <3>4. QED
      BY <1>3, <1>4, <2>3, <2>6, <3>1, <3>2, <3>3, ReadAwaits
  <2>9. CASE ~(offset' < response.size)
    <3>1. Terminate("ok", rest) /\ UNCHANGED short
      BY <2>7, <2>9
    <3>2. /\ AtTerm' /\ line' \in Seq(Tok) /\ httpStep' = "term" /\ result' = "ok"
          /\ module' \in [open : BOOLEAN, prompt : BOOLEAN, target : Nat, served : Nat]
      BY <1>3, <2>6, <3>1, TermAfterResponse
    <3>3. to = response.size
      BY <1>5, <1>9, <2>4, <2>9 DEF Least
    <3>4. HttpTypes' /\ response'.of = request'.number
      BY <1>3, <1>4, <2>4, <3>2 DEF HttpTypes
    <3> HIDE DEF to
    <3>5. QED
      BY <1>3, <2>3, <3>1, <3>2, <3>3, <3>4, Succeeds
  <2>10. QED
    BY <2>8, <2>9
<1>10. QED
  BY <1>1, <1>8, <1>9

LEMMA HttpInitInv == HttpInit => HttpInv
BY EmptySeq DEF HttpInit, HttpInv, HttpTypes, Closed, AtIdle, StaleWithin, HasError, AllOK,
       ResponseIsOwn, OnlyMissedPromptSpreads

LEMMA HttpStutters ==
  ASSUME HttpInv, UNCHANGED httpVars
  PROVE  HttpInv'
<1>1. UNCHANGED <<httpStep, request, todo, attempt, response, offset, body, result, line, module,
                  lateness, trouble, before, missed, short>>
  BY DEF httpVars, requestVars
<1>2. HttpTypes' /\ ResponseIsOwn' /\ OnlyMissedPromptSpreads'
  BY <1>1 DEF HttpInv, HttpTypes, ResponseIsOwn, InOrder, OnlyMissedPromptSpreads
<1>3. /\ (AtIdle => AtIdle') /\ (AtTerm => AtTerm')
      /\ (AtSetup => AtSetup') /\ (AtReinit => AtReinit')
      /\ (AtAction => AtAction') /\ (AtUrc => AtUrc')
      /\ (AtDrain => AtDrain') /\ (AtRead => AtRead')
  BY <1>1 DEF AtIdle, AtTerm, AtSetup, AtReinit, AtAction, AtUrc, AtDrain, AtRead, Awaits, Knows,
       Serves, Nothing, OnlyOwn, OwnAction, Plain, HasError, StaleWithin, ErrorsWithin, AllOK,
       ReadUpTo, InOrder, IsChunk, Asked, Part, FirstUnits
<1>4. QED
  BY <1>1, <1>2, <1>3 DEF HttpInv

LEMMA HttpStep ==
  ASSUME HttpInv, MaxLate <= 1, [HttpNext]_httpVars
  PROVE  HttpInv'
<1>1. CASE Request
  BY <1>1, RequestKeeps, GoesOn DEF HttpInv, Request
<1>2. CASE Setup
  BY <1>2, SetupKeeps DEF HttpInv, Setup
<1>3. CASE Reinit
  BY <1>3, ReinitKeeps DEF HttpInv, Reinit
<1>4. CASE Action
  BY <1>4, ActionKeeps DEF HttpInv, Action
<1>5. CASE ActionResult
  BY <1>5, ActionResultKeeps DEF HttpInv, ActionResult
<1>6. CASE Drain
  BY <1>6, DrainKeeps DEF HttpInv, Drain
<1>7. CASE ReadChunk
  BY <1>7, ReadChunkKeeps DEF HttpInv, ReadChunk
<1>8. CASE Terminated
  BY <1>8, TerminatedKeeps DEF HttpInv, Terminated
<1>9. CASE UNCHANGED httpVars
  BY <1>9, HttpStutters
<1>10. QED
  BY <1>1, <1>2, <1>3, <1>4, <1>5, <1>6, <1>7, <1>8, <1>9 DEF HttpNext

(* The hazard of a protocol whose answers do not say what they answer: an  *)
(* answer that comes late is taken for that of a later command.  With at   *)
(* most one answer overdue at a time it never makes http_get() or          *)
(* http_post() return the status of another request, or units of another   *)
(* response, or units twice or out of order, whatever was missed or failed *)
(* before; and what it returns has a gap only if a read came short.        *)
THEOREM ResponsesAreOwn ==
  ASSUME MaxLate <= 1
  PROVE  HttpSpec => []ResponseIsOwn
<1>1. HttpInit => HttpInv
  BY HttpInitInv
<1>2. HttpInv /\ [HttpNext]_httpVars => HttpInv'
  BY HttpStep
<1>3. HttpInv => ResponseIsOwn
  BY DEF HttpInv
<1>4. QED
  BY <1>1, <1>2, <1>3, PTL DEF HttpSpec

(* A late answer costs the request that misses it, and perhaps the next    *)
(* one, but never puts the driver out of step with the module for good;    *)
(* only a missed prompt for the body of a POST can.                        *)
THEOREM FailuresHaveCause ==
  ASSUME MaxLate <= 1
  PROVE  HttpSpec => []OnlyMissedPromptSpreads
<1>1. HttpInit => HttpInv
  BY HttpInitInv
<1>2. HttpInv /\ [HttpNext]_httpVars => HttpInv'
  BY HttpStep
<1>3. HttpInv => OnlyMissedPromptSpreads
  BY DEF HttpInv
<1>4. QED
  BY <1>1, <1>2, <1>3, PTL DEF HttpSpec
=============================================================================
