----------------------------- MODULE InputService -----------------------------
(***************************************************************************)
(* products/go/main/go_input.cpp: the touch pads (CAP1203) and the two     *)
(* buttons of the device, turned into the presses the Orchestrator gets.   *)
(*                                                                         *)
(* An interrupt puts only its source into the raw queue.  The input task   *)
(* takes it later and reads the pin, or the touch chip, as it is then.     *)
(* Contacts bounce; a finger that stays on a pad makes the chip assert its *)
(* interrupt line again and again; the line is edge-triggered, and stays   *)
(* low until the chip is told to release it.                               *)
(*                                                                         *)
(* Time is counted in ticks, and the ages of the time stamps of the code   *)
(* are kept instead of the stamps: only differences are ever compared.     *)
(***************************************************************************)
EXTENDS Naturals, Sequences, SequencesExt

CONSTANTS
  Button,          \* the buttons; "Power" wakes the device
  Debounce,        \* debounce_ms
  LongPress,       \* long_press_ms
  Watchdog,        \* touch_watchdog_ms
  SuppressWindow,  \* SUPPRESS_WINDOW_MS
  RawDepth,        \* RAW_QUEUE_DEPTH
  MaxBounces,      \* bound: closings by bouncing in one press
  MaxBusFaults     \* bound: transfers to the touch chip that fail

ASSUME InputBounds ==
  /\ {Debounce, LongPress, RawDepth} \subseteq Nat \ {0}
  /\ {Watchdog, SuppressWindow, MaxBounces, MaxBusFaults} \subseteq Nat
ASSUME SourcesDiffer == "touch" \notin Button

VARIABLES
  loop,          \* the task: "running", told to stop, or "ended"
  raw,           \* _raw_queue
  contact,       \* each button: whether its contact is closed, and how long
  tracked,       \* each button: _first_press, _pending_long_press, press age
  suppressLeft,  \* while _suppress_next_power_press: ticks to the deadline
  touchAge,      \* time since _last_touch_time_ms
  checkAge,      \* time since _last_touch_check_ms
  blocked,       \* time the task has waited in queue_receive
  chip,          \* the touch chip and the driver's handle of it
  busFaults,
  posted,        \* ghost: what the last step posted
  reported       \* ghost: the presses, and the touch, that gave an event

inputAges  == <<suppressLeft, touchAge, checkAge, blocked>>
inputVars == <<loop, raw, contact, tracked, inputAges, chip, busFaults,
               posted, reported>>

Older(age, limit) == IF age < limit THEN age + 1 ELSE limit

(* xQueueSendFromISR: a full queue drops the event. *)
Queued(q, source) == IF Len(q) < RawDepth THEN Append(q, source) ELSE q

Untouched == [finger |-> FALSE, status |-> FALSE, int |-> FALSE, rested |-> TRUE, handle |-> TRUE]
Released == [held |-> FALSE, closed |-> FALSE, moving |-> FALSE, bounces |-> 0,
             unclear |-> FALSE, heldFor |-> 0]
Untracked == [first |-> TRUE, pending |-> FALSE, age |-> 0]

(* The button press that woke the device may still be held at the boot;    *)
(* it is suppressed after a wake by button.  _last_touch_time_ms is then   *)
(* 0, the time of the boot.                                                *)
BootContacts(holds) ==
  [b \in Button |-> LET down == b = "Power" /\ holds IN
                    [Released EXCEPT !.held = down, !.closed = down]]

InputInit == /\ loop = "running"
             /\ raw = <<>>
             /\ contact \in {BootContacts(holds) : holds \in BOOLEAN}
             /\ tracked = [b \in Button |-> Untracked]
             /\ suppressLeft \in {0, SuppressWindow}
             /\ touchAge \in 0 .. Debounce
             /\ checkAge = 0
             /\ blocked = 0
             /\ chip = Untouched
             /\ busFaults = 0
             /\ posted = {}
             /\ reported = {}

(* The boot after a sleep that stop() preceded. *)
Wake == /\ loop = "ended"
        /\ loop' = "running"
        /\ raw' = <<>>
        /\ contact' \in {BootContacts(holds) : holds \in BOOLEAN}
        /\ tracked' = [b \in Button |-> Untracked]
        /\ suppressLeft' \in {0, SuppressWindow}
        /\ touchAge' \in 0 .. Debounce
        /\ checkAge' = 0
        /\ blocked' = 0
        /\ chip' = Untouched
        /\ posted' = {}
        /\ reported' = {}
        /\ UNCHANGED busFaults

-----------------------------------------------------------------------------
(* The user, the contacts and the touch chip.                              *)

Quiet == posted' = {}

(* Each edge of the contact of b is an interrupt. *)
Edge(b, state) == /\ contact' = [contact EXCEPT ![b] = state]
                  /\ raw' = Queued(raw, b)

Press(b) ==
  /\ loop # "ended" /\ ~contact[b].held /\ ~contact[b].moving
  /\ Edge(b, [Released EXCEPT !.held = TRUE, !.closed = TRUE, !.moving = TRUE,
                                !.unclear = tracked[b].pending])
  /\ reported' = reported \ {b}
  /\ Quiet
  /\ UNCHANGED <<loop, tracked, inputAges, chip, busFaults>>

Release(b) ==
  /\ loop # "ended" /\ contact[b].held /\ ~contact[b].moving
  /\ Edge(b, [contact[b] EXCEPT !.held = FALSE, !.closed = FALSE, !.moving = TRUE])
  /\ Quiet
  /\ UNCHANGED <<loop, tracked, inputAges, chip, busFaults, reported>>

(* For less than a tick after a press or a release the contact may open    *)
(* and close again, or close and open.                                     *)
Flip(b) == Edge(b, [contact[b] EXCEPT
             !.closed = ~@,
             !.bounces = IF contact[b].closed THEN @ ELSE @ + 1,
             !.unclear = @ \/ (~contact[b].closed /\ ~contact[b].held)])

Bounce(b) ==
  /\ contact[b].moving
  /\ contact[b].closed = contact[b].held
  /\ contact[b].bounces < MaxBounces
  /\ Flip(b)
  /\ Quiet
  /\ UNCHANGED <<loop, tracked, inputAges, chip, busFaults, reported>>

Settle(b) ==
  /\ contact[b].closed # contact[b].held
  /\ Flip(b)
  /\ Quiet
  /\ UNCHANGED <<loop, tracked, inputAges, chip, busFaults, reported>>

(* The interrupt line falls: an interrupt, if it was high. *)
LineFalls(touched) == /\ chip' = [touched EXCEPT !.int = TRUE, !.status = TRUE]
                      /\ raw' = IF chip.int THEN raw ELSE Queued(raw, "touch")

FingerDown == /\ loop # "ended" /\ ~chip.finger
              /\ LineFalls([chip EXCEPT !.finger = TRUE])
              /\ reported' = reported \ {"touch"}
              /\ Quiet
              /\ UNCHANGED <<loop, contact, tracked, inputAges, busFaults>>

FingerUp == /\ chip.finger
            /\ chip' = [chip EXCEPT !.finger = FALSE]
            /\ Quiet
            /\ UNCHANGED <<loop, raw, contact, tracked, inputAges, busFaults, reported>>

(* The finger is still there some time after the line was released. *)
Reassert == /\ chip.finger /\ ~chip.int /\ chip.rested
            /\ LineFalls(chip)
            /\ Quiet
            /\ UNCHANGED <<loop, contact, tracked, inputAges, busFaults, reported>>

-----------------------------------------------------------------------------
(* The task.                                                               *)

Pressing(b) == tracked[b].pending /\ tracked[b].age >= LongPress

OnlyPressesDue == \E b \in Button : Pressing(b)   \* faulty variant of WaitIsOver
(* compute_queue_timeout_ms() has passed. *)
WaitIsOver == blocked >= Watchdog \/ \E b \in Button : Pressing(b)

TaskHasWork == raw # <<>> \/ WaitIsOver

(* What a call to the chip can do: the chip after it, and the transfers    *)
(* that failed so far.                                                     *)
After(c, used) == [chip |-> c, used |-> used]
Cleared(c) == [c EXCEPT !.int = FALSE, !.status = c.finger, !.rested = FALSE]

(* read(), which also clears the interrupt, as its caller does again: the  *)
(* status it got, if any.                                                  *)
TouchReads ==
  IF ~chip.handle THEN {[got |-> FALSE] @@ After(chip, busFaults)}
  ELSE {[got |-> TRUE] @@ After(Cleared(chip), busFaults)}
       \cup {[got |-> got] @@ After(c, busFaults + 1) :
               got \in BOOLEAN, c \in {chip, Cleared(chip)}}

NoHealthCheck(o) == {o}                           \* faulty variant of TouchHealth
(* check_touch_health(): clear_interrupt(), then init() if that failed.    *)
TouchHealth(o) ==
  IF ~o.chip.int \/ checkAge < Watchdog THEN {o}
  ELSE {After(Cleared([o.chip EXCEPT !.handle = TRUE]), used) : used \in {o.used, o.used + 1}}
       \cup {After([o.chip EXCEPT !.handle = h], o.used + 1) : h \in BOOLEAN}

KeepsStart(t) ==                                  \* faulty variant of Pressed
  IF t.first \/ ~t.pending THEN [first |-> FALSE, pending |-> TRUE, age |-> 0] ELSE t
(* A press not too soon after the one before it starts the timer.          *)
Pressed(t) == IF t.first \/ t.age >= Debounce
                THEN [first |-> FALSE, pending |-> TRUE, age |-> 0]
                ELSE t

Suppressed(b) == b = "Power" /\ suppressLeft > 0

(* process_button_event(b): the pin as it is now decides. *)
ButtonTrack(b) ==
  IF ~contact[b].closed THEN [tracked[b] EXCEPT !.pending = FALSE]
  ELSE IF Suppressed(b) THEN tracked[b]
  ELSE Pressed(tracked[b])
Shorts(b) == IF tracked[b].pending /\ ~contact[b].closed THEN {<<b, "ShortPress">>} ELSE {}

(* check_pending_long_press(), the state of the buttons being t *)
Overdue(t) == {b \in Button : t[b].pending /\ t[b].age >= LongPress}
AlwaysLong(b) == "LongPress"                      \* faulty variant of PressType
PressType(b) == IF contact[b].closed THEN "LongPress" ELSE "ShortPress"

(* The end of a turn of the loop: buttons t, chip o, and the events posted *)
EndTurn(t, o, events) ==
  /\ tracked' = [b \in Button |-> IF b \in Overdue(t) THEN [t[b] EXCEPT !.pending = FALSE]
                                  ELSE t[b]]
  /\ posted' = events \cup {<<b, PressType(b)>> : b \in Overdue(t)}
  /\ reported' = reported \cup {e[1] : e \in posted'}
  /\ \E h \in TouchHealth(o) : /\ h.used <= MaxBusFaults
                               /\ chip' = h.chip
                               /\ busFaults' = h.used
  /\ checkAge' = IF checkAge >= Watchdog THEN 0 ELSE checkAge
  /\ loop' = IF loop = "stopping" THEN "ended" ELSE loop
  /\ blocked' = 0
  /\ UNCHANGED contact

ButtonTurn(b) ==
  /\ loop # "ended" /\ raw # <<>> /\ Head(raw) = b
  /\ raw' = Tail(raw)
  /\ suppressLeft' = IF b = "Power" /\ contact[b].closed THEN 0 ELSE suppressLeft
  /\ EndTurn([tracked EXCEPT ![b] = ButtonTrack(b)], After(chip, busFaults), Shorts(b))
  /\ UNCHANGED touchAge

TouchAccepted == touchAge >= Debounce

(* process_touch_interrupt(); a noisy channel is not reported. *)
TouchTurn ==
  /\ loop # "ended" /\ raw # <<>> /\ Head(raw) = "touch"
  /\ raw' = Tail(raw)
  /\ \E r \in TouchReads, noise \in BOOLEAN :
       /\ touchAge' = IF r.got /\ TouchAccepted THEN 0 ELSE touchAge
       /\ EndTurn(tracked, After(r.chip, r.used),
                  IF r.got /\ TouchAccepted /\ chip.status /\ ~noise
                    THEN {<<"touch", "ShortPress">>} ELSE {})
  /\ UNCHANGED suppressLeft

TimedOut ==
  /\ loop # "ended" /\ raw = <<>> /\ WaitIsOver
  /\ UNCHANGED <<raw, suppressLeft, touchAge>>
  /\ EndTurn(tracked, After(chip, busFaults), {})

InputTask == (\E b \in Button : ButtonTurn(b)) \/ TouchTurn \/ TimedOut

(* stop(): a dummy event ends the wait; the task makes one turn more. *)
Stop == /\ loop = "running"
        /\ loop' = "stopping"
        /\ raw' = Queued(raw, "touch")
        /\ Quiet
        /\ UNCHANGED <<contact, tracked, inputAges, chip, busFaults, reported>>

(* A tick: it is longer than contacts bounce, and than the task, which has *)
(* a high priority, is behind.                                             *)
Tick == /\ loop # "ended"
        /\ \A b \in Button : contact[b].closed = contact[b].held
        /\ ~TaskHasWork
        /\ contact' = [b \in Button |-> [contact[b] EXCEPT
             !.moving = FALSE,
             !.heldFor = IF contact[b].held THEN Older(@, LongPress) ELSE @]]
        /\ tracked' = [b \in Button |-> [tracked[b] EXCEPT
             !.age = IF tracked[b].first THEN @ ELSE Older(@, LongPress)]]
        /\ suppressLeft' = IF suppressLeft > 0 THEN suppressLeft - 1 ELSE 0
        /\ touchAge' = Older(touchAge, Debounce)
        /\ checkAge' = Older(checkAge, Watchdog)
        /\ blocked' = Older(blocked, Watchdog)
        /\ chip' = [chip EXCEPT !.rested = TRUE]
        /\ Quiet
        /\ UNCHANGED <<loop, raw, busFaults, reported>>

InputNext == \/ \E b \in Button : Press(b) \/ Release(b) \/ Bounce(b) \/ Settle(b)
             \/ FingerDown
             \/ FingerUp
             \/ Reassert
             \/ InputTask
             \/ Stop
             \/ Wake
             \/ Tick

(* The task runs, contacts settle, and time passes. *)
Prompt == InputTask \/ \E b \in Button : Settle(b)

InputSpec == /\ InputInit /\ [][InputNext]_inputVars
             /\ WF_inputVars(Prompt) /\ SF_inputVars(Tick)
-----------------------------------------------------------------------------
(* A press gives at most one event, however its contact bounces when it    *)
(* closes and however the task is late; only a contact that closes again,  *)
(* when it is released or for the next press, before the task has seen it  *)
(* open can give another.                                                  *)
OneEventPerPress ==
  [][\A b \in Button : b \in reported =>
       contact[b].unclear \/ \A e \in posted' : e[1] # b]_inputVars

(* A long press (power off, factory reset) is reported only of a button    *)
(* that is down, and was held for all of that time without a break: two    *)
(* short presses are never taken for a long one.                           *)
LongPressIsHeld ==
  \A b \in Button : <<b, "LongPress">> \in posted =>
    contact[b].closed /\ contact[b].heldFor >= LongPress

(* An interrupt line that is stuck low, because an edge was lost or a      *)
(* transfer failed, does not stay so: the touch pads come back.            *)
TouchRecovers == chip.int ~> (~chip.int \/ loop # "running")

(* A finger put on a pad is one event, for as long as it stays there.      *)
TouchOnce == [][chip.finger /\ "touch" \in reported => \A e \in posted' : e[1] # "touch"]_inputVars
=============================================================================
