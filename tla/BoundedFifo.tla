----------------------------- MODULE BoundedFifo -----------------------------
(***************************************************************************)
(* What the payload cache promises its users (StorageService, the chart):  *)
(* a first-in first-out queue of at most Capacity measurements that drops  *)
(* the oldest one to make room, and that a deep sleep does not change.     *)
(* Only a reset that loses the retained memory, or clean(), empties it.    *)
(***************************************************************************)
EXTENDS Naturals, Sequences

CONSTANTS
  Payload,   \* the measurements that can be cached
  Capacity   \* how many of them the queue holds

VARIABLES
  queue,     \* the cached measurements, oldest first
  call       \* the last call that may change them

(* A full queue gives up its oldest element. *)
MakeRoom(q) == IF Len(q) < Capacity THEN q ELSE Tail(q)

Init == queue = << >> /\ call = "empty"

Push(p) == queue' = Append(MakeRoom(queue), p) /\ call' = "push"

Pop == /\ queue # << >>
       /\ queue' = Tail(queue)
       /\ call' = "pop"

Empty == queue' = << >> /\ call' = "empty"

Next == \/ \E p \in Payload : Push(p)
        \/ Pop
        \/ Empty

Spec == Init /\ [][Next]_<<queue, call>>
=============================================================================
