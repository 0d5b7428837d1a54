---------------------------- MODULE PayloadCache ----------------------------
(***************************************************************************)
(* components/airgradient-payload-cache: the ring buffer that keeps the    *)
(* latest measurements for the chart, and its copy in RTC memory.          *)
(*                                                                         *)
(* MaxSize slots hold at most MaxSize - 1 entries, so that head = tail     *)
(* means empty.  Every operation writes the ring through to the storage    *)
(* backend; a deep sleep loses RAM and keeps RTC memory, any other reset   *)
(* also reloads RTC_DATA_ATTR variables with their initial value, zero.    *)
(* All calls come from the main task, so an operation is one step.         *)
(***************************************************************************)
EXTENDS Naturals, Sequences

CONSTANTS
  Payload,   \* the measurements that can be cached
  Blank,     \* a value-initialised slot (payloads{})
  MaxSize    \* _max_cache_size, after the constructor's clamp

ASSUME SizeAssumption == MaxSize \in Nat /\ MaxSize >= 2
ASSUME BlankAssumption == Blank \notin Payload

VARIABLES
  head,      \* _head: index of the oldest entry
  tail,      \* _tail: index of the next free slot
  payloads,  \* _payloads
  rtc,       \* s_payload_cache_storage, in RTC memory
  call       \* ghost: the last call that may change the entries

vars == <<head, tail, payloads, rtc, call>>

Index == 0 .. MaxSize - 1
Slots == [Index -> Payload \cup {Blank}]

WithoutWrap(i) == i + 1                     \* faulty variant of Following
Following(i) == (i + 1) % MaxSize

(* get_size *)
SizeOf(h, t) == IF t >= h THEN t - h ELSE MaxSize - h + t

(* The slot of entry k, from 0, of a ring whose oldest entry is in slot h. *)
Slot(h, k) == (h + k) % MaxSize

(* peek_at_index for every index below get_size: the entries, oldest first. *)
Contents(h, t, slots) == [i \in 1 .. SizeOf(h, t) |-> slots[Slot(h, i - 1)]]

Cached == Contents(head, tail, payloads)
Saved  == Contents(rtc.head, rtc.tail, rtc.payloads)

Erased == [head |-> 0, tail |-> 0, payloads |-> [i \in Index |-> Blank]]

(* The index of the oldest entry once tail has moved to t. *)
HeadKept(h, t) == h                         \* faulty variant of HeadAfterPush
HeadAfterPush(h, t) == IF t = h THEN Following(h) ELSE h

NotSaved == rtc' = rtc                      \* faulty variant of Backup
(* backup(): called at the end of push and pop, and before a sleep. *)
Backup == rtc' = [head |-> head', tail |-> tail', payloads |-> payloads']

(* restore() on a freshly constructed cache; indices out of range are refused. *)
Restored(data) ==
  IF data.head >= MaxSize \/ data.tail >= MaxSize
    THEN Erased
    ELSE data

Init == /\ head = 0
        /\ tail = 0
        /\ payloads = [i \in Index |-> Blank]
        /\ rtc = Erased
        /\ call = "empty"

Push(p) ==
  /\ payloads' = [payloads EXCEPT ![tail] = p]
  /\ tail' = Following(tail)
  /\ head' = HeadAfterPush(head, tail')
  /\ Backup
  /\ call' = "push"

Pop ==
  /\ head # tail
  /\ head' = Following(head)
  /\ UNCHANGED <<tail, payloads>>
  /\ Backup
  /\ call' = "pop"

Clean ==
  /\ head' = 0
  /\ tail' = 0
  /\ rtc' = Erased
  /\ call' = "empty"
  /\ UNCHANGED payloads

(* backup_cache(), on the way to sleep or shutdown *)
BackupCache ==
  /\ UNCHANGED <<head, tail, payloads, call>>
  /\ Backup

(* Constructor and restore_cache() at boot, from the RTC contents given. *)
Boot(data) ==
  /\ head' = Restored(data).head
  /\ tail' = Restored(data).tail
  /\ payloads' = Restored(data).payloads
  /\ rtc' = data

WakeFromDeepSleep == Boot(rtc) /\ UNCHANGED call

Reset == Boot(Erased) /\ call' = "empty"

Next == \/ \E p \in Payload : Push(p)
        \/ Pop
        \/ Clean
        \/ BackupCache
        \/ WakeFromDeepSleep
        \/ Reset

Spec == Init /\ [][Next]_vars
-----------------------------------------------------------------------------
TypeOK == /\ head \in Index
          /\ tail \in Index
          /\ payloads \in Slots
          /\ rtc \in [head : Index, tail : Index, payloads : Slots]
          /\ call \in {"push", "pop", "empty"}

(* The RTC copy always holds the same entries in the same order as the     *)
(* ring in RAM, whatever mix of operations led here, so that a sleep       *)
(* between any two of them loses nothing (push, pop and clean each write   *)
(* the backend before they return).                                        *)
WriteThrough == Saved = Cached

(* No reader ever sees a slot that was never written: every entry between  *)
(* head and tail was pushed (peek_at_index copies whatever is there).      *)
OnlyPushedEntries == \A i \in DOMAIN Cached : Cached[i] \in Payload

(* The ring is a bounded FIFO of MaxSize - 1 entries: it drops the oldest  *)
(* entry on overflow, never an arbitrary one, never the whole ring, and a  *)
(* deep sleep is not visible.                                              *)
Fifo == INSTANCE BoundedFifo WITH queue <- Cached, Capacity <- MaxSize - 1

ImplementsFifo == Fifo!Spec
=============================================================================
