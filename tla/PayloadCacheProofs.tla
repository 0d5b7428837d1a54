------------------------- MODULE PayloadCacheProofs -------------------------
(***************************************************************************)
(* For every ring size: the ring implements the bounded FIFO, the RTC copy *)
(* always agrees with it and no unwritten slot is ever visible.            *)
(***************************************************************************)
EXTENDS PayloadCache, SequenceTheorems, TLAPS

USE SizeAssumption, BlankAssumption

(* Following steps to the next slot and wraps at the end of the ring. *)
LEMMA FollowingValue ==
  ASSUME NEW i \in Index
  PROVE  /\ Following(i) \in Index
         /\ Following(i) = IF i + 1 = MaxSize THEN 0 ELSE i + 1
BY DEF Following, Index

(* The modulo of peek_at_index is a wrap at the end of the ring. *)
LEMMA SlotValue ==
  ASSUME NEW h \in Index, NEW k \in Index
  PROVE  /\ Slot(h, k) \in Index
         /\ Slot(h, k) = IF h + k < MaxSize THEN h + k ELSE h + k - MaxSize
BY DEF Index, Slot

(* The size is that of a ring with one slot kept free. *)
LEMMA SizeRange ==
  ASSUME NEW h \in Index, NEW t \in Index
  PROVE  /\ SizeOf(h, t) \in 0 .. MaxSize - 1
         /\ SizeOf(h, t) = 0 <=> h = t
BY DEF Index, SizeOf

(* The entries in use end just before tail, so the slot push writes is     *)
(* none of them.                                                           *)
LEMMA TailIsFree ==
  ASSUME NEW h \in Index, NEW t \in Index
  PROVE  /\ Slot(h, SizeOf(h, t)) = t
         /\ \A k \in 0 .. SizeOf(h, t) - 1 : Slot(h, k) # t
<1> DEFINE n == SizeOf(h, t)
<1>1. n \in Index /\ n = IF t >= h THEN t - h ELSE MaxSize - h + t
  BY SizeRange DEF Index, SizeOf
<1>2. Slot(h, n) = t
  <2>1. Slot(h, n) = IF h + n < MaxSize THEN h + n ELSE h + n - MaxSize
    BY <1>1, SlotValue
  <2>2. QED
    BY <1>1, <2>1 DEF Index
<1>3. ASSUME NEW k \in 0 .. n - 1
      PROVE  Slot(h, k) # t
  <2>1. k \in Index
    BY <1>1 DEF Index
  <2>2. Slot(h, k) = IF h + k < MaxSize THEN h + k ELSE h + k - MaxSize
    BY <2>1, SlotValue
  <2>3. QED
    BY <1>1, <2>2 DEF Index
<1>4. QED
  BY <1>2, <1>3

(* A push that finds a free slot beyond tail grows the ring by one. *)
LEMMA GrowthOfPush ==
  ASSUME NEW h \in Index, NEW t \in Index, Following(t) # h
  PROVE  /\ SizeOf(h, Following(t)) = SizeOf(h, t) + 1
         /\ SizeOf(h, t) + 1 <= MaxSize - 1
BY FollowingValue DEF Index, SizeOf

(* A push into a full ring keeps its size. *)
LEMMA OverflowOfPush ==
  ASSUME NEW h \in Index, NEW t \in Index, Following(t) = h
  PROVE  /\ SizeOf(h, t) = MaxSize - 1
         /\ SizeOf(Following(h), Following(t)) = MaxSize - 1
BY FollowingValue DEF Index, SizeOf

(* Giving up the oldest entry renumbers the others. *)
LEMMA SlotsShift ==
  ASSUME NEW h \in Index, NEW k \in Index, k + 1 \in Index
  PROVE  Slot(Following(h), k) = Slot(h, k + 1)
<1>1. Following(h) \in Index /\ Following(h) = IF h + 1 = MaxSize THEN 0 ELSE h + 1
  BY FollowingValue
<1>2. Slot(Following(h), k) = IF Following(h) + k < MaxSize
                                THEN Following(h) + k
                                ELSE Following(h) + k - MaxSize
  BY <1>1, SlotValue
<1>3. Slot(h, k + 1) = IF h + (k + 1) < MaxSize THEN h + (k + 1) ELSE h + (k + 1) - MaxSize
  BY SlotValue
<1>4. QED
  BY <1>1, <1>2, <1>3 DEF Index

LEMMA SizeOfPop ==
  ASSUME NEW h \in Index, NEW t \in Index, h # t
  PROVE  SizeOf(Following(h), t) = SizeOf(h, t) - 1
BY FollowingValue DEF Index, SizeOf
-----------------------------------------------------------------------------
Entry == Payload \cup {Blank}

(* The contents of a ring are a sequence of its size. *)
LEMMA ContentsSeq ==
  ASSUME NEW h \in Index, NEW t \in Index, NEW slots \in Slots
  PROVE  /\ Contents(h, t, slots) \in Seq(Entry)
         /\ Len(Contents(h, t, slots)) = SizeOf(h, t)
         /\ \A i \in 1 .. SizeOf(h, t) :
              Contents(h, t, slots)[i] = slots[Slot(h, i - 1)]
<1> DEFINE n == SizeOf(h, t)
           c == Contents(h, t, slots)
<1>1. n \in 0 .. MaxSize - 1
  BY SizeRange
<1>2. ASSUME NEW i \in 1 .. n PROVE slots[Slot(h, i - 1)] \in Entry
  <2>1. i - 1 \in Index
    BY <1>1 DEF Index
  <2>2. QED
    BY <2>1, SlotValue DEF Slots, Entry
<1>3. c \in [1 .. n -> Entry]
  BY <1>2 DEF Contents
<1>4. c \in Seq(Entry)
  BY <1>1, <1>3, SeqDef
<1>5. Len(c) = n
  BY <1>1, <1>3, <1>4, LenProperties
<1>6. \A i \in 1 .. n : c[i] = slots[Slot(h, i - 1)]
  BY DEF Contents
<1>7. QED
  BY <1>4, <1>5, <1>6

(* A push appends to the contents, after dropping the oldest if full. *)
LEMMA ContentsAfterPush ==
  ASSUME NEW h \in Index, NEW t \in Index, NEW slots \in Slots, NEW p \in Payload
  PROVE  Contents(HeadAfterPush(h, Following(t)), Following(t), [slots EXCEPT ![t] = p])
           = Append(Fifo!MakeRoom(Contents(h, t, slots)), p)
<1> DEFINE n == SizeOf(h, t)
           c == Contents(h, t, slots)
           t2 == Following(t)
           h2 == HeadAfterPush(h, t2)
           slots2 == [slots EXCEPT ![t] = p]
           c2 == Contents(h2, t2, slots2)
           room == Fifo!MakeRoom(c)
<1>1. /\ n \in 0 .. MaxSize - 1
      /\ t2 \in Index
      /\ h2 \in Index
  BY SizeRange, FollowingValue DEF HeadAfterPush
<1>2. slots2 \in Slots
  BY DEF Slots
<1>3. /\ c \in Seq(Entry) /\ Len(c) = n
      /\ \A i \in 1 .. n : c[i] = slots[Slot(h, i - 1)]
  BY ContentsSeq
<1>4. /\ c2 \in Seq(Entry) /\ Len(c2) = SizeOf(h2, t2)
      /\ \A i \in 1 .. SizeOf(h2, t2) : c2[i] = slots2[Slot(h2, i - 1)]
  BY <1>1, <1>2, ContentsSeq
<1>5. \A k \in 0 .. n - 1 : slots2[Slot(h, k)] = slots[Slot(h, k)]
  <2>1. \A k \in 0 .. n - 1 : Slot(h, k) # t
    BY TailIsFree
  <2>2. \A k \in 0 .. n - 1 : Slot(h, k) \in Index
    BY <1>1, SlotValue DEF Index
  <2>3. QED
    BY <2>1, <2>2 DEF Slots
<1>6. slots2[Slot(h, n)] = p
  BY TailIsFree DEF Slots
<1>7. p \in Entry
  BY DEF Entry
<1>8. CASE t2 # h
  <2>1. h2 = h /\ SizeOf(h2, t2) = n + 1 /\ n < MaxSize - 1
    BY <1>8, <1>1, GrowthOfPush DEF HeadAfterPush, Index
  <2>2. room = c
    BY <2>1, <1>3 DEF Fifo!MakeRoom
  <2>3. \A i \in 1 .. n + 1 : c2[i] = Append(c, p)[i]
    <3>1. TAKE i \in 1 .. n + 1
    <3>2. c2[i] = slots2[Slot(h, i - 1)]
      BY <1>4, <2>1
    <3>3. CASE i = n + 1
      BY <3>3, <3>2, <1>6, <1>3, <1>1
    <3>4. CASE i \in 1 .. n
      <4>1. c2[i] = slots[Slot(h, i - 1)]
        BY <3>4, <3>2, <1>5, <1>1
      <4>2. QED
        BY <3>4, <4>1, <1>3, <1>1
    <3>5. i = n + 1 \/ i \in 1 .. n
      BY <1>1
    <3>6. QED
      BY <3>3, <3>4, <3>5
  <2>4. Append(c, p) \in Seq(Entry) /\ Len(Append(c, p)) = n + 1
    BY <1>3, <1>7
  <2>5. QED
    BY <1>4, <2>1, <2>2, <2>3, <2>4, SeqEqual
<1>9. CASE t2 = h
  <2>1. h2 = Following(h) /\ SizeOf(h2, t2) = n /\ n = MaxSize - 1
    BY <1>9, <1>1, OverflowOfPush DEF HeadAfterPush
  <2>2. room = Tail(c) /\ c # << >>
    BY <2>1, <1>3 DEF Fifo!MakeRoom
  <2>3. /\ Tail(c) \in Seq(Entry) /\ Len(Tail(c)) = n - 1
        /\ \A i \in 1 .. n - 1 : Tail(c)[i] = c[i + 1]
    BY <2>2, <1>3, HeadTailProperties
  <2>4. \A i \in 1 .. n : c2[i] = Append(Tail(c), p)[i]
    <3>1. TAKE i \in 1 .. n
    <3>2. c2[i] = slots2[Slot(h, i)]
      <4>1. i - 1 \in Index /\ (i - 1) + 1 \in Index /\ (i - 1) + 1 = i
        BY <2>1 DEF Index
      <4>2. Slot(Following(h), i - 1) = Slot(h, i)
        BY <4>1, SlotsShift
      <4>3. QED
        BY <4>2, <1>4, <2>1
    <3>3. CASE i = n
      BY <3>3, <3>2, <1>6, <2>3, <1>1
    <3>4. CASE i \in 1 .. n - 1
      <4>1. c2[i] = slots[Slot(h, i)]
        BY <3>4, <3>2, <1>5, <1>1
      <4>2. Append(Tail(c), p)[i] = c[i + 1]
        BY <3>4, <2>3, <1>1
      <4>3. c[i + 1] = slots[Slot(h, i)]
        BY <3>4, <1>3, <1>1
      <4>4. QED
        BY <4>1, <4>2, <4>3
    <3>5. i = n \/ i \in 1 .. n - 1
      BY <1>1
    <3>6. QED
      BY <3>3, <3>4, <3>5
  <2>5. Append(Tail(c), p) \in Seq(Entry) /\ Len(Append(Tail(c), p)) = n
    BY <2>3, <1>7, <1>1, <2>1
  <2>6. QED
    BY <1>4, <2>1, <2>2, <2>4, <2>5, SeqEqual
<1>10. QED
  BY <1>8, <1>9

(* A pop removes the oldest entry. *)
LEMMA ContentsAfterPop ==
  ASSUME NEW h \in Index, NEW t \in Index, NEW slots \in Slots, h # t
  PROVE  /\ Contents(h, t, slots) # << >>
         /\ Contents(Following(h), t, slots) = Tail(Contents(h, t, slots))
<1> DEFINE n == SizeOf(h, t)
           c == Contents(h, t, slots)
           h2 == Following(h)
           c2 == Contents(h2, t, slots)
<1>1. n \in 1 .. MaxSize - 1 /\ h2 \in Index
  BY SizeRange, FollowingValue DEF Index
<1>2. /\ c \in Seq(Entry) /\ Len(c) = n
      /\ \A i \in 1 .. n : c[i] = slots[Slot(h, i - 1)]
  BY ContentsSeq
<1>3. c # << >>
  BY <1>1, <1>2
<1>4. SizeOf(h2, t) = n - 1
  BY SizeOfPop
<1>5. /\ c2 \in Seq(Entry) /\ Len(c2) = n - 1
      /\ \A i \in 1 .. n - 1 : c2[i] = slots[Slot(h2, i - 1)]
  BY <1>1, <1>4, ContentsSeq
<1>6. /\ Tail(c) \in Seq(Entry) /\ Len(Tail(c)) = n - 1
      /\ \A i \in 1 .. n - 1 : Tail(c)[i] = c[i + 1]
  BY <1>2, <1>3, HeadTailProperties
<1>7. \A i \in 1 .. n - 1 : c2[i] = Tail(c)[i]
  <2>1. TAKE i \in 1 .. n - 1
  <2>2. i - 1 \in Index /\ (i - 1) + 1 \in Index /\ (i - 1) + 1 = i
    BY <1>1 DEF Index
  <2>3. Slot(h2, i - 1) = Slot(h, i)
    BY <2>2, SlotsShift
  <2>4. c[i + 1] = slots[Slot(h, i)]
    BY <1>1, <1>2
  <2>5. QED
    BY <2>3, <2>4, <1>5, <1>6
<1>8. QED
  BY <1>3, <1>5, <1>6, <1>7, SeqEqual

LEMMA ContentsOfEmptyRing ==
  ASSUME NEW i \in Index, NEW slots
  PROVE  Contents(i, i, slots) = << >>
<1>1. SizeOf(i, i) = 0
  BY DEF SizeOf, Index
<1>2. QED
  BY <1>1 DEF Contents
-----------------------------------------------------------------------------
(* The inductive invariant: the entries in use were pushed, and the RTC    *)
(* copy has the same indices and the same entries between them.  Slots     *)
(* outside head..tail may differ (clean() erases only the copy's).         *)
RtcAgrees ==
  /\ rtc.head = head
  /\ rtc.tail = tail
  /\ Saved = Cached

IInv == TypeOK /\ RtcAgrees /\ OnlyPushedEntries

LEMMA InitEstablishes == Init => IInv
<1> SUFFICES ASSUME Init PROVE IInv
  OBVIOUS
<1>1. TypeOK
  BY DEF Init, TypeOK, Slots, Index, Erased
<1>2. RtcAgrees
  BY DEF Init, RtcAgrees, Saved, Cached, Erased
<1>3. Cached = << >>
  BY ContentsOfEmptyRing DEF Init, Cached, Index
<1>4. QED
  BY <1>1, <1>2, <1>3 DEF IInv, OnlyPushedEntries

(* Every step keeps the invariant and is a step of the abstract queue. *)
LEMMA StepSimulates ==
  ASSUME IInv, [Next]_vars
  PROVE  IInv' /\ [Fifo!Next]_<<Cached, call>>
<1> USE DEF IInv, TypeOK
<1>1. ASSUME NEW p \in Payload, Push(p)
      PROVE  IInv' /\ Fifo!Push(p)
  <2>1. TypeOK' /\ RtcAgrees'
    BY <1>1, FollowingValue DEF Push, Backup, HeadAfterPush, RtcAgrees, Slots, Saved, Cached
  <2>2. Cached' = Append(Fifo!MakeRoom(Cached), p)
    <3>1. /\ payloads' = [payloads EXCEPT ![tail] = p]
          /\ tail' = Following(tail)
          /\ head' = HeadAfterPush(head, Following(tail))
      BY <1>1 DEF Push
    <3>2. head \in Index /\ tail \in Index /\ payloads \in Slots
      OBVIOUS
    <3>3. Contents(head', tail', payloads') = Append(Fifo!MakeRoom(Cached), p)
      BY ONLY <3>1, <3>2, ContentsAfterPush, p \in Payload DEF Cached
    <3>4. QED
      BY <3>3 DEF Cached
  <2>3. OnlyPushedEntries'
    <3>1. Cached \in Seq(Entry)
      BY ContentsSeq DEF Cached
    <3>2. Cached \in Seq(Payload)
      <4>1. Len(Cached) \in Nat /\ DOMAIN Cached = 1 .. Len(Cached)
        BY <3>1, LenProperties
      <4>2. Cached \in [1 .. Len(Cached) -> Payload]
        BY <3>1, <4>1, LenProperties DEF OnlyPushedEntries
      <4>3. QED
        BY <4>1, <4>2, SeqDef
    <3>3. Fifo!MakeRoom(Cached) \in Seq(Payload)
      <4>1. CASE Len(Cached) < MaxSize - 1
        BY <3>2, <4>1 DEF Fifo!MakeRoom
      <4>2. CASE ~(Len(Cached) < MaxSize - 1)
        <5>1. Len(Cached) \in Nat /\ Len(Cached) > 0
          BY <3>2, <4>2, LenProperties
        <5>2. Cached # << >>
          BY <5>1
        <5>3. QED
          BY <3>2, <4>2, <5>2, HeadTailProperties DEF Fifo!MakeRoom
      <4>3. QED
        BY <4>1, <4>2
    <3>4. Cached' \in Seq(Payload)
      BY <2>2, <3>3
    <3>5. QED
      BY <3>4, LenProperties, ElementOfSeq DEF OnlyPushedEntries
  <2>4. QED
    BY <1>1, <2>1, <2>2, <2>3 DEF Push, Fifo!Push
<1>2. ASSUME Pop
      PROVE  IInv' /\ Fifo!Pop
  <2>1. TypeOK' /\ RtcAgrees'
    BY <1>2, FollowingValue DEF Pop, Backup, RtcAgrees, Saved, Cached
  <2>2. Cached # << >> /\ Cached' = Tail(Cached)
    BY <1>2, ContentsAfterPop DEF Pop, Cached
  <2>3. OnlyPushedEntries'
    <3>1. Cached \in Seq(Entry)
      BY ContentsSeq DEF Cached
    <3>2. /\ Len(Cached) \in Nat
          /\ DOMAIN Cached = 1 .. Len(Cached)
          /\ Tail(Cached) \in Seq(Entry)
          /\ Len(Tail(Cached)) = Len(Cached) - 1
          /\ \A i \in 1 .. Len(Tail(Cached)) : Tail(Cached)[i] = Cached[i + 1]
      BY <2>2, <3>1, HeadTailProperties, LenProperties
    <3>3. DOMAIN Tail(Cached) = 1 .. Len(Cached) - 1
      BY <3>2, LenProperties
    <3>4. ASSUME NEW i \in 1 .. Len(Cached) - 1
          PROVE  Tail(Cached)[i] \in Payload
      <4>1. i + 1 \in DOMAIN Cached
        BY <3>2
      <4>2. QED
        BY <3>2, <4>1 DEF OnlyPushedEntries
    <3>5. QED
      BY <2>2, <3>3, <3>4 DEF OnlyPushedEntries
  <2>4. QED
    BY <1>2, <2>1, <2>2, <2>3 DEF Pop, Fifo!Pop
<1>3. ASSUME Clean \/ Reset
      PROVE  IInv' /\ Fifo!Empty
  <2>1. head' = 0 /\ tail' = 0 /\ rtc' = Erased
    BY <1>3 DEF Clean, Reset, Boot, Restored, Erased
  <2>2. TypeOK'
    BY <1>3, <2>1 DEF Clean, Reset, Boot, Restored, Erased, Slots, Index
  <2>3. Cached' = << >> /\ Saved' = << >>
    BY <2>1, ContentsOfEmptyRing DEF Cached, Saved, Erased, Index
  <2>4. QED
    BY <1>3, <2>1, <2>2, <2>3
    DEF RtcAgrees, OnlyPushedEntries, Erased, Fifo!Empty, Clean, Reset
<1>4. ASSUME BackupCache
      PROVE  IInv' /\ UNCHANGED <<Cached, call>>
  BY <1>4 DEF BackupCache, Backup, RtcAgrees, OnlyPushedEntries, Cached, Saved
<1>5. ASSUME WakeFromDeepSleep
      PROVE  IInv' /\ UNCHANGED <<Cached, call>>
  <2>1. Restored(rtc) = rtc
    BY DEF Restored, Index
  <2>2. /\ head' = rtc.head /\ tail' = rtc.tail /\ payloads' = rtc.payloads
        /\ rtc' = rtc
    BY <1>5, <2>1 DEF WakeFromDeepSleep, Boot
  <2>3. Cached' = Saved /\ Saved' = Saved
    BY <2>2 DEF Cached, Saved
  <2>4. QED
    BY <1>5, <2>2, <2>3 DEF RtcAgrees, OnlyPushedEntries, WakeFromDeepSleep
<1>6. ASSUME UNCHANGED vars
      PROVE  IInv' /\ UNCHANGED <<Cached, call>>
  BY <1>6 DEF vars, RtcAgrees, OnlyPushedEntries, Cached, Saved
<1>7. QED
  BY <1>1, <1>2, <1>3, <1>4, <1>5, <1>6 DEF Next, Fifo!Next

(* Type correctness, and the invariant the other results rest on. *)
THEOREM Invariant == Spec => []IInv
BY InitEstablishes, StepSimulates, PTL DEF Spec

(* The RTC copy holds exactly the cached measurements in every reachable   *)
(* state, for a ring of any size: no sleep can lose a measurement that     *)
(* push() returned from.                                                   *)
THEOREM SleepLosesNothing == Spec => []WriteThrough
<1>1. IInv => WriteThrough
  BY DEF IInv, RtcAgrees, WriteThrough
<1>2. QED
  BY <1>1, Invariant, PTL

(* No reader of the cache sees a slot that no push wrote. *)
THEOREM NoUnwrittenEntry == Spec => []OnlyPushedEntries
<1>1. IInv => OnlyPushedEntries
  BY DEF IInv
<1>2. QED
  BY <1>1, Invariant, PTL

(* The ring buffer with its RTC copy implements a bounded FIFO queue of    *)
(* MaxSize - 1 measurements that sleeps cannot disturb.                    *)
THEOREM RingImplementsFifo == Spec => ImplementsFifo
<1>1. Init => Fifo!Init
  BY ContentsOfEmptyRing DEF Init, Fifo!Init, Cached, Index
<1>2. QED
  BY <1>1, Invariant, StepSimulates, PTL DEF Spec, ImplementsFifo, Fifo!Spec
=============================================================================
