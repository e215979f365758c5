--------------------------- MODULE InputRingProofs ---------------------------
(***************************************************************************)
(* The input ring is correct for every number of slots, slot size, epoch   *)
(* reservation, generation limit and sequence of captures.                 *)
(*                                                                         *)
(* The argument: a slot's generation changes only while nobody owns it, so *)
(* every owner's generation is the slot's; the words of an owner lie below *)
(* the committed offset, those of a running capture at the write offset;   *)
(* and Shutdown()'s three polls leave behind only what was reserved after  *)
(* it had unpublished the ring.                                            *)
(***************************************************************************)
EXTENDS InputRingFacts

-----------------------------------------------------------------------------
(* Every step, slot by slot *)

\* Only Initialize() gives the ring slots, or publishes it.
RingKept ==
    /\ ring'.initialized => ring.initialized /\ ring'.count = ring.count
    /\ ring'.active => ring.active

LEMMA RingIsKept ==
  ASSUME IInv,
         \/ ring' = ring
         \/ ring' = [ring EXCEPT !.accepting = FALSE]
         \/ ring' = [ring EXCEPT !.active = FALSE]
         \/ ring' = [ring EXCEPT !.current = NextSlot]
         \/ ring' = [ring EXCEPT !.current = 0, !.count = 0, !.initialized = FALSE]
  PROVE  RingKept
<1>1. ring \in RingType
  BY RingFacts DEF RingType
<1>2. CASE ring' = ring
  BY <1>2 DEF RingKept
<1>3. CASE ring' = [ring EXCEPT !.accepting = FALSE]
  BY <1>1, <1>3 DEF RingKept, RingType
<1>4. CASE ring' = [ring EXCEPT !.active = FALSE]
  BY <1>1, <1>4 DEF RingKept, RingType
<1>5. CASE ring' = [ring EXCEPT !.current = NextSlot]
  BY <1>1, <1>5 DEF RingKept, RingType
<1>6. CASE ring' = [ring EXCEPT !.current = 0, !.count = 0, !.initialized = FALSE]
  BY <1>1, <1>6 DEF RingKept, RingType
<1> QED BY <1>2, <1>3, <1>4, <1>5, <1>6

\* What the owners of slot s have stays; or it has no owner but a capture
\* that begins a generation of it.
Kept(s) ==
    /\ slots'[s].generation = slots[s].generation
    /\ slots'[s].committed >= slots[s].committed
    /\ \A u \in Unit : u < slots[s].committed => slots'[s].writer[u] = slots[s].writer[u]

Free(s) ==
    /\ \A h \in Holder : \A r \in held[h] : r.slot # s
    /\ \A t \in Thread : th[t].at \in Pinning /\ th[t].payload.slot = s => th[t].at = "empty"

SlotGoes(s) ==
    /\ slots'[s].generation >= slots[s].generation
    /\ slots'[s].generation = slots[s].generation \/ slots[s].references = 0
    /\ Kept(s) \/ Free(s)
    /\ slots'[s].published <= slots'[s].committed
    /\ ring'.initialized /\ s < ring'.count => slots'[s].committed <= slots'[s].write

SlotsGo == slots' \in [Slot -> SlotState] /\ \A s \in Slot : SlotGoes(s)

LEMMA SlotStays ==
  ASSUME IInv, NEW s \in Slot, slots'[s] = slots[s], RingKept
  PROVE  SlotGoes(s)
<1>1. /\ slots[s].generation \in 1 .. MaxGeneration
      /\ slots[s].committed \in 0 .. InputRingSlotSize
  BY SlotFacts
<1>2. /\ slots[s].published <= slots[s].committed
      /\ ring.initialized /\ s < ring.count => slots[s].committed <= slots[s].write
  BY DEF IInv, SlotsAreOrdered
<1>3. ring'.initialized /\ s < ring'.count => slots'[s].committed <= slots'[s].write
  BY <1>2 DEF RingKept
<1>4. Kept(s)
  BY <1>1 DEF Kept
<1>5. slots'[s].generation >= slots[s].generation
  BY <1>1
<1> QED BY <1>2, <1>3, <1>4, <1>5 DEF SlotGoes

LEMMA SameSlotsGo ==
  ASSUME IInv, UNCHANGED slots, RingKept
  PROVE  SlotsGo
BY SlotFacts, SlotStays DEF SlotsGo

LEMMA OneSlotGoes ==
  ASSUME IInv, NEW c, OneSlot(c), RingKept, SlotGoes(c)
  PROVE  SlotsGo
BY SlotStays DEF SlotsGo, OneSlot

LEMMA UnownedIsFree ==
  ASSUME IInv, NEW s \in Slot, slots[s].references = 0
  PROVE  Free(s)
BY Unowned DEF Free

LEMMA CountedGoes ==
  ASSUME IInv, NEW c, NEW n, Counted(c, n), RingKept
  PROVE  SlotsGo
<1>1. c \in Slot /\ OneSlot(c)
  BY DEF Counted, OneSlot
<1>2. /\ slots[c].generation \in 1 .. MaxGeneration
      /\ slots[c].committed \in 0 .. InputRingSlotSize
  BY <1>1, SlotFacts
<1>3. /\ slots[c].published <= slots[c].committed
      /\ ring.initialized /\ c < ring.count => slots[c].committed <= slots[c].write
  BY <1>1 DEF IInv, SlotsAreOrdered
<1>4. /\ slots'[c].generation = slots[c].generation
      /\ slots'[c].committed = slots[c].committed /\ slots'[c].published = slots[c].published
      /\ slots'[c].write = slots[c].write /\ slots'[c].writer = slots[c].writer
  BY DEF Counted
<1>5. Kept(c)
  BY <1>2, <1>4 DEF Kept
<1>6. ring'.initialized /\ c < ring'.count => slots'[c].committed <= slots'[c].write
  BY <1>3, <1>4 DEF RingKept
<1>7. slots'[c].generation >= slots[c].generation
  BY <1>2, <1>4
<1>8. SlotGoes(c)
  BY <1>3, <1>4, <1>5, <1>6, <1>7 DEF SlotGoes
<1> QED BY <1>1, <1>8, OneSlotGoes

\* Every step treats every slot so.
LEMMA SlotStep ==
  ASSUME IInv, [Next]_vars
  PROVE  SlotsGo
<1>1. ASSUME NEW p \in Producer, CaptureRawVifPayload(p)
      PROVE  SlotsGo
  BY <1>1, RingIsKept, SameSlotsGo DEF CaptureRawVifPayload
<1>2. ASSUME NEW p \in Producer, LoadActiveRing(p)
      PROVE  SlotsGo
  BY <1>2, RingIsKept, SameSlotsGo DEF LoadActiveRing
<1>3. ASSUME NEW p \in Producer, LockCapture(p)
      PROVE  SlotsGo
  BY <1>3, RingIsKept, SameSlotsGo DEF LockCapture
<1>4. ASSUME NEW p \in Producer, TestAccepting(p)
      PROVE  SlotsGo
  BY <1>4, RingIsKept, SameSlotsGo DEF TestAccepting
<1>5. ASSUME NEW p \in Producer, Reserve(p)
      PROVE  SlotsGo
  <2>1. CASE StopAccepting(p)
    <3>1. UNCHANGED slots /\ ring' = [ring EXCEPT !.accepting = FALSE]
      BY <1>5, <2>1, ReserveGoes DEF StopAccepting
    <3> QED BY <3>1, RingIsKept, SameSlotsGo
  <2>2. CASE ~StopAccepting(p)
    <3> DEFINE c == ring.current
               g == IF Current.references = 0 THEN Current.generation + 1
                                             ELSE Current.generation
    <3>1. /\ OneSlot(c) /\ slots'[c].generation = g /\ g \in 1 .. MaxGeneration
          /\ slots'[c].committed = slots[c].committed
          /\ slots'[c].published = slots[c].published
          /\ slots'[c].write = slots[c].write /\ slots'[c].writer = slots[c].writer
      BY <1>5, <2>2, ReserveSlots
    <3>2. UNCHANGED ring
      BY <1>5, <2>2, ReserveGoes
    <3>3. RingKept
      BY <3>2, RingIsKept
    <3>4. /\ slots[c].generation \in 1 .. MaxGeneration /\ c \in Slot
          /\ slots[c].committed \in 0 .. InputRingSlotSize
      BY <3>1, SlotFacts DEF OneSlot
    <3>5. /\ slots[c].published <= slots[c].committed
          /\ ring.initialized /\ c < ring.count => slots[c].committed <= slots[c].write
      BY <3>4 DEF IInv, SlotsAreOrdered
    <3>6. \/ slots[c].references = 0 /\ g = slots[c].generation + 1
          \/ slots[c].references # 0 /\ g = slots[c].generation
      BY DEF Current
    <3> HIDE DEF c, g
    <3>7. ring'.initialized /\ c < ring'.count => slots'[c].committed <= slots'[c].write
      BY <3>1, <3>2, <3>5
    <3>8. CASE slots[c].references = 0 /\ g = slots[c].generation + 1
      <4>1. Free(c)
        BY <3>4, <3>8, UnownedIsFree
      <4>2. slots'[c].generation >= slots[c].generation
        BY <3>1, <3>4, <3>8
      <4>3. SlotGoes(c)
        BY <3>1, <3>5, <3>7, <3>8, <4>1, <4>2 DEF SlotGoes
      <4> QED BY <3>1, <3>3, <4>3, OneSlotGoes
    <3>9. CASE slots[c].references # 0 /\ g = slots[c].generation
      <4>1. Kept(c)
        BY <3>1, <3>4, <3>9 DEF Kept
      <4>2. slots'[c].generation >= slots[c].generation
        BY <3>1, <3>4, <3>9
      <4>3. SlotGoes(c)
        BY <3>1, <3>5, <3>7, <3>9, <4>1, <4>2 DEF SlotGoes
      <4> QED BY <3>1, <3>3, <4>3, OneSlotGoes
    <3> QED BY <3>6, <3>8, <3>9
  <2> QED BY <2>1, <2>2
<1>6. ASSUME NEW p \in Producer, BeginGeneration(p)
      PROVE  SlotsGo
  <2> DEFINE c == ring.current
  <2>1. UNCHANGED ring /\ Goes(p, "empty", {"fill"})
    BY <1>6, BeginGenerationGoes DEF BeginGeneration
  <2>2. /\ OneSlot(c) /\ slots'[c].generation = slots[c].generation
        /\ slots'[c].committed = 0 /\ slots'[c].published = 0
        /\ slots'[c].write = slots[c].write
    BY <1>6, BeginSlots
  <2>3. /\ slots[c].generation \in 1 .. MaxGeneration
        /\ slots[c].write \in 0 .. InputRingSlotSize /\ c \in Slot
    BY <2>2, SlotFacts DEF OneSlot
  <2>4. th[p].at \in Filling /\ th[p].at \in Pinning /\ p \in Thread /\ th[p].at = "empty"
    BY <2>1 DEF Goes, Filling, Pinning
  <2>5. th[p].payload.slot = c
    BY <2>4, FillingFacts
  <2>6. slots[c].references = 1
    BY <2>4, <2>5 DEF IInv, ReservationIsNext
  <2> HIDE DEF c
  <2>7. Free(c)
    BY <2>3, <2>4, <2>5, <2>6, Alone DEF Free
  <2>8. slots'[c].generation >= slots[c].generation /\ slots'[c].committed <= slots'[c].write
        /\ slots'[c].published <= slots'[c].committed
    BY <2>2, <2>3
  <2>9. SlotGoes(c)
    BY <2>2, <2>7, <2>8 DEF SlotGoes
  <2> QED BY <2>1, <2>2, <2>9, RingIsKept, OneSlotGoes
<1>7. ASSUME NEW p \in Producer, NEW intact \in BOOLEAN, Recycle(p, intact)
      PROVE  SlotsGo
  <2>1. CASE StopAccepting(p)
    <3>1. ring' = [ring EXCEPT !.accepting = FALSE] /\ Become(p, "leave")
      BY <2>1 DEF StopAccepting, Return
    <3>2. UNCHANGED slots
      <4>1. CASE UNCHANGED slots
        BY <4>1
      <4>2. CASE ~UNCHANGED slots
        <5>1. Become(p, "loop")
          BY <1>7, <4>2 DEF Recycle
        <5>2. p \in Thread
          BY ThreadFacts
        <5>3. th'[p].at = "leave" /\ th'[p].at = "loop"
          BY <3>1, <5>1, <5>2, BecomeFacts, ThreadFacts DEF Where
        <5> QED BY <5>3
      <4> QED BY <4>1, <4>2
    <3> QED BY <3>1, <3>2, RingIsKept, SameSlotsGo
  <2>2. CASE ~StopAccepting(p)
    <3> DEFINE c == NextSlot
    <3>1. /\ OneSlot(c) /\ slots'[c].generation = slots[c].generation + 1
          /\ slots[c].references = 0
          /\ slots'[c].committed = 0 /\ slots'[c].published = 0
          /\ slots'[c].write = 0
          /\ ring' = [ring EXCEPT !.current = c]
      BY <1>7, <2>2, RecycleSlots
    <3>2. RingKept
      BY <3>1, RingIsKept
    <3> HIDE DEF c
    <3>3. slots[c].generation \in 1 .. MaxGeneration /\ c \in Slot
      BY <3>1, SlotFacts DEF OneSlot
    <3>4. Free(c)
      BY <3>1, <3>3, UnownedIsFree
    <3>5. slots'[c].generation >= slots[c].generation /\ slots'[c].committed <= slots'[c].write
          /\ slots'[c].published <= slots'[c].committed
      BY <3>1, <3>3
    <3>6. SlotGoes(c)
      BY <3>1, <3>4, <3>5 DEF SlotGoes
    <3> QED BY <3>1, <3>2, <3>6, OneSlotGoes
  <2> QED BY <2>1, <2>2
<1>8. ASSUME NEW p \in Producer, FindOwned(p)
      PROVE  SlotsGo
  BY <1>8, RingIsKept, SameSlotsGo DEF FindOwned
<1>9. ASSUME NEW p \in Producer, ArmWaiter(p)
      PROVE  SlotsGo
  BY <1>9, RingIsKept, SameSlotsGo DEF ArmWaiter
<1>10. ASSUME NEW p \in Producer, Recheck(p)
      PROVE  SlotsGo
  BY <1>10, RingIsKept, SameSlotsGo DEF Recheck
<1>11. ASSUME NEW p \in Producer, Disarm(p)
      PROVE  SlotsGo
  BY <1>11, RingIsKept, SameSlotsGo DEF Disarm
<1>12. ASSUME NEW p \in Producer, RequestGpuVuInputRetirement(p)
      PROVE  SlotsGo
  BY <1>12, RingIsKept, SameSlotsGo DEF RequestGpuVuInputRetirement
<1>13. ASSUME NEW p \in Producer, WaitSlotReleased(p)
      PROVE  SlotsGo
  BY <1>13, RingIsKept, SameSlotsGo DEF WaitSlotReleased
<1>14. ASSUME NEW p \in Producer, Fill(p)
      PROVE  SlotsGo
  <2> DEFINE r == th[p].payload
             c == r.slot
  <2>1. UNCHANGED ring /\ Goes(p, "fill", {"commit"})
    BY <1>14, FillGoes DEF Fill
  <2>2. /\ OneSlot(c) /\ slots'[c].generation = slots[c].generation
        /\ slots'[c].committed = slots[c].committed
        /\ slots'[c].published = slots[c].published
        /\ slots'[c].write = r.offset + r.size
        /\ \A u \in Unit : slots'[c].writer[u] =
                IF u \in Covers(r) THEN r.generation ELSE slots[c].writer[u]
    BY <1>14, FillSlots
  <2>3. /\ slots[c].generation \in 1 .. MaxGeneration
        /\ slots[c].committed \in 0 .. InputRingSlotSize /\ c \in Slot
        /\ slots[c].write \in 0 .. InputRingSlotSize
    BY <2>2, SlotFacts DEF OneSlot
  <2>4. slots[c].published <= slots[c].committed
    BY <2>3 DEF IInv, SlotsAreOrdered
  <2>5. th[p].at \in Filling /\ th[p].at = "fill"
    BY <2>1 DEF Goes, Filling
  <2>6. slots[c].committed <= r.offset
    BY <2>5 DEF IInv, ReservationIsNext
  <2>7. r.offset \in Nat /\ r.size \in Nat
    BY <2>5, FillingFacts DEF Unit
  <2> HIDE DEF c, r
  <2>8. \A u \in Unit : u < slots[c].committed => u \notin Covers(r)
    BY <2>3, <2>6, <2>7 DEF Covers, Unit
  <2>9. \A u \in Unit : u < slots[c].committed => slots'[c].writer[u] = slots[c].writer[u]
    BY <2>2, <2>8
  <2>10. Kept(c)
    BY <2>2, <2>3, <2>9 DEF Kept
  <2>11. slots'[c].generation >= slots[c].generation /\ slots'[c].committed <= slots'[c].write
    BY <2>2, <2>3, <2>6, <2>7
  <2>12. SlotGoes(c)
    BY <2>2, <2>4, <2>10, <2>11 DEF SlotGoes
  <2> QED BY <2>1, <2>2, <2>12, RingIsKept, OneSlotGoes
<1>15. ASSUME NEW p \in Producer, Commit(p)
      PROVE  SlotsGo
  <2> DEFINE r == th[p].payload
             c == r.slot
  <2>1. UNCHANGED ring /\ th[p].at = "commit"
    BY <1>15, CommitGoes DEF Commit
  <2>2. /\ OneSlot(c) /\ slots'[c].generation = slots[c].generation
        /\ slots'[c].committed = r.offset + r.size
        /\ slots'[c].published = slots[c].published
        /\ slots'[c].write = slots[c].write /\ slots'[c].writer = slots[c].writer
    BY <1>15, CommitSlots
  <2>3. /\ slots[c].generation \in 1 .. MaxGeneration
        /\ slots[c].committed \in 0 .. InputRingSlotSize /\ c \in Slot
        /\ slots[c].write \in 0 .. InputRingSlotSize
    BY <2>2, SlotFacts DEF OneSlot
  <2>4. slots[c].published <= slots[c].committed /\ slots[c].published \in Nat
    BY <2>3, SlotFacts DEF IInv, SlotsAreOrdered
  <2>5. th[p].at \in Filling
    BY <2>1 DEF Filling
  <2>6. slots[c].committed <= r.offset /\ slots[c].write = r.offset + r.size
    BY <2>1, <2>5 DEF IInv, ReservationIsNext
  <2>7. r.offset \in Nat /\ r.size \in Nat
    BY <2>5, FillingFacts DEF Unit
  <2> HIDE DEF c, r
  <2>8. slots'[c].committed >= slots[c].committed /\ slots'[c].committed <= slots'[c].write
        /\ slots'[c].published <= slots'[c].committed
    BY <2>2, <2>3, <2>4, <2>6, <2>7
  <2>9. Kept(c)
    BY <2>2, <2>8 DEF Kept
  <2>10. slots'[c].generation >= slots[c].generation
    BY <2>2, <2>3
  <2>11. SlotGoes(c)
    BY <2>2, <2>8, <2>9, <2>10 DEF SlotGoes
  <2> QED BY <2>1, <2>2, <2>11, RingIsKept, OneSlotGoes
<1>16. ASSUME NEW p \in Producer, LeaveCapture(p)
      PROVE  SlotsGo
  BY <1>16, RingIsKept, SameSlotsGo DEF LeaveCapture
<1>17. CASE RetainOwnership
  <2>1. RingKept
    BY <1>17, RingIsKept DEF RetainOwnership
  <2>2. UNCHANGED slots \/ \E c, n : Counted(c, n)
    BY <1>17, RetainSlots
  <2> QED BY <2>1, <2>2, SameSlotsGo, CountedGoes
<1>18. CASE ConfirmRetain
  BY <1>18, RingIsKept, SameSlotsGo DEF ConfirmRetain
<1>19. ASSUME NEW t \in Thread, ReleaseOwnership(t)
      PROVE  SlotsGo
  <2>1. RingKept
    BY <1>19, RingIsKept DEF ReleaseOwnership
  <2>2. \E c, n : Counted(c, n)
    BY <1>19, ReleaseSlots
  <2> QED BY <2>1, <2>2, CountedGoes
<1>20. ASSUME NEW t \in Thread, ClaimWaiter(t)
      PROVE  SlotsGo
  BY <1>20, RingIsKept, SameSlotsGo DEF ClaimWaiter
<1>21. ASSUME NEW t \in Thread, SignalWaiter(t)
      PROVE  SlotsGo
  BY <1>21, RingIsKept, SameSlotsGo DEF SignalWaiter
<1>22. ASSUME NEW t \in Thread, ExitReferenceCall(t)
      PROVE  SlotsGo
  BY <1>22, RingIsKept, SameSlotsGo DEF ExitReferenceCall
<1>23. CASE SeparateSpan
  BY <1>23, RingIsKept, SameSlotsGo DEF SeparateSpan
<1>24. ASSUME NEW r \in held["batch"], MergeSpan(r)
      PROVE  SlotsGo
  BY <1>24, RingIsKept, SameSlotsGo DEF MergeSpan
<1>25. ASSUME NEW r \in held["due"] \union Stale, Retain(r)
      PROVE  SlotsGo
  BY <1>25, RingIsKept, SameSlotsGo DEF Retain
<1>26. ASSUME NEW h \in Holder, NEW r \in held[h], Release(h, r)
      PROVE  SlotsGo
  BY <1>26, RingIsKept, SameSlotsGo DEF Release
<1>27. CASE PublishPendingVifBatch
  BY <1>27, RingIsKept, SameSlotsGo DEF PublishPendingVifBatch
<1>28. CASE ExecuteVU
  BY <1>28, RingIsKept, SameSlotsGo DEF ExecuteVU
<1>29. ASSUME NEW r \in path1.leaving, NEW intact \in BOOLEAN, LoadCommitted(r, intact)
      PROVE  SlotsGo
  <2>1. UNCHANGED slots /\ (ring' = ring \/ ring' = [ring EXCEPT !.accepting = FALSE])
    BY <1>29 DEF LoadCommitted
  <2> QED BY <2>1, RingIsKept, SameSlotsGo
<1>30. CASE StorePublished
  <2> DEFINE c == th["MTVU"].payload.slot
  <2>1. RingKept
    BY <1>30, RingIsKept DEF StorePublished
  <2>2. /\ OneSlot(c) /\ slots'[c].generation = slots[c].generation
        /\ slots'[c].committed = slots[c].committed
        /\ slots'[c].published <= slots[c].committed
        /\ slots'[c].write = slots[c].write /\ slots'[c].writer = slots[c].writer
    BY <1>30, PublishSlots
  <2> HIDE DEF c
  <2>3. /\ slots[c].generation \in 1 .. MaxGeneration
        /\ slots[c].committed \in 0 .. InputRingSlotSize /\ c \in Slot
        /\ slots[c].write \in 0 .. InputRingSlotSize
    BY <2>2, SlotFacts DEF OneSlot
  <2>4. /\ slots[c].published <= slots[c].committed
        /\ ring.initialized /\ c < ring.count => slots[c].committed <= slots[c].write
    BY <2>3 DEF IInv, SlotsAreOrdered
  <2>5. Kept(c)
    BY <2>2, <2>3 DEF Kept
  <2>6. ring'.initialized /\ c < ring'.count => slots'[c].committed <= slots'[c].write
    BY <2>1, <2>2, <2>4 DEF RingKept
  <2>7. slots'[c].generation >= slots[c].generation
    BY <2>2, <2>3
  <2>8. SlotGoes(c)
    BY <2>2, <2>5, <2>6, <2>7 DEF SlotGoes
  <2> QED BY <2>1, <2>2, <2>8, OneSlotGoes
<1>31. ASSUME NEW n \in 0 .. InputRingSlotCount, Initialize(n)
      PROVE  SlotsGo
  <2>1. /\ slots' \in [Slot -> SlotState]
        /\ \A s \in Slot : /\ slots'[s].generation >= slots[s].generation
                           /\ slots'[s].published <= slots'[s].committed
                           /\ s < n => slots'[s].committed = 0
    BY <1>31, InitializeSlots
  <2>2. ~ring.initialized /\ \A s \in Slot : slots[s].references = 0
    BY <1>31, InitializeStays
  <2>3. ring'.initialized = ring.initialized \/ ring'.count = n
    BY <1>31, RingFacts DEF Initialize
  <2>4. ASSUME NEW s \in Slot
        PROVE  SlotGoes(s)
    <3>1. Free(s)
      BY <2>2, UnownedIsFree
    <3>2. slots'[s] \in SlotState
      BY <2>1
    <3>3. slots'[s].write >= 0
      BY <3>2 DEF SlotState
    <3>4. ring'.initialized /\ s < ring'.count => slots'[s].committed <= slots'[s].write
      BY <2>1, <2>2, <2>3, <3>3
    <3> QED BY <2>1, <2>2, <3>1, <3>4 DEF SlotGoes
  <2> QED BY <2>1, <2>4 DEF SlotsGo
<1>32. CASE Unpublish
  BY <1>32, RingIsKept, SameSlotsGo DEF Unpublish
<1>33. CASE Stop
  BY <1>33, RingIsKept, SameSlotsGo DEF Stop
<1>34. CASE WakeWaiter
  BY <1>34, RingIsKept, SameSlotsGo DEF WakeWaiter
<1>35. CASE PollReferences
  BY <1>35, RingIsKept, SameSlotsGo DEF PollReferences
<1>36. CASE PollReferenceCalls
  BY <1>36, RingIsKept, SameSlotsGo DEF PollReferenceCalls
<1>37. CASE PollCaptureCalls
  BY <1>37, RingIsKept, SameSlotsGo DEF PollCaptureCalls
<1>38. CASE RefuseShutdown
  BY <1>38, RingIsKept, SameSlotsGo DEF RefuseShutdown
<1>39. CASE Unmap
  <2>1. /\ slots' \in [Slot -> SlotState]
        /\ \A s \in Slot : /\ slots'[s].generation = slots[s].generation
                           /\ slots'[s].committed = slots[s].committed
                           /\ slots'[s].published = slots[s].published
                           /\ slots'[s].writer = slots[s].writer
    BY <1>39, UnmapSlots
  <2>2. ring' = [ring EXCEPT !.current = 0, !.count = 0, !.initialized = FALSE]
    BY <1>39 DEF Unmap
  <2>3. ~ring'.initialized
    BY <2>2, RingFacts
  <2>4. ASSUME NEW s \in Slot
        PROVE  SlotGoes(s)
    <3>1. /\ slots[s].generation \in 1 .. MaxGeneration
          /\ slots[s].committed \in 0 .. InputRingSlotSize
      BY SlotFacts
    <3>2. slots[s].published <= slots[s].committed
      BY DEF IInv, SlotsAreOrdered
    <3>3. Kept(s) /\ slots'[s].generation >= slots[s].generation
      BY <2>1, <3>1 DEF Kept
    <3> QED BY <2>1, <2>3, <3>2, <3>3 DEF SlotGoes
  <2> QED BY <2>1, <2>4 DEF SlotsGo
<1>40. CASE UNCHANGED ringVars
  BY <1>40, RingIsKept, SameSlotsGo DEF ringVars
<1> QED
  BY <1>1, <1>2, <1>3, <1>4, <1>5, <1>6, <1>7, <1>8, <1>9, <1>10, <1>11, <1>12, 
     <1>13, <1>14, <1>15, <1>16, <1>17, <1>18, <1>19, <1>20, <1>21, <1>22, <1>23, 
     <1>24, <1>25, <1>26, <1>27, <1>28, <1>29, <1>30, <1>31, <1>32, <1>33, <1>34, 
     <1>35, <1>36, <1>37, <1>38, <1>39, <1>40, RunStays
     DEF RingNext, CaptureStep, ReferenceStep, FinishSpan, ShutdownStep

\* Every step keeps SlotsAreOrdered.
LEMMA SlotsOrderedStep ==
  ASSUME IInv, [Next]_vars
  PROVE  SlotsAreOrdered' /\ slots' \in [Slot -> SlotState]
<1>1. SlotsGo
  BY SlotStep
<1>2. ASSUME NEW s \in Slot
      PROVE  /\ slots'[s].generation >= 1 /\ slots'[s].published <= slots'[s].committed
             /\ ring'.initialized /\ s < ring'.count => slots'[s].committed <= slots'[s].write
  <2>1. slots[s].generation \in 1 .. MaxGeneration
    BY SlotFacts
  <2>2. SlotGoes(s) /\ slots'[s] \in SlotState
    BY <1>1 DEF SlotsGo
  <2>3. slots'[s].generation \in Int /\ slots'[s].generation >= slots[s].generation
    BY <2>2, Sizes0 DEF SlotGoes, SlotState
  <2>4. slots'[s].generation >= 1
    BY <2>1, <2>3, Sizes0
  <2> QED BY <2>2, <2>4 DEF SlotGoes
<1> QED BY <1>1, <1>2 DEF SlotsGo, SlotsAreOrdered

-----------------------------------------------------------------------------
(* The words of a running capture *)

LEMMA ReservePayload ==
  ASSUME IInv, NEW p \in Producer, Reserve(p), ~StopAccepting(p),
         NEW r, r = th'[p].payload, NEW c, c = ring.current
  PROVE  /\ p \in Thread /\ Moves(p) /\ th[p].at = "reserve" /\ UNCHANGED <<ring, held>>
         /\ r \in Payload /\ r.slot = c /\ r.offset = slots[c].write
         /\ r.generation = IF slots[c].references = 0 THEN slots[c].generation + 1
                                                      ELSE slots[c].generation
         /\ r.late = ~ring.active /\ r.offset + r.size <= InputRingSlotSize
         /\ th'[p].at = IF slots[c].references = 0 THEN "empty" ELSE "fill"
<1> DEFINE g == IF Current.references = 0 THEN Current.generation + 1 ELSE Current.generation
           q == [slot |-> ring.current, offset |-> Current.write, generation |-> g,
                 size |-> th[p].size, late |-> ~ring.active]
           x == [th[p] EXCEPT !.at = IF Current.references = 0 THEN "empty" ELSE "fill",
                              !.payload = q]
<1>1. th' = [th EXCEPT ![p] = x] /\ UNCHANGED <<ring, held>> /\ th[p].at = "reserve"
  BY DEF Reserve, At
<1>2. q \in Payload /\ q.offset + q.size <= InputRingSlotSize
  BY ReserveFacts
<1>3. q.slot = c /\ q.offset = slots[c].write /\ q.generation = g /\ q.late = ~ring.active
  BY DEF Current
<1>4. g = IF slots[c].references = 0 THEN slots[c].generation + 1 ELSE slots[c].generation
  BY DEF Current
<1> HIDE DEF g, q
<1>5. p \in Thread /\ th[p] \in ThreadState
  BY ThreadFacts
<1>6. /\ x \in ThreadState /\ x.payload = q
      /\ x.at = IF slots[c].references = 0 THEN "empty" ELSE "fill"
  BY <1>2, <1>5 DEF ThreadState, Where, Current
<1> HIDE DEF x
<1>7. Moves(p) /\ th'[p] = x
  BY <1>1, <1>5, <1>6, ReplaceFacts, ThreadFacts
<1>8. r = q
  BY <1>6, <1>7
<1> QED BY <1>1, <1>2, <1>3, <1>4, <1>5, <1>6, <1>7, <1>8

ReservedAt(q) ==
    LET r == th[q].payload
    IN  /\ r.slot = ring.current /\ r.offset + r.size <= InputRingSlotSize
        /\ th[q].at # "commit" => slots[r.slot].write = r.offset
        /\ th[q].at = "commit" =>
               /\ slots[r.slot].write = r.offset + r.size
               /\ \A u \in Covers(r) : slots[r.slot].writer[u] = r.generation
        /\ th[q].at # "empty" => slots[r.slot].committed <= r.offset
        /\ th[q].at = "empty" => slots[r.slot].references = 1

LEMMA ReservedStays ==
  ASSUME IInv, NEW q \in Producer, th[q].at \in Filling, th'[q] = th[q],
         ring'.current = ring.current, NEW c, c = th[q].payload.slot,
         slots'[c].write = slots[c].write, slots'[c].committed = slots[c].committed,
         slots'[c].writer = slots[c].writer,
         th[q].at = "empty" => slots'[c].references = slots[c].references
  PROVE  ReservedAt(q)'
<1>1. ReservedAt(q)
  BY DEF IInv, ReservationIsNext, ReservedAt
<1> QED BY <1>1 DEF ReservedAt, Covers

\* A step that fills nothing, and touches no slot
LEMMA ReservedFrame ==
  ASSUME IInv, NEW t \in Thread, Moves(t), th'[t].at \notin Filling, UNCHANGED slots,
         ring'.current = ring.current
  PROVE  ReservationIsNext'
<1> SUFFICES ASSUME NEW q \in Producer, th'[q].at \in Filling
             PROVE  ReservedAt(q)'
  BY DEF ReservationIsNext, ReservedAt
<1>1. q \in Thread /\ th'[q] = th[q]
  BY ThreadFacts DEF Moves
<1> QED BY <1>1, ReservedStays

\* A step of the producer that holds the lock
LEMMA ReservedByHolder ==
  ASSUME IInv, NEW p \in Producer, Moves(p), th[p].at \in Critical,
         th'[p].at \in Filling => ReservedAt(p)'
  PROVE  ReservationIsNext'
<1> SUFFICES ASSUME NEW q \in Producer, th'[q].at \in Filling
             PROVE  ReservedAt(q)'
  BY DEF ReservationIsNext, ReservedAt
<1>1. CASE q = p
  BY <1>1
<1>2. CASE q # p
  <2>1. q \in Thread /\ th'[q] = th[q]
    BY <1>2, ThreadFacts DEF Moves
  <2>2. th[q].at \in Critical
    BY <2>1 DEF Filling, Critical
  <2> QED BY <1>2, <2>2, OneProducer
<1> QED BY <1>1, <1>2

\* A step that changes a reference count, of a slot nobody is emptying
LEMMA ReservedCount ==
  ASSUME IInv, NEW t \in Thread, Moves(t), th'[t].at \notin Filling, UNCHANGED ring,
         NEW c, NEW n, Counted(c, n),
         \A q \in Producer : q # t /\ th[q].at = "empty" => th[q].payload.slot # c
  PROVE  ReservationIsNext'
<1> SUFFICES ASSUME NEW q \in Producer, th'[q].at \in Filling
             PROVE  ReservedAt(q)'
  BY DEF ReservationIsNext, ReservedAt
<1>1. q \in Thread /\ q # t /\ th'[q] = th[q] /\ th[q].at \in Filling
  BY ThreadFacts DEF Moves
<1> DEFINE d == th[q].payload.slot
<1>2. d \in Slot
  BY <1>1, FillingFacts
<1>3. CASE d = c
  <2>1. th[q].at # "empty" /\ slots'[d].write = slots[d].write
        /\ slots'[d].committed = slots[d].committed /\ slots'[d].writer = slots[d].writer
    BY <1>1, <1>3 DEF Counted
  <2> QED BY <1>1, <2>1, ReservedStays
<1>4. CASE d # c
  <2>1. slots'[d] = slots[d]
    BY <1>2, <1>4 DEF Counted, OneSlot
  <2> QED BY <1>1, <2>1, ReservedStays
<1> QED BY <1>3, <1>4

\* Every step keeps ReservationIsNext.
LEMMA ReservationStep ==
  ASSUME IInv, [Next]_vars
  PROVE  ReservationIsNext'
<1>1. ASSUME NEW p \in Producer, CaptureRawVifPayload(p)
      PROVE  ReservationIsNext'
  <2>1. UNCHANGED <<slots, ring>>
    BY <1>1 DEF CaptureRawVifPayload
  <2> QED BY <1>1, <2>1, CaptureRawVifPayloadGoes, ReservedFrame DEF Filling
<1>2. ASSUME NEW p \in Producer, LoadActiveRing(p)
      PROVE  ReservationIsNext'
  <2>1. UNCHANGED <<slots, ring>>
    BY <1>2 DEF LoadActiveRing
  <2> QED BY <1>2, <2>1, LoadActiveRingGoes, ReservedFrame DEF Goes, Filling
<1>3. ASSUME NEW p \in Producer, LockCapture(p)
      PROVE  ReservationIsNext'
  <2>1. UNCHANGED <<slots, ring>>
    BY <1>3 DEF LockCapture
  <2> QED BY <1>3, <2>1, LockCaptureGoes, ReservedFrame DEF Goes, Filling
<1>4. ASSUME NEW p \in Producer, TestAccepting(p)
      PROVE  ReservationIsNext'
  <2>1. UNCHANGED <<slots, ring>>
    BY <1>4 DEF TestAccepting
  <2> QED BY <1>4, <2>1, TestAcceptingGoes, ReservedFrame DEF Goes, Filling
<1>5. ASSUME NEW p \in Producer, Reserve(p)
      PROVE  ReservationIsNext'
  <2> DEFINE c == ring.current
             r == th'[p].payload
  <2>1. p \in Thread /\ Moves(p) /\ th[p].at \in Critical
    BY <1>5, ReserveGoes DEF Critical
  <2>2. CASE StopAccepting(p)
    <3>1. th'[p].at \notin Filling
      BY <1>5, <2>2, ReserveGoes DEF Filling
    <3> QED BY <2>1, <3>1, ReservedByHolder
  <2>3. CASE ~StopAccepting(p)
    <3>1. /\ r.slot = c /\ r.offset = slots[c].write /\ UNCHANGED ring
          /\ r.offset + r.size <= InputRingSlotSize
          /\ th'[p].at = IF slots[c].references = 0 THEN "empty" ELSE "fill"
      BY <1>5, <2>3, ReservePayload
    <3>2. /\ slots'[c].references = slots[c].references + 1
          /\ slots'[c].committed = slots[c].committed
          /\ slots'[c].write = slots[c].write
      BY <1>5, <2>3, ReserveSlots
    <3>3. ring.initialized /\ c < ring.count /\ c \in Slot
      BY <2>1, CaptureIsMapped, RingFacts
    <3>4. slots[c].committed <= slots[c].write
      BY <3>3 DEF IInv, SlotsAreOrdered
    <3>5. th'[p].at = "empty" => slots'[c].references = 1
      BY <3>1, <3>2
    <3>6. th'[p].at # "commit" /\ ring'.current = c
      BY <3>1
    <3> HIDE DEF r, c
    <3>7. ReservedAt(p)'
      BY <3>1, <3>2, <3>4, <3>5, <3>6 DEF ReservedAt, r
    <3> QED BY <2>1, <3>7, ReservedByHolder
  <2> QED BY <2>2, <2>3
<1>6. ASSUME NEW p \in Producer, BeginGeneration(p)
      PROVE  ReservationIsNext'
  <2> DEFINE r == th[p].payload
             c == r.slot
  <2>1. UNCHANGED ring /\ Goes(p, "empty", {"fill"})
    BY <1>6, BeginGenerationGoes DEF BeginGeneration
  <2>2. /\ p \in Thread /\ Moves(p) /\ th[p].at \in Critical /\ th'[p].at = "fill"
        /\ th'[p].payload = r /\ th[p].at \in Filling /\ th[p].at = "empty"
    BY <2>1 DEF Goes, Critical, Filling
  <2>3. c = ring.current /\ r.offset \in Nat
    BY <2>2, FillingFacts DEF Unit
  <2>4. slots'[c].committed = 0 /\ slots'[c].write = slots[c].write
    BY <1>6, <2>3, BeginSlots
  <2>5. r.offset + r.size <= InputRingSlotSize /\ slots[c].write = r.offset
    BY <2>2 DEF IInv, ReservationIsNext
  <2> HIDE DEF r, c
  <2>6. slots'[c].committed <= r.offset
    BY <2>3, <2>4
  <2>7. ReservedAt(p)'
    BY <2>1, <2>2, <2>3, <2>4, <2>5, <2>6 DEF ReservedAt, c
  <2> QED BY <2>2, <2>7, ReservedByHolder
<1>7. ASSUME NEW p \in Producer, NEW intact \in BOOLEAN, Recycle(p, intact)
      PROVE  ReservationIsNext'
  <2>1. Goes(p, "reserve", {"loop", "leave"})
    BY <1>7, RecycleGoes
  <2>2. Moves(p) /\ th[p].at \in Critical /\ th'[p].at \notin Filling
    BY <2>1 DEF Goes, Critical, Filling
  <2> QED BY <2>2, ReservedByHolder
<1>8. ASSUME NEW p \in Producer, FindOwned(p)
      PROVE  ReservationIsNext'
  <2>1. UNCHANGED <<slots, ring>>
    BY <1>8 DEF FindOwned
  <2> QED BY <1>8, <2>1, FindOwnedGoes, ReservedFrame DEF Goes, Filling
<1>9. ASSUME NEW p \in Producer, ArmWaiter(p)
      PROVE  ReservationIsNext'
  <2>1. UNCHANGED <<slots, ring>>
    BY <1>9 DEF ArmWaiter
  <2> QED BY <1>9, <2>1, ArmWaiterGoes, ReservedFrame DEF Goes, Filling
<1>10. ASSUME NEW p \in Producer, Recheck(p)
      PROVE  ReservationIsNext'
  <2>1. UNCHANGED <<slots, ring>>
    BY <1>10 DEF Recheck
  <2> QED BY <1>10, <2>1, RecheckGoes, ReservedFrame DEF Goes, Filling
<1>11. ASSUME NEW p \in Producer, Disarm(p)
      PROVE  ReservationIsNext'
  <2>1. UNCHANGED <<slots, ring>>
    BY <1>11 DEF Disarm
  <2> QED BY <1>11, <2>1, DisarmGoes, ReservedFrame DEF Goes, Filling
<1>12. ASSUME NEW p \in Producer, RequestGpuVuInputRetirement(p)
      PROVE  ReservationIsNext'
  <2>1. UNCHANGED <<slots, ring>>
    BY <1>12 DEF RequestGpuVuInputRetirement
  <2> QED BY <1>12, <2>1, RequestGpuVuInputRetirementGoes, ReservedFrame DEF Goes, Filling
<1>13. ASSUME NEW p \in Producer, WaitSlotReleased(p)
      PROVE  ReservationIsNext'
  <2>1. UNCHANGED <<slots, ring>>
    BY <1>13 DEF WaitSlotReleased
  <2> QED BY <1>13, <2>1, WaitSlotReleasedGoes, ReservedFrame DEF Goes, Filling
<1>14. ASSUME NEW p \in Producer, Fill(p)
      PROVE  ReservationIsNext'
  <2> DEFINE r == th[p].payload
             c == r.slot
  <2>1. UNCHANGED ring /\ Goes(p, "fill", {"commit"})
    BY <1>14, FillGoes DEF Fill
  <2>2. /\ p \in Thread /\ Moves(p) /\ th[p].at \in Critical /\ th'[p].at = "commit"
        /\ th'[p].payload = r /\ th[p].at \in Filling /\ th[p].at = "fill"
    BY <2>1 DEF Goes, Critical, Filling
  <2>3. /\ c = ring.current /\ r.offset \in Unit /\ r.size \in 1 .. InputRingSlotSize
        /\ r.offset + r.size <= InputRingSlotSize
    BY <2>2, FillingFacts
  <2>4. /\ slots'[c].committed = slots[c].committed /\ slots'[c].write = r.offset + r.size
        /\ \A u \in Unit : slots'[c].writer[u] =
                IF u \in Covers(r) THEN r.generation ELSE slots[c].writer[u]
    BY <1>14, FillSlots
  <2>5. slots[c].committed <= r.offset
    BY <2>2 DEF IInv, ReservationIsNext
  <2> HIDE DEF r, c
  <2>6. \A u \in Covers(r) : u \in Unit
    BY <2>3, Sizes0 DEF Covers, Unit
  <2>7. \A u \in Covers(r) : slots'[c].writer[u] = r.generation
    BY <2>4, <2>6
  <2>8. ReservedAt(p)'
    BY <2>1, <2>2, <2>3, <2>4, <2>5, <2>7 DEF ReservedAt, c
  <2> QED BY <2>2, <2>8, ReservedByHolder
<1>15. ASSUME NEW p \in Producer, Commit(p)
      PROVE  ReservationIsNext'
  <2>1. Moves(p) /\ th[p].at \in Critical /\ th'[p].at \notin Filling
    BY <1>15, CommitGoes DEF Critical, Filling
  <2> QED BY <2>1, ReservedByHolder
<1>16. ASSUME NEW p \in Producer, LeaveCapture(p)
      PROVE  ReservationIsNext'
  <2>1. UNCHANGED <<slots, ring>>
    BY <1>16 DEF LeaveCapture
  <2>2. p \in Thread /\ Moves(p) /\ th'[p].at \notin Filling
    BY <1>16, LeaveCaptureGoes DEF Filling
  <2> QED BY <2>1, <2>2, ReservedFrame
<1>17. CASE RetainOwnership
  <2> DEFINE r == th["MTVU"].payload
             c == r.slot
  <2>1. "MTVU" \in Thread /\ Moves("MTVU") /\ th'["MTVU"].at \notin Filling /\ UNCHANGED ring
    BY <1>17, RetainOwnershipGoes DEF Goes, Filling, RetainOwnership
  <2>2. CASE UNCHANGED slots
    BY <2>1, <2>2, ReservedFrame
  <2>3. CASE ~UNCHANGED slots
    <3>1. /\ r \in Payload /\ c \in Slot /\ th["MTVU"].at = "retain"
          /\ Counted(c, slots[c].references + 1) /\ slots[c].generation = r.generation
      BY <1>17, <2>3, RetainSlots
    <3>2. r \in held["due"]
      <4>1. \/ r \in held["due"]
            \/ r.generation < slots[c].generation
        BY <3>1 DEF IInv, HoldersAreDistinct
      <4>2. slots[c].generation \in Int
        BY <3>1, SlotFacts
      <4> QED BY <3>1, <4>1, <4>2
    <3>3. ASSUME NEW q \in Producer, q # "MTVU", th[q].at = "empty"
          PROVE  th[q].payload.slot # c
      <4>1. th[q].at \in Filling /\ th[q].at \in Pinning /\ q \in Thread
        BY <3>3, ThreadFacts DEF Filling, Pinning
      <4>2. slots[th[q].payload.slot].references = 1
        BY <3>3, <4>1 DEF IInv, ReservationIsNext
      <4>3. "due" \in Holder /\ th[q].payload.slot \in Slot
        BY <4>1, FillingFacts DEF Holder
      <4> QED BY <3>1, <3>2, <4>1, <4>2, <4>3, Alone
    <3> HIDE DEF r, c
    <3> QED BY <2>1, <3>1, <3>3, ReservedCount
  <2> QED BY <2>2, <2>3
<1>18. CASE ConfirmRetain
  <2>1. UNCHANGED <<slots, ring>>
    BY <1>18 DEF ConfirmRetain
  <2> QED BY <1>18, <2>1, ConfirmRetainGoes, ReservedFrame DEF Goes, Filling
<1>19. ASSUME NEW t \in Thread, ReleaseOwnership(t)
      PROVE  ReservationIsNext'
  <2> DEFINE r == th[t].payload
             c == r.slot
  <2>1. Moves(t) /\ th'[t].at \notin Filling /\ UNCHANGED ring /\ th[t].at \in Pinning
    BY <1>19, ReleaseOwnershipGoes DEF Goes, Filling, ReleaseOwnership, Pinning
  <2>2. r \in Payload /\ c \in Slot /\ Counted(c, slots[c].references - 1)
    BY <1>19, ReleaseSlots
  <2>3. ASSUME NEW q \in Producer, q # t, th[q].at = "empty"
        PROVE  th[q].payload.slot # c
    <3>1. th[q].at \in Filling /\ th[q].at \in Pinning /\ q \in Thread
      BY <2>3, ThreadFacts DEF Filling, Pinning
    <3>2. slots[th[q].payload.slot].references = 1 /\ th[q].payload.slot \in Slot
      BY <2>3, <3>1, FillingFacts DEF IInv, ReservationIsNext
    <3> QED BY <2>1, <2>2, <2>3, <3>1, <3>2, Alone
  <2> HIDE DEF r, c
  <2> QED BY <2>1, <2>2, <2>3, ReservedCount
<1>20. ASSUME NEW t \in Thread, ClaimWaiter(t)
      PROVE  ReservationIsNext'
  <2>1. UNCHANGED <<slots, ring>>
    BY <1>20 DEF ClaimWaiter
  <2> QED BY <1>20, <2>1, ClaimWaiterGoes, ReservedFrame DEF Goes, Filling
<1>21. ASSUME NEW t \in Thread, SignalWaiter(t)
      PROVE  ReservationIsNext'
  <2>1. UNCHANGED <<slots, ring>>
    BY <1>21 DEF SignalWaiter
  <2> QED BY <1>21, <2>1, SignalWaiterGoes, ReservedFrame DEF Goes, Filling
<1>22. ASSUME NEW t \in Thread, ExitReferenceCall(t)
      PROVE  ReservationIsNext'
  <2>1. UNCHANGED <<slots, ring>>
    BY <1>22 DEF ExitReferenceCall
  <2> QED BY <1>22, <2>1, ExitReferenceCallGoes, ReservedFrame DEF Filling
<1>23. CASE SeparateSpan
  <2>1. UNCHANGED <<slots, ring>>
    BY <1>23 DEF SeparateSpan
  <2> QED BY <1>23, <2>1, SeparateSpanGoes, ReservedFrame DEF Filling
<1>24. ASSUME NEW r \in held["batch"], MergeSpan(r)
      PROVE  ReservationIsNext'
  <2>1. UNCHANGED <<slots, ring>>
    BY <1>24 DEF MergeSpan
  <2> QED BY <1>24, <2>1, MergeSpanGoes, ReservedFrame DEF Filling
<1>25. ASSUME NEW r \in held["due"] \union Stale, Retain(r)
      PROVE  ReservationIsNext'
  <2>1. UNCHANGED <<slots, ring>>
    BY <1>25 DEF Retain
  <2> QED BY <1>25, <2>1, RetainGoes, ReservedFrame DEF Filling
<1>26. ASSUME NEW h \in Holder, NEW r \in held[h], Release(h, r)
      PROVE  ReservationIsNext'
  <2> DEFINE t == Owner(h)
  <2>1. UNCHANGED <<slots, ring>>
    BY <1>26 DEF Release
  <2>2. t \in Thread /\ Moves(t) /\ th'[t].at \notin Filling
    BY <1>26, ReleaseGoes DEF Filling
  <2> HIDE DEF t
  <2> QED BY <2>1, <2>2, ReservedFrame
<1>27. CASE PublishPendingVifBatch
  BY <1>27 DEF PublishPendingVifBatch, IInv, ReservationIsNext, Covers
<1>28. CASE ExecuteVU
  BY <1>28 DEF ExecuteVU, IInv, ReservationIsNext, Covers
<1>29. ASSUME NEW r \in path1.leaving, NEW intact \in BOOLEAN, LoadCommitted(r, intact)
      PROVE  ReservationIsNext'
  <2>1. UNCHANGED slots /\ (ring' = ring \/ ring' = [ring EXCEPT !.accepting = FALSE])
    BY <1>29 DEF LoadCommitted
  <2>2. ring'.current = ring.current
    BY <2>1, RingFacts
  <2>3. "MTVU" \in Thread /\ Moves("MTVU") /\ th'["MTVU"].at \notin Filling
    BY <1>29, LoadCommittedGoes DEF Filling
  <2> QED BY <2>1, <2>2, <2>3, ReservedFrame
<1>30. CASE StorePublished
  <2> DEFINE c == th["MTVU"].payload.slot
  <2>1. UNCHANGED ring /\ Moves("MTVU") /\ th'["MTVU"].at \notin Filling
    BY <1>30, StorePublishedGoes DEF StorePublished, Filling
  <2>2. /\ OneSlot(c) /\ slots'[c].references = slots[c].references
        /\ slots'[c].committed = slots[c].committed
        /\ slots'[c].write = slots[c].write /\ slots'[c].writer = slots[c].writer
    BY <1>30, PublishSlots
  <2> HIDE DEF c
  <2>3. ASSUME NEW q \in Producer, th'[q].at \in Filling
        PROVE  ReservedAt(q)'
    <3>1. th'[q] = th[q] /\ th[q].at \in Filling
      BY <2>1, <2>3 DEF Moves, Thread, Producer
    <3> DEFINE d == th[q].payload.slot
    <3>2. d \in Slot
      BY <3>1, FillingFacts
    <3>3. /\ slots'[d].references = slots[d].references
          /\ slots'[d].committed = slots[d].committed
          /\ slots'[d].write = slots[d].write /\ slots'[d].writer = slots[d].writer
      BY <2>2, <3>2 DEF OneSlot
    <3> QED BY <2>1, <3>1, <3>3, ReservedStays
  <2> QED BY <2>3 DEF ReservationIsNext, ReservedAt
<1>31. ASSUME NEW n \in 0 .. InputRingSlotCount, Initialize(n)
      PROVE  ReservationIsNext'
  <2>1. th' = th /\ \A t \in Thread : th[t].at = "idle"
    BY <1>31, InitializeStays
  <2> QED BY <2>1, ThreadFacts DEF ReservationIsNext, Filling
<1>32. CASE Unpublish
  <2>1. UNCHANGED slots /\ ring' = [ring EXCEPT !.active = FALSE]
    BY <1>32 DEF Unpublish
  <2>2. ring'.current = ring.current
    BY <2>1, RingFacts
  <2> QED BY <1>32, <2>1, <2>2, UnpublishGoes, ReservedFrame DEF Goes, Filling
<1>33. CASE Stop
  <2>1. UNCHANGED slots /\ ring' = [ring EXCEPT !.accepting = FALSE]
    BY <1>33 DEF Stop
  <2>2. ring'.current = ring.current
    BY <2>1, RingFacts
  <2> QED BY <1>33, <2>1, <2>2, StopGoes, ReservedFrame DEF Goes, Filling
<1>34. CASE WakeWaiter
  <2>1. UNCHANGED <<slots, ring>>
    BY <1>34 DEF WakeWaiter
  <2> QED BY <1>34, <2>1, WakeWaiterGoes, ReservedFrame DEF Goes, Filling
<1>35. CASE PollReferences
  <2>1. UNCHANGED <<slots, ring>>
    BY <1>35 DEF PollReferences
  <2> QED BY <1>35, <2>1, PollReferencesGoes, ReservedFrame DEF Goes, Filling
<1>36. CASE PollReferenceCalls
  <2>1. UNCHANGED <<slots, ring>>
    BY <1>36 DEF PollReferenceCalls
  <2> QED BY <1>36, <2>1, PollReferenceCallsGoes, ReservedFrame DEF Goes, Filling
<1>37. CASE PollCaptureCalls
  <2>1. UNCHANGED <<slots, ring>>
    BY <1>37 DEF PollCaptureCalls
  <2> QED BY <1>37, <2>1, PollCaptureCallsGoes, ReservedFrame DEF Goes, Filling
<1>38. CASE RefuseShutdown
  <2>1. UNCHANGED <<slots, ring>>
    BY <1>38 DEF RefuseShutdown
  <2> QED BY <1>38, <2>1, RefuseShutdownGoes, ReservedFrame DEF Goes, Filling
<1>39. CASE Unmap
  <2>1. Goes("GS", "unmap", {"idle"})
    BY <1>39, UnmapGoes
  <2>2. \A q \in Producer : th[q].at \notin Filling
    BY <2>1 DEF Goes, IInv, RingLife, Critical, Filling
  <2>3. \A q \in Producer : th'[q] = th[q]
    BY <2>1 DEF Goes, Moves, Producer, Thread
  <2> QED BY <2>2, <2>3 DEF ReservationIsNext
<1>40. CASE UNCHANGED ringVars
  BY <1>40 DEF ringVars, IInv, ReservationIsNext, Covers
<1> QED
  BY <1>1, <1>2, <1>3, <1>4, <1>5, <1>6, <1>7, <1>8, <1>9, <1>10, <1>11, <1>12, 
     <1>13, <1>14, <1>15, <1>16, <1>17, <1>18, <1>19, <1>20, <1>21, <1>22, <1>23, 
     <1>24, <1>25, <1>26, <1>27, <1>28, <1>29, <1>30, <1>31, <1>32, <1>33, <1>34, 
     <1>35, <1>36, <1>37, <1>38, <1>39, <1>40, RunStays
     DEF RingNext, CaptureStep, ReferenceStep, FinishSpan, ShutdownStep

-----------------------------------------------------------------------------
(* What threads pin *)

AllQuiet ==
    /\ th' = th /\ held' = held /\ \A t \in Thread : th[t].at = "idle"
    /\ \A s \in Slot : slots[s].references = 0

\* Initialize() runs while nobody is anywhere.
LEMMA RingStep ==
  ASSUME IInv, [Next]_vars
  PROVE  (RingKept \/ AllQuiet)
<1>1. ASSUME NEW p \in Producer, CaptureRawVifPayload(p)
      PROVE  (RingKept \/ AllQuiet)
  BY <1>1, RingIsKept DEF CaptureRawVifPayload
<1>2. ASSUME NEW p \in Producer, LoadActiveRing(p)
      PROVE  (RingKept \/ AllQuiet)
  BY <1>2, RingIsKept DEF LoadActiveRing
<1>3. ASSUME NEW p \in Producer, LockCapture(p)
      PROVE  (RingKept \/ AllQuiet)
  BY <1>3, RingIsKept DEF LockCapture
<1>4. ASSUME NEW p \in Producer, TestAccepting(p)
      PROVE  (RingKept \/ AllQuiet)
  BY <1>4, RingIsKept DEF TestAccepting
<1>5. ASSUME NEW p \in Producer, Reserve(p)
      PROVE  (RingKept \/ AllQuiet)
  <2>1. ring' = ring \/ ring' = [ring EXCEPT !.accepting = FALSE]
    BY <1>5 DEF Reserve, StopAccepting
  <2> QED BY <2>1, RingIsKept
<1>6. ASSUME NEW p \in Producer, BeginGeneration(p)
      PROVE  (RingKept \/ AllQuiet)
  BY <1>6, RingIsKept DEF BeginGeneration
<1>7. ASSUME NEW p \in Producer, NEW intact \in BOOLEAN, Recycle(p, intact)
      PROVE  (RingKept \/ AllQuiet)
  <2>1. \/ ring' = [ring EXCEPT !.accepting = FALSE]
        \/ ring' = [ring EXCEPT !.current = NextSlot]
    BY <1>7 DEF Recycle, StopAccepting
  <2> QED BY <2>1, RingIsKept
<1>8. ASSUME NEW p \in Producer, FindOwned(p)
      PROVE  (RingKept \/ AllQuiet)
  BY <1>8, RingIsKept DEF FindOwned
<1>9. ASSUME NEW p \in Producer, ArmWaiter(p)
      PROVE  (RingKept \/ AllQuiet)
  BY <1>9, RingIsKept DEF ArmWaiter
<1>10. ASSUME NEW p \in Producer, Recheck(p)
      PROVE  (RingKept \/ AllQuiet)
  BY <1>10, RingIsKept DEF Recheck
<1>11. ASSUME NEW p \in Producer, Disarm(p)
      PROVE  (RingKept \/ AllQuiet)
  BY <1>11, RingIsKept DEF Disarm
<1>12. ASSUME NEW p \in Producer, RequestGpuVuInputRetirement(p)
      PROVE  (RingKept \/ AllQuiet)
  BY <1>12, RingIsKept DEF RequestGpuVuInputRetirement
<1>13. ASSUME NEW p \in Producer, WaitSlotReleased(p)
      PROVE  (RingKept \/ AllQuiet)
  BY <1>13, RingIsKept DEF WaitSlotReleased
<1>14. ASSUME NEW p \in Producer, Fill(p)
      PROVE  (RingKept \/ AllQuiet)
  BY <1>14, RingIsKept DEF Fill
<1>15. ASSUME NEW p \in Producer, Commit(p)
      PROVE  (RingKept \/ AllQuiet)
  BY <1>15, RingIsKept DEF Commit
<1>16. ASSUME NEW p \in Producer, LeaveCapture(p)
      PROVE  (RingKept \/ AllQuiet)
  BY <1>16, RingIsKept DEF LeaveCapture
<1>17. CASE RetainOwnership
  BY <1>17, RingIsKept DEF RetainOwnership
<1>18. CASE ConfirmRetain
  BY <1>18, RingIsKept DEF ConfirmRetain
<1>19. ASSUME NEW t \in Thread, ReleaseOwnership(t)
      PROVE  (RingKept \/ AllQuiet)
  BY <1>19, RingIsKept DEF ReleaseOwnership
<1>20. ASSUME NEW t \in Thread, ClaimWaiter(t)
      PROVE  (RingKept \/ AllQuiet)
  BY <1>20, RingIsKept DEF ClaimWaiter
<1>21. ASSUME NEW t \in Thread, SignalWaiter(t)
      PROVE  (RingKept \/ AllQuiet)
  BY <1>21, RingIsKept DEF SignalWaiter
<1>22. ASSUME NEW t \in Thread, ExitReferenceCall(t)
      PROVE  (RingKept \/ AllQuiet)
  BY <1>22, RingIsKept DEF ExitReferenceCall
<1>23. CASE SeparateSpan
  BY <1>23, RingIsKept DEF SeparateSpan
<1>24. ASSUME NEW r \in held["batch"], MergeSpan(r)
      PROVE  (RingKept \/ AllQuiet)
  BY <1>24, RingIsKept DEF MergeSpan
<1>25. ASSUME NEW r \in held["due"] \union Stale, Retain(r)
      PROVE  (RingKept \/ AllQuiet)
  BY <1>25, RingIsKept DEF Retain
<1>26. ASSUME NEW h \in Holder, NEW r \in held[h], Release(h, r)
      PROVE  (RingKept \/ AllQuiet)
  BY <1>26, RingIsKept DEF Release
<1>27. CASE PublishPendingVifBatch
  BY <1>27, RingIsKept DEF PublishPendingVifBatch
<1>28. CASE ExecuteVU
  BY <1>28, RingIsKept DEF ExecuteVU
<1>29. ASSUME NEW r \in path1.leaving, NEW intact \in BOOLEAN, LoadCommitted(r, intact)
      PROVE  (RingKept \/ AllQuiet)
  <2>1. ring' = ring \/ ring' = [ring EXCEPT !.accepting = FALSE]
    BY <1>29 DEF LoadCommitted
  <2> QED BY <2>1, RingIsKept
<1>30. CASE StorePublished
  BY <1>30, RingIsKept DEF StorePublished
<1>31. ASSUME NEW n \in 0 .. InputRingSlotCount, Initialize(n)
      PROVE  (RingKept \/ AllQuiet)
  BY <1>31, InitializeStays DEF AllQuiet
<1>32. CASE Unpublish
  BY <1>32, RingIsKept DEF Unpublish
<1>33. CASE Stop
  BY <1>33, RingIsKept DEF Stop
<1>34. CASE WakeWaiter
  BY <1>34, RingIsKept DEF WakeWaiter
<1>35. CASE PollReferences
  BY <1>35, RingIsKept DEF PollReferences
<1>36. CASE PollReferenceCalls
  BY <1>36, RingIsKept DEF PollReferenceCalls
<1>37. CASE PollCaptureCalls
  BY <1>37, RingIsKept DEF PollCaptureCalls
<1>38. CASE RefuseShutdown
  BY <1>38, RingIsKept DEF RefuseShutdown
<1>39. CASE Unmap
  BY <1>39, RingIsKept DEF Unmap
<1>40. CASE UNCHANGED ringVars
  BY <1>40, RingIsKept DEF ringVars
<1> QED
  BY <1>1, <1>2, <1>3, <1>4, <1>5, <1>6, <1>7, <1>8, <1>9, <1>10, <1>11, <1>12, 
     <1>13, <1>14, <1>15, <1>16, <1>17, <1>18, <1>19, <1>20, <1>21, <1>22, <1>23, 
     <1>24, <1>25, <1>26, <1>27, <1>28, <1>29, <1>30, <1>31, <1>32, <1>33, <1>34, 
     <1>35, <1>36, <1>37, <1>38, <1>39, <1>40, RunStays
     DEF RingNext, CaptureStep, ReferenceStep, FinishSpan, ShutdownStep

PinOf(x) == IF x.at \in Pinning THEN x.payload ELSE NoPayload

\* Shutdown() has seen every reference gone.
Drained == ~ring.initialized \/ th["GS"].at \in {"reference_calls", "capture_calls", "unmap"}

NewPin(r) ==
    /\ r \in Payload /\ r.generation = slots'[r.slot].generation
    /\ ring'.initialized => r.slot < ring'.count
    /\ Drained => r.late

PinGoes(t) ==
    \/ PinOf(th'[t]) = NoPayload \/ PinOf(th'[t]) = PinOf(th[t])
    \/ NewPin(PinOf(th'[t]))

LEMMA PinFrame ==
  ASSUME NEW t \in Thread, Moves(t), PinGoes(t)
  PROVE  \A u \in Thread : PinGoes(u)
BY DEF Moves, PinGoes

\* What a holder has is current, and late when it should be.
LEMMA HeldIsCurrent ==
  ASSUME IInv, NEW h \in Holder, NEW r \in held[h]
  PROVE  /\ r \in Payload /\ r.slot \in Slot /\ r \in Live
         /\ r.generation = slots[r.slot].generation
         /\ slots[r.slot].references # 0
         /\ ring.initialized => r.slot < ring.count
         /\ Drained => r.late
<1>1. r \in Live
  BY DEF Live
<1>2. r.generation = slots[r.slot].generation /\ (ring.initialized => r.slot < ring.count)
  BY <1>1 DEF IInv, LiveIsWhole
<1>3. r \in Payload /\ r.slot \in Slot
  BY HeldFacts, SlotFacts
<1>4. Drained => r.late
  BY DEF Drained, IInv, LeftIsLate
<1>5. slots[r.slot].references # 0
  BY <1>3, Unowned
<1> QED BY <1>1, <1>2, <1>3, <1>4, <1>5

\* A payload is no NoPayload.
LEMMA PayloadIsOne ==
  ASSUME NEW r \in Payload
  PROVE  r # NoPayload /\ r.slot \in Slot /\ r.slot # NoSlot
BY DEF Payload, NoPayload, Slot, NoSlot

\* A step that pins a payload pins a current one.
LEMMA PinStep ==
  ASSUME IInv, [Next]_vars
  PROVE  (\A u \in Thread : PinGoes(u))
<1>1. ASSUME NEW p \in Producer, CaptureRawVifPayload(p)
      PROVE  (\A u \in Thread : PinGoes(u))
  <2>1. PinGoes(p)
    BY <1>1, CaptureRawVifPayloadGoes DEF PinGoes, PinOf, Pinning
  <2> QED BY <1>1, <2>1, CaptureRawVifPayloadGoes, PinFrame
<1>2. ASSUME NEW p \in Producer, LoadActiveRing(p)
      PROVE  (\A u \in Thread : PinGoes(u))
  <2>1. p \in Thread /\ Moves(p) /\ th[p].at = "load" /\ th'[p].payload = th[p].payload
    BY <1>2, LoadActiveRingGoes DEF Goes
  <2>2. th[p].payload = NoPayload
    BY <2>1, ThreadFacts DEF ThreadIsTyped, Asking, InCapture, Critical
  <2>3. PinGoes(p)
    BY <2>1, <2>2 DEF PinGoes, PinOf
  <2> QED BY <2>1, <2>3, PinFrame
<1>3. ASSUME NEW p \in Producer, LockCapture(p)
      PROVE  (\A u \in Thread : PinGoes(u))
  <2>1. PinGoes(p)
    BY <1>3, LockCaptureGoes DEF Goes, PinGoes, PinOf, Pinning
  <2> QED BY <1>3, <2>1, LockCaptureGoes, PinFrame DEF Goes
<1>4. ASSUME NEW p \in Producer, TestAccepting(p)
      PROVE  (\A u \in Thread : PinGoes(u))
  <2>1. p \in Thread /\ Moves(p) /\ th[p].at = "loop" /\ th'[p].payload = th[p].payload
    BY <1>4, TestAcceptingGoes DEF Goes
  <2>2. th[p].payload = NoPayload
    BY <2>1, ThreadFacts DEF ThreadIsTyped, Asking, InCapture, Critical
  <2>3. PinGoes(p)
    BY <2>1, <2>2 DEF PinGoes, PinOf
  <2> QED BY <2>1, <2>3, PinFrame
<1>5. ASSUME NEW p \in Producer, Reserve(p)
      PROVE  (\A u \in Thread : PinGoes(u))
  <2>1. CASE StopAccepting(p)
    <3>1. p \in Thread /\ Moves(p) /\ th'[p].payload = NoPayload
      BY <1>5, <2>1, ReserveGoes, ZenonT(60)
    <3>2. PinGoes(p)
      BY <3>1 DEF PinGoes, PinOf
    <3> QED BY <3>1, <3>2, PinFrame
  <2>2. CASE ~StopAccepting(p)
    <3> DEFINE c == ring.current
               r == th'[p].payload
    <3>1. /\ p \in Thread /\ Moves(p) /\ th[p].at = "reserve" /\ UNCHANGED ring
          /\ r \in Payload /\ r.slot = c
          /\ r.generation = IF slots[c].references = 0 THEN slots[c].generation + 1
                                                       ELSE slots[c].generation
          /\ r.late = ~ring.active /\ th'[p].at \in {"empty", "fill"}
      BY <1>5, <2>2, ReservePayload
    <3>2. slots'[c].generation = IF Current.references = 0 THEN Current.generation + 1
                                                          ELSE Current.generation
      BY <1>5, <2>2, ReserveSlots
    <3>3. r.generation = slots'[c].generation
      BY <3>1, <3>2 DEF Current
    <3>4. ring.initialized /\ c < ring.count
      BY <3>1, CaptureIsMapped, RingFacts DEF Critical
    <3>5. Drained => r.late
      BY <3>1, <3>4 DEF Drained, IInv, RingLife, InShutdown
    <3>6. NewPin(r)
      BY <3>1, <3>3, <3>4, <3>5 DEF NewPin
    <3>7. PinGoes(p)
      BY <3>1, <3>6 DEF PinGoes, PinOf, Pinning
    <3> QED BY <3>1, <3>7, PinFrame
  <2> QED BY <2>1, <2>2
<1>6. ASSUME NEW p \in Producer, BeginGeneration(p)
      PROVE  (\A u \in Thread : PinGoes(u))
  <2>1. PinGoes(p)
    BY <1>6, BeginGenerationGoes DEF Goes, PinGoes, PinOf, Pinning
  <2> QED BY <1>6, <2>1, BeginGenerationGoes, PinFrame DEF Goes
<1>7. ASSUME NEW p \in Producer, NEW intact \in BOOLEAN, Recycle(p, intact)
      PROVE  (\A u \in Thread : PinGoes(u))
  <2>1. p \in Thread /\ Moves(p) /\ th[p].at = "reserve" /\ th'[p].payload = th[p].payload
    BY <1>7, RecycleGoes DEF Goes
  <2>2. th[p].payload = NoPayload
    BY <2>1, ThreadFacts DEF ThreadIsTyped, Asking, InCapture, Critical
  <2>3. PinGoes(p)
    BY <2>1, <2>2 DEF PinGoes, PinOf
  <2> QED BY <2>1, <2>3, PinFrame
<1>8. ASSUME NEW p \in Producer, FindOwned(p)
      PROVE  (\A u \in Thread : PinGoes(u))
  <2>1. PinGoes(p)
    BY <1>8, FindOwnedGoes DEF Goes, PinGoes, PinOf, Pinning
  <2> QED BY <1>8, <2>1, FindOwnedGoes, PinFrame DEF Goes
<1>9. ASSUME NEW p \in Producer, ArmWaiter(p)
      PROVE  (\A u \in Thread : PinGoes(u))
  <2>1. p \in Thread /\ Moves(p) /\ th[p].at = "arm" /\ th'[p].payload = th[p].payload
    BY <1>9, ArmWaiterGoes DEF Goes
  <2>2. th[p].payload = NoPayload
    BY <2>1, ThreadFacts DEF ThreadIsTyped, Asking, InCapture, Critical
  <2>3. PinGoes(p)
    BY <2>1, <2>2 DEF PinGoes, PinOf
  <2> QED BY <2>1, <2>3, PinFrame
<1>10. ASSUME NEW p \in Producer, Recheck(p)
      PROVE  (\A u \in Thread : PinGoes(u))
  <2>1. PinGoes(p)
    BY <1>10, RecheckGoes DEF Goes, PinGoes, PinOf, Pinning
  <2> QED BY <1>10, <2>1, RecheckGoes, PinFrame DEF Goes
<1>11. ASSUME NEW p \in Producer, Disarm(p)
      PROVE  (\A u \in Thread : PinGoes(u))
  <2>1. PinGoes(p)
    BY <1>11, DisarmGoes DEF Goes, PinGoes, PinOf, Pinning
  <2> QED BY <1>11, <2>1, DisarmGoes, PinFrame DEF Goes
<1>12. ASSUME NEW p \in Producer, RequestGpuVuInputRetirement(p)
      PROVE  (\A u \in Thread : PinGoes(u))
  <2>1. PinGoes(p)
    BY <1>12, RequestGpuVuInputRetirementGoes DEF Goes, PinGoes, PinOf, Pinning
  <2> QED BY <1>12, <2>1, RequestGpuVuInputRetirementGoes, PinFrame DEF Goes
<1>13. ASSUME NEW p \in Producer, WaitSlotReleased(p)
      PROVE  (\A u \in Thread : PinGoes(u))
  <2>1. PinGoes(p)
    BY <1>13, WaitSlotReleasedGoes DEF Goes, PinGoes, PinOf, Pinning
  <2> QED BY <1>13, <2>1, WaitSlotReleasedGoes, PinFrame DEF Goes
<1>14. ASSUME NEW p \in Producer, Fill(p)
      PROVE  (\A u \in Thread : PinGoes(u))
  <2>1. PinGoes(p)
    BY <1>14, FillGoes DEF Goes, PinGoes, PinOf, Pinning
  <2> QED BY <1>14, <2>1, FillGoes, PinFrame DEF Goes
<1>15. ASSUME NEW p \in Producer, Commit(p)
      PROVE  (\A u \in Thread : PinGoes(u))
  <2>1. PinGoes(p)
    BY <1>15, CommitGoes DEF PinGoes, PinOf, Pinning
  <2> QED BY <1>15, <2>1, CommitGoes, PinFrame
<1>16. ASSUME NEW p \in Producer, LeaveCapture(p)
      PROVE  (\A u \in Thread : PinGoes(u))
  <2>1. /\ p \in Thread /\ Moves(p) /\ th[p].at = "leave" /\ th'[p].payload = th[p].payload
        /\ th'[p].at = IF th[p].payload = NoPayload THEN "idle" ELSE "captured"
    BY <1>16, LeaveCaptureGoes
  <2>2. PinGoes(p)
    BY <2>1 DEF PinGoes, PinOf, Pinning
  <2> QED BY <2>1, <2>2, PinFrame
<1>17. CASE RetainOwnership
  <2> DEFINE r == th["MTVU"].payload
             c == r.slot
  <2>1. "MTVU" \in Thread /\ Moves("MTVU") /\ th'["MTVU"].payload = r
        /\ ring' = ring
    BY <1>17, RetainOwnershipGoes DEF Goes, RetainOwnership
  <2>2. CASE th'["MTVU"].at = "exit"
    <3>1. PinGoes("MTVU")
      BY <2>2 DEF PinGoes, PinOf, Pinning
    <3> QED BY <2>1, <3>1, PinFrame
  <2>3. CASE th'["MTVU"].at # "exit"
    <3>1. /\ r \in Payload /\ c \in Slot /\ th["MTVU"].at = "retain"
          /\ slots'[c].generation = slots[c].generation /\ slots[c].generation = r.generation
      BY <1>17, <2>3, RetainSlots DEF Counted
    <3>2. r \in held["due"]
      <4>1. \/ r \in held["due"]
            \/ r.generation < slots[c].generation
        BY <3>1 DEF IInv, HoldersAreDistinct
      <4>2. slots[c].generation \in Int
        BY <3>1, SlotFacts
      <4> QED BY <3>1, <4>1, <4>2
    <3>3. "due" \in Holder
      BY DEF Holder
    <3>4. (ring.initialized => c < ring.count) /\ (Drained => r.late)
      BY <3>2, <3>3, HeldIsCurrent
    <3>5. NewPin(r)
      BY <2>1, <3>1, <3>4 DEF NewPin
    <3>6. PinOf(th'["MTVU"]) = r \/ PinOf(th'["MTVU"]) = NoPayload
      BY <2>1 DEF PinOf
    <3>7. PinGoes("MTVU")
      BY <3>5, <3>6 DEF PinGoes
    <3> QED BY <2>1, <3>7, PinFrame
  <2> QED BY <2>2, <2>3
<1>18. CASE ConfirmRetain
  <2>1. PinGoes("MTVU")
    BY <1>18, ConfirmRetainGoes DEF Goes, PinGoes, PinOf, Pinning
  <2> QED BY <1>18, <2>1, ConfirmRetainGoes, PinFrame DEF Goes
<1>19. ASSUME NEW t \in Thread, ReleaseOwnership(t)
      PROVE  (\A u \in Thread : PinGoes(u))
  <2>1. PinGoes(t)
    BY <1>19, ReleaseOwnershipGoes DEF Goes, PinGoes, PinOf, Pinning
  <2> QED BY <1>19, <2>1, ReleaseOwnershipGoes, PinFrame DEF Goes
<1>20. ASSUME NEW t \in Thread, ClaimWaiter(t)
      PROVE  (\A u \in Thread : PinGoes(u))
  <2>1. PinGoes(t)
    BY <1>20, ClaimWaiterGoes DEF Goes, PinGoes, PinOf, Pinning
  <2> QED BY <1>20, <2>1, ClaimWaiterGoes, PinFrame DEF Goes
<1>21. ASSUME NEW t \in Thread, SignalWaiter(t)
      PROVE  (\A u \in Thread : PinGoes(u))
  <2>1. PinGoes(t)
    BY <1>21, SignalWaiterGoes DEF Goes, PinGoes, PinOf, Pinning
  <2> QED BY <1>21, <2>1, SignalWaiterGoes, PinFrame DEF Goes
<1>22. ASSUME NEW t \in Thread, ExitReferenceCall(t)
      PROVE  (\A u \in Thread : PinGoes(u))
  <2>1. PinGoes(t)
    BY <1>22, ExitReferenceCallGoes DEF PinGoes, PinOf, Pinning
  <2> QED BY <1>22, <2>1, ExitReferenceCallGoes, PinFrame
<1>23. CASE SeparateSpan
  <2>1. PinGoes("EE")
    BY <1>23, SeparateSpanGoes DEF PinGoes, PinOf, Pinning
  <2> QED BY <1>23, <2>1, SeparateSpanGoes, PinFrame
<1>24. ASSUME NEW r \in held["batch"], MergeSpan(r)
      PROVE  (\A u \in Thread : PinGoes(u))
  <2>1. PinGoes("EE")
    BY <1>24, MergeSpanGoes DEF PinGoes, PinOf, Pinning
  <2> QED BY <1>24, <2>1, MergeSpanGoes, PinFrame
<1>25. ASSUME NEW r \in held["due"] \union Stale, Retain(r)
      PROVE  (\A u \in Thread : PinGoes(u))
  <2>1. PinGoes("MTVU")
    BY <1>25, RetainGoes DEF PinGoes, PinOf, Pinning
  <2> QED BY <1>25, <2>1, RetainGoes, PinFrame
<1>26. ASSUME NEW h \in Holder, NEW r \in held[h], Release(h, r)
      PROVE  (\A u \in Thread : PinGoes(u))
  <2> DEFINE t == Owner(h)
  <2>1. t \in Thread /\ Moves(t) /\ th'[t].at = "release" /\ th'[t].payload = r
    BY <1>26, ReleaseGoes
  <2>2. UNCHANGED <<slots, ring>>
    BY <1>26 DEF Release
  <2>3. NewPin(r)
    BY <1>26, <2>2, HeldIsCurrent DEF NewPin
  <2> HIDE DEF t
  <2>4. PinGoes(t)
    BY <2>1, <2>3 DEF PinGoes, PinOf, Pinning
  <2> QED BY <2>1, <2>4, PinFrame
<1>27. CASE PublishPendingVifBatch
  BY <1>27 DEF PublishPendingVifBatch, PinGoes
<1>28. CASE ExecuteVU
  BY <1>28 DEF ExecuteVU, PinGoes
<1>29. ASSUME NEW r \in path1.leaving, NEW intact \in BOOLEAN, LoadCommitted(r, intact)
      PROVE  (\A u \in Thread : PinGoes(u))
  <2>1. PinGoes("MTVU")
    BY <1>29, LoadCommittedGoes DEF PinGoes, PinOf, Pinning
  <2> QED BY <1>29, <2>1, LoadCommittedGoes, PinFrame
<1>30. CASE StorePublished
  <2>1. PinGoes("MTVU")
    BY <1>30, StorePublishedGoes DEF PinGoes, PinOf, Pinning
  <2> QED BY <1>30, <2>1, StorePublishedGoes, PinFrame
<1>31. ASSUME NEW n \in 0 .. InputRingSlotCount, Initialize(n)
      PROVE  (\A u \in Thread : PinGoes(u))
  BY <1>31 DEF Initialize, PinGoes
<1>32. CASE Unpublish
  <2>1. PinGoes("GS")
    BY <1>32, UnpublishGoes DEF Goes, PinGoes, PinOf, Pinning
  <2> QED BY <1>32, <2>1, UnpublishGoes, PinFrame DEF Goes
<1>33. CASE Stop
  <2>1. PinGoes("GS")
    BY <1>33, StopGoes DEF Goes, PinGoes, PinOf, Pinning
  <2> QED BY <1>33, <2>1, StopGoes, PinFrame DEF Goes
<1>34. CASE WakeWaiter
  <2>1. PinGoes("GS")
    BY <1>34, WakeWaiterGoes DEF Goes, PinGoes, PinOf, Pinning
  <2> QED BY <1>34, <2>1, WakeWaiterGoes, PinFrame DEF Goes
<1>35. CASE PollReferences
  <2>1. PinGoes("GS")
    BY <1>35, PollReferencesGoes DEF Goes, PinGoes, PinOf, Pinning
  <2> QED BY <1>35, <2>1, PollReferencesGoes, PinFrame DEF Goes
<1>36. CASE PollReferenceCalls
  <2>1. PinGoes("GS")
    BY <1>36, PollReferenceCallsGoes DEF Goes, PinGoes, PinOf, Pinning
  <2> QED BY <1>36, <2>1, PollReferenceCallsGoes, PinFrame DEF Goes
<1>37. CASE PollCaptureCalls
  <2>1. PinGoes("GS")
    BY <1>37, PollCaptureCallsGoes DEF Goes, PinGoes, PinOf, Pinning
  <2> QED BY <1>37, <2>1, PollCaptureCallsGoes, PinFrame DEF Goes
<1>38. CASE RefuseShutdown
  <2>1. PinGoes("GS")
    BY <1>38, RefuseShutdownGoes DEF Goes, PinGoes, PinOf, Pinning
  <2> QED BY <1>38, <2>1, RefuseShutdownGoes, PinFrame DEF Goes
<1>39. CASE Unmap
  <2>1. PinGoes("GS")
    BY <1>39, UnmapGoes DEF Goes, PinGoes, PinOf, Pinning
  <2> QED BY <1>39, <2>1, UnmapGoes, PinFrame DEF Goes
<1>40. CASE UNCHANGED ringVars
  BY <1>40 DEF ringVars, PinGoes
<1> QED
  BY <1>1, <1>2, <1>3, <1>4, <1>5, <1>6, <1>7, <1>8, <1>9, <1>10, <1>11, <1>12, 
     <1>13, <1>14, <1>15, <1>16, <1>17, <1>18, <1>19, <1>20, <1>21, <1>22, <1>23, 
     <1>24, <1>25, <1>26, <1>27, <1>28, <1>29, <1>30, <1>31, <1>32, <1>33, <1>34, 
     <1>35, <1>36, <1>37, <1>38, <1>39, <1>40, RunStays
     DEF RingNext, CaptureStep, ReferenceStep, FinishSpan, ShutdownStep

\* Every step keeps PinsAreCurrent.
LEMMA PinsCurrentStep ==
  ASSUME IInv, [Next]_vars
  PROVE  PinsAreCurrent'
<1> SUFFICES ASSUME NEW t \in Thread, th'[t].at \in Pinning, th'[t].payload # NoPayload
             PROVE  /\ th'[t].payload.generation = slots'[th'[t].payload.slot].generation
                    /\ ring'.initialized => th'[t].payload.slot < ring'.count
  BY DEF PinsAreCurrent
<1> DEFINE r == th'[t].payload
           s == r.slot
<1>1. PinOf(th'[t]) = r
  BY DEF PinOf
<1>2. NewPin(r) \/ PinOf(th[t]) = r
  BY <1>1, PinStep DEF PinGoes
<1>3. CASE NewPin(r)
  BY <1>3 DEF NewPin
<1>4. CASE PinOf(th[t]) = r
  <2>1. th[t].at \in Pinning /\ th[t].payload = r /\ th[t].payload # NoPayload
    BY <1>4 DEF PinOf
  <2>2. s \in Slot /\ slots[s].references # 0 /\ slots[s].generation = r.generation
    BY <2>1, Pinned
  <2>3. slots'[s].generation = slots[s].generation
    BY <2>2, SlotStep DEF SlotsGo, SlotGoes
  <2>4. ring.initialized => s < ring.count
    BY <2>1 DEF IInv, PinsAreCurrent
  <2>5. RingKept
    BY <2>1, RingStep DEF AllQuiet, Pinning
  <2> QED BY <2>2, <2>3, <2>4, <2>5 DEF RingKept
<1> QED BY <1>2, <1>3, <1>4

-----------------------------------------------------------------------------
(* What holders have *)

LEMMA LiveIs ==
  ASSUME NEW r
  PROVE  r \in Live <=> \/ r \in held["batch"] \/ r \in held["journal"]
                        \/ r \in held["due"] \/ r \in held["draw"] \/ r \in Fresh
<1>1. r \in Live <=> (\E h \in Holder : r \in held[h]) \/ r \in Fresh
  <2> DEFINE U == UNION {held[h] : h \in Holder}
  <2>1. r \in U <=> \E h \in Holder : r \in held[h]
    OBVIOUS
  <2>2. Live = U \union Fresh
    BY DEF Live
  <2> HIDE DEF U
  <2>3. r \in Live <=> r \in U \/ r \in Fresh
    BY <2>2
  <2> QED BY <2>1, <2>3
<1>2. (\E h \in Holder : r \in held[h]) <=>
          \/ r \in held["batch"] \/ r \in held["journal"]
          \/ r \in held["due"] \/ r \in held["draw"]
  BY DEF Holder
<1> QED BY <1>1, <1>2

LEMMA LiveIsNow ==
  ASSUME NEW r
  PROVE  r \in Live' <=> \/ r \in held'["batch"] \/ r \in held'["journal"]
                         \/ r \in held'["due"] \/ r \in held'["draw"] \/ r \in Fresh'
<1>1. r \in Live' <=> (\E h \in Holder : r \in held'[h]) \/ r \in Fresh'
  <2> DEFINE U == UNION {held'[h] : h \in Holder}
  <2>1. r \in U <=> \E h \in Holder : r \in held'[h]
    OBVIOUS
  <2>2. Live' = U \union Fresh'
    BY DEF Live
  <2> HIDE DEF U
  <2>3. r \in Live' <=> r \in U \/ r \in Fresh'
    BY <2>2
  <2> QED BY <2>1, <2>3
<1>2. (\E h \in Holder : r \in held'[h]) <=>
          \/ r \in held'["batch"] \/ r \in held'["journal"]
          \/ r \in held'["due"] \/ r \in held'["draw"]
  BY DEF Holder
<1> QED BY <1>1, <1>2

\* What is live before a step is whole after it.
LEMMA LiveFacts ==
  ASSUME IInv, NEW r \in Live
  PROVE  /\ r \in Payload /\ r.slot \in Slot
         /\ r.offset \in Nat /\ r.size \in Nat /\ r.size >= 1
         /\ r.generation = slots[r.slot].generation
         /\ r.offset + r.size <= slots[r.slot].committed
         /\ \A u \in Covers(r) : slots[r.slot].writer[u] = r.generation
         /\ \/ \E h \in Holder : r \in held[h]
            \/ /\ th["EE"].at \in {"leave", "captured"} /\ th["EE"].payload = r
               /\ r # NoPayload
<1>1. \/ \E h \in Holder : r \in held[h]
      \/ /\ th["EE"].at \in {"leave", "captured"} /\ th["EE"].payload = r
         /\ r # NoPayload
  BY LiveIs DEF Fresh, Holder
<1>2. r \in Payload
  <2>1. CASE \E h \in Holder : r \in held[h]
    BY <2>1, HeldFacts
  <2>2. CASE th["EE"].payload = r /\ r # NoPayload
    BY <2>2, ThreadFacts DEF ThreadState, Thread, Producer
  <2> QED BY <1>1, <2>1, <2>2
<1>3. r.slot \in Slot /\ r.offset \in Unit /\ r.size \in 1 .. InputRingSlotSize
  BY <1>2 DEF Payload
<1>4. r.offset \in Nat /\ r.size \in Nat /\ r.size >= 1
  BY <1>3, Sizes0 DEF Unit
<1>5. /\ r.generation = slots[r.slot].generation
      /\ r.offset + r.size <= slots[r.slot].committed
      /\ \A u \in Covers(r) : slots[r.slot].writer[u] = r.generation
  BY DEF IInv, LiveIsWhole
<1> QED BY <1>1, <1>2, <1>3, <1>4, <1>5

WholeAfter(r) ==
    /\ r.generation = slots'[r.slot].generation
    /\ r.offset + r.size <= slots'[r.slot].committed
    /\ \A u \in Covers(r) : slots'[r.slot].writer[u] = r.generation
    /\ ring'.initialized => r.slot < ring'.count

LEMMA LiveKept ==
  ASSUME IInv, [Next]_vars, NEW r \in Live
  PROVE  WholeAfter(r) /\ Kept(r.slot)
<1> DEFINE s == r.slot
<1>1. /\ r \in Payload /\ s \in Slot
      /\ r.offset \in Nat /\ r.size \in Nat /\ r.size >= 1
      /\ r.generation = slots[s].generation
      /\ r.offset + r.size <= slots[s].committed
      /\ \A u \in Covers(r) : slots[s].writer[u] = r.generation
      /\ \/ \E h \in Holder : r \in held[h]
         \/ /\ th["EE"].at \in {"leave", "captured"} /\ th["EE"].payload = r
            /\ r # NoPayload
  BY LiveFacts
<1>2. Kept(s) \/ Free(s)
  BY <1>1, SlotStep DEF SlotsGo, SlotGoes
<1>3. ~Free(s)
  <2>1. CASE \E h \in Holder : r \in held[h]
    BY <2>1 DEF Free
  <2>2. CASE th["EE"].at \in {"leave", "captured"} /\ th["EE"].payload = r
    BY <2>2 DEF Free, Pinning, Thread, Producer
  <2> QED BY <1>1, <2>1, <2>2
<1>4. Kept(s)
  BY <1>2, <1>3
<1>5. slots[s].committed \in 0 .. InputRingSlotSize /\ slots'[s].committed \in 0 .. InputRingSlotSize
  <2>1. slots'[s] \in SlotState
    BY <1>1, SlotStep DEF SlotsGo
  <2> QED BY <1>1, <2>1, SlotFacts DEF SlotState
<1>6. r.offset + r.size <= slots'[s].committed
  BY <1>1, <1>4, <1>5 DEF Kept
<1>7. \A u \in Covers(r) : u \in Unit /\ u < slots[s].committed
  BY <1>1, <1>5, Sizes0 DEF Covers, Unit
<1>8. \A u \in Covers(r) : slots'[s].writer[u] = r.generation
  BY <1>1, <1>4, <1>7 DEF Kept
<1>9. RingKept
  <2>1. ~AllQuiet
    <3>1. CASE \E h \in Holder : r \in held[h]
      <4>1. slots[s].references # 0
        BY <1>1, <3>1, Unowned
      <4> QED BY <1>1, <4>1 DEF AllQuiet
    <3>2. CASE th["EE"].at \in {"leave", "captured"}
      BY <3>2 DEF AllQuiet, Thread, Producer
    <3> QED BY <1>1, <3>1, <3>2
  <2> QED BY <2>1, RingStep
<1>10. ring.initialized => s < ring.count
  BY DEF IInv, LiveIsWhole
<1>11. ring'.initialized => s < ring'.count
  BY <1>9, <1>10 DEF RingKept
<1>12. r.generation = slots'[s].generation
  BY <1>1, <1>4 DEF Kept
<1> QED BY <1>4, <1>6, <1>8, <1>11, <1>12 DEF WholeAfter

\* A step that makes nothing live
LEMMA LiveFrame ==
  ASSUME IInv, [Next]_vars, \A r \in Live' : r \in Live
  PROVE  LiveIsWhole' /\ LiveIsDisjoint'
<1>1. LiveIsWhole'
  <2> SUFFICES ASSUME NEW r \in Live'
               PROVE  WholeAfter(r)
    BY DEF LiveIsWhole, WholeAfter, Covers
  <2> QED BY LiveKept
<1>2. LiveIsDisjoint'
  BY DEF IInv, LiveIsDisjoint, Apart
<1> QED BY <1>1, <1>2

\* A step that makes payload n live, above all others of its slot
LEMMA LiveAdds ==
  ASSUME IInv, [Next]_vars, NEW n, WholeAfter(n), \A r \in Live' : r \in Live \/ r = n,
         \A r \in Live : r.slot = n.slot => Apart(n, r)
  PROVE  LiveIsWhole' /\ LiveIsDisjoint'
<1>1. LiveIsWhole'
  <2> SUFFICES ASSUME NEW r \in Live'
               PROVE  WholeAfter(r)
    BY DEF LiveIsWhole, WholeAfter, Covers
  <2> QED BY LiveKept
<1>2. LiveIsDisjoint'
  <2> SUFFICES ASSUME NEW q \in Live', NEW r \in Live', q # r, q.slot = r.slot
               PROVE  Apart(q, r)
    BY DEF LiveIsDisjoint, Apart
  <2>1. CASE q \in Live /\ r \in Live
    BY <2>1 DEF IInv, LiveIsDisjoint
  <2>2. CASE q = n /\ r \in Live
    BY <2>2
  <2>3. CASE r = n /\ q \in Live
    BY <2>3 DEF Apart
  <2> QED BY <2>1, <2>2, <2>3
<1> QED BY <1>1, <1>2

\* The clauses of HoldersAreDistinct
Retaining ==
    \/ /\ th["MTVU"].payload \in held["due"]
       /\ th["MTVU"].payload \notin held["draw"]
    \/ /\ th["MTVU"].at = "retain"
       /\ th["MTVU"].payload.generation < slots[th["MTVU"].payload.slot].generation
Distinct ==
    /\ \A h \in Holder : IsFiniteSet(held[h])
    /\ \A r \in held["batch"] :
           r \notin held["journal"] \union held["due"] \union held["draw"]
    /\ \A r \in held["journal"] : r \notin held["due"]
    /\ \A h \in Holder : \A r \in Fresh : r \notin held[h]

LEMMA HoldersBy ==
  ASSUME IInv, [Next]_vars, NEW t \in Thread, Moves(t), Distinct',
         t = "MTVU" /\ th'[t].at \in {"retain", "confirm"} => Retaining',
         t # "MTVU" => /\ \A r \in held["due"] : r \in held'["due"]
                       /\ \A r \in held'["draw"] : r \in held["draw"]
  PROVE  HoldersAreDistinct'
<1>1. ASSUME th'["MTVU"].at \in {"retain", "confirm"}
      PROVE  Retaining'
  <2>1. CASE t = "MTVU"
    BY <1>1, <2>1
  <2>2. CASE t # "MTVU"
    <3>1. th'["MTVU"] = th["MTVU"] /\ "MTVU" \in Thread
      BY <2>2 DEF Moves, Thread, Producer
    <3>2. Retaining
      BY <1>1, <3>1 DEF IInv, HoldersAreDistinct, Retaining
    <3>3. CASE th["MTVU"].payload \in held["due"] /\ th["MTVU"].payload \notin held["draw"]
      BY <2>2, <3>1, <3>3 DEF Retaining
    <3>4. CASE /\ th["MTVU"].at = "retain"
               /\ th["MTVU"].payload.generation < slots[th["MTVU"].payload.slot].generation
      <4> DEFINE r == th["MTVU"].payload
                 s == r.slot
      <4>1. r \in Payload
        BY <3>1, <3>4, ThreadFacts DEF ThreadIsTyped, InCall
      <4>2. s \in Slot /\ r.generation \in Int
        BY <4>1, Sizes0 DEF Payload
      <4>3. slots[s].generation \in Int /\ slots'[s].generation >= slots[s].generation
            /\ slots'[s] \in SlotState
        BY <4>2, SlotFacts, SlotStep DEF SlotsGo, SlotGoes
      <4>4. slots'[s].generation \in Int
        BY <4>3, Sizes0 DEF SlotState
      <4>5. r.generation < slots[s].generation
        BY <3>4
      <4> HIDE DEF r, s
      <4>6. r.generation < slots'[s].generation
        BY <4>2, <4>3, <4>4, <4>5
      <4> QED BY <3>1, <3>4, <4>6 DEF Retaining, r, s
    <3> QED BY <3>2, <3>3, <3>4 DEF Retaining
  <2> QED BY <2>1, <2>2
<1> QED BY <1>1 DEF HoldersAreDistinct, Distinct, Retaining

HeldGoes ==
    /\ LiveIsWhole' /\ LiveIsDisjoint' /\ HoldersAreDistinct'
    /\ held' \in [Holder -> SUBSET Payload]

LEMMA FreshFrame ==
  ASSUME IInv, NEW t \in Thread, Moves(t),
         t = "EE" /\ th'[t].at \in {"leave", "captured"} /\ th'[t].payload # NoPayload =>
             th[t].at \in {"leave", "captured"} /\ th'[t].payload = th[t].payload
  PROVE  \A r \in Fresh' : r \in Fresh
<1>1. t # "EE" => th'["EE"] = th["EE"]
  BY DEF Moves, Thread, Producer
<1> QED BY <1>1 DEF Fresh

\* A step that leaves the holders alone
LEMMA HeldFrame ==
  ASSUME IInv, [Next]_vars, NEW t \in Thread, Moves(t), UNCHANGED held,
         t = "EE" /\ th'[t].at \in {"leave", "captured"} /\ th'[t].payload # NoPayload =>
             th[t].at \in {"leave", "captured"} /\ th'[t].payload = th[t].payload,
         t = "MTVU" /\ th'[t].at \in {"retain", "confirm"} => Retaining'
  PROVE  HeldGoes
<1>1. \A r \in Fresh' : r \in Fresh
  BY FreshFrame
<1>2. \A r \in Live' : r \in Live
  BY <1>1 DEF Live
<1>3. Distinct'
  <2>1. Distinct
    BY DEF IInv, HoldersAreDistinct, Distinct
  <2> QED BY <1>1, <2>1 DEF Distinct
<1>4. HoldersAreDistinct'
  BY <1>3, HoldersBy
<1> QED BY <1>2, <1>4, LiveFrame, HeldFacts DEF HeldGoes

\* Every step keeps LiveIsWhole, LiveIsDisjoint and HoldersAreDistinct.
LEMMA HeldStep ==
  ASSUME IInv, [Next]_vars
  PROVE  HeldGoes
<1>1. ASSUME NEW p \in Producer, CaptureRawVifPayload(p)
      PROVE  HeldGoes
  <2>1. UNCHANGED held
    BY <1>1 DEF CaptureRawVifPayload
  <2> QED BY <1>1, <2>1, CaptureRawVifPayloadGoes, HeldFrame DEF Thread, Producer
<1>2. ASSUME NEW p \in Producer, LoadActiveRing(p)
      PROVE  HeldGoes
  <2>1. UNCHANGED held
    BY <1>2 DEF LoadActiveRing
  <2>2. p \in Thread /\ Moves(p) /\ th[p].at = "load" /\ th'[p].payload = th[p].payload
    BY <1>2, LoadActiveRingGoes DEF Goes
  <2>3. th[p].payload = NoPayload /\ th'[p].at \notin {"retain", "confirm"} /\ p # "GS"
    BY <1>2, <2>2, LoadActiveRingGoes, ThreadFacts DEF Goes, ThreadIsTyped, Asking,
       InCapture, Critical, Producer
  <2> QED BY <2>1, <2>2, <2>3, HeldFrame
<1>3. ASSUME NEW p \in Producer, LockCapture(p)
      PROVE  HeldGoes
  <2>1. UNCHANGED held
    BY <1>3 DEF LockCapture
  <2> QED BY <1>3, <2>1, LockCaptureGoes, HeldFrame DEF Goes, Thread, Producer
<1>4. ASSUME NEW p \in Producer, TestAccepting(p)
      PROVE  HeldGoes
  <2>1. UNCHANGED held
    BY <1>4 DEF TestAccepting
  <2>2. p \in Thread /\ Moves(p) /\ th[p].at = "loop" /\ th'[p].payload = th[p].payload
    BY <1>4, TestAcceptingGoes DEF Goes
  <2>3. th[p].payload = NoPayload /\ th'[p].at \notin {"retain", "confirm"} /\ p # "GS"
    BY <1>4, <2>2, TestAcceptingGoes, ThreadFacts DEF Goes, ThreadIsTyped, Asking,
       InCapture, Critical, Producer
  <2> QED BY <2>1, <2>2, <2>3, HeldFrame
<1>5. ASSUME NEW p \in Producer, Reserve(p)
      PROVE  HeldGoes
  <2>1. UNCHANGED held
    BY <1>5 DEF Reserve
  <2>2. /\ p \in Thread /\ Moves(p) /\ p # "GS" /\ th'[p].at \in {"leave", "empty", "fill"}
        /\ th'[p].at = "leave" => th'[p].payload = NoPayload
    BY <1>5, ReserveGoes, ZenonT(60) DEF Producer
  <2> QED BY <2>1, <2>2, HeldFrame
<1>6. ASSUME NEW p \in Producer, BeginGeneration(p)
      PROVE  HeldGoes
  <2>1. UNCHANGED held
    BY <1>6 DEF BeginGeneration
  <2> QED BY <1>6, <2>1, BeginGenerationGoes, HeldFrame DEF Goes, Thread, Producer
<1>7. ASSUME NEW p \in Producer, NEW intact \in BOOLEAN, Recycle(p, intact)
      PROVE  HeldGoes
  <2>1. UNCHANGED held
    BY <1>7 DEF Recycle
  <2>2. p \in Thread /\ Moves(p) /\ th[p].at = "reserve" /\ th'[p].payload = th[p].payload
    BY <1>7, RecycleGoes DEF Goes
  <2>3. th[p].payload = NoPayload /\ th'[p].at \notin {"retain", "confirm"} /\ p # "GS"
    BY <1>7, <2>2, RecycleGoes, ThreadFacts DEF Goes, ThreadIsTyped, Asking, InCapture,
       Critical, Producer
  <2> QED BY <2>1, <2>2, <2>3, HeldFrame
<1>8. ASSUME NEW p \in Producer, FindOwned(p)
      PROVE  HeldGoes
  <2>1. UNCHANGED held
    BY <1>8 DEF FindOwned
  <2> QED BY <1>8, <2>1, FindOwnedGoes, HeldFrame DEF Goes, Thread, Producer
<1>9. ASSUME NEW p \in Producer, ArmWaiter(p)
      PROVE  HeldGoes
  <2>1. UNCHANGED held
    BY <1>9 DEF ArmWaiter
  <2>2. p \in Thread /\ Moves(p) /\ th[p].at = "arm" /\ th'[p].payload = th[p].payload
    BY <1>9, ArmWaiterGoes DEF Goes
  <2>3. th[p].payload = NoPayload /\ th'[p].at \notin {"retain", "confirm"} /\ p # "GS"
    BY <1>9, <2>2, ArmWaiterGoes, ThreadFacts DEF Goes, ThreadIsTyped, Asking, InCapture,
       Critical, Producer
  <2> QED BY <2>1, <2>2, <2>3, HeldFrame
<1>10. ASSUME NEW p \in Producer, Recheck(p)
      PROVE  HeldGoes
  <2>1. UNCHANGED held
    BY <1>10 DEF Recheck
  <2> QED BY <1>10, <2>1, RecheckGoes, HeldFrame DEF Goes, Thread, Producer
<1>11. ASSUME NEW p \in Producer, Disarm(p)
      PROVE  HeldGoes
  <2>1. UNCHANGED held
    BY <1>11 DEF Disarm
  <2> QED BY <1>11, <2>1, DisarmGoes, HeldFrame DEF Goes, Thread, Producer
<1>12. ASSUME NEW p \in Producer, RequestGpuVuInputRetirement(p)
      PROVE  HeldGoes
  <2>1. p \in Thread /\ Moves(p) /\ th'[p].at = "wait" /\ p # "GS"
    BY <1>12, RequestGpuVuInputRetirementGoes DEF Goes, Producer
  <2>2. held' = Published
    BY <1>12 DEF RequestGpuVuInputRetirement
  <2>3. Distinct /\ held \in [Holder -> SUBSET Payload]
    BY HeldFacts DEF IInv, HoldersAreDistinct, Distinct
  <2>4. /\ held'["batch"] = {} /\ held'["journal"] = held["journal"] \union held["batch"]
        /\ held'["due"] = held["due"] /\ held'["draw"] = held["draw"]
        /\ held' \in [Holder -> SUBSET Payload]
    BY <2>2, <2>3 DEF Published, Holder
  <2>5. \A x \in Fresh' : x \in Fresh
    BY <2>1, FreshFrame
  <2>6. \A x \in Live' : x \in Live
    BY <2>4, <2>5 DEF Live, Holder
  <2>7. Distinct'
    <3>1. IsFiniteSet(held'["batch"]) /\ IsFiniteSet(held'["journal"]) /\ IsFiniteSet(held'["due"])
          /\ IsFiniteSet(held'["draw"])
      <4>1. IsFiniteSet(held["batch"]) /\ IsFiniteSet(held["journal"]) /\ IsFiniteSet(held["due"])
            /\ IsFiniteSet(held["draw"])
        BY <2>3 DEF Distinct, Holder
      <4>2. IsFiniteSet(held["journal"] \union held["batch"])
        BY <4>1, FS_Union
      <4> QED BY <2>4, <4>1, <4>2, FS_EmptySet
    <3> QED BY <2>3, <2>4, <2>5, <3>1 DEF Distinct, Holder
  <2>8. HoldersAreDistinct'
    BY <2>1, <2>4, <2>7, HoldersBy
  <2> QED BY <2>4, <2>6, <2>8, LiveFrame DEF HeldGoes
<1>13. ASSUME NEW p \in Producer, WaitSlotReleased(p)
      PROVE  HeldGoes
  <2>1. UNCHANGED held
    BY <1>13 DEF WaitSlotReleased
  <2> QED BY <1>13, <2>1, WaitSlotReleasedGoes, HeldFrame DEF Goes, Thread, Producer
<1>14. ASSUME NEW p \in Producer, Fill(p)
      PROVE  HeldGoes
  <2>1. UNCHANGED held
    BY <1>14 DEF Fill
  <2> QED BY <1>14, <2>1, FillGoes, HeldFrame DEF Goes, Thread, Producer
<1>15. ASSUME NEW p \in Producer, Commit(p)
      PROVE  HeldGoes
  <2> DEFINE r == th[p].payload
             s == r.slot
  <2>1. /\ p \in Thread /\ Moves(p) /\ th[p].at = "commit" /\ th'[p].at = "leave"
        /\ th'[p].payload = IF p = "MTVU" THEN NoPayload ELSE r
    BY <1>15, CommitGoes
  <2>2. th[p].at \in Filling
    BY <2>1 DEF Filling
  <2>3. /\ r \in Payload /\ s \in Slot /\ r.offset \in Nat /\ r.size \in Nat /\ r.size >= 1
        /\ r.generation = slots[s].generation /\ ring.initialized /\ s < ring.count
        /\ r # NoPayload
    BY <2>2, FillingFacts, Sizes0 DEF Unit
  <2>4. /\ slots[s].committed <= r.offset
        /\ \A u \in Covers(r) : slots[s].writer[u] = r.generation
    BY <2>1, <2>2 DEF IInv, ReservationIsNext
  <2>5. /\ slots'[s].generation = slots[s].generation
        /\ slots'[s].committed = r.offset + r.size /\ slots'[s].writer = slots[s].writer
        /\ UNCHANGED ring
    BY <1>15, CommitSlots, ZenonT(60) DEF Commit
  <2>6. WholeAfter(r)
    <3>1. r.generation = slots'[s].generation /\ slots'[s].writer = slots[s].writer
      BY <2>3, <2>5
    <3>2. r.offset + r.size <= slots'[s].committed
      BY <2>3, <2>5
    <3>3. ring'.initialized => s < ring'.count
      BY <2>3, <2>5
    <3>4. \A u \in Covers(r) : slots'[s].writer[u] = r.generation
      BY <2>4, <3>1, Zenon
    <3> QED BY <3>1, <3>2, <3>3, <3>4, Zenon DEF WholeAfter
  <2>7. slots[s].committed \in Nat
    BY <2>3, SlotFacts
  <2>8. ASSUME NEW q \in Live, q.slot = s
        PROVE  q.offset + q.size <= r.offset /\ q # r
    <3>1. /\ q.offset \in Nat /\ q.size \in Nat /\ q.size >= 1
          /\ q.offset + q.size <= slots[s].committed
      BY <2>8, LiveFacts
    <3>2. q.offset + q.size <= r.offset
      BY <2>3, <2>4, <2>7, <3>1
    <3>3. q # r
      BY <2>3, <3>1, <3>2
    <3> QED BY <3>2, <3>3
  <2>9. \A q \in Live : q.slot = s => Apart(r, q)
    BY <2>8 DEF Apart
  <2>10. r \notin Live
    BY <2>8
  <2>11. Distinct /\ held \in [Holder -> SUBSET Payload]
    BY HeldFacts DEF IInv, HoldersAreDistinct, Distinct
  <2>12. CASE p = "MTVU"
    <3>1. held' = [held EXCEPT !["draw"] = @ \union {r}]
      BY <1>15, <2>12 DEF Commit, BindToDraw
    <3>2. /\ held'["draw"] = held["draw"] \union {r} /\ held'["batch"] = held["batch"]
          /\ held'["journal"] = held["journal"] /\ held'["due"] = held["due"]
          /\ held' \in [Holder -> SUBSET Payload]
      BY <2>3, <2>11, <3>1 DEF Holder
    <3>3. \A x \in Fresh' : x \in Fresh
      BY <2>1, <2>12, FreshFrame
    <3>4. \A x \in Live' : x \in Live \/ x = r
      BY <3>2, <3>3 DEF Live, Holder
    <3>5. IsFiniteSet(held["draw"] \union {r})
      BY <2>11, FS_AddElement DEF Distinct, Holder
    <3>6. r \notin held["batch"] /\ r \notin Fresh
      BY <2>10, LiveIs
    <3>7. Distinct'
      BY <2>11, <3>2, <3>3, <3>5, <3>6 DEF Distinct, Holder
    <3>8. HoldersAreDistinct'
      BY <2>1, <2>12, <3>2, <3>7, HoldersBy
    <3> QED BY <2>6, <2>9, <3>2, <3>4, <3>8, LiveAdds DEF HeldGoes
  <2>13. CASE p # "MTVU"
    <3>1. UNCHANGED held /\ p = "EE"
      BY <1>15, <2>13 DEF Commit, Producer
    <3>2. Fresh' = {r}
      BY <2>1, <2>3, <3>1 DEF Fresh
    <3>3. \A x \in Live' : x \in Live \/ x = r
      BY <3>1, <3>2, LiveIs, LiveIsNow
    <3>4. \A h \in Holder : r \notin held[h]
      BY <2>10 DEF Live
    <3>5. Distinct'
      BY <2>11, <3>1, <3>2, <3>4 DEF Distinct
    <3>6. HoldersAreDistinct'
      BY <2>1, <3>1, <3>5, HoldersBy
    <3> QED BY <2>6, <2>9, <2>11, <3>1, <3>3, <3>6, LiveAdds DEF HeldGoes
  <2> QED BY <2>12, <2>13
<1>16. ASSUME NEW p \in Producer, LeaveCapture(p)
      PROVE  HeldGoes
  <2>1. UNCHANGED held
    BY <1>16 DEF LeaveCapture
  <2>2. /\ p \in Thread /\ Moves(p) /\ p # "GS" /\ th[p].at = "leave"
        /\ th'[p].at \in {"idle", "captured"} /\ th'[p].payload = th[p].payload
    BY <1>16, LeaveCaptureGoes DEF Producer
  <2> QED BY <2>1, <2>2, HeldFrame
<1>17. CASE RetainOwnership
  <2> DEFINE r == th["MTVU"].payload
             c == r.slot
  <2>1. "MTVU" \in Thread /\ Moves("MTVU") /\ th'["MTVU"].payload = r
        /\ UNCHANGED held
    BY <1>17, RetainOwnershipGoes DEF Goes, RetainOwnership
  <2>2. th'["MTVU"].at # "retain" /\ (th'["MTVU"].at = "confirm" => Retaining')
    <3>1. CASE th'["MTVU"].at = "exit"
      BY <3>1
    <3>2. CASE th'["MTVU"].at # "exit"
      <4>1. /\ r \in Payload /\ c \in Slot /\ th["MTVU"].at = "retain"
            /\ slots[c].generation = r.generation /\ th'["MTVU"].at = "confirm"
        BY <1>17, <3>2, RetainSlots
      <4>2. \/ r \in held["due"] /\ r \notin held["draw"]
            \/ r.generation < slots[c].generation
        BY <4>1 DEF IInv, HoldersAreDistinct
      <4>3. slots[c].generation \in Int
        BY <4>1, SlotFacts
      <4>4. r \in held["due"] /\ r \notin held["draw"]
        BY <4>1, <4>2, <4>3
      <4> QED BY <2>1, <4>1, <4>4 DEF Retaining
    <3> QED BY <3>1, <3>2
  <2> QED BY <2>1, <2>2, HeldFrame
<1>18. CASE ConfirmRetain
  <2> DEFINE r == th["MTVU"].payload
  <2>1. /\ "MTVU" \in Thread /\ Moves("MTVU") /\ th["MTVU"].at = "confirm"
        /\ th'["MTVU"].at \in {"exit", "release"}
    BY <1>18, ConfirmRetainGoes DEF Goes
  <2>2. UNCHANGED held \/ held' = [held EXCEPT !["draw"] = @ \union {r}]
    BY <1>18 DEF ConfirmRetain, BindToDraw
  <2>3. CASE UNCHANGED held
    BY <2>1, <2>3, HeldFrame
  <2>4. CASE held' = [held EXCEPT !["draw"] = @ \union {r}]
    <3>1. Distinct /\ held \in [Holder -> SUBSET Payload]
      BY HeldFacts DEF IInv, HoldersAreDistinct, Distinct
    <3>2. r \in held["due"]
      BY <2>1 DEF IInv, HoldersAreDistinct
    <3>3. /\ held'["draw"] = held["draw"] \union {r} /\ held'["batch"] = held["batch"]
          /\ held'["journal"] = held["journal"] /\ held'["due"] = held["due"]
          /\ held' \in [Holder -> SUBSET Payload]
      BY <2>4, <3>1, <3>2 DEF Holder
    <3>4. \A x \in Fresh' : x \in Fresh
      BY <2>1, FreshFrame
    <3>5. \A x \in Live' : x \in Live
      BY <3>2, <3>3, <3>4 DEF Live, Holder
    <3>6. IsFiniteSet(held["draw"] \union {r})
      BY <3>1, FS_AddElement DEF Distinct, Holder
    <3>7. r \notin held["batch"] /\ r \notin Fresh
      BY <3>1, <3>2 DEF Distinct, Holder
    <3>8. Distinct'
      BY <3>1, <3>3, <3>4, <3>6, <3>7 DEF Distinct, Holder
    <3>9. HoldersAreDistinct'
      BY <2>1, <3>3, <3>8, HoldersBy
    <3> QED BY <3>3, <3>5, <3>9, LiveFrame DEF HeldGoes
  <2> QED BY <2>2, <2>3, <2>4
<1>19. ASSUME NEW t \in Thread, ReleaseOwnership(t)
      PROVE  HeldGoes
  <2>1. UNCHANGED held
    BY <1>19 DEF ReleaseOwnership
  <2>2. Moves(t) /\ th'[t].at \in {"claim", "signal", "exit"}
    BY <1>19, ReleaseOwnershipGoes DEF Goes
  <2> QED BY <2>1, <2>2, HeldFrame
<1>20. ASSUME NEW t \in Thread, ClaimWaiter(t)
      PROVE  HeldGoes
  <2>1. UNCHANGED held
    BY <1>20 DEF ClaimWaiter
  <2>2. Moves(t) /\ th'[t].at \in {"claim", "signal", "exit"}
    BY <1>20, ClaimWaiterGoes DEF Goes
  <2> QED BY <2>1, <2>2, HeldFrame
<1>21. ASSUME NEW t \in Thread, SignalWaiter(t)
      PROVE  HeldGoes
  <2>1. UNCHANGED held
    BY <1>21 DEF SignalWaiter
  <2>2. Moves(t) /\ th'[t].at \in {"claim", "signal", "exit"}
    BY <1>21, SignalWaiterGoes DEF Goes
  <2> QED BY <2>1, <2>2, HeldFrame
<1>22. ASSUME NEW t \in Thread, ExitReferenceCall(t)
      PROVE  HeldGoes
  <2>1. UNCHANGED held
    BY <1>22 DEF ExitReferenceCall
  <2>2. Moves(t) /\ th'[t].at = "idle"
    BY <1>22, ExitReferenceCallGoes
  <2> QED BY <2>1, <2>2, HeldFrame
<1>23. CASE SeparateSpan
  <2> DEFINE r == th["EE"].payload
  <2>1. /\ "EE" \in Thread /\ Moves("EE") /\ th["EE"].at = "captured" /\ th'["EE"].at = "idle"
    BY <1>23, SeparateSpanGoes
  <2>2. r \in Payload
    BY <2>1, ThreadFacts DEF ThreadIsTyped
  <2>3. r \in Fresh
    BY <2>1, <2>2, PayloadIsOne DEF Fresh
  <2>4. Distinct /\ held \in [Holder -> SUBSET Payload]
    BY HeldFacts DEF IInv, HoldersAreDistinct, Distinct
  <2>5. held' = [held EXCEPT !["batch"] = @ \union {r}]
    BY <1>23 DEF SeparateSpan
  <2>6. /\ held'["batch"] = held["batch"] \union {r} /\ held'["draw"] = held["draw"]
        /\ held'["journal"] = held["journal"] /\ held'["due"] = held["due"]
        /\ held' \in [Holder -> SUBSET Payload]
    BY <2>2, <2>4, <2>5 DEF Holder
  <2>7. Fresh' = {}
    BY <2>1 DEF Fresh
  <2>8. \A x \in Live' : x \in Live
    BY <2>3, <2>6, <2>7, LiveIs, LiveIsNow
  <2>9. IsFiniteSet(held["batch"] \union {r})
    BY <2>4, FS_AddElement DEF Distinct, Holder
  <2>10. \A h \in Holder : r \notin held[h]
    BY <2>3, <2>4 DEF Distinct
  <2>11. Distinct'
    BY <2>4, <2>6, <2>7, <2>9, <2>10 DEF Distinct, Holder
  <2>12. HoldersAreDistinct'
    BY <2>1, <2>6, <2>11, HoldersBy
  <2> QED BY <2>6, <2>8, <2>12, LiveFrame DEF HeldGoes
<1>24. ASSUME NEW r \in held["batch"], MergeSpan(r)
      PROVE  HeldGoes
  <2> DEFINE q == th["EE"].payload
             both == [r EXCEPT !.size = r.size + q.size, !.late = r.late \/ q.late]
             s == q.slot
  <2>1. /\ "EE" \in Thread /\ Moves("EE") /\ th["EE"].at = "captured" /\ th'["EE"].at = "release"
        /\ q \in Payload
    BY <1>24, MergeSpanGoes
  <2>2. q \in Fresh
    BY <2>1, PayloadIsOne DEF Fresh
  <2>3. Distinct /\ held \in [Holder -> SUBSET Payload]
    BY HeldFacts DEF IInv, HoldersAreDistinct, Distinct
  <2>4. /\ r.slot = s /\ r.generation = q.generation /\ r.offset + r.size = q.offset
        /\ held' = [held EXCEPT !["batch"] = (@ \ {r}) \union {both}]
        /\ UNCHANGED <<slots, ring>>
    BY <1>24 DEF MergeSpan
  <2>5. q \in Live /\ r \in Live
    BY <1>24, <2>2, LiveIs
  <2>6. /\ r \in Payload /\ s \in Slot
        /\ r.offset \in Nat /\ r.size \in Nat /\ r.size >= 1
        /\ q.offset \in Nat /\ q.size \in Nat /\ q.size >= 1
        /\ r.generation = slots[s].generation
        /\ q.offset + q.size <= slots[s].committed
        /\ \A u \in Covers(r) : slots[s].writer[u] = r.generation
        /\ \A u \in Covers(q) : slots[s].writer[u] = q.generation
    BY <2>4, <2>5, LiveFacts
  <2>7. slots[s].committed \in 0 .. InputRingSlotSize
    BY <2>6, SlotFacts
  <2>8. r.size + q.size \in 1 .. InputRingSlotSize
    <3>1. /\ InputRingSlotSize \in Nat /\ r.offset + r.size = q.offset
          /\ q.offset + q.size <= slots[s].committed
      BY <2>4, <2>6, Sizes0
    <3>2. /\ r.offset \in Nat /\ r.size \in Nat /\ r.size >= 1
          /\ q.offset \in Nat /\ q.size \in Nat /\ q.size >= 1
          /\ slots[s].committed \in Nat /\ slots[s].committed <= InputRingSlotSize
      BY <2>6, <2>7
    <3> HIDE DEF both, q
    <3> QED BY <3>1, <3>2, SMTT(40)
  <2>9. /\ both \in Payload /\ both.slot = s /\ both.offset = r.offset
        /\ both.size = r.size + q.size /\ both.generation = r.generation
    BY <2>1, <2>4, <2>6, <2>8 DEF Payload
  <2> HIDE DEF both, q, s
  <2>10. \A u \in Covers(both) : u \in Covers(r) \/ u \in Covers(q)
    BY <2>4, <2>6, <2>9 DEF Covers
  <2>11. WholeAfter(both)
    <3>1. both.offset + both.size <= slots[s].committed
      BY <2>4, <2>6, <2>7, <2>9
    <3>2. \A u \in Covers(both) : slots[s].writer[u] = both.generation
      BY <2>4, <2>6, <2>9, <2>10
    <3>3. ring.initialized => s < ring.count
      BY <2>4, <2>5 DEF IInv, LiveIsWhole
    <3> QED BY <2>4, <2>6, <2>9, <3>1, <3>2, <3>3 DEF WholeAfter
  <2>12. ASSUME NEW x \in Live, x.slot = s, x # q, x # r
         PROVE  Apart(both, x)
    <3>1. x.offset \in Nat /\ x.size \in Nat /\ x.size >= 1
      BY LiveFacts
    <3>2. Apart(x, q) /\ Apart(x, r)
      BY <2>4, <2>5, <2>12 DEF IInv, LiveIsDisjoint, s
    <3> QED BY <2>4, <2>6, <2>9, <3>1, <3>2 DEF Apart
  <2>13. both \notin Live
    <3>1. SUFFICES ASSUME both \in Live
                   PROVE  FALSE
      OBVIOUS
    <3>2. both # r
      BY <2>6, <2>9
    <3>3. Apart(both, r)
      BY <2>4, <2>5, <2>9, <3>1, <3>2 DEF IInv, LiveIsDisjoint
    <3> QED BY <2>6, <2>9, <3>3 DEF Apart
  <2>14. /\ held'["batch"] = (held["batch"] \ {r}) \union {both} /\ held'["draw"] = held["draw"]
         /\ held'["journal"] = held["journal"] /\ held'["due"] = held["due"]
         /\ held' \in [Holder -> SUBSET Payload]
    BY <2>3, <2>4, <2>9 DEF Holder
  <2>15. Fresh' = {}
    BY <2>1 DEF Fresh
  <2>16. r \in held["batch"] /\ \A h \in Holder : h # "batch" => r \notin held[h]
    BY <1>24, <2>3 DEF Distinct, Holder
  <2>17. \A h \in Holder : q \notin held[h]
    BY <2>2, <2>3 DEF Distinct
  <2>18. \A x \in Live' : (x \in Live /\ x # r /\ x # q) \/ x = both
    <3> SUFFICES ASSUME NEW h \in Holder, NEW x \in held'[h]
                 PROVE  (x \in Live /\ x # r /\ x # q) \/ x = both
      BY <2>15 DEF Live
    <3>1. CASE h = "batch"
      <4>1. x = both \/ (x \in held["batch"] /\ x # r)
        BY <2>14, <3>1
      <4> QED BY <2>17, <3>1, <4>1 DEF Live
    <3>2. CASE h # "batch"
      <4>1. x \in held[h]
        BY <2>14, <3>2 DEF Holder
      <4> QED BY <2>16, <2>17, <3>2, <4>1 DEF Live
    <3> QED BY <3>1, <3>2
  <2>19. LiveIsWhole'
    <3> SUFFICES ASSUME NEW x \in Live'
                 PROVE  WholeAfter(x)
      BY DEF LiveIsWhole, WholeAfter, Covers
    <3> QED BY <2>11, <2>18, LiveKept
  <2>20. LiveIsDisjoint'
    <3> SUFFICES ASSUME NEW x \in Live', NEW y \in Live', x # y, x.slot = y.slot
                 PROVE  Apart(x, y)
      BY DEF LiveIsDisjoint, Apart
    <3>1. CASE x \in Live /\ y \in Live
      BY <3>1 DEF IInv, LiveIsDisjoint
    <3>2. CASE x = both /\ y \in Live
      BY <2>9, <2>12, <2>13, <2>18, <3>2
    <3>3. CASE y = both /\ x \in Live
      <4>1. Apart(y, x)
        BY <2>9, <2>12, <2>13, <2>18, <3>3
      <4> QED BY <4>1 DEF Apart
    <3> QED BY <2>18, <3>1, <3>2, <3>3
  <2>21. IsFiniteSet(held'["batch"])
    <3>1. IsFiniteSet(held["batch"])
      BY <2>3 DEF Distinct, Holder
    <3>2. IsFiniteSet(held["batch"] \ {r})
      BY <3>1, FS_Subset
    <3> QED BY <2>14, <3>2, FS_AddElement
  <2>22. \A h \in Holder : both \notin held[h]
    BY <2>13 DEF Live
  <2>23. Distinct'
    BY <2>3, <2>14, <2>15, <2>21, <2>22 DEF Distinct, Holder
  <2>24. HoldersAreDistinct'
    BY <2>1, <2>14, <2>23, HoldersBy
  <2> QED BY <2>14, <2>19, <2>20, <2>24 DEF HeldGoes
<1>25. ASSUME NEW r \in held["due"] \union Stale, Retain(r)
      PROVE  HeldGoes
  <2>1. UNCHANGED <<held, slots>>
    BY <1>25 DEF Retain
  <2>2. /\ "MTVU" \in Thread /\ Moves("MTVU") /\ th'["MTVU"].at \in {"retain", "exit"}
        /\ th'["MTVU"].payload = r
    BY <1>25, RetainGoes
  <2>3. (r \in held["due"] /\ r \notin held["draw"]) \/ r \in Stale
    BY <1>25 DEF Retain
  <2>4. r \in Stale => r.generation < slots[r.slot].generation
    BY StaleFacts
  <2>5. th'["MTVU"].at = "retain" => Retaining'
    BY <2>1, <2>2, <2>3, <2>4 DEF Retaining
  <2> QED BY <2>1, <2>2, <2>5, HeldFrame
<1>26. ASSUME NEW h \in Holder, NEW r \in held[h], Release(h, r)
      PROVE  HeldGoes
  <2> DEFINE t == Owner(h)
  <2>1. t \in Thread /\ Moves(t) /\ th'[t].at = "release" /\ h # "batch"
    BY <1>26, ReleaseGoes
  <2>2. held' = [held EXCEPT ![h] = @ \ {r}]
    BY <1>26 DEF Release
  <2>3. Distinct /\ held \in [Holder -> SUBSET Payload]
    BY HeldFacts DEF IInv, HoldersAreDistinct, Distinct
  <2>4. /\ held' \in [Holder -> SUBSET Payload] /\ held'[h] = held[h] \ {r}
        /\ \A g \in Holder : g # h => held'[g] = held[g]
    BY <2>2, <2>3
  <2>5. \A g \in Holder : \A x \in held'[g] : x \in held[g]
    BY <2>4
  <2>6. \A x \in Fresh' : x \in Fresh
    BY <2>1, FreshFrame
  <2>7. \A x \in Live' : x \in Live
    BY <2>5, <2>6 DEF Live
  <2>8. \A g \in Holder : IsFiniteSet(held'[g])
    <3>1. IsFiniteSet(held[h] \ {r})
      BY <2>3, FS_Subset DEF Distinct
    <3> QED BY <2>3, <2>4, <3>1 DEF Distinct
  <2>9. Distinct'
    BY <2>3, <2>5, <2>6, <2>8 DEF Distinct, Holder
  <2>10. t # "MTVU" => h = "draw"
    BY <2>1 DEF Owner, Holder
  <2> HIDE DEF t
  <2>11. t # "MTVU" => /\ \A x \in held["due"] : x \in held'["due"]
                       /\ \A x \in held'["draw"] : x \in held["draw"]
    BY <2>4, <2>5, <2>10 DEF Holder
  <2>12. HoldersAreDistinct'
    BY <2>1, <2>9, <2>11, HoldersBy
  <2> QED BY <2>4, <2>7, <2>12, LiveFrame DEF HeldGoes
<1>27. CASE PublishPendingVifBatch
  <2>1. th' = th /\ "EE" \in Thread /\ Moves("EE")
    BY <1>27, ThreadFacts DEF PublishPendingVifBatch, Moves, Thread, Producer
  <2>2. held' = Published
    BY <1>27 DEF PublishPendingVifBatch
  <2>3. Distinct /\ held \in [Holder -> SUBSET Payload]
    BY HeldFacts DEF IInv, HoldersAreDistinct, Distinct
  <2>4. /\ held'["batch"] = {} /\ held'["journal"] = held["journal"] \union held["batch"]
        /\ held'["due"] = held["due"] /\ held'["draw"] = held["draw"]
        /\ held' \in [Holder -> SUBSET Payload]
    BY <2>2, <2>3 DEF Published, Holder
  <2>5. \A x \in Fresh' : x \in Fresh
    BY <2>1 DEF Fresh
  <2>6. \A x \in Live' : x \in Live
    BY <2>4, <2>5 DEF Live, Holder
  <2>7. Distinct'
    <3>1. IsFiniteSet(held'["batch"]) /\ IsFiniteSet(held'["journal"]) /\ IsFiniteSet(held'["due"])
          /\ IsFiniteSet(held'["draw"])
      <4>1. IsFiniteSet(held["batch"]) /\ IsFiniteSet(held["journal"]) /\ IsFiniteSet(held["due"])
            /\ IsFiniteSet(held["draw"])
        BY <2>3 DEF Distinct, Holder
      <4>2. IsFiniteSet(held["journal"] \union held["batch"])
        BY <4>1, FS_Union
      <4> QED BY <2>4, <4>1, <4>2, FS_EmptySet
    <3> QED BY <2>3, <2>4, <2>5, <3>1 DEF Distinct, Holder
  <2>8. HoldersAreDistinct'
    BY <2>1, <2>4, <2>7, HoldersBy
  <2> QED BY <2>4, <2>6, <2>8, LiveFrame DEF HeldGoes
<1>28. CASE ExecuteVU
  <2>1. th' = th /\ "EE" \in Thread /\ Moves("EE")
    BY <1>28, ThreadFacts DEF ExecuteVU, Moves, Thread, Producer
  <2>2. held' = [held EXCEPT !["due"] = @ \union held["batch"] \union held["journal"],
                            !["batch"] = {}, !["journal"] = {}]
    BY <1>28 DEF ExecuteVU
  <2>3. Distinct /\ held \in [Holder -> SUBSET Payload]
    BY HeldFacts DEF IInv, HoldersAreDistinct, Distinct
  <2>4. /\ held'["batch"] = {} /\ held'["journal"] = {}
        /\ held'["due"] = held["due"] \union held["batch"] \union held["journal"]
        /\ held'["draw"] = held["draw"]
        /\ held' \in [Holder -> SUBSET Payload]
    BY <2>2, <2>3 DEF Holder
  <2>5. \A x \in Fresh' : x \in Fresh
    BY <2>1 DEF Fresh
  <2>6. \A x \in Live' : x \in Live
    BY <2>4, <2>5 DEF Live, Holder
  <2>7. Distinct'
    <3>1. IsFiniteSet(held'["batch"]) /\ IsFiniteSet(held'["journal"]) /\ IsFiniteSet(held'["due"])
          /\ IsFiniteSet(held'["draw"])
      <4>1. IsFiniteSet(held["batch"]) /\ IsFiniteSet(held["journal"]) /\ IsFiniteSet(held["due"])
            /\ IsFiniteSet(held["draw"])
        BY <2>3 DEF Distinct, Holder
      <4>2. IsFiniteSet(held["journal"] \union held["batch"])
        BY <4>1, FS_Union
      <4>3. IsFiniteSet(held["due"] \union held["batch"])
        BY <4>1, FS_Union
      <4>4. IsFiniteSet(held["due"] \union held["batch"] \union held["journal"])
        BY <4>1, <4>3, FS_Union
      <4> QED BY <2>4, <4>1, <4>2, <4>4, FS_EmptySet
    <3> QED BY <2>3, <2>4, <2>5, <3>1 DEF Distinct, Holder
  <2>8. HoldersAreDistinct'
    BY <2>1, <2>4, <2>7, HoldersBy
  <2> QED BY <2>4, <2>6, <2>8, LiveFrame DEF HeldGoes
<1>29. ASSUME NEW r \in path1.leaving, NEW intact \in BOOLEAN, LoadCommitted(r, intact)
      PROVE  HeldGoes
  <2>1. UNCHANGED held
    BY <1>29 DEF LoadCommitted
  <2>2. /\ "MTVU" \in Thread /\ Moves("MTVU") /\ th'["MTVU"].at \notin {"retain", "confirm"}
    BY <1>29, LoadCommittedGoes
  <2> QED BY <2>1, <2>2, HeldFrame
<1>30. CASE StorePublished
  <2>1. UNCHANGED held
    BY <1>30 DEF StorePublished
  <2>2. "MTVU" \in Thread /\ Moves("MTVU") /\ th'["MTVU"].at = "idle"
    BY <1>30, StorePublishedGoes
  <2> QED BY <2>1, <2>2, HeldFrame
<1>31. ASSUME NEW n \in 0 .. InputRingSlotCount, Initialize(n)
      PROVE  HeldGoes
  <2>1. th' = th /\ held' = held /\ th["GS"].at = "idle" /\ "GS" \in Thread
    BY <1>31, InitializeStays DEF Thread
  <2>2. Moves("GS")
    BY <2>1, ThreadFacts DEF Moves
  <2> QED BY <2>1, <2>2, HeldFrame
<1>32. CASE Unpublish
  <2>1. UNCHANGED held
    BY <1>32 DEF Unpublish
  <2> QED BY <1>32, <2>1, UnpublishGoes, HeldFrame DEF Goes, Thread, Producer
<1>33. CASE Stop
  <2>1. UNCHANGED held
    BY <1>33 DEF Stop
  <2> QED BY <1>33, <2>1, StopGoes, HeldFrame DEF Goes, Thread, Producer
<1>34. CASE WakeWaiter
  <2>1. UNCHANGED held
    BY <1>34 DEF WakeWaiter
  <2> QED BY <1>34, <2>1, WakeWaiterGoes, HeldFrame DEF Goes, Thread, Producer
<1>35. CASE PollReferences
  <2>1. UNCHANGED held
    BY <1>35 DEF PollReferences
  <2> QED BY <1>35, <2>1, PollReferencesGoes, HeldFrame DEF Goes, Thread, Producer
<1>36. CASE PollReferenceCalls
  <2>1. UNCHANGED held
    BY <1>36 DEF PollReferenceCalls
  <2> QED BY <1>36, <2>1, PollReferenceCallsGoes, HeldFrame DEF Goes, Thread, Producer
<1>37. CASE PollCaptureCalls
  <2>1. UNCHANGED held
    BY <1>37 DEF PollCaptureCalls
  <2> QED BY <1>37, <2>1, PollCaptureCallsGoes, HeldFrame DEF Goes, Thread, Producer
<1>38. CASE RefuseShutdown
  <2>1. UNCHANGED held
    BY <1>38 DEF RefuseShutdown
  <2> QED BY <1>38, <2>1, RefuseShutdownGoes, HeldFrame DEF Goes, Thread, Producer
<1>39. CASE Unmap
  <2>1. UNCHANGED held
    BY <1>39 DEF Unmap
  <2> QED BY <1>39, <2>1, UnmapGoes, HeldFrame DEF Goes, Thread, Producer
<1>40. CASE UNCHANGED ringVars
  <2>1. th' = th /\ held' = held /\ "EE" \in Thread
    BY <1>40 DEF ringVars, Thread, Producer
  <2>2. Moves("EE")
    BY <2>1, ThreadFacts DEF Moves
  <2> QED BY <2>1, <2>2, HeldFrame
<1> QED
  BY <1>1, <1>2, <1>3, <1>4, <1>5, <1>6, <1>7, <1>8, <1>9, <1>10, <1>11, <1>12, 
     <1>13, <1>14, <1>15, <1>16, <1>17, <1>18, <1>19, <1>20, <1>21, <1>22, <1>23, 
     <1>24, <1>25, <1>26, <1>27, <1>28, <1>29, <1>30, <1>31, <1>32, <1>33, <1>34, 
     <1>35, <1>36, <1>37, <1>38, <1>39, <1>40, RunStays
     DEF RingNext, CaptureStep, ReferenceStep, FinishSpan, ShutdownStep

-----------------------------------------------------------------------------
(* The count of references *)

CountsStay == \A s \in Slot : slots'[s].references = slots[s].references
Unpinned(x) == x.at \notin Pinning \/ x.payload = NoPayload

LEMMA UnpinnedCount ==
  ASSUME NEW x, Unpinned(x), NEW s \in Slot
  PROVE  Pins(x, s) = 0
<1>1. s # NoSlot
  BY DEF Slot, NoSlot
<1> QED BY <1>1 DEF Unpinned, Pins, NoPayload

LEMMA PinnedCount ==
  ASSUME NEW x, x.at \in Pinning, NEW s
  PROVE  Pins(x, s) = IF x.payload.slot = s THEN 1 ELSE 0
BY DEF Pins

\* The references stay, and what leaves the thread arrives at a holder.
LEMMA ExactHeld ==
  ASSUME IInv, NEW t \in Thread, Moves(t), CountsStay,
         \A s \in Slot : Sum(held', s) = Sum(held, s) + Pins(th[t], s) - Pins(th'[t], s)
  PROVE  OwnershipIsExact'
<1>1. ASSUME NEW s \in Slot
      PROVE  /\ Sum(held', s) \in Int /\ slots'[s].references \in Int
             /\ slots'[s].references - slots[s].references =
                    Sum(held', s) - Sum(held, s) + Pins(th'[t], s) - Pins(th[t], s)
  <2> DEFINE x == Sum(held, s)
             y == Sum(held', s)
             a == Pins(th[t], s)
             b == Pins(th'[t], s)
             m == slots[s].references
             n == slots'[s].references
  <2>1. x \in Nat /\ m \in Nat /\ n = m
    BY ExactSum, SlotFacts DEF CountsStay
  <2>2. a \in {0, 1} /\ b \in {0, 1}
    BY PinsType
  <2>3. y = x + a - b
    OBVIOUS
  <2> HIDE DEF x, y, a, b, m, n
  <2>4. y \in Int /\ n \in Int /\ n - m = y - x + b - a
    BY <2>1, <2>2, <2>3
  <2> QED BY <2>4 DEF x, y, a, b, m, n
<1> QED BY <1>1, ExactBalance

LEMMA ExactFrame ==
  ASSUME IInv, NEW t \in Thread, Moves(t), CountsStay, UNCHANGED held,
         \/ Unpinned(th[t]) /\ Unpinned(th'[t])
         \/ /\ th[t].at \in Pinning /\ th'[t].at \in Pinning
            /\ th'[t].payload = th[t].payload
  PROVE  OwnershipIsExact'
<1>1. ASSUME NEW s \in Slot
      PROVE  Sum(held', s) = Sum(held, s) + Pins(th[t], s) - Pins(th'[t], s)
  <2>1. Pins(th'[t], s) = Pins(th[t], s)
    <3>1. CASE Unpinned(th[t]) /\ Unpinned(th'[t])
      BY <3>1, UnpinnedCount
    <3>2. CASE /\ th[t].at \in Pinning /\ th'[t].at \in Pinning
               /\ th'[t].payload = th[t].payload
      BY <3>2, PinnedCount
    <3> QED BY <3>1, <3>2
  <2>2. Pins(th[t], s) \in {0, 1} /\ Sum(held, s) \in Nat
    BY PinsType, ExactSum
  <2>3. Sum(held', s) = Sum(held, s)
    OBVIOUS
  <2> QED BY <2>1, <2>2, <2>3
<1> QED BY <1>1, ExactHeld

\* The thread gets or gives back a reference of slot c.
LEMMA ExactCount ==
  ASSUME IInv, NEW t \in Thread, Moves(t), UNCHANGED held, NEW c \in Slot, OneSlot(c),
         NEW d \in Int, slots'[c].references = slots[c].references + d,
         \A s \in Slot : Pins(th'[t], s) = Pins(th[t], s) + (IF s = c THEN d ELSE 0)
  PROVE  OwnershipIsExact'
<1>1. ASSUME NEW s \in Slot
      PROVE  /\ Sum(held', s) \in Int /\ slots'[s].references \in Int
             /\ slots'[s].references - slots[s].references =
                    Sum(held', s) - Sum(held, s) + Pins(th'[t], s) - Pins(th[t], s)
  <2> DEFINE x == Sum(held, s)
             a == Pins(th[t], s)
             b == Pins(th'[t], s)
             m == slots[s].references
             n == slots'[s].references
             e == IF s = c THEN d ELSE 0
  <2>1. x \in Nat /\ m \in Nat
    BY ExactSum, SlotFacts
  <2>2. a \in {0, 1} /\ b \in {0, 1}
    BY PinsType
  <2>3. b = a + e /\ e \in Int
    OBVIOUS
  <2>4. n = m + e
    <3>1. CASE s = c
      BY <3>1
    <3>2. CASE s # c
      <4>1. slots'[s] = slots[s]
        BY <3>2 DEF OneSlot
      <4> QED BY <2>1, <3>2, <4>1
    <3> QED BY <3>1, <3>2
  <2>5. Sum(held', s) = x
    OBVIOUS
  <2> HIDE DEF x, a, b, m, n, e
  <2>6. x \in Int /\ n \in Int /\ n - m = x - x + b - a
    BY <2>1, <2>2, <2>3, <2>4
  <2> QED BY <2>5, <2>6 DEF x, a, b, m, n
<1> QED BY <1>1, ExactBalance

LEMMA HeldCounts ==
  ASSUME IInv, NEW s
  PROVE  /\ IsFiniteSet(held["batch"]) /\ IsFiniteSet(held["journal"])
         /\ IsFiniteSet(held["due"]) /\ IsFiniteSet(held["draw"])
         /\ Cardinality(Of(held["batch"], s)) \in Nat /\ Cardinality(Of(held["journal"], s)) \in Nat
         /\ Cardinality(Of(held["due"], s)) \in Nat /\ Cardinality(Of(held["draw"], s)) \in Nat
<1>1. /\ IsFiniteSet(held["batch"]) /\ IsFiniteSet(held["journal"])
      /\ IsFiniteSet(held["due"]) /\ IsFiniteSet(held["draw"])
  BY DEF IInv, HoldersAreDistinct, Holder
<1> QED BY <1>1, OfFacts

\* A change of what one holder has
LEMMA SumChange ==
  ASSUME IInv, NEW h \in Holder, \A g \in Holder : g # h => held'[g] = held[g],
         NEW s, NEW d \in Int,
         Cardinality(Of(held'[h], s)) = Cardinality(Of(held[h], s)) + d
  PROVE  Sum(held', s) = Sum(held, s) + d
<1> DEFINE a1 == Cardinality(Of(held["batch"], s))
           a2 == Cardinality(Of(held["journal"], s))
           a3 == Cardinality(Of(held["due"], s))
           a4 == Cardinality(Of(held["draw"], s))
           b1 == Cardinality(Of(held'["batch"], s))
           b2 == Cardinality(Of(held'["journal"], s))
           b3 == Cardinality(Of(held'["due"], s))
           b4 == Cardinality(Of(held'["draw"], s))
<1>1. a1 \in Nat /\ a2 \in Nat /\ a3 \in Nat /\ a4 \in Nat
  BY HeldCounts
<1>2. \A g \in Holder : g # h => held'[g] = held[g]
  OBVIOUS
<1>3. "batch" \in Holder /\ "journal" \in Holder /\ "due" \in Holder /\ "draw" \in Holder
  BY DEF Holder
<1>4. \/ b1 = a1 + d /\ b2 = a2 /\ b3 = a3 /\ b4 = a4
      \/ b1 = a1 /\ b2 = a2 + d /\ b3 = a3 /\ b4 = a4
      \/ b1 = a1 /\ b2 = a2 /\ b3 = a3 + d /\ b4 = a4
      \/ b1 = a1 /\ b2 = a2 /\ b3 = a3 /\ b4 = a4 + d
  <2>1. CASE h = "batch"
    BY <1>2, <1>3, <2>1
  <2>2. CASE h = "journal"
    BY <1>2, <1>3, <2>2
  <2>3. CASE h = "due"
    BY <1>2, <1>3, <2>3
  <2>4. CASE h = "draw"
    BY <1>2, <1>3, <2>4
  <2> QED BY <2>1, <2>2, <2>3, <2>4 DEF Holder
<1>5. Sum(held, s) = a1 + a2 + a3 + a4 /\ Sum(held', s) = b1 + b2 + b3 + b4
  BY DEF Sum
<1> HIDE DEF a1, a2, a3, a4, b1, b2, b3, b4
<1> QED BY <1>1, <1>4, <1>5

\* The thread hands its pin r to holder h.
LEMMA ExactHandOver ==
  ASSUME IInv, NEW t \in Thread, Moves(t), CountsStay, NEW h \in Holder, NEW r,
         th[t].payload = r, th[t].at \in Pinning, Unpinned(th'[t]), r \notin held[h],
         held' = [held EXCEPT ![h] = held[h] \union {r}]
  PROVE  OwnershipIsExact'
<1>1. IsFiniteSet(held[h])
  BY DEF IInv, HoldersAreDistinct
<1>2. ASSUME NEW s \in Slot
      PROVE  Sum(held', s) = Sum(held, s) + Pins(th[t], s) - Pins(th'[t], s)
  <2> DEFINE d == IF r.slot = s THEN 1 ELSE 0
  <2>1. d \in Int
    OBVIOUS
  <2>6. held'[h] = held[h] \union {r} /\ \A g \in Holder : g # h => held'[g] = held[g]
    BY HeldFacts
  <2>2. Cardinality(Of(held'[h], s)) = Cardinality(Of(held[h], s)) + d
    BY <1>1, <2>6, OfAdd
  <2>3. Pins(th[t], s) = d /\ Pins(th'[t], s) = 0
    BY PinnedCount, UnpinnedCount
  <2>4. Sum(held, s) \in Nat
    BY ExactSum
  <2> HIDE DEF d
  <2>5. Sum(held', s) = Sum(held, s) + d
    BY <2>1, <2>2, <2>6, SumChange
  <2> QED BY <2>1, <2>3, <2>4, <2>5
<1> QED BY <1>2, ExactHeld

LEMMA CommitIsNew ==
  ASSUME IInv, NEW p \in Producer, Commit(p), NEW h \in Holder
  PROVE  th[p].payload \notin held[h]
<1> DEFINE r == th[p].payload
<1>1. th[p].at = "commit" /\ th[p].at \in Filling
  BY CommitGoes DEF Filling
<1>2. /\ r.slot \in Slot /\ r.offset \in Nat /\ r.size \in Nat /\ r.size >= 1
      /\ slots[r.slot].committed <= r.offset
  BY <1>1, FillingFacts, Sizes0 DEF Unit, IInv, ReservationIsNext
<1>3. slots[r.slot].committed \in Nat
  BY <1>2, SlotFacts
<1>4. r \in held[h] => r.offset + r.size <= slots[r.slot].committed
  BY HeldIsCurrent DEF IInv, LiveIsWhole
<1> QED BY <1>2, <1>3, <1>4

\* Every step keeps the count of references exact.
LEMMA ExactStep ==
  ASSUME IInv, [Next]_vars
  PROVE  OwnershipIsExact'
<1>1. ASSUME NEW p \in Producer, CaptureRawVifPayload(p)
      PROVE  OwnershipIsExact'
  <2>1. CountsStay /\ UNCHANGED held
    BY <1>1 DEF CaptureRawVifPayload, CountsStay
  <2>2. p \in Thread /\ Moves(p) /\ Unpinned(th[p]) /\ Unpinned(th'[p])
    BY <1>1, CaptureRawVifPayloadGoes DEF Unpinned, Pinning, Thread, Producer
  <2> QED BY <2>1, <2>2, ExactFrame
<1>2. ASSUME NEW p \in Producer, LoadActiveRing(p)
      PROVE  OwnershipIsExact'
  <2>1. CountsStay /\ UNCHANGED held
    BY <1>2 DEF LoadActiveRing, CountsStay
  <2>2. p \in Thread /\ Moves(p) /\ th[p].at = "load" /\ th'[p].payload = th[p].payload
    BY <1>2, LoadActiveRingGoes DEF Goes
  <2>3. th[p].payload = NoPayload
    BY <2>2, ThreadFacts DEF ThreadIsTyped, Asking, InCapture, Critical
  <2> QED BY <2>1, <2>2, <2>3, ExactFrame DEF Unpinned
<1>3. ASSUME NEW p \in Producer, LockCapture(p)
      PROVE  OwnershipIsExact'
  <2>1. CountsStay /\ UNCHANGED held
    BY <1>3 DEF LockCapture, CountsStay
  <2>2. p \in Thread /\ Moves(p) /\ Unpinned(th[p]) /\ Unpinned(th'[p])
    BY <1>3, LockCaptureGoes DEF Goes, Unpinned, Pinning, Thread, Producer
  <2> QED BY <2>1, <2>2, ExactFrame
<1>4. ASSUME NEW p \in Producer, TestAccepting(p)
      PROVE  OwnershipIsExact'
  <2>1. CountsStay /\ UNCHANGED held
    BY <1>4 DEF TestAccepting, CountsStay
  <2>2. p \in Thread /\ Moves(p) /\ th[p].at = "loop" /\ th'[p].payload = th[p].payload
    BY <1>4, TestAcceptingGoes DEF Goes
  <2>3. th[p].payload = NoPayload
    BY <2>2, ThreadFacts DEF ThreadIsTyped, Asking, InCapture, Critical
  <2> QED BY <2>1, <2>2, <2>3, ExactFrame DEF Unpinned
<1>5. ASSUME NEW p \in Producer, Reserve(p)
      PROVE  OwnershipIsExact'
  <2>1. CASE StopAccepting(p)
    <3>1. p \in Thread /\ Moves(p) /\ th'[p].payload = NoPayload /\ th[p].at = "reserve"
          /\ UNCHANGED <<slots, held>>
      BY <1>5, <2>1, ReserveGoes, ZenonT(60) DEF Reserve
    <3> QED BY <3>1, ExactFrame DEF Unpinned, Pinning, CountsStay
  <2>2. CASE ~StopAccepting(p)
    <3> DEFINE c == ring.current
               r == th'[p].payload
    <3>1. /\ p \in Thread /\ Moves(p) /\ th[p].at = "reserve" /\ UNCHANGED held
          /\ r.slot = c /\ th'[p].at \in {"empty", "fill"}
      BY <1>5, <2>2, ReservePayload
    <3>2. OneSlot(c) /\ slots'[c].references = slots[c].references + 1 /\ c \in Slot
      BY <1>5, <2>2, ReserveSlots DEF OneSlot
    <3>3. ASSUME NEW s \in Slot
          PROVE  Pins(th'[p], s) = Pins(th[p], s) + (IF s = c THEN 1 ELSE 0)
      <4>1. Pins(th[p], s) = 0
        BY <3>1, UnpinnedCount DEF Unpinned, Pinning
      <4>2. Pins(th'[p], s) = IF s = c THEN 1 ELSE 0
        BY <3>1, PinnedCount DEF Pinning
      <4> QED BY <4>1, <4>2
    <3> HIDE DEF c
    <3> QED BY <3>1, <3>2, <3>3, ExactCount
  <2> QED BY <2>1, <2>2
<1>6. ASSUME NEW p \in Producer, BeginGeneration(p)
      PROVE  OwnershipIsExact'
  <2>1. CountsStay /\ UNCHANGED held
    BY <1>6, BeginSlots DEF CountsStay, OneSlot, BeginGeneration
  <2>2. /\ p \in Thread /\ Moves(p) /\ th[p].at \in Pinning /\ th'[p].at \in Pinning
        /\ th'[p].payload = th[p].payload
    BY <1>6, BeginGenerationGoes DEF Goes, Pinning
  <2> QED BY <2>1, <2>2, ExactFrame
<1>7. ASSUME NEW p \in Producer, NEW intact \in BOOLEAN, Recycle(p, intact)
      PROVE  OwnershipIsExact'
  <2>1. CountsStay
    <3>1. CASE UNCHANGED slots
      BY <3>1 DEF CountsStay
    <3>3. CASE StopAccepting(p) /\ ~UNCHANGED slots
      <4>1. Become(p, "loop") /\ Become(p, "leave")
        BY <1>7, <3>3 DEF Recycle, StopAccepting, Return
      <4>2. p \in Thread
        BY ThreadFacts
      <4>3. th'[p].at = "leave" /\ th'[p].at = "loop"
        BY <4>1, <4>2, BecomeFacts, ThreadFacts DEF Where
      <4> QED BY <4>3
    <3>2. CASE ~StopAccepting(p)
      BY <1>7, <3>2, RecycleSlots DEF CountsStay, OneSlot
    <3> QED BY <3>1, <3>2, <3>3
  <2>2. UNCHANGED held
    BY <1>7 DEF Recycle
  <2>3. p \in Thread /\ Moves(p) /\ th[p].at = "reserve" /\ th'[p].payload = th[p].payload
    BY <1>7, RecycleGoes DEF Goes
  <2>4. th[p].payload = NoPayload
    BY <2>3, ThreadFacts DEF ThreadIsTyped, Asking, InCapture, Critical
  <2> QED BY <2>1, <2>2, <2>3, <2>4, ExactFrame DEF Unpinned
<1>8. ASSUME NEW p \in Producer, FindOwned(p)
      PROVE  OwnershipIsExact'
  <2>1. CountsStay /\ UNCHANGED held
    BY <1>8 DEF FindOwned, CountsStay
  <2>2. p \in Thread /\ Moves(p) /\ Unpinned(th[p]) /\ Unpinned(th'[p])
    BY <1>8, FindOwnedGoes DEF Goes, Unpinned, Pinning, Thread, Producer
  <2> QED BY <2>1, <2>2, ExactFrame
<1>9. ASSUME NEW p \in Producer, ArmWaiter(p)
      PROVE  OwnershipIsExact'
  <2>1. CountsStay /\ UNCHANGED held
    BY <1>9 DEF ArmWaiter, CountsStay
  <2>2. p \in Thread /\ Moves(p) /\ th[p].at = "arm" /\ th'[p].payload = th[p].payload
    BY <1>9, ArmWaiterGoes DEF Goes
  <2>3. th[p].payload = NoPayload
    BY <2>2, ThreadFacts DEF ThreadIsTyped, Asking, InCapture, Critical
  <2> QED BY <2>1, <2>2, <2>3, ExactFrame DEF Unpinned
<1>10. ASSUME NEW p \in Producer, Recheck(p)
      PROVE  OwnershipIsExact'
  <2>1. CountsStay /\ UNCHANGED held
    BY <1>10 DEF Recheck, CountsStay
  <2>2. p \in Thread /\ Moves(p) /\ Unpinned(th[p]) /\ Unpinned(th'[p])
    BY <1>10, RecheckGoes DEF Goes, Unpinned, Pinning, Thread, Producer
  <2> QED BY <2>1, <2>2, ExactFrame
<1>11. ASSUME NEW p \in Producer, Disarm(p)
      PROVE  OwnershipIsExact'
  <2>1. CountsStay /\ UNCHANGED held
    BY <1>11 DEF Disarm, CountsStay
  <2>2. p \in Thread /\ Moves(p) /\ Unpinned(th[p]) /\ Unpinned(th'[p])
    BY <1>11, DisarmGoes DEF Goes, Unpinned, Pinning, Thread, Producer
  <2> QED BY <2>1, <2>2, ExactFrame
<1>12. ASSUME NEW p \in Producer, RequestGpuVuInputRetirement(p)
      PROVE  OwnershipIsExact'
  <2>1. p \in Thread /\ Moves(p) /\ th[p].at = "request" /\ th'[p].at = "wait"
    BY <1>12, RequestGpuVuInputRetirementGoes DEF Goes
  <2>2. held' = Published /\ UNCHANGED slots
    BY <1>12 DEF RequestGpuVuInputRetirement
  <2>3. /\ held'["batch"] = {} /\ held'["journal"] = held["journal"] \union held["batch"]
        /\ held'["due"] = held["due"] /\ held'["draw"] = held["draw"]
    BY <2>2, HeldFacts DEF Published, Holder
  <2>4. ASSUME NEW s \in Slot
        PROVE  Sum(held', s) = Sum(held, s)
    <3> DEFINE a1 == Cardinality(Of(held["batch"], s))
               a2 == Cardinality(Of(held["journal"], s))
               a3 == Cardinality(Of(held["due"], s))
               a4 == Cardinality(Of(held["draw"], s))
    <3>1. a1 \in Nat /\ a2 \in Nat /\ a3 \in Nat /\ a4 \in Nat
      BY HeldCounts
    <3>2. \A r \in held["batch"] : r \notin held["journal"]
      BY DEF IInv, HoldersAreDistinct
    <3>5. IsFiniteSet(held["journal"]) /\ IsFiniteSet(held["batch"])
      BY HeldCounts
    <3>3. Cardinality(Of(held["journal"] \union held["batch"], s)) = a2 + a1
      BY <3>2, <3>5, OfUnion
    <3>4. Sum(held, s) = a1 + a2 + a3 + a4 /\ Sum(held', s) = 0 + (a2 + a1) + a3 + a4
      BY <2>3, <3>3, OfEmpty DEF Sum
    <3> HIDE DEF a1, a2, a3, a4
    <3> QED BY <3>1, <3>4
  <2>5. ASSUME NEW s \in Slot
        PROVE  Sum(held', s) = Sum(held, s) + Pins(th[p], s) - Pins(th'[p], s)
    <3>1. Pins(th[p], s) = Pins(th'[p], s) /\ Pins(th[p], s) \in {0, 1} /\ Sum(held, s) \in Nat
      BY <2>1, UnpinnedCount, ExactSum, PinsType DEF Unpinned, Pinning
    <3> QED BY <2>4, <3>1
  <2> QED BY <2>1, <2>2, <2>5, ExactHeld DEF CountsStay
<1>13. ASSUME NEW p \in Producer, WaitSlotReleased(p)
      PROVE  OwnershipIsExact'
  <2>1. CountsStay /\ UNCHANGED held
    BY <1>13 DEF WaitSlotReleased, CountsStay
  <2>2. p \in Thread /\ Moves(p) /\ Unpinned(th[p]) /\ Unpinned(th'[p])
    BY <1>13, WaitSlotReleasedGoes DEF Goes, Unpinned, Pinning, Thread, Producer
  <2> QED BY <2>1, <2>2, ExactFrame
<1>14. ASSUME NEW p \in Producer, Fill(p)
      PROVE  OwnershipIsExact'
  <2>1. CountsStay /\ UNCHANGED held
    BY <1>14, FillSlots DEF CountsStay, OneSlot, Fill
  <2>2. /\ p \in Thread /\ Moves(p) /\ th[p].at \in Pinning /\ th'[p].at \in Pinning
        /\ th'[p].payload = th[p].payload
    BY <1>14, FillGoes DEF Goes, Pinning
  <2> QED BY <2>1, <2>2, ExactFrame
<1>15. ASSUME NEW p \in Producer, Commit(p)
      PROVE  OwnershipIsExact'
  <2> DEFINE r == th[p].payload
             s == r.slot
  <2>1. /\ p \in Thread /\ Moves(p) /\ th[p].at = "commit" /\ th'[p].at = "leave"
        /\ th'[p].payload = IF p = "MTVU" THEN NoPayload ELSE r
    BY <1>15, CommitGoes
  <2>2. th[p].at \in Filling /\ th[p].at \in Pinning /\ th'[p].at \in Pinning
    BY <2>1 DEF Filling, Pinning
  <2>3. CountsStay
    BY <1>15, CommitSlots DEF CountsStay, OneSlot
  <2>4. CASE p = "MTVU"
    <3>1. held' = [held EXCEPT !["draw"] = held["draw"] \union {r}]
      BY <1>15, <2>4 DEF Commit, BindToDraw
    <3>2. "draw" \in Holder /\ Unpinned(th'[p])
      BY <2>1, <2>4 DEF Holder, Unpinned
    <3>3. r \notin held["draw"]
      BY <1>15, CommitIsNew DEF Holder
    <3> QED BY <2>1, <2>2, <2>3, <3>1, <3>2, <3>3, ExactHandOver
  <2>5. CASE p # "MTVU"
    <3>1. UNCHANGED held
      BY <1>15, <2>5 DEF Commit
    <3> QED BY <2>1, <2>2, <2>3, <2>5, <3>1, ExactFrame
  <2> QED BY <2>4, <2>5
<1>16. ASSUME NEW p \in Producer, LeaveCapture(p)
      PROVE  OwnershipIsExact'
  <2>1. CountsStay /\ UNCHANGED held
    BY <1>16 DEF CountsStay, LeaveCapture
  <2>2. /\ p \in Thread /\ Moves(p) /\ th[p].at = "leave" /\ th'[p].payload = th[p].payload
        /\ th'[p].at = IF th[p].payload = NoPayload THEN "idle" ELSE "captured"
    BY <1>16, LeaveCaptureGoes
  <2>3. CASE th[p].payload = NoPayload
    BY <2>1, <2>2, <2>3, ExactFrame DEF Unpinned
  <2>4. CASE th[p].payload # NoPayload
    BY <2>1, <2>2, <2>4, ExactFrame DEF Pinning
  <2> QED BY <2>3, <2>4
<1>17. CASE RetainOwnership
  <2> DEFINE r == th["MTVU"].payload
             c == r.slot
  <2>1. "MTVU" \in Thread /\ Moves("MTVU") /\ th'["MTVU"].payload = r
        /\ UNCHANGED held
    BY <1>17, RetainOwnershipGoes DEF Goes, RetainOwnership
  <2>2. /\ c \in Slot /\ th["MTVU"].at = "retain"
        /\ \/ UNCHANGED slots /\ th'["MTVU"].at = "exit"
           \/ Counted(c, slots[c].references + 1) /\ th'["MTVU"].at = "confirm"
    BY <1>17, RetainSlots
  <2>3. CASE UNCHANGED slots /\ th'["MTVU"].at = "exit"
    BY <2>1, <2>2, <2>3, ExactFrame DEF Unpinned, Pinning, CountsStay
  <2>4. CASE Counted(c, slots[c].references + 1) /\ th'["MTVU"].at = "confirm"
    <3>1. OneSlot(c) /\ slots'[c].references = slots[c].references + 1
      BY <2>4 DEF Counted
    <3>2. ASSUME NEW s \in Slot
          PROVE  Pins(th'["MTVU"], s) = Pins(th["MTVU"], s) + (IF s = c THEN 1 ELSE 0)
      <4>1. Pins(th["MTVU"], s) = 0
        BY <2>2, UnpinnedCount DEF Unpinned, Pinning
      <4>2. Pins(th'["MTVU"], s) = IF s = c THEN 1 ELSE 0
        BY <2>1, <2>4, PinnedCount DEF Pinning
      <4> QED BY <4>1, <4>2
    <3> HIDE DEF c
    <3> QED BY <2>1, <2>2, <3>1, <3>2, ExactCount
  <2> QED BY <2>2, <2>3, <2>4
<1>18. CASE ConfirmRetain
  <2> DEFINE r == th["MTVU"].payload
  <2>1. /\ "MTVU" \in Thread /\ Moves("MTVU") /\ th["MTVU"].at = "confirm"
        /\ th'["MTVU"].payload = r
    BY <1>18, ConfirmRetainGoes DEF Goes
  <2>2. /\ CountsStay
        /\ \/ UNCHANGED held /\ Become("MTVU", "release")
           \/ /\ held' = [held EXCEPT !["draw"] = held["draw"] \union {r}]
              /\ Become("MTVU", "exit")
    BY <1>18 DEF ConfirmRetain, CountsStay, BindToDraw
  <2>3. CASE UNCHANGED held /\ Become("MTVU", "release")
    <3>1. th'["MTVU"].at = "release"
      BY <2>1, <2>3, ThreadFacts, BecomeFacts DEF Where
    <3> QED BY <2>1, <2>2, <2>3, <3>1, ExactFrame DEF Pinning
  <2>4. CASE /\ held' = [held EXCEPT !["draw"] = held["draw"] \union {r}]
             /\ Become("MTVU", "exit")
    <3>1. th'["MTVU"].at = "exit"
      BY <2>1, <2>4, ThreadFacts, BecomeFacts DEF Where
    <3>2. r \notin held["draw"]
      BY <2>1 DEF IInv, HoldersAreDistinct
    <3>3. "draw" \in Holder /\ th["MTVU"].at \in Pinning /\ Unpinned(th'["MTVU"])
      BY <2>1, <3>1 DEF Holder, Pinning, Unpinned
    <3> QED BY <2>1, <2>2, <2>4, <3>2, <3>3, ExactHandOver
  <2> QED BY <2>2, <2>3, <2>4
<1>19. ASSUME NEW t \in Thread, ReleaseOwnership(t)
      PROVE  OwnershipIsExact'
  <2> DEFINE r == th[t].payload
             c == r.slot
  <2>1. Moves(t) /\ th'[t].at \in {"claim", "exit"} /\ UNCHANGED held
    BY <1>19, ReleaseOwnershipGoes DEF Goes, ReleaseOwnership
  <2>2. /\ c \in Slot /\ th[t].at = "release" /\ OneSlot(c)
        /\ slots'[c].references = slots[c].references - 1 /\ slots[c].references - 1 \in Nat
    BY <1>19, ReleaseSlots DEF Counted
  <2>3. ASSUME NEW s \in Slot
        PROVE  Pins(th'[t], s) = Pins(th[t], s) + (IF s = c THEN -1 ELSE 0)
    <3>1. Pins(th'[t], s) = 0
      BY <2>1, UnpinnedCount DEF Unpinned, Pinning
    <3>2. Pins(th[t], s) = IF s = c THEN 1 ELSE 0
      BY <2>2, PinnedCount DEF Pinning
    <3> QED BY <3>1, <3>2
  <2>4. slots[c].references \in Nat
    BY <2>2, SlotFacts
  <2> HIDE DEF c
  <2>5. slots'[c].references = slots[c].references + (-1)
    BY <2>2, <2>4
  <2> QED BY <2>1, <2>2, <2>3, <2>5, ExactCount
<1>20. ASSUME NEW t \in Thread, ClaimWaiter(t)
      PROVE  OwnershipIsExact'
  <2>1. CountsStay /\ UNCHANGED held
    BY <1>20 DEF ClaimWaiter, CountsStay
  <2>2. t \in Thread /\ Moves(t) /\ Unpinned(th[t]) /\ Unpinned(th'[t])
    BY <1>20, ClaimWaiterGoes DEF Goes, Unpinned, Pinning, Thread, Producer
  <2> QED BY <2>1, <2>2, ExactFrame
<1>21. ASSUME NEW t \in Thread, SignalWaiter(t)
      PROVE  OwnershipIsExact'
  <2>1. CountsStay /\ UNCHANGED held
    BY <1>21 DEF SignalWaiter, CountsStay
  <2>2. t \in Thread /\ Moves(t) /\ Unpinned(th[t]) /\ Unpinned(th'[t])
    BY <1>21, SignalWaiterGoes DEF Goes, Unpinned, Pinning, Thread, Producer
  <2> QED BY <2>1, <2>2, ExactFrame
<1>22. ASSUME NEW t \in Thread, ExitReferenceCall(t)
      PROVE  OwnershipIsExact'
  <2>1. CountsStay /\ UNCHANGED held
    BY <1>22 DEF ExitReferenceCall, CountsStay
  <2>2. t \in Thread /\ Moves(t) /\ Unpinned(th[t]) /\ Unpinned(th'[t])
    BY <1>22, ExitReferenceCallGoes DEF Unpinned, Pinning, Thread, Producer
  <2> QED BY <2>1, <2>2, ExactFrame
<1>23. CASE SeparateSpan
  <2> DEFINE r == th["EE"].payload
  <2>1. /\ "EE" \in Thread /\ Moves("EE") /\ th["EE"].at = "captured" /\ th'["EE"].at = "idle"
    BY <1>23, SeparateSpanGoes
  <2>2. CountsStay /\ held' = [held EXCEPT !["batch"] = held["batch"] \union {r}]
    BY <1>23 DEF SeparateSpan, CountsStay
  <2>3. r \in Payload
    BY <2>1, ThreadFacts DEF ThreadIsTyped
  <2>4. r \in Fresh
    BY <2>1, <2>3, PayloadIsOne DEF Fresh
  <2>5. "batch" \in Holder /\ r \notin held["batch"]
    BY <2>4 DEF Holder, IInv, HoldersAreDistinct
  <2>6. th["EE"].at \in Pinning /\ Unpinned(th'["EE"])
    BY <2>1 DEF Pinning, Unpinned
  <2> QED BY <2>1, <2>2, <2>5, <2>6, ExactHandOver
<1>24. ASSUME NEW r \in held["batch"], MergeSpan(r)
      PROVE  OwnershipIsExact'
  <2> DEFINE q == th["EE"].payload
             both == [r EXCEPT !.size = r.size + q.size, !.late = r.late \/ q.late]
  <2>1. /\ "EE" \in Thread /\ Moves("EE") /\ th["EE"].at = "captured" /\ th'["EE"].at = "release"
        /\ q \in Payload /\ th'["EE"].payload = q
    BY <1>24, MergeSpanGoes
  <2>2. /\ CountsStay /\ r \in held["batch"]
        /\ held' = [held EXCEPT !["batch"] = (held["batch"] \ {r}) \union {both}]
    BY <1>24 DEF MergeSpan, CountsStay
  <2>3. "batch" \in Holder /\ IsFiniteSet(held["batch"])
    BY HeldCounts DEF Holder
  <2>4. /\ r \in Payload /\ r \in Live
    BY <2>2, <2>3, HeldIsCurrent
  <2>5. r.offset \in Nat /\ r.size \in Nat /\ r.size >= 1 /\ q.size \in Nat /\ q.size >= 1
    BY <2>1, <2>4, Sizes0 DEF Payload, Unit
  <2>6. both.slot = r.slot /\ both.offset = r.offset /\ both.size = r.size + q.size
    BY <2>4 DEF Payload
  <2> HIDE DEF both, q
  <2>7. both \notin held["batch"]
    <3> SUFFICES ASSUME both \in held["batch"]
                 PROVE  FALSE
      OBVIOUS
    <3>1. both \in Live /\ both # r
      BY <2>3, <2>5, <2>6, HeldIsCurrent
    <3>2. Apart(both, r)
      BY <2>4, <2>6, <3>1 DEF IInv, LiveIsDisjoint
    <3> QED BY <2>5, <2>6, <3>2 DEF Apart
  <2>8. ASSUME NEW s \in Slot
        PROVE  Sum(held', s) = Sum(held, s) + Pins(th["EE"], s) - Pins(th'["EE"], s)
    <3> DEFINE H == (held["batch"] \ {r}) \union {both}
               d == IF r.slot = s THEN 1 ELSE 0
               a == Cardinality(Of(held["batch"], s))
               b == Cardinality(Of(held["batch"] \ {r}, s))
               e == Cardinality(Of(H, s))
    <3>1. IsFiniteSet(held["batch"] \ {r}) /\ a = b + d
      BY <2>2, <2>3, OfRemove
    <3>2. e = b + d
      BY <2>6, <2>7, <3>1, OfAdd
    <3>3. b \in Nat /\ d \in Nat
      BY <3>1, OfFacts
    <3> HIDE DEF a, b, d
    <3>4. e = a + 0
      BY <3>1, <3>2, <3>3
    <3>9. held'["batch"] = H /\ \A g \in Holder : g # "batch" => held'[g] = held[g]
      BY <2>2, <2>3, HeldFacts
    <3>8. Cardinality(Of(held'["batch"], s)) = Cardinality(Of(held["batch"], s)) + 0
      BY <3>4, <3>9 DEF a
    <3>5. Sum(held', s) = Sum(held, s) + 0
      BY <2>3, <3>8, <3>9, SumChange
    <3>6. Pins(th'["EE"], s) = Pins(th["EE"], s)
      BY <2>1, PinnedCount DEF Pinning, q
    <3>7. Pins(th["EE"], s) \in {0, 1} /\ Sum(held, s) \in Nat
      BY PinsType, ExactSum
    <3> QED BY <3>5, <3>6, <3>7
  <2> QED BY <2>1, <2>2, <2>8, ExactHeld
<1>25. ASSUME NEW r \in held["due"] \union Stale, Retain(r)
      PROVE  OwnershipIsExact'
  <2>1. CountsStay /\ UNCHANGED held
    BY <1>25 DEF Retain, CountsStay
  <2>2. "MTVU" \in Thread /\ Moves("MTVU") /\ Unpinned(th["MTVU"]) /\ Unpinned(th'["MTVU"])
    BY <1>25, RetainGoes DEF Unpinned, Pinning, Thread, Producer
  <2> QED BY <2>1, <2>2, ExactFrame
<1>26. ASSUME NEW h \in Holder, NEW r \in held[h], Release(h, r)
      PROVE  OwnershipIsExact'
  <2> DEFINE t == Owner(h)
  <2>1. /\ t \in Thread /\ Moves(t) /\ th[t].at = "idle" /\ th'[t].at = "release"
        /\ th'[t].payload = r
    BY <1>26, ReleaseGoes
  <2>2. CountsStay /\ held' = [held EXCEPT ![h] = held[h] \ {r}]
    BY <1>26 DEF Release, CountsStay
  <2>3. IsFiniteSet(held[h])
    BY DEF IInv, HoldersAreDistinct
  <2> HIDE DEF t
  <2>4. ASSUME NEW s \in Slot
        PROVE  Sum(held', s) = Sum(held, s) + Pins(th[t], s) - Pins(th'[t], s)
    <3> DEFINE d == IF r.slot = s THEN 1 ELSE 0
               H == held[h] \ {r}
               a == Cardinality(Of(held[h], s))
               b == Cardinality(Of(H, s))
    <3>1. IsFiniteSet(H) /\ a = b + d
      BY <2>3, OfRemove
    <3>2. b \in Nat /\ d \in {0, 1}
      BY <3>1, OfFacts
    <3>3. Pins(th'[t], s) = d /\ Pins(th[t], s) = 0
      BY <2>1, PinnedCount, UnpinnedCount DEF Pinning, Unpinned
    <3>4. Sum(held, s) \in Nat
      BY ExactSum
    <3> HIDE DEF a, b, d, H
    <3>5. b = a + (-d) /\ -d \in Int
      BY <3>1, <3>2
    <3>7. held'[h] = H /\ \A g \in Holder : g # h => held'[g] = held[g]
      BY <2>2, HeldFacts DEF H
    <3>8. Cardinality(Of(held'[h], s)) = Cardinality(Of(held[h], s)) + (-d)
      BY <3>5, <3>7 DEF a, b
    <3>6. Sum(held', s) = Sum(held, s) + (-d)
      BY <3>5, <3>7, <3>8, SumChange
    <3> QED BY <3>2, <3>3, <3>4, <3>6
  <2> QED BY <2>1, <2>2, <2>4, ExactHeld
<1>27. CASE PublishPendingVifBatch
  <2>1. th' = th /\ "EE" \in Thread /\ Moves("EE")
    BY <1>27, ThreadFacts DEF PublishPendingVifBatch, Moves, Thread, Producer
  <2>2. held' = Published /\ UNCHANGED slots
    BY <1>27 DEF PublishPendingVifBatch
  <2>3. /\ held'["batch"] = {} /\ held'["journal"] = held["journal"] \union held["batch"]
        /\ held'["due"] = held["due"] /\ held'["draw"] = held["draw"]
    BY <2>2, HeldFacts DEF Published, Holder
  <2>4. ASSUME NEW s \in Slot
        PROVE  Sum(held', s) = Sum(held, s)
    <3> DEFINE a1 == Cardinality(Of(held["batch"], s))
               a2 == Cardinality(Of(held["journal"], s))
               a3 == Cardinality(Of(held["due"], s))
               a4 == Cardinality(Of(held["draw"], s))
    <3>1. a1 \in Nat /\ a2 \in Nat /\ a3 \in Nat /\ a4 \in Nat
      BY HeldCounts
    <3>2. \A r \in held["batch"] : r \notin held["journal"]
      BY DEF IInv, HoldersAreDistinct
    <3>5. IsFiniteSet(held["journal"]) /\ IsFiniteSet(held["batch"])
      BY HeldCounts
    <3>3. Cardinality(Of(held["journal"] \union held["batch"], s)) = a2 + a1
      BY <3>2, <3>5, OfUnion
    <3>4. Sum(held, s) = a1 + a2 + a3 + a4 /\ Sum(held', s) = 0 + (a2 + a1) + a3 + a4
      BY <2>3, <3>3, OfEmpty DEF Sum
    <3> HIDE DEF a1, a2, a3, a4
    <3> QED BY <3>1, <3>4
  <2>5. ASSUME NEW s \in Slot
        PROVE  Sum(held', s) = Sum(held, s) + Pins(th["EE"], s) - Pins(th'["EE"], s)
    <3>1. Pins(th["EE"], s) = Pins(th'["EE"], s) /\ Pins(th["EE"], s) \in {0, 1} /\ Sum(held, s) \in Nat
      BY <2>1, UnpinnedCount, ExactSum, PinsType DEF Unpinned, Pinning
    <3> QED BY <2>4, <3>1
  <2> QED BY <2>1, <2>2, <2>5, ExactHeld DEF CountsStay
<1>28. CASE ExecuteVU
  <2>1. th' = th /\ "EE" \in Thread /\ Moves("EE")
    BY <1>28, ThreadFacts DEF ExecuteVU, Moves, Thread, Producer
  <2>2. /\ held' = [held EXCEPT !["due"] = @ \union held["batch"] \union held["journal"],
                               !["batch"] = {}, !["journal"] = {}]
        /\ UNCHANGED slots
    BY <1>28 DEF ExecuteVU
  <2>3. /\ held'["batch"] = {} /\ held'["journal"] = {} /\ held'["draw"] = held["draw"]
        /\ held'["due"] = (held["due"] \union held["batch"]) \union held["journal"]
    BY <2>2, HeldFacts DEF Holder
  <2>4. ASSUME NEW s \in Slot
        PROVE  Sum(held', s) = Sum(held, s)
    <3> DEFINE a1 == Cardinality(Of(held["batch"], s))
               a2 == Cardinality(Of(held["journal"], s))
               a3 == Cardinality(Of(held["due"], s))
               a4 == Cardinality(Of(held["draw"], s))
    <3>1. a1 \in Nat /\ a2 \in Nat /\ a3 \in Nat /\ a4 \in Nat
      BY HeldCounts
    <3>2. /\ \A r \in held["batch"] : r \notin held["due"]
          /\ \A r \in held["journal"] : r \notin held["due"] \union held["batch"]
      BY DEF IInv, HoldersAreDistinct
    <3>6. IsFiniteSet(held["journal"]) /\ IsFiniteSet(held["batch"]) /\ IsFiniteSet(held["due"])
      BY HeldCounts
    <3>3. /\ IsFiniteSet(held["due"] \union held["batch"])
          /\ Cardinality(Of(held["due"] \union held["batch"], s)) = a3 + a1
      BY <3>2, <3>6, OfUnion
    <3>7. \A r \in held["journal"] : r \notin held["due"] \union held["batch"]
      BY <3>2
    <3> DEFINE D == held["due"] \union held["batch"]
    <3>8. Cardinality(Of(D \union held["journal"], s)) = Cardinality(Of(D, s)) + a2
      <4> DEFINE K == held["journal"]
      <4>1. IsFiniteSet(D) /\ IsFiniteSet(K) /\ \A r \in K : r \notin D
        BY <3>3, <3>6, <3>7
      <4> HIDE DEF D, K
      <4>2. Cardinality(Of(D \union K, s)) = Cardinality(Of(D, s)) + Cardinality(Of(K, s))
        BY <4>1, OfUnion
      <4> QED BY <4>2 DEF D, K
    <3>4. Cardinality(Of((held["due"] \union held["batch"]) \union held["journal"], s)) = (a3 + a1) + a2
      BY <3>3, <3>8
    <3>5. Sum(held, s) = a1 + a2 + a3 + a4 /\ Sum(held', s) = 0 + 0 + ((a3 + a1) + a2) + a4
      BY <2>3, <3>4, OfEmpty DEF Sum
    <3> HIDE DEF a1, a2, a3, a4
    <3> QED BY <3>1, <3>5
  <2>5. ASSUME NEW s \in Slot
        PROVE  Sum(held', s) = Sum(held, s) + Pins(th["EE"], s) - Pins(th'["EE"], s)
    <3>1. Pins(th["EE"], s) = Pins(th'["EE"], s) /\ Pins(th["EE"], s) \in {0, 1} /\ Sum(held, s) \in Nat
      BY <2>1, UnpinnedCount, ExactSum, PinsType DEF Unpinned, Pinning
    <3> QED BY <2>4, <3>1
  <2> QED BY <2>1, <2>2, <2>5, ExactHeld DEF CountsStay
<1>29. ASSUME NEW r \in path1.leaving, NEW intact \in BOOLEAN, LoadCommitted(r, intact)
      PROVE  OwnershipIsExact'
  <2>1. CountsStay /\ UNCHANGED held
    BY <1>29 DEF LoadCommitted, CountsStay
  <2>2. /\ "MTVU" \in Thread /\ Moves("MTVU") /\ th["MTVU"].at = "idle"
        /\ (th' = th \/ th'["MTVU"].at = "publish")
    BY <1>29, LoadCommittedGoes
  <2>3. Unpinned(th["MTVU"]) /\ Unpinned(th'["MTVU"])
    BY <2>2 DEF Unpinned, Pinning
  <2> QED BY <2>1, <2>2, <2>3, ExactFrame
<1>30. CASE StorePublished
  <2>1. CountsStay /\ UNCHANGED held
    BY <1>30, PublishSlots DEF StorePublished, CountsStay, OneSlot
  <2>2. "MTVU" \in Thread /\ Moves("MTVU") /\ Unpinned(th["MTVU"]) /\ Unpinned(th'["MTVU"])
    BY <1>30, StorePublishedGoes DEF Unpinned, Pinning
  <2> QED BY <2>1, <2>2, ExactFrame
<1>31. ASSUME NEW n \in 0 .. InputRingSlotCount, Initialize(n)
      PROVE  OwnershipIsExact'
  <2>1. /\ th' = th /\ held' = held /\ th["GS"].at = "idle" /\ "GS" \in Thread
        /\ \A s \in Slot : slots[s].references = 0
    BY <1>31, InitializeStays DEF Thread
  <2>2. Moves("GS") /\ Unpinned(th["GS"])
    BY <2>1, ThreadFacts DEF Moves, Unpinned, Pinning
  <2>3. CountsStay
    BY <1>31, <2>1, InitializeSlots DEF CountsStay
  <2> QED BY <2>1, <2>2, <2>3, ExactFrame
<1>32. CASE Unpublish
  <2>1. CountsStay /\ UNCHANGED held
    BY <1>32 DEF Unpublish, CountsStay
  <2>2. "GS" \in Thread /\ Moves("GS") /\ Unpinned(th["GS"]) /\ Unpinned(th'["GS"])
    BY <1>32, UnpublishGoes DEF Goes, Unpinned, Pinning, Thread, Producer
  <2> QED BY <2>1, <2>2, ExactFrame
<1>33. CASE Stop
  <2>1. CountsStay /\ UNCHANGED held
    BY <1>33 DEF Stop, CountsStay
  <2>2. "GS" \in Thread /\ Moves("GS") /\ Unpinned(th["GS"]) /\ Unpinned(th'["GS"])
    BY <1>33, StopGoes DEF Goes, Unpinned, Pinning, Thread, Producer
  <2> QED BY <2>1, <2>2, ExactFrame
<1>34. CASE WakeWaiter
  <2>1. CountsStay /\ UNCHANGED held
    BY <1>34 DEF WakeWaiter, CountsStay
  <2>2. "GS" \in Thread /\ Moves("GS") /\ Unpinned(th["GS"]) /\ Unpinned(th'["GS"])
    BY <1>34, WakeWaiterGoes DEF Goes, Unpinned, Pinning, Thread, Producer
  <2> QED BY <2>1, <2>2, ExactFrame
<1>35. CASE PollReferences
  <2>1. CountsStay /\ UNCHANGED held
    BY <1>35 DEF PollReferences, CountsStay
  <2>2. "GS" \in Thread /\ Moves("GS") /\ Unpinned(th["GS"]) /\ Unpinned(th'["GS"])
    BY <1>35, PollReferencesGoes DEF Goes, Unpinned, Pinning, Thread, Producer
  <2> QED BY <2>1, <2>2, ExactFrame
<1>36. CASE PollReferenceCalls
  <2>1. CountsStay /\ UNCHANGED held
    BY <1>36 DEF PollReferenceCalls, CountsStay
  <2>2. "GS" \in Thread /\ Moves("GS") /\ Unpinned(th["GS"]) /\ Unpinned(th'["GS"])
    BY <1>36, PollReferenceCallsGoes DEF Goes, Unpinned, Pinning, Thread, Producer
  <2> QED BY <2>1, <2>2, ExactFrame
<1>37. CASE PollCaptureCalls
  <2>1. CountsStay /\ UNCHANGED held
    BY <1>37 DEF PollCaptureCalls, CountsStay
  <2>2. "GS" \in Thread /\ Moves("GS") /\ Unpinned(th["GS"]) /\ Unpinned(th'["GS"])
    BY <1>37, PollCaptureCallsGoes DEF Goes, Unpinned, Pinning, Thread, Producer
  <2> QED BY <2>1, <2>2, ExactFrame
<1>38. CASE RefuseShutdown
  <2>1. CountsStay /\ UNCHANGED held
    BY <1>38 DEF RefuseShutdown, CountsStay
  <2>2. "GS" \in Thread /\ Moves("GS") /\ Unpinned(th["GS"]) /\ Unpinned(th'["GS"])
    BY <1>38, RefuseShutdownGoes DEF Goes, Unpinned, Pinning, Thread, Producer
  <2> QED BY <2>1, <2>2, ExactFrame
<1>39. CASE Unmap
  <2>1. CountsStay /\ UNCHANGED held
    BY <1>39, UnmapSlots DEF Unmap, CountsStay
  <2>2. "GS" \in Thread /\ Moves("GS") /\ Unpinned(th["GS"]) /\ Unpinned(th'["GS"])
    BY <1>39, UnmapGoes DEF Goes, Unpinned, Pinning
  <2> QED BY <2>1, <2>2, ExactFrame
<1>40. CASE UNCHANGED ringVars
  <2>1. th' = th /\ held' = held /\ UNCHANGED slots /\ "EE" \in Thread
    BY <1>40 DEF ringVars, Thread, Producer
  <2>2. Moves("EE")
    BY <2>1, ThreadFacts DEF Moves
  <2> QED BY <2>1, <2>2, ExactFrame DEF CountsStay, Unpinned
<1> QED
  BY <1>1, <1>2, <1>3, <1>4, <1>5, <1>6, <1>7, <1>8, <1>9, <1>10, <1>11, <1>12, 
     <1>13, <1>14, <1>15, <1>16, <1>17, <1>18, <1>19, <1>20, <1>21, <1>22, <1>23, 
     <1>24, <1>25, <1>26, <1>27, <1>28, <1>29, <1>30, <1>31, <1>32, <1>33, <1>34, 
     <1>35, <1>36, <1>37, <1>38, <1>39, <1>40, RunStays
     DEF RingNext, CaptureStep, ReferenceStep, FinishSpan, ShutdownStep

-----------------------------------------------------------------------------
(* What Shutdown() leaves behind *)

\* Shutdown() has seen the reference calls end, too.
Quiesced == ~ring.initialized \/ th["GS"].at \in {"capture_calls", "unmap"}

Draining ==
    /\ Drained' => Drained \/ PollReferences
    /\ Quiesced' => Quiesced \/ (PollReferenceCalls /\ calls.reference = 0)

LEMMA DrainFrame ==
  ASSUME IInv, NEW t \in Thread, Moves(t), ring'.initialized = ring.initialized,
         t = "GS" => th'[t].at \notin {"reference_calls", "capture_calls", "unmap"}
  PROVE  Draining
<1>1. CASE t = "GS"
  BY <1>1 DEF Draining, Drained, Quiesced
<1>2. CASE t # "GS"
  <2>1. th'["GS"] = th["GS"]
    BY <1>2 DEF Moves, Thread
  <2> QED BY <2>1 DEF Draining, Drained, Quiesced
<1> QED BY <1>1, <1>2

\* Only Shutdown()'s polls drain the ring.
LEMMA DrainStep ==
  ASSUME IInv, [Next]_vars
  PROVE  Draining
<1>1. ASSUME NEW p \in Producer, CaptureRawVifPayload(p)
      PROVE  Draining
  <2>1. ring'.initialized = ring.initialized
    BY <1>1, RingFacts DEF CaptureRawVifPayload
  <2>2. /\ p \in Thread /\ Moves(p)
        /\ p = "GS" => th'[p].at \notin {"reference_calls", "capture_calls", "unmap"}
    BY <1>1, CaptureRawVifPayloadGoes DEF Thread, Producer
  <2> QED BY <2>1, <2>2, DrainFrame
<1>2. ASSUME NEW p \in Producer, LoadActiveRing(p)
      PROVE  Draining
  <2>1. ring'.initialized = ring.initialized
    BY <1>2, RingFacts DEF LoadActiveRing
  <2>2. /\ p \in Thread /\ Moves(p)
        /\ p = "GS" => th'[p].at \notin {"reference_calls", "capture_calls", "unmap"}
    BY <1>2, LoadActiveRingGoes DEF Goes, Thread, Producer
  <2> QED BY <2>1, <2>2, DrainFrame
<1>3. ASSUME NEW p \in Producer, LockCapture(p)
      PROVE  Draining
  <2>1. ring'.initialized = ring.initialized
    BY <1>3, RingFacts DEF LockCapture
  <2>2. /\ p \in Thread /\ Moves(p)
        /\ p = "GS" => th'[p].at \notin {"reference_calls", "capture_calls", "unmap"}
    BY <1>3, LockCaptureGoes DEF Goes, Thread, Producer
  <2> QED BY <2>1, <2>2, DrainFrame
<1>4. ASSUME NEW p \in Producer, TestAccepting(p)
      PROVE  Draining
  <2>1. ring'.initialized = ring.initialized
    BY <1>4, RingFacts DEF TestAccepting
  <2>2. /\ p \in Thread /\ Moves(p)
        /\ p = "GS" => th'[p].at \notin {"reference_calls", "capture_calls", "unmap"}
    BY <1>4, TestAcceptingGoes DEF Goes, Thread, Producer
  <2> QED BY <2>1, <2>2, DrainFrame
<1>5. ASSUME NEW p \in Producer, Reserve(p)
      PROVE  Draining
  <2>1. ring'.initialized = ring.initialized
    <3>1. UNCHANGED ring \/ ring' = [ring EXCEPT !.accepting = FALSE]
      BY <1>5 DEF Reserve, StopAccepting
    <3> QED BY <3>1, RingFacts
  <2>2. /\ p \in Thread /\ Moves(p)
        /\ p = "GS" => th'[p].at \notin {"reference_calls", "capture_calls", "unmap"}
    BY <1>5, ReserveGoes DEF Thread, Producer
  <2> QED BY <2>1, <2>2, DrainFrame
<1>6. ASSUME NEW p \in Producer, BeginGeneration(p)
      PROVE  Draining
  <2>1. ring'.initialized = ring.initialized
    BY <1>6, RingFacts DEF BeginGeneration
  <2>2. /\ p \in Thread /\ Moves(p)
        /\ p = "GS" => th'[p].at \notin {"reference_calls", "capture_calls", "unmap"}
    BY <1>6, BeginGenerationGoes DEF Goes, Thread, Producer
  <2> QED BY <2>1, <2>2, DrainFrame
<1>7. ASSUME NEW p \in Producer, NEW intact \in BOOLEAN, Recycle(p, intact)
      PROVE  Draining
  <2>1. ring'.initialized = ring.initialized
    <3>1. UNCHANGED ring \/ ring' = [ring EXCEPT !.accepting = FALSE] \/ ring' = [ring EXCEPT !.current = NextSlot]
      BY <1>7 DEF Recycle, StopAccepting
    <3> QED BY <3>1, RingFacts
  <2>2. /\ p \in Thread /\ Moves(p)
        /\ p = "GS" => th'[p].at \notin {"reference_calls", "capture_calls", "unmap"}
    BY <1>7, RecycleGoes DEF Goes, Thread, Producer
  <2> QED BY <2>1, <2>2, DrainFrame
<1>8. ASSUME NEW p \in Producer, FindOwned(p)
      PROVE  Draining
  <2>1. ring'.initialized = ring.initialized
    BY <1>8, RingFacts DEF FindOwned
  <2>2. /\ p \in Thread /\ Moves(p)
        /\ p = "GS" => th'[p].at \notin {"reference_calls", "capture_calls", "unmap"}
    BY <1>8, FindOwnedGoes DEF Goes, Thread, Producer
  <2> QED BY <2>1, <2>2, DrainFrame
<1>9. ASSUME NEW p \in Producer, ArmWaiter(p)
      PROVE  Draining
  <2>1. ring'.initialized = ring.initialized
    BY <1>9, RingFacts DEF ArmWaiter
  <2>2. /\ p \in Thread /\ Moves(p)
        /\ p = "GS" => th'[p].at \notin {"reference_calls", "capture_calls", "unmap"}
    BY <1>9, ArmWaiterGoes DEF Goes, Thread, Producer
  <2> QED BY <2>1, <2>2, DrainFrame
<1>10. ASSUME NEW p \in Producer, Recheck(p)
      PROVE  Draining
  <2>1. ring'.initialized = ring.initialized
    BY <1>10, RingFacts DEF Recheck
  <2>2. /\ p \in Thread /\ Moves(p)
        /\ p = "GS" => th'[p].at \notin {"reference_calls", "capture_calls", "unmap"}
    BY <1>10, RecheckGoes DEF Goes, Thread, Producer
  <2> QED BY <2>1, <2>2, DrainFrame
<1>11. ASSUME NEW p \in Producer, Disarm(p)
      PROVE  Draining
  <2>1. ring'.initialized = ring.initialized
    BY <1>11, RingFacts DEF Disarm
  <2>2. /\ p \in Thread /\ Moves(p)
        /\ p = "GS" => th'[p].at \notin {"reference_calls", "capture_calls", "unmap"}
    BY <1>11, DisarmGoes DEF Goes, Thread, Producer
  <2> QED BY <2>1, <2>2, DrainFrame
<1>12. ASSUME NEW p \in Producer, RequestGpuVuInputRetirement(p)
      PROVE  Draining
  <2>1. ring'.initialized = ring.initialized
    BY <1>12, RingFacts DEF RequestGpuVuInputRetirement
  <2>2. /\ p \in Thread /\ Moves(p)
        /\ p = "GS" => th'[p].at \notin {"reference_calls", "capture_calls", "unmap"}
    BY <1>12, RequestGpuVuInputRetirementGoes DEF Goes, Thread, Producer
  <2> QED BY <2>1, <2>2, DrainFrame
<1>13. ASSUME NEW p \in Producer, WaitSlotReleased(p)
      PROVE  Draining
  <2>1. ring'.initialized = ring.initialized
    BY <1>13, RingFacts DEF WaitSlotReleased
  <2>2. /\ p \in Thread /\ Moves(p)
        /\ p = "GS" => th'[p].at \notin {"reference_calls", "capture_calls", "unmap"}
    BY <1>13, WaitSlotReleasedGoes DEF Goes, Thread, Producer
  <2> QED BY <2>1, <2>2, DrainFrame
<1>14. ASSUME NEW p \in Producer, Fill(p)
      PROVE  Draining
  <2>1. ring'.initialized = ring.initialized
    BY <1>14, RingFacts DEF Fill
  <2>2. /\ p \in Thread /\ Moves(p)
        /\ p = "GS" => th'[p].at \notin {"reference_calls", "capture_calls", "unmap"}
    BY <1>14, FillGoes DEF Goes, Thread, Producer
  <2> QED BY <2>1, <2>2, DrainFrame
<1>15. ASSUME NEW p \in Producer, Commit(p)
      PROVE  Draining
  <2>1. ring'.initialized = ring.initialized
    BY <1>15, RingFacts DEF Commit
  <2>2. /\ p \in Thread /\ Moves(p)
        /\ p = "GS" => th'[p].at \notin {"reference_calls", "capture_calls", "unmap"}
    BY <1>15, CommitGoes DEF Thread, Producer
  <2> QED BY <2>1, <2>2, DrainFrame
<1>16. ASSUME NEW p \in Producer, LeaveCapture(p)
      PROVE  Draining
  <2>1. ring'.initialized = ring.initialized
    BY <1>16, RingFacts DEF LeaveCapture
  <2>2. /\ p \in Thread /\ Moves(p)
        /\ p = "GS" => th'[p].at \notin {"reference_calls", "capture_calls", "unmap"}
    BY <1>16, LeaveCaptureGoes DEF Thread, Producer
  <2> QED BY <2>1, <2>2, DrainFrame
<1>17. CASE RetainOwnership
  <2>1. ring'.initialized = ring.initialized
    BY <1>17, RingFacts DEF RetainOwnership
  <2>2. /\ "MTVU" \in Thread /\ Moves("MTVU")
        /\ "MTVU" = "GS" => th'["MTVU"].at \notin {"reference_calls", "capture_calls", "unmap"}
    BY <1>17, RetainOwnershipGoes DEF Goes, Thread, Producer
  <2> QED BY <2>1, <2>2, DrainFrame
<1>18. CASE ConfirmRetain
  <2>1. ring'.initialized = ring.initialized
    BY <1>18, RingFacts DEF ConfirmRetain
  <2>2. /\ "MTVU" \in Thread /\ Moves("MTVU")
        /\ "MTVU" = "GS" => th'["MTVU"].at \notin {"reference_calls", "capture_calls", "unmap"}
    BY <1>18, ConfirmRetainGoes DEF Goes, Thread, Producer
  <2> QED BY <2>1, <2>2, DrainFrame
<1>19. ASSUME NEW t \in Thread, ReleaseOwnership(t)
      PROVE  Draining
  <2>1. ring'.initialized = ring.initialized
    BY <1>19, RingFacts DEF ReleaseOwnership
  <2>2. /\ t \in Thread /\ Moves(t)
        /\ t = "GS" => th'[t].at \notin {"reference_calls", "capture_calls", "unmap"}
    BY <1>19, ReleaseOwnershipGoes DEF Goes, Thread, Producer
  <2> QED BY <2>1, <2>2, DrainFrame
<1>20. ASSUME NEW t \in Thread, ClaimWaiter(t)
      PROVE  Draining
  <2>1. ring'.initialized = ring.initialized
    BY <1>20, RingFacts DEF ClaimWaiter
  <2>2. /\ t \in Thread /\ Moves(t)
        /\ t = "GS" => th'[t].at \notin {"reference_calls", "capture_calls", "unmap"}
    BY <1>20, ClaimWaiterGoes DEF Goes, Thread, Producer
  <2> QED BY <2>1, <2>2, DrainFrame
<1>21. ASSUME NEW t \in Thread, SignalWaiter(t)
      PROVE  Draining
  <2>1. ring'.initialized = ring.initialized
    BY <1>21, RingFacts DEF SignalWaiter
  <2>2. /\ t \in Thread /\ Moves(t)
        /\ t = "GS" => th'[t].at \notin {"reference_calls", "capture_calls", "unmap"}
    BY <1>21, SignalWaiterGoes DEF Goes, Thread, Producer
  <2> QED BY <2>1, <2>2, DrainFrame
<1>22. ASSUME NEW t \in Thread, ExitReferenceCall(t)
      PROVE  Draining
  <2>1. ring'.initialized = ring.initialized
    BY <1>22, RingFacts DEF ExitReferenceCall
  <2>2. /\ t \in Thread /\ Moves(t)
        /\ t = "GS" => th'[t].at \notin {"reference_calls", "capture_calls", "unmap"}
    BY <1>22, ExitReferenceCallGoes DEF Thread, Producer
  <2> QED BY <2>1, <2>2, DrainFrame
<1>23. CASE SeparateSpan
  <2>1. ring'.initialized = ring.initialized
    BY <1>23, RingFacts DEF SeparateSpan
  <2>2. /\ "EE" \in Thread /\ Moves("EE")
        /\ "EE" = "GS" => th'["EE"].at \notin {"reference_calls", "capture_calls", "unmap"}
    BY <1>23, SeparateSpanGoes DEF Thread, Producer
  <2> QED BY <2>1, <2>2, DrainFrame
<1>24. ASSUME NEW r \in held["batch"], MergeSpan(r)
      PROVE  Draining
  <2>1. ring'.initialized = ring.initialized
    BY <1>24, RingFacts DEF MergeSpan
  <2>2. /\ "EE" \in Thread /\ Moves("EE")
        /\ "EE" = "GS" => th'["EE"].at \notin {"reference_calls", "capture_calls", "unmap"}
    BY <1>24, MergeSpanGoes DEF Thread, Producer
  <2> QED BY <2>1, <2>2, DrainFrame
<1>25. ASSUME NEW r \in held["due"] \union Stale, Retain(r)
      PROVE  Draining
  <2>1. ring'.initialized = ring.initialized
    BY <1>25, RingFacts DEF Retain
  <2>2. /\ "MTVU" \in Thread /\ Moves("MTVU")
        /\ "MTVU" = "GS" => th'["MTVU"].at \notin {"reference_calls", "capture_calls", "unmap"}
    BY <1>25, RetainGoes DEF Thread, Producer
  <2> QED BY <2>1, <2>2, DrainFrame
<1>26. ASSUME NEW h \in Holder, NEW r \in held[h], Release(h, r)
      PROVE  Draining
  <2> DEFINE t == Owner(h)
  <2>1. /\ t \in Thread /\ Moves(t) /\ th'[t].at = "release" /\ UNCHANGED ring
    BY <1>26, ReleaseGoes DEF Release
  <2> QED BY <2>1, DrainFrame
<1>27. CASE PublishPendingVifBatch
  BY <1>27 DEF PublishPendingVifBatch, Draining, Drained, Quiesced
<1>28. CASE ExecuteVU
  BY <1>28 DEF ExecuteVU, Draining, Drained, Quiesced
<1>29. ASSUME NEW r \in path1.leaving, NEW intact \in BOOLEAN, LoadCommitted(r, intact)
      PROVE  Draining
  <2>1. ring'.initialized = ring.initialized
    <3>1. UNCHANGED ring \/ ring' = [ring EXCEPT !.accepting = FALSE]
      BY <1>29 DEF LoadCommitted, StopAccepting
    <3> QED BY <3>1, RingFacts
  <2>2. "MTVU" \in Thread /\ Moves("MTVU")
    BY <1>29, LoadCommittedGoes
  <2> QED BY <2>1, <2>2, DrainFrame
<1>30. CASE StorePublished
  <2>1. ring'.initialized = ring.initialized
    BY <1>30, RingFacts DEF StorePublished
  <2>2. "MTVU" \in Thread /\ Moves("MTVU")
    BY <1>30, StorePublishedGoes
  <2> QED BY <2>1, <2>2, DrainFrame
<1>31. ASSUME NEW n \in 0 .. InputRingSlotCount, Initialize(n)
      PROVE  Draining
  BY <1>31, InitializeStays DEF Draining, Drained, Quiesced
<1>32. CASE Unpublish
  <2>1. ring'.initialized = ring.initialized
    <3>1. ring' = [ring EXCEPT !.active = FALSE]
      BY <1>32 DEF Unpublish
    <3> QED BY <3>1, RingFacts
  <2>2. /\ "GS" \in Thread /\ Moves("GS")
        /\ "GS" = "GS" => th'["GS"].at \notin {"reference_calls", "capture_calls", "unmap"}
    BY <1>32, UnpublishGoes DEF Goes, Thread, Producer
  <2> QED BY <2>1, <2>2, DrainFrame
<1>33. CASE Stop
  <2>1. ring'.initialized = ring.initialized
    <3>1. ring' = [ring EXCEPT !.accepting = FALSE]
      BY <1>33 DEF Stop
    <3> QED BY <3>1, RingFacts
  <2>2. /\ "GS" \in Thread /\ Moves("GS")
        /\ "GS" = "GS" => th'["GS"].at \notin {"reference_calls", "capture_calls", "unmap"}
    BY <1>33, StopGoes DEF Goes, Thread, Producer
  <2> QED BY <2>1, <2>2, DrainFrame
<1>34. CASE WakeWaiter
  <2>1. ring'.initialized = ring.initialized
    BY <1>34, RingFacts DEF WakeWaiter
  <2>2. /\ "GS" \in Thread /\ Moves("GS")
        /\ "GS" = "GS" => th'["GS"].at \notin {"reference_calls", "capture_calls", "unmap"}
    BY <1>34, WakeWaiterGoes DEF Goes, Thread, Producer
  <2> QED BY <2>1, <2>2, DrainFrame
<1>35. CASE PollReferences
  <2>1. Goes("GS", "references", {"reference_calls"}) /\ UNCHANGED ring
    BY <1>35, PollReferencesGoes DEF PollReferences
  <2> QED BY <1>35, <2>1 DEF Goes, Draining, Drained, Quiesced
<1>36. CASE PollReferenceCalls
  <2>1. /\ th["GS"].at = "reference_calls" /\ UNCHANGED ring /\ "GS" \in Thread
        /\ Become("GS", IF calls.reference = 0 THEN "capture_calls" ELSE "references")
    BY <1>36 DEF PollReferenceCalls, At, Thread
  <2>2. CASE calls.reference = 0
    BY <1>36, <2>1, <2>2 DEF Draining, Drained, Quiesced
  <2>3. CASE calls.reference # 0
    <3>1. Moves("GS") /\ th'["GS"].at = "references"
      BY <2>1, <2>3, BecomeFacts, ThreadFacts DEF Where
    <3> QED BY <2>1, <3>1, DrainFrame
  <2> QED BY <2>2, <2>3
<1>37. CASE PollCaptureCalls
  <2>1. th["GS"].at = "capture_calls"
    BY <1>37 DEF PollCaptureCalls, At
  <2> QED BY <2>1 DEF Draining, Drained, Quiesced
<1>38. CASE RefuseShutdown
  <2>1. ring'.initialized = ring.initialized
    BY <1>38, RingFacts DEF RefuseShutdown
  <2>2. /\ "GS" \in Thread /\ Moves("GS")
        /\ "GS" = "GS" => th'["GS"].at \notin {"reference_calls", "capture_calls", "unmap"}
    BY <1>38, RefuseShutdownGoes DEF Goes, Thread, Producer
  <2> QED BY <2>1, <2>2, DrainFrame
<1>39. CASE Unmap
  <2>1. th["GS"].at = "unmap"
    BY <1>39 DEF Unmap, At
  <2> QED BY <2>1 DEF Draining, Drained, Quiesced
<1>40. CASE UNCHANGED ringVars
  BY <1>40 DEF ringVars, Draining, Drained, Quiesced
<1> QED
  BY <1>1, <1>2, <1>3, <1>4, <1>5, <1>6, <1>7, <1>8, <1>9, <1>10, <1>11, <1>12, 
     <1>13, <1>14, <1>15, <1>16, <1>17, <1>18, <1>19, <1>20, <1>21, <1>22, <1>23, 
     <1>24, <1>25, <1>26, <1>27, <1>28, <1>29, <1>30, <1>31, <1>32, <1>33, <1>34, 
     <1>35, <1>36, <1>37, <1>38, <1>39, <1>40, RunStays
     DEF RingNext, CaptureStep, ReferenceStep, FinishSpan, ShutdownStep

LEMMA LateBefore ==
  ASSUME IInv, Drained
  PROVE  /\ \A h \in Holder : \A r \in held[h] : r.late
         /\ \A t \in Thread : th[t].at \in Pinning /\ th[t].payload # NoPayload =>
                th[t].payload.late
BY DEF IInv, LeftIsLate, Drained

HeldLate == Drained => \A h \in Holder : \A r \in held'[h] : r.late

\* What a holder receives after the drain is late.
LEMMA HeldLateStep ==
  ASSUME IInv, [Next]_vars
  PROVE  HeldLate
<1>1. ASSUME NEW p \in Producer, CaptureRawVifPayload(p)
      PROVE  HeldLate
  <2>1. UNCHANGED held
    BY <1>1 DEF CaptureRawVifPayload
  <2> QED BY <2>1, LateBefore DEF HeldLate
<1>2. ASSUME NEW p \in Producer, LoadActiveRing(p)
      PROVE  HeldLate
  <2>1. UNCHANGED held
    BY <1>2 DEF LoadActiveRing
  <2> QED BY <2>1, LateBefore DEF HeldLate
<1>3. ASSUME NEW p \in Producer, LockCapture(p)
      PROVE  HeldLate
  <2>1. UNCHANGED held
    BY <1>3 DEF LockCapture
  <2> QED BY <2>1, LateBefore DEF HeldLate
<1>4. ASSUME NEW p \in Producer, TestAccepting(p)
      PROVE  HeldLate
  <2>1. UNCHANGED held
    BY <1>4 DEF TestAccepting
  <2> QED BY <2>1, LateBefore DEF HeldLate
<1>5. ASSUME NEW p \in Producer, Reserve(p)
      PROVE  HeldLate
  <2>1. UNCHANGED held
    BY <1>5 DEF Reserve
  <2> QED BY <2>1, LateBefore DEF HeldLate
<1>6. ASSUME NEW p \in Producer, BeginGeneration(p)
      PROVE  HeldLate
  <2>1. UNCHANGED held
    BY <1>6 DEF BeginGeneration
  <2> QED BY <2>1, LateBefore DEF HeldLate
<1>7. ASSUME NEW p \in Producer, NEW intact \in BOOLEAN, Recycle(p, intact)
      PROVE  HeldLate
  <2>1. UNCHANGED held
    BY <1>7 DEF Recycle
  <2> QED BY <2>1, LateBefore DEF HeldLate
<1>8. ASSUME NEW p \in Producer, FindOwned(p)
      PROVE  HeldLate
  <2>1. UNCHANGED held
    BY <1>8 DEF FindOwned
  <2> QED BY <2>1, LateBefore DEF HeldLate
<1>9. ASSUME NEW p \in Producer, ArmWaiter(p)
      PROVE  HeldLate
  <2>1. UNCHANGED held
    BY <1>9 DEF ArmWaiter
  <2> QED BY <2>1, LateBefore DEF HeldLate
<1>10. ASSUME NEW p \in Producer, Recheck(p)
      PROVE  HeldLate
  <2>1. UNCHANGED held
    BY <1>10 DEF Recheck
  <2> QED BY <2>1, LateBefore DEF HeldLate
<1>11. ASSUME NEW p \in Producer, Disarm(p)
      PROVE  HeldLate
  <2>1. UNCHANGED held
    BY <1>11 DEF Disarm
  <2> QED BY <2>1, LateBefore DEF HeldLate
<1>12. ASSUME NEW p \in Producer, RequestGpuVuInputRetirement(p)
      PROVE  HeldLate
  <2>1. \A g \in Holder : \A x \in held'[g] : \E h \in Holder : x \in held[h]
    BY <1>12, HeldFacts DEF RequestGpuVuInputRetirement, Published, Holder
  <2> QED BY <2>1, LateBefore DEF HeldLate
<1>13. ASSUME NEW p \in Producer, WaitSlotReleased(p)
      PROVE  HeldLate
  <2>1. UNCHANGED held
    BY <1>13 DEF WaitSlotReleased
  <2> QED BY <2>1, LateBefore DEF HeldLate
<1>14. ASSUME NEW p \in Producer, Fill(p)
      PROVE  HeldLate
  <2>1. UNCHANGED held
    BY <1>14 DEF Fill
  <2> QED BY <2>1, LateBefore DEF HeldLate
<1>15. ASSUME NEW p \in Producer, Commit(p)
      PROVE  HeldLate
  <2> DEFINE r == th[p].payload
  <2>1. p \in Thread /\ th[p].at = "commit"
    BY <1>15, CommitGoes
  <2>2. held' = held \/ held' = [held EXCEPT !["draw"] = held["draw"] \union {r}]
    BY <1>15 DEF Commit, BindToDraw
  <2>3. r \in Payload
    BY <2>1, ThreadFacts DEF ThreadIsTyped, Filling, InCall
  <2>4. r # NoPayload
    BY <2>3, PayloadIsOne
  <2>5. ASSUME Drained
        PROVE  \A g \in Holder : \A q \in held'[g] : q.late
    <3>1. r.late
      BY <2>1, <2>4, <2>5, LateBefore DEF Pinning
    <3>2. \A g \in Holder : \A q \in held'[g] : q \in held[g] \/ q = r
      BY <2>2, HeldFacts DEF Holder
    <3> QED BY <2>5, <3>1, <3>2, LateBefore
  <2> QED BY <2>5 DEF HeldLate
<1>16. ASSUME NEW p \in Producer, LeaveCapture(p)
      PROVE  HeldLate
  <2>1. UNCHANGED held
    BY <1>16 DEF LeaveCapture
  <2> QED BY <2>1, LateBefore DEF HeldLate
<1>17. CASE RetainOwnership
  <2>1. UNCHANGED held
    BY <1>17 DEF RetainOwnership
  <2> QED BY <2>1, LateBefore DEF HeldLate
<1>18. CASE ConfirmRetain
  <2> DEFINE r == th["MTVU"].payload
  <2>1. "MTVU" \in Thread /\ th["MTVU"].at = "confirm"
    BY <1>18, ConfirmRetainGoes DEF Goes
  <2>2. held' = held \/ held' = [held EXCEPT !["draw"] = held["draw"] \union {r}]
    BY <1>18 DEF ConfirmRetain, BindToDraw
  <2>3. r \in Payload
    BY <2>1, ThreadFacts DEF ThreadIsTyped, Filling, InCall
  <2>4. r # NoPayload
    BY <2>3, PayloadIsOne
  <2>5. ASSUME Drained
        PROVE  \A g \in Holder : \A q \in held'[g] : q.late
    <3>1. r.late
      BY <2>1, <2>4, <2>5, LateBefore DEF Pinning
    <3>2. \A g \in Holder : \A q \in held'[g] : q \in held[g] \/ q = r
      BY <2>2, HeldFacts DEF Holder
    <3> QED BY <2>5, <3>1, <3>2, LateBefore
  <2> QED BY <2>5 DEF HeldLate
<1>19. ASSUME NEW t \in Thread, ReleaseOwnership(t)
      PROVE  HeldLate
  <2>1. UNCHANGED held
    BY <1>19 DEF ReleaseOwnership
  <2> QED BY <2>1, LateBefore DEF HeldLate
<1>20. ASSUME NEW t \in Thread, ClaimWaiter(t)
      PROVE  HeldLate
  <2>1. UNCHANGED held
    BY <1>20 DEF ClaimWaiter
  <2> QED BY <2>1, LateBefore DEF HeldLate
<1>21. ASSUME NEW t \in Thread, SignalWaiter(t)
      PROVE  HeldLate
  <2>1. UNCHANGED held
    BY <1>21 DEF SignalWaiter
  <2> QED BY <2>1, LateBefore DEF HeldLate
<1>22. ASSUME NEW t \in Thread, ExitReferenceCall(t)
      PROVE  HeldLate
  <2>1. UNCHANGED held
    BY <1>22 DEF ExitReferenceCall
  <2> QED BY <2>1, LateBefore DEF HeldLate
<1>23. CASE SeparateSpan
  <2> DEFINE r == th["EE"].payload
  <2>1. "EE" \in Thread /\ th["EE"].at = "captured"
    BY <1>23, SeparateSpanGoes
  <2>2. held' = [held EXCEPT !["batch"] = held["batch"] \union {r}]
    BY <1>23 DEF SeparateSpan
  <2>3. r \in Payload
    BY <2>1, ThreadFacts DEF ThreadIsTyped, Filling, InCall
  <2>4. r # NoPayload
    BY <2>3, PayloadIsOne
  <2>5. ASSUME Drained
        PROVE  \A g \in Holder : \A q \in held'[g] : q.late
    <3>1. r.late
      BY <2>1, <2>4, <2>5, LateBefore DEF Pinning
    <3>2. \A g \in Holder : \A q \in held'[g] : q \in held[g] \/ q = r
      BY <2>2, HeldFacts DEF Holder
    <3> QED BY <2>5, <3>1, <3>2, LateBefore
  <2> QED BY <2>5 DEF HeldLate
<1>24. ASSUME NEW r \in held["batch"], MergeSpan(r)
      PROVE  HeldLate
  <2> DEFINE q == th["EE"].payload
             both == [r EXCEPT !.size = r.size + q.size, !.late = r.late \/ q.late]
  <2>1. held' = [held EXCEPT !["batch"] = (held["batch"] \ {r}) \union {both}]
    BY <1>24 DEF MergeSpan
  <2>2. r \in Payload /\ "batch" \in Holder
    BY HeldFacts DEF Holder
  <2>3. both.late = (r.late \/ q.late)
    BY <2>2 DEF Payload
  <2> HIDE DEF both
  <2>4. \A g \in Holder : \A x \in held'[g] : x \in held[g] \/ x = both
    BY <2>1, HeldFacts DEF Holder
  <2>5. ASSUME Drained
        PROVE  \A g \in Holder : \A x \in held'[g] : x.late
    <3>1. r.late
      BY <2>2, <2>5, LateBefore
    <3> QED BY <2>3, <2>4, <2>5, <3>1, LateBefore
  <2> QED BY <2>5 DEF HeldLate
<1>25. ASSUME NEW r \in held["due"] \union Stale, Retain(r)
      PROVE  HeldLate
  <2>1. UNCHANGED held
    BY <1>25 DEF Retain
  <2> QED BY <2>1, LateBefore DEF HeldLate
<1>26. ASSUME NEW h \in Holder, NEW r \in held[h], Release(h, r)
      PROVE  HeldLate
  <2>1. held' = [held EXCEPT ![h] = held[h] \ {r}]
    BY <1>26 DEF Release
  <2>2. \A g \in Holder : \A x \in held'[g] : x \in held[g]
    BY <2>1, HeldFacts
  <2> QED BY <2>2, LateBefore DEF HeldLate
<1>27. CASE PublishPendingVifBatch
  <2>1. \A g \in Holder : \A x \in held'[g] : \E h \in Holder : x \in held[h]
    BY <1>27, HeldFacts DEF PublishPendingVifBatch, Published, Holder
  <2> QED BY <2>1, LateBefore DEF HeldLate
<1>28. CASE ExecuteVU
  <2>1. \A g \in Holder : \A x \in held'[g] : \E h \in Holder : x \in held[h]
    BY <1>28, HeldFacts DEF ExecuteVU, Holder
  <2> QED BY <2>1, LateBefore DEF HeldLate
<1>29. ASSUME NEW r \in path1.leaving, NEW intact \in BOOLEAN, LoadCommitted(r, intact)
      PROVE  HeldLate
  <2>1. UNCHANGED held
    BY <1>29 DEF LoadCommitted
  <2> QED BY <2>1, LateBefore DEF HeldLate
<1>30. CASE StorePublished
  <2>1. UNCHANGED held
    BY <1>30 DEF StorePublished
  <2> QED BY <2>1, LateBefore DEF HeldLate
<1>31. ASSUME NEW n \in 0 .. InputRingSlotCount, Initialize(n)
      PROVE  HeldLate
  <2>1. UNCHANGED held
    BY <1>31 DEF Initialize
  <2> QED BY <2>1, LateBefore DEF HeldLate
<1>32. CASE Unpublish
  <2>1. UNCHANGED held
    BY <1>32 DEF Unpublish
  <2> QED BY <2>1, LateBefore DEF HeldLate
<1>33. CASE Stop
  <2>1. UNCHANGED held
    BY <1>33 DEF Stop
  <2> QED BY <2>1, LateBefore DEF HeldLate
<1>34. CASE WakeWaiter
  <2>1. UNCHANGED held
    BY <1>34 DEF WakeWaiter
  <2> QED BY <2>1, LateBefore DEF HeldLate
<1>35. CASE PollReferences
  <2>1. UNCHANGED held
    BY <1>35 DEF PollReferences
  <2> QED BY <2>1, LateBefore DEF HeldLate
<1>36. CASE PollReferenceCalls
  <2>1. UNCHANGED held
    BY <1>36 DEF PollReferenceCalls
  <2> QED BY <2>1, LateBefore DEF HeldLate
<1>37. CASE PollCaptureCalls
  <2>1. UNCHANGED held
    BY <1>37 DEF PollCaptureCalls
  <2> QED BY <2>1, LateBefore DEF HeldLate
<1>38. CASE RefuseShutdown
  <2>1. UNCHANGED held
    BY <1>38 DEF RefuseShutdown
  <2> QED BY <2>1, LateBefore DEF HeldLate
<1>39. CASE Unmap
  <2>1. UNCHANGED held
    BY <1>39 DEF Unmap
  <2> QED BY <2>1, LateBefore DEF HeldLate
<1>40. CASE UNCHANGED ringVars
  BY <1>40, LateBefore DEF ringVars, HeldLate
<1> QED
  BY <1>1, <1>2, <1>3, <1>4, <1>5, <1>6, <1>7, <1>8, <1>9, <1>10, <1>11, <1>12, 
     <1>13, <1>14, <1>15, <1>16, <1>17, <1>18, <1>19, <1>20, <1>21, <1>22, <1>23, 
     <1>24, <1>25, <1>26, <1>27, <1>28, <1>29, <1>30, <1>31, <1>32, <1>33, <1>34, 
     <1>35, <1>36, <1>37, <1>38, <1>39, <1>40, RunStays
     DEF RingNext, CaptureStep, ReferenceStep, FinishSpan, ShutdownStep

\* A last owner was releasing.
ClaimGoes ==
    \A u \in Thread : th'[u].at \in {"claim", "signal"} =>
        /\ th'[u].payload = th[u].payload
        /\ th[u].at \in {"release", "claim", "signal"}

LEMMA ClaimFrame ==
  ASSUME NEW t \in Thread, Moves(t), th'[t].at \notin {"claim", "signal"}
  PROVE  ClaimGoes
BY DEF ClaimGoes, Moves

\* Only a release makes a last owner.
LEMMA ClaimStep ==
  ASSUME IInv, [Next]_vars
  PROVE  ClaimGoes
<1>1. ASSUME NEW p \in Producer, CaptureRawVifPayload(p)
      PROVE  ClaimGoes
  <2>1. p \in Thread /\ Moves(p) /\ th'[p].at \notin {"claim", "signal"}
    BY <1>1, CaptureRawVifPayloadGoes
  <2> QED BY <2>1, ClaimFrame
<1>2. ASSUME NEW p \in Producer, LoadActiveRing(p)
      PROVE  ClaimGoes
  <2>1. p \in Thread /\ Moves(p) /\ th'[p].at \notin {"claim", "signal"}
    BY <1>2, LoadActiveRingGoes DEF Goes
  <2> QED BY <2>1, ClaimFrame
<1>3. ASSUME NEW p \in Producer, LockCapture(p)
      PROVE  ClaimGoes
  <2>1. p \in Thread /\ Moves(p) /\ th'[p].at \notin {"claim", "signal"}
    BY <1>3, LockCaptureGoes DEF Goes
  <2> QED BY <2>1, ClaimFrame
<1>4. ASSUME NEW p \in Producer, TestAccepting(p)
      PROVE  ClaimGoes
  <2>1. p \in Thread /\ Moves(p) /\ th'[p].at \notin {"claim", "signal"}
    BY <1>4, TestAcceptingGoes DEF Goes
  <2> QED BY <2>1, ClaimFrame
<1>5. ASSUME NEW p \in Producer, Reserve(p)
      PROVE  ClaimGoes
  <2>1. p \in Thread /\ Moves(p) /\ th'[p].at \notin {"claim", "signal"}
    BY <1>5, ReserveGoes
  <2> QED BY <2>1, ClaimFrame
<1>6. ASSUME NEW p \in Producer, BeginGeneration(p)
      PROVE  ClaimGoes
  <2>1. p \in Thread /\ Moves(p) /\ th'[p].at \notin {"claim", "signal"}
    BY <1>6, BeginGenerationGoes DEF Goes
  <2> QED BY <2>1, ClaimFrame
<1>7. ASSUME NEW p \in Producer, NEW intact \in BOOLEAN, Recycle(p, intact)
      PROVE  ClaimGoes
  <2>1. p \in Thread /\ Moves(p) /\ th'[p].at \notin {"claim", "signal"}
    BY <1>7, RecycleGoes DEF Goes
  <2> QED BY <2>1, ClaimFrame
<1>8. ASSUME NEW p \in Producer, FindOwned(p)
      PROVE  ClaimGoes
  <2>1. p \in Thread /\ Moves(p) /\ th'[p].at \notin {"claim", "signal"}
    BY <1>8, FindOwnedGoes DEF Goes
  <2> QED BY <2>1, ClaimFrame
<1>9. ASSUME NEW p \in Producer, ArmWaiter(p)
      PROVE  ClaimGoes
  <2>1. p \in Thread /\ Moves(p) /\ th'[p].at \notin {"claim", "signal"}
    BY <1>9, ArmWaiterGoes DEF Goes
  <2> QED BY <2>1, ClaimFrame
<1>10. ASSUME NEW p \in Producer, Recheck(p)
      PROVE  ClaimGoes
  <2>1. p \in Thread /\ Moves(p) /\ th'[p].at \notin {"claim", "signal"}
    BY <1>10, RecheckGoes DEF Goes
  <2> QED BY <2>1, ClaimFrame
<1>11. ASSUME NEW p \in Producer, Disarm(p)
      PROVE  ClaimGoes
  <2>1. p \in Thread /\ Moves(p) /\ th'[p].at \notin {"claim", "signal"}
    BY <1>11, DisarmGoes DEF Goes
  <2> QED BY <2>1, ClaimFrame
<1>12. ASSUME NEW p \in Producer, RequestGpuVuInputRetirement(p)
      PROVE  ClaimGoes
  <2>1. p \in Thread /\ Moves(p) /\ th'[p].at \notin {"claim", "signal"}
    BY <1>12, RequestGpuVuInputRetirementGoes DEF Goes
  <2> QED BY <2>1, ClaimFrame
<1>13. ASSUME NEW p \in Producer, WaitSlotReleased(p)
      PROVE  ClaimGoes
  <2>1. p \in Thread /\ Moves(p) /\ th'[p].at \notin {"claim", "signal"}
    BY <1>13, WaitSlotReleasedGoes DEF Goes
  <2> QED BY <2>1, ClaimFrame
<1>14. ASSUME NEW p \in Producer, Fill(p)
      PROVE  ClaimGoes
  <2>1. p \in Thread /\ Moves(p) /\ th'[p].at \notin {"claim", "signal"}
    BY <1>14, FillGoes DEF Goes
  <2> QED BY <2>1, ClaimFrame
<1>15. ASSUME NEW p \in Producer, Commit(p)
      PROVE  ClaimGoes
  <2>1. p \in Thread /\ Moves(p) /\ th'[p].at \notin {"claim", "signal"}
    BY <1>15, CommitGoes
  <2> QED BY <2>1, ClaimFrame
<1>16. ASSUME NEW p \in Producer, LeaveCapture(p)
      PROVE  ClaimGoes
  <2>1. p \in Thread /\ Moves(p) /\ th'[p].at \notin {"claim", "signal"}
    BY <1>16, LeaveCaptureGoes
  <2> QED BY <2>1, ClaimFrame
<1>17. CASE RetainOwnership
  <2>1. "MTVU" \in Thread /\ Moves("MTVU") /\ th'["MTVU"].at \notin {"claim", "signal"}
    BY <1>17, RetainOwnershipGoes DEF Goes
  <2> QED BY <2>1, ClaimFrame
<1>18. CASE ConfirmRetain
  <2>1. "MTVU" \in Thread /\ Moves("MTVU") /\ th'["MTVU"].at \notin {"claim", "signal"}
    BY <1>18, ConfirmRetainGoes DEF Goes
  <2> QED BY <2>1, ClaimFrame
<1>19. ASSUME NEW t \in Thread, ReleaseOwnership(t)
      PROVE  ClaimGoes
  BY <1>19, ReleaseOwnershipGoes DEF Goes, Moves, ClaimGoes
<1>20. ASSUME NEW t \in Thread, ClaimWaiter(t)
      PROVE  ClaimGoes
  BY <1>20, ClaimWaiterGoes DEF Goes, Moves, ClaimGoes
<1>21. ASSUME NEW t \in Thread, SignalWaiter(t)
      PROVE  ClaimGoes
  <2>1. t \in Thread /\ Moves(t) /\ th'[t].at \notin {"claim", "signal"}
    BY <1>21, SignalWaiterGoes DEF Goes
  <2> QED BY <2>1, ClaimFrame
<1>22. ASSUME NEW t \in Thread, ExitReferenceCall(t)
      PROVE  ClaimGoes
  <2>1. t \in Thread /\ Moves(t) /\ th'[t].at \notin {"claim", "signal"}
    BY <1>22, ExitReferenceCallGoes
  <2> QED BY <2>1, ClaimFrame
<1>23. CASE SeparateSpan
  <2>1. "EE" \in Thread /\ Moves("EE") /\ th'["EE"].at \notin {"claim", "signal"}
    BY <1>23, SeparateSpanGoes
  <2> QED BY <2>1, ClaimFrame
<1>24. ASSUME NEW r \in held["batch"], MergeSpan(r)
      PROVE  ClaimGoes
  <2>1. "EE" \in Thread /\ Moves("EE") /\ th'["EE"].at \notin {"claim", "signal"}
    BY <1>24, MergeSpanGoes
  <2> QED BY <2>1, ClaimFrame
<1>25. ASSUME NEW r \in held["due"] \union Stale, Retain(r)
      PROVE  ClaimGoes
  <2>1. "MTVU" \in Thread /\ Moves("MTVU") /\ th'["MTVU"].at \notin {"claim", "signal"}
    BY <1>25, RetainGoes
  <2> QED BY <2>1, ClaimFrame
<1>26. ASSUME NEW h \in Holder, NEW r \in held[h], Release(h, r)
      PROVE  ClaimGoes
  <2> DEFINE t == Owner(h)
  <2>1. /\ t \in Thread /\ Moves(t) /\ th'[t].at = "release"
    BY <1>26, ReleaseGoes
  <2> QED BY <2>1, ClaimFrame
<1>27. CASE PublishPendingVifBatch
  BY <1>27 DEF PublishPendingVifBatch, ClaimGoes
<1>28. CASE ExecuteVU
  BY <1>28 DEF ExecuteVU, ClaimGoes
<1>29. ASSUME NEW r \in path1.leaving, NEW intact \in BOOLEAN, LoadCommitted(r, intact)
      PROVE  ClaimGoes
  <2>1. "MTVU" \in Thread /\ Moves("MTVU") /\ th'["MTVU"].at \notin {"claim", "signal"}
    BY <1>29, LoadCommittedGoes
  <2> QED BY <2>1, ClaimFrame
<1>30. CASE StorePublished
  <2>1. "MTVU" \in Thread /\ Moves("MTVU") /\ th'["MTVU"].at \notin {"claim", "signal"}
    BY <1>30, StorePublishedGoes
  <2> QED BY <2>1, ClaimFrame
<1>31. ASSUME NEW n \in 0 .. InputRingSlotCount, Initialize(n)
      PROVE  ClaimGoes
  BY <1>31, InitializeStays DEF ClaimGoes
<1>32. CASE Unpublish
  <2>1. "GS" \in Thread /\ Moves("GS") /\ th'["GS"].at \notin {"claim", "signal"}
    BY <1>32, UnpublishGoes DEF Goes
  <2> QED BY <2>1, ClaimFrame
<1>33. CASE Stop
  <2>1. "GS" \in Thread /\ Moves("GS") /\ th'["GS"].at \notin {"claim", "signal"}
    BY <1>33, StopGoes DEF Goes
  <2> QED BY <2>1, ClaimFrame
<1>34. CASE WakeWaiter
  <2>1. "GS" \in Thread /\ Moves("GS") /\ th'["GS"].at \notin {"claim", "signal"}
    BY <1>34, WakeWaiterGoes DEF Goes
  <2> QED BY <2>1, ClaimFrame
<1>35. CASE PollReferences
  <2>1. "GS" \in Thread /\ Moves("GS") /\ th'["GS"].at \notin {"claim", "signal"}
    BY <1>35, PollReferencesGoes DEF Goes
  <2> QED BY <2>1, ClaimFrame
<1>36. CASE PollReferenceCalls
  <2>1. "GS" \in Thread /\ Moves("GS") /\ th'["GS"].at \notin {"claim", "signal"}
    BY <1>36, PollReferenceCallsGoes DEF Goes
  <2> QED BY <2>1, ClaimFrame
<1>37. CASE PollCaptureCalls
  <2>1. "GS" \in Thread /\ Moves("GS") /\ th'["GS"].at \notin {"claim", "signal"}
    BY <1>37, PollCaptureCallsGoes DEF Goes
  <2> QED BY <2>1, ClaimFrame
<1>38. CASE RefuseShutdown
  <2>1. "GS" \in Thread /\ Moves("GS") /\ th'["GS"].at \notin {"claim", "signal"}
    BY <1>38, RefuseShutdownGoes DEF Goes
  <2> QED BY <2>1, ClaimFrame
<1>39. CASE Unmap
  <2>1. "GS" \in Thread /\ Moves("GS") /\ th'["GS"].at \notin {"claim", "signal"}
    BY <1>39, UnmapGoes DEF Goes
  <2> QED BY <2>1, ClaimFrame
<1>40. CASE UNCHANGED ringVars
  BY <1>40 DEF ringVars, ClaimGoes
<1> QED
  BY <1>1, <1>2, <1>3, <1>4, <1>5, <1>6, <1>7, <1>8, <1>9, <1>10, <1>11, <1>12, 
     <1>13, <1>14, <1>15, <1>16, <1>17, <1>18, <1>19, <1>20, <1>21, <1>22, <1>23, 
     <1>24, <1>25, <1>26, <1>27, <1>28, <1>29, <1>30, <1>31, <1>32, <1>33, <1>34, 
     <1>35, <1>36, <1>37, <1>38, <1>39, <1>40, RunStays
     DEF RingNext, CaptureStep, ReferenceStep, FinishSpan, ShutdownStep

LEMMA LateStep ==
  ASSUME IInv, [Next]_vars
  PROVE  LeftIsLate'
<1>1. /\ Drained' => Drained \/ PollReferences
      /\ Quiesced' => Quiesced \/ (PollReferenceCalls /\ calls.reference = 0)
  BY DrainStep DEF Draining
<1>2. ASSUME Drained'
      PROVE  /\ \A h \in Holder : \A r \in held'[h] : r.late
             /\ \A t \in Thread : th'[t].at \in Pinning /\ th'[t].payload # NoPayload =>
                    th'[t].payload.late
  <2>1. CASE Drained
    <3>1. \A h \in Holder : \A r \in held'[h] : r.late
      BY <2>1, HeldLateStep DEF HeldLate
    <3>2. ASSUME NEW t \in Thread, th'[t].at \in Pinning, th'[t].payload # NoPayload
          PROVE  th'[t].payload.late
      <4>1. PinOf(th'[t]) = th'[t].payload
        BY <3>2 DEF PinOf
      <4>2. PinGoes(t)
        BY PinStep
      <4>3. CASE PinOf(th'[t]) = PinOf(th[t])
        <5>1. th[t].at \in Pinning /\ th[t].payload = th'[t].payload
          BY <3>2, <4>1, <4>3 DEF PinOf
        <5> QED BY <2>1, <3>2, <5>1, LateBefore
      <4>4. CASE NewPin(PinOf(th'[t]))
        BY <2>1, <4>1, <4>4 DEF NewPin
      <4> QED BY <3>2, <4>1, <4>2, <4>3, <4>4 DEF PinGoes
    <3> QED BY <3>1, <3>2
  <2>2. CASE PollReferences
    <3>1. /\ Moves("GS") /\ th["GS"].at = "references" /\ th'["GS"].at = "reference_calls"
          /\ UNCHANGED held
      BY <2>2, PollReferencesGoes DEF Goes, PollReferences
    <3>2. \A s \in Slot : s < ring.count => slots[s].references = 0
      BY <2>2 DEF PollReferences, Referenced
    <3>3. ring.initialized
      BY <3>1 DEF IInv, RingLife, InShutdown
    <3>4. ASSUME NEW h \in Holder, NEW r \in held[h]
          PROVE  FALSE
      BY <3>2, <3>3, HeldIsCurrent
    <3>5. ASSUME NEW t \in Thread, th'[t].at \in Pinning, th'[t].payload # NoPayload
          PROVE  FALSE
      <4>1. t # "GS"
        BY <3>1, <3>5 DEF Pinning
      <4>2. th'[t] = th[t]
        BY <3>1, <4>1 DEF Moves
      <4>3. th[t].payload.slot \in Slot /\ slots[th[t].payload.slot].references # 0
        BY <3>5, <4>2, Pinned
      <4>4. th[t].payload.slot < ring.count
        BY <3>3, <3>5, <4>2 DEF IInv, PinsAreCurrent
      <4> QED BY <3>2, <4>3, <4>4
    <3> QED BY <3>1, <3>4, <3>5
  <2> QED BY <1>1, <1>2, <2>1, <2>2
<1>3. ASSUME Quiesced', NEW t \in Thread, th'[t].at \in {"claim", "signal"}
      PROVE  th'[t].payload.late
  <2>1. th'[t].payload = th[t].payload /\ th[t].at \in {"release", "claim", "signal"}
    BY <1>3, ClaimStep DEF ClaimGoes
  <2>2. CASE Quiesced
    <3>1. CASE th[t].at \in {"claim", "signal"}
      BY <2>1, <2>2, <3>1 DEF Quiesced, IInv, LeftIsLate
    <3>2. CASE th[t].at = "release"
      <4>1. th[t].payload \in Payload /\ th[t].at \in Pinning
        BY <3>2, ThreadFacts DEF ThreadIsTyped, InCall, Pinning
      <4>2. Drained
        BY <2>2 DEF Quiesced, Drained
      <4> QED BY <2>1, <4>1, <4>2, LateBefore, PayloadIsOne
    <3> QED BY <2>1, <3>1, <3>2
  <2>3. CASE calls.reference = 0
    <3>1. calls.reference = In("EE", InCall) + In("MTVU", InCall) + In("GS", InCall)
      BY DEF IInv, CallsAreCounted
    <3>2. In("EE", InCall) \in {0, 1} /\ In("MTVU", InCall) \in {0, 1} /\ In("GS", InCall) \in {0, 1}
      BY DEF In
    <3>3. In("EE", InCall) = 0 /\ In("MTVU", InCall) = 0 /\ In("GS", InCall) = 0
      BY <2>3, <3>1, <3>2
    <3>4. In(t, InCall) = 0
      BY <3>3 DEF Thread, Producer
    <3> QED BY <2>1, <3>4 DEF In, InCall
  <2> QED BY <1>1, <1>3, <2>2, <2>3
<1> QED BY <1>2, <1>3 DEF LeftIsLate, Drained, Quiesced

-----------------------------------------------------------------------------
(* MTVU's pending run *)

Path1Type == [run : SUBSET Payload, leaving : SUBSET Payload, requested : BOOLEAN,
              quiet : BOOLEAN, missed : BOOLEAN]

\* A draw that joins the run has a payload.
LEMMA BindKeepsType ==
  ASSUME IInv, NEW r \in Payload, BindToDraw(r)
  PROVE  path1' \in Path1Type
<1>1. path1 \in Path1Type
  BY DEF IInv, TypeOK, Path1Type
<1> QED BY <1>1 DEF BindToDraw, Path1Type

\* Every step keeps the type of the run.
LEMMA Path1Step ==
  ASSUME IInv, [Next]_vars
  PROVE  path1' \in Path1Type
<1>1. path1 \in Path1Type
  BY DEF IInv, TypeOK, Path1Type
<1>2. CASE UNCHANGED path1
  BY <1>1, <1>2
<1>3. ASSUME NEW p \in Producer, RequestGpuVuInputRetirement(p)
      PROVE  path1' \in Path1Type
  BY <1>1, <1>3 DEF RequestGpuVuInputRetirement, FlushRequested, Path1Type
<1>4. ASSUME NEW p \in Producer, Commit(p)
      PROVE  path1' \in Path1Type
  <2>1. th[p].payload \in Payload
    BY <1>4, CommitGoes, ThreadFacts DEF ThreadIsTyped, Filling
  <2>2. BindToDraw(th[p].payload) \/ UNCHANGED path1
    BY <1>4 DEF Commit
  <2> QED BY <1>1, <2>1, <2>2, BindKeepsType
<1>5. CASE ConfirmRetain
  <2>1. th["MTVU"].payload \in Payload
    BY <1>5, ConfirmRetainGoes, ThreadFacts DEF Goes, ThreadIsTyped, InCall
  <2>2. BindToDraw(th["MTVU"].payload) \/ UNCHANGED path1
    BY <1>5 DEF ConfirmRetain
  <2> QED BY <1>1, <2>1, <2>2, BindKeepsType
<1>6. CASE Path1Next
  <2>1. CASE LeaveRecordLoop
    BY <1>1, <2>1 DEF LeaveRecordLoop, Path1Type
  <2>2. CASE TakePublicationRequests
    BY <1>1, <2>2 DEF TakePublicationRequests, Path1Type
  <2>3. ASSUME NEW prefix \in SUBSET path1.run, PublishMtvuPath1Completions(prefix)
        PROVE  path1' \in Path1Type
    BY <1>1, <2>3 DEF PublishMtvuPath1Completions, Path1Type
  <2>4. CASE PublishMtvuPath1Completion
    BY <1>1, <2>4 DEF PublishMtvuPath1Completion, Path1Type
  <2> QED BY <1>6, <2>1, <2>2, <2>3, <2>4 DEF Path1Next
<1>7. CASE RingNext
  <2>1. ASSUME NEW p \in Producer, CaptureStep(p)
        PROVE  path1' \in Path1Type
    BY <1>2, <1>3, <1>4, <2>1
       DEF CaptureStep, LoadActiveRing, LockCapture, TestAccepting, Reserve,
           BeginGeneration, Recycle, FindOwned, ArmWaiter, Recheck, Disarm,
           WaitSlotReleased, Fill, LeaveCapture
  <2>2. ASSUME NEW t \in Thread, ReferenceStep(t)
        PROVE  path1' \in Path1Type
    BY <1>2, <1>5, <2>2
       DEF ReferenceStep, RetainOwnership, ReleaseOwnership, ClaimWaiter, SignalWaiter,
           ExitReferenceCall
  <2>3. FinishSpan \/ ShutdownStep => UNCHANGED path1
    BY DEF FinishSpan, SeparateSpan, MergeSpan, ShutdownStep, Stop, WakeWaiter,
           PollReferences, PollReferenceCalls, PollCaptureCalls, RefuseShutdown, Unmap
  <2> QED BY <1>2, <1>7, <2>1, <2>2, <2>3
          DEF RingNext, CaptureRawVifPayload, Retain, Release, PublishPendingVifBatch,
              ExecuteVU, LoadCommitted, StorePublished, Initialize, Unpublish
<1> QED BY <1>2, <1>6, <1>7 DEF Next, vars

\* LoadCommitted() takes MTVU to a publication; until it is stored, MTVU stays.
Loads == \E r \in path1.leaving, intact \in BOOLEAN : LoadCommitted(r, intact)
PublishGoes == th'["MTVU"].at = "publish" => th'["MTVU"] = th["MTVU"] \/ Loads

LEMMA PublishFrame ==
  ASSUME NEW t \in Thread, Moves(t), th'[t].at # "publish"
  PROVE  PublishGoes
BY DEF PublishGoes, Moves, Thread, Producer

\* Only LoadCommitted begins a publication.
LEMMA PublishStep ==
  ASSUME IInv, [Next]_vars
  PROVE  PublishGoes
<1>1. ASSUME NEW p \in Producer, CaptureRawVifPayload(p)
      PROVE  PublishGoes
  <2>1. p \in Thread /\ Moves(p) /\ th'[p].at # "publish"
    BY <1>1, CaptureRawVifPayloadGoes
  <2> QED BY <2>1, PublishFrame
<1>2. ASSUME NEW p \in Producer, LoadActiveRing(p)
      PROVE  PublishGoes
  <2>1. p \in Thread /\ Moves(p) /\ th'[p].at # "publish"
    BY <1>2, LoadActiveRingGoes DEF Goes
  <2> QED BY <2>1, PublishFrame
<1>3. ASSUME NEW p \in Producer, LockCapture(p)
      PROVE  PublishGoes
  <2>1. p \in Thread /\ Moves(p) /\ th'[p].at # "publish"
    BY <1>3, LockCaptureGoes DEF Goes
  <2> QED BY <2>1, PublishFrame
<1>4. ASSUME NEW p \in Producer, TestAccepting(p)
      PROVE  PublishGoes
  <2>1. p \in Thread /\ Moves(p) /\ th'[p].at # "publish"
    BY <1>4, TestAcceptingGoes DEF Goes
  <2> QED BY <2>1, PublishFrame
<1>5. ASSUME NEW p \in Producer, Reserve(p)
      PROVE  PublishGoes
  <2>1. p \in Thread /\ Moves(p) /\ th'[p].at # "publish"
    BY <1>5, ReserveGoes
  <2> QED BY <2>1, PublishFrame
<1>6. ASSUME NEW p \in Producer, BeginGeneration(p)
      PROVE  PublishGoes
  <2>1. p \in Thread /\ Moves(p) /\ th'[p].at # "publish"
    BY <1>6, BeginGenerationGoes DEF Goes
  <2> QED BY <2>1, PublishFrame
<1>7. ASSUME NEW p \in Producer, NEW intact \in BOOLEAN, Recycle(p, intact)
      PROVE  PublishGoes
  <2>1. p \in Thread /\ Moves(p) /\ th'[p].at # "publish"
    BY <1>7, RecycleGoes DEF Goes
  <2> QED BY <2>1, PublishFrame
<1>8. ASSUME NEW p \in Producer, FindOwned(p)
      PROVE  PublishGoes
  <2>1. p \in Thread /\ Moves(p) /\ th'[p].at # "publish"
    BY <1>8, FindOwnedGoes DEF Goes
  <2> QED BY <2>1, PublishFrame
<1>9. ASSUME NEW p \in Producer, ArmWaiter(p)
      PROVE  PublishGoes
  <2>1. p \in Thread /\ Moves(p) /\ th'[p].at # "publish"
    BY <1>9, ArmWaiterGoes DEF Goes
  <2> QED BY <2>1, PublishFrame
<1>10. ASSUME NEW p \in Producer, Recheck(p)
      PROVE  PublishGoes
  <2>1. p \in Thread /\ Moves(p) /\ th'[p].at # "publish"
    BY <1>10, RecheckGoes DEF Goes
  <2> QED BY <2>1, PublishFrame
<1>11. ASSUME NEW p \in Producer, Disarm(p)
      PROVE  PublishGoes
  <2>1. p \in Thread /\ Moves(p) /\ th'[p].at # "publish"
    BY <1>11, DisarmGoes DEF Goes
  <2> QED BY <2>1, PublishFrame
<1>12. ASSUME NEW p \in Producer, RequestGpuVuInputRetirement(p)
      PROVE  PublishGoes
  <2>1. p \in Thread /\ Moves(p) /\ th'[p].at # "publish"
    BY <1>12, RequestGpuVuInputRetirementGoes DEF Goes
  <2> QED BY <2>1, PublishFrame
<1>13. ASSUME NEW p \in Producer, WaitSlotReleased(p)
      PROVE  PublishGoes
  <2>1. p \in Thread /\ Moves(p) /\ th'[p].at # "publish"
    BY <1>13, WaitSlotReleasedGoes DEF Goes
  <2> QED BY <2>1, PublishFrame
<1>14. ASSUME NEW p \in Producer, Fill(p)
      PROVE  PublishGoes
  <2>1. p \in Thread /\ Moves(p) /\ th'[p].at # "publish"
    BY <1>14, FillGoes DEF Goes
  <2> QED BY <2>1, PublishFrame
<1>15. ASSUME NEW p \in Producer, Commit(p)
      PROVE  PublishGoes
  <2>1. p \in Thread /\ Moves(p) /\ th'[p].at # "publish"
    BY <1>15, CommitGoes
  <2> QED BY <2>1, PublishFrame
<1>16. ASSUME NEW p \in Producer, LeaveCapture(p)
      PROVE  PublishGoes
  <2>1. p \in Thread /\ Moves(p) /\ th'[p].at # "publish"
    BY <1>16, LeaveCaptureGoes
  <2> QED BY <2>1, PublishFrame
<1>17. CASE RetainOwnership
  <2>1. "MTVU" \in Thread /\ Moves("MTVU") /\ th'["MTVU"].at # "publish"
    BY <1>17, RetainOwnershipGoes DEF Goes
  <2> QED BY <2>1, PublishFrame
<1>18. CASE ConfirmRetain
  <2>1. "MTVU" \in Thread /\ Moves("MTVU") /\ th'["MTVU"].at # "publish"
    BY <1>18, ConfirmRetainGoes DEF Goes
  <2> QED BY <2>1, PublishFrame
<1>19. ASSUME NEW t \in Thread, ReleaseOwnership(t)
      PROVE  PublishGoes
  <2>1. t \in Thread /\ Moves(t) /\ th'[t].at # "publish"
    BY <1>19, ReleaseOwnershipGoes DEF Goes
  <2> QED BY <2>1, PublishFrame
<1>20. ASSUME NEW t \in Thread, ClaimWaiter(t)
      PROVE  PublishGoes
  <2>1. t \in Thread /\ Moves(t) /\ th'[t].at # "publish"
    BY <1>20, ClaimWaiterGoes DEF Goes
  <2> QED BY <2>1, PublishFrame
<1>21. ASSUME NEW t \in Thread, SignalWaiter(t)
      PROVE  PublishGoes
  <2>1. t \in Thread /\ Moves(t) /\ th'[t].at # "publish"
    BY <1>21, SignalWaiterGoes DEF Goes
  <2> QED BY <2>1, PublishFrame
<1>22. ASSUME NEW t \in Thread, ExitReferenceCall(t)
      PROVE  PublishGoes
  <2>1. t \in Thread /\ Moves(t) /\ th'[t].at # "publish"
    BY <1>22, ExitReferenceCallGoes
  <2> QED BY <2>1, PublishFrame
<1>23. CASE SeparateSpan
  <2>1. "EE" \in Thread /\ Moves("EE") /\ th'["EE"].at # "publish"
    BY <1>23, SeparateSpanGoes
  <2> QED BY <2>1, PublishFrame
<1>24. ASSUME NEW r \in held["batch"], MergeSpan(r)
      PROVE  PublishGoes
  <2>1. "EE" \in Thread /\ Moves("EE") /\ th'["EE"].at # "publish"
    BY <1>24, MergeSpanGoes
  <2> QED BY <2>1, PublishFrame
<1>25. ASSUME NEW r \in held["due"] \union Stale, Retain(r)
      PROVE  PublishGoes
  <2>1. "MTVU" \in Thread /\ Moves("MTVU") /\ th'["MTVU"].at # "publish"
    BY <1>25, RetainGoes
  <2> QED BY <2>1, PublishFrame
<1>26. ASSUME NEW h \in Holder, NEW r \in held[h], Release(h, r)
      PROVE  PublishGoes
  <2> DEFINE t == Owner(h)
  <2>1. /\ t \in Thread /\ Moves(t) /\ th'[t].at = "release"
    BY <1>26, ReleaseGoes
  <2> QED BY <2>1, PublishFrame
<1>27. CASE PublishPendingVifBatch
  BY <1>27 DEF PublishPendingVifBatch, PublishGoes
<1>28. CASE ExecuteVU
  BY <1>28 DEF ExecuteVU, PublishGoes
<1>29. ASSUME NEW r \in path1.leaving, NEW intact \in BOOLEAN, LoadCommitted(r, intact)
      PROVE  PublishGoes
  BY <1>29 DEF PublishGoes, Loads
<1>30. CASE StorePublished
  <2>1. "MTVU" \in Thread /\ Moves("MTVU") /\ th'["MTVU"].at # "publish"
    BY <1>30, StorePublishedGoes
  <2> QED BY <2>1, PublishFrame
<1>31. ASSUME NEW n \in 0 .. InputRingSlotCount, Initialize(n)
      PROVE  PublishGoes
  BY <1>31, InitializeStays DEF PublishGoes
<1>32. CASE Unpublish
  <2>1. "GS" \in Thread /\ Moves("GS") /\ th'["GS"].at # "publish"
    BY <1>32, UnpublishGoes DEF Goes
  <2> QED BY <2>1, PublishFrame
<1>33. CASE Stop
  <2>1. "GS" \in Thread /\ Moves("GS") /\ th'["GS"].at # "publish"
    BY <1>33, StopGoes DEF Goes
  <2> QED BY <2>1, PublishFrame
<1>34. CASE WakeWaiter
  <2>1. "GS" \in Thread /\ Moves("GS") /\ th'["GS"].at # "publish"
    BY <1>34, WakeWaiterGoes DEF Goes
  <2> QED BY <2>1, PublishFrame
<1>35. CASE PollReferences
  <2>1. "GS" \in Thread /\ Moves("GS") /\ th'["GS"].at # "publish"
    BY <1>35, PollReferencesGoes DEF Goes
  <2> QED BY <2>1, PublishFrame
<1>36. CASE PollReferenceCalls
  <2>1. "GS" \in Thread /\ Moves("GS") /\ th'["GS"].at # "publish"
    BY <1>36, PollReferenceCallsGoes DEF Goes
  <2> QED BY <2>1, PublishFrame
<1>37. CASE PollCaptureCalls
  <2>1. "GS" \in Thread /\ Moves("GS") /\ th'["GS"].at # "publish"
    BY <1>37, PollCaptureCallsGoes DEF Goes
  <2> QED BY <2>1, PublishFrame
<1>38. CASE RefuseShutdown
  <2>1. "GS" \in Thread /\ Moves("GS") /\ th'["GS"].at # "publish"
    BY <1>38, RefuseShutdownGoes DEF Goes
  <2> QED BY <2>1, PublishFrame
<1>39. CASE Unmap
  <2>1. "GS" \in Thread /\ Moves("GS") /\ th'["GS"].at # "publish"
    BY <1>39, UnmapGoes DEF Goes
  <2> QED BY <2>1, PublishFrame
<1>40. CASE UNCHANGED ringVars
  BY <1>40 DEF ringVars, PublishGoes
<1> QED
  BY <1>1, <1>2, <1>3, <1>4, <1>5, <1>6, <1>7, <1>8, <1>9, <1>10, <1>11, <1>12, 
     <1>13, <1>14, <1>15, <1>16, <1>17, <1>18, <1>19, <1>20, <1>21, <1>22, <1>23, 
     <1>24, <1>25, <1>26, <1>27, <1>28, <1>29, <1>30, <1>31, <1>32, <1>33, <1>34, 
     <1>35, <1>36, <1>37, <1>38, <1>39, <1>40, RunStays
     DEF RingNext, CaptureStep, ReferenceStep, FinishSpan, ShutdownStep

\* A draw leaves only once it is the GS worker's, and joins MTVU's run as one.
DrawGoes ==
    /\ \A r \in held["draw"] : r \in InRun => r \in held'["draw"]
    /\ \A r \in path1'.run \union path1'.leaving : r \in InRun \/ r \in held'["draw"]
    /\ path1'.leaving # path1.leaving => UNCHANGED th /\ th["MTVU"].at = "idle"

LEMMA BoundDrawGoes ==
  ASSUME IInv, NEW r, BindToDraw(r)
  PROVE  DrawGoes
<1>1. path1 \in Path1Type /\ held \in [Holder -> SUBSET Payload]
  BY HeldFacts DEF IInv, TypeOK, Path1Type
<1>2. /\ path1'.run = path1.run \union {r} /\ path1'.leaving = path1.leaving
      /\ held'["draw"] = held["draw"] \union {r}
  BY <1>1 DEF BindToDraw, Path1Type, Holder
<1> QED BY <1>2 DEF DrawGoes, InRun

LEMMA OtherDrawGoes ==
  ASSUME IInv, UNCHANGED path1, \A r \in held["draw"] : r \in held'["draw"] \/ r \notin InRun
  PROVE  DrawGoes
BY DEF DrawGoes, InRun

LEMMA DrawStep ==
  ASSUME IInv, [Next]_vars
  PROVE  DrawGoes
<1>1. path1 \in Path1Type /\ held \in [Holder -> SUBSET Payload]
  BY HeldFacts DEF IInv, TypeOK, Path1Type
<1>2. CASE UNCHANGED <<held, path1>>
  BY <1>2, OtherDrawGoes
<1>3. ASSUME NEW p \in Producer, RequestGpuVuInputRetirement(p)
      PROVE  DrawGoes
  <2>1. path1'.run = path1.run /\ path1'.leaving = path1.leaving
    BY <1>1, <1>3 DEF RequestGpuVuInputRetirement, FlushRequested, Path1Type
  <2>2. held'["draw"] = held["draw"]
    BY <1>1, <1>3 DEF RequestGpuVuInputRetirement, Published, Holder
  <2> QED BY <2>1, <2>2 DEF DrawGoes, InRun
<1>4. ASSUME NEW p \in Producer, Commit(p)
      PROVE  DrawGoes
  <2>1. BindToDraw(th[p].payload) \/ UNCHANGED <<held, path1>>
    BY <1>4 DEF Commit
  <2> QED BY <1>2, <2>1, BoundDrawGoes
<1>5. CASE ConfirmRetain
  <2>1. BindToDraw(th["MTVU"].payload) \/ UNCHANGED <<held, path1>>
    BY <1>5 DEF ConfirmRetain
  <2> QED BY <1>2, <2>1, BoundDrawGoes
<1>6. CASE Path1Next
  <2>1. UNCHANGED <<held, th>> /\ th["MTVU"].at = "idle"
    BY <1>6 DEF Path1Next, LeaveRecordLoop, TakePublicationRequests,
                PublishMtvuPath1Completions, PublishMtvuPath1Completion, ringVars, At
  <2>2. ASSUME NEW r \in path1'.run \union path1'.leaving
        PROVE  r \in InRun
    <3>1. CASE LeaveRecordLoop
      BY <1>1, <2>2, <3>1 DEF LeaveRecordLoop, InRun, Path1Type
    <3>2. CASE TakePublicationRequests
      BY <1>1, <2>2, <3>2 DEF TakePublicationRequests, InRun, Path1Type
    <3>3. ASSUME NEW prefix \in SUBSET path1.run, PublishMtvuPath1Completions(prefix)
          PROVE  r \in InRun
      BY <1>1, <2>2, <3>3 DEF PublishMtvuPath1Completions, InRun, Path1Type
    <3>4. CASE PublishMtvuPath1Completion
      BY <1>1, <2>2, <3>4 DEF PublishMtvuPath1Completion, InRun, Path1Type
    <3> QED BY <1>6, <3>1, <3>2, <3>3, <3>4 DEF Path1Next
  <2> QED BY <2>1, <2>2 DEF DrawGoes
<1>7. CASE RingNext
  <2>1. ASSUME NEW p \in Producer, CaptureStep(p)
        PROVE  DrawGoes
    BY <1>2, <1>3, <1>4, <2>1
       DEF CaptureStep, LoadActiveRing, LockCapture, TestAccepting, Reserve,
           BeginGeneration, Recycle, FindOwned, ArmWaiter, Recheck, Disarm,
           WaitSlotReleased, Fill, LeaveCapture
  <2>2. ASSUME NEW t \in Thread, ReferenceStep(t)
        PROVE  DrawGoes
    BY <1>2, <1>5, <2>2
       DEF ReferenceStep, RetainOwnership, ReleaseOwnership, ClaimWaiter, SignalWaiter,
           ExitReferenceCall
  <2>3. CASE FinishSpan
    <3>1. UNCHANGED path1 /\ held'["draw"] = held["draw"]
      BY <1>1, <2>3 DEF FinishSpan, SeparateSpan, MergeSpan, Holder
    <3> QED BY <3>1, OtherDrawGoes
  <2>4. CASE ShutdownStep
    BY <1>2, <2>4 DEF ShutdownStep, Stop, WakeWaiter, PollReferences, PollReferenceCalls,
                      PollCaptureCalls, RefuseShutdown, Unmap
  <2>5. ASSUME NEW h \in Holder, NEW r \in held[h], Release(h, r)
        PROVE  DrawGoes
    <3>1. UNCHANGED path1 /\ held' = [held EXCEPT ![h] = @ \ {r}]
          /\ (h = "draw" => r \notin InRun)
      BY <2>5 DEF Release
    <3>2. \A x \in held["draw"] : x \in held'["draw"] \/ x \notin InRun
      BY <1>1, <3>1 DEF Holder
    <3> QED BY <3>1, <3>2, OtherDrawGoes
  <2>6. CASE PublishPendingVifBatch \/ ExecuteVU
    <3>1. UNCHANGED path1 /\ held'["draw"] = held["draw"]
      BY <1>1, <2>6 DEF PublishPendingVifBatch, Published, ExecuteVU, Holder
    <3> QED BY <3>1, OtherDrawGoes
  <2> QED BY <1>2, <1>7, <2>1, <2>2, <2>3, <2>4, <2>5, <2>6
          DEF RingNext, CaptureRawVifPayload, Retain, LoadCommitted, StorePublished,
              Initialize, Unpublish
<1> QED BY <1>2, <1>6, <1>7 DEF Next, vars, ringVars

\* Every step keeps RunIsHeld.
LEMMA RunStep ==
  ASSUME IInv, [Next]_vars
  PROVE  RunIsHeld'
<1>1. RunIsHeld /\ DrawGoes /\ PublishGoes
  BY DrawStep, PublishStep DEF IInv
<1>2. path1'.run \subseteq held'["draw"] /\ path1'.leaving \subseteq held'["draw"]
  BY <1>1 DEF RunIsHeld, DrawGoes, InRun
<1> DEFINE r == th'["MTVU"].payload
           n == th'["MTVU"].size
<1>3. ASSUME th'["MTVU"].at = "publish"
      PROVE  r \in path1'.leaving /\ n <= slots'[r.slot].committed
  <2>1. CASE th'["MTVU"] = th["MTVU"]
    <3>1. r \in path1.leaving /\ n <= slots[r.slot].committed
      BY <1>1, <1>3, <2>1 DEF RunIsHeld
    <3>2. path1'.leaving = path1.leaving
      BY <1>1, <1>3, <2>1 DEF DrawGoes
    <3>3. r \in Live /\ th["MTVU"] \in ThreadState
      BY <3>1, LeavingFacts, ThreadFacts DEF Live, Holder, Thread, Producer
    <3>4. slots'[r.slot].committed >= slots[r.slot].committed /\ r.slot \in Slot
      BY <3>3, LiveKept, LiveFacts DEF Kept
    <3>5. /\ slots[r.slot].committed \in 0 .. InputRingSlotSize
          /\ slots'[r.slot].committed \in 0 .. InputRingSlotSize
          /\ n \in 0 .. InputRingSlotSize
      BY <2>1, <3>3, <3>4, SlotFacts, SlotStep DEF SlotsGo, SlotState, ThreadState
    <3> HIDE DEF r, n
    <3> QED BY <3>1, <3>2, <3>4, <3>5
  <2>2. ASSUME NEW q \in path1.leaving, NEW intact \in BOOLEAN, LoadCommitted(q, intact)
        PROVE  r \in path1'.leaving /\ n <= slots'[r.slot].committed
    <3>1. th["MTVU"].at = "idle" /\ UNCHANGED <<path1, slots>>
      BY <2>2, LoadCommittedGoes DEF LoadCommitted
    <3>2. r = q /\ n = slots[q.slot].committed
      BY <1>3, <2>2, <3>1, LoadCommittedGoes
    <3>3. slots[q.slot].committed \in 0 .. InputRingSlotSize
      BY LeavingFacts, SlotFacts
    <3> HIDE DEF r, n
    <3> QED BY <3>1, <3>2, <3>3
  <2> QED BY <1>1, <1>3, <2>1, <2>2 DEF PublishGoes, Loads
<1> QED BY <1>2, <1>3 DEF RunIsHeld

-----------------------------------------------------------------------------
(* The invariant *)

LEMMA InitIInv ==
  ASSUME Init
  PROVE  IInv
<1>1. /\ \A t \in Thread : th[t] = Idle /\ th[t].at = "idle" /\ th[t].payload = NoPayload
      /\ th["EE"].at = "idle" /\ th["MTVU"].at = "idle" /\ th["GS"].at = "idle"
      /\ th \in [Thread -> ThreadState]
  BY IdleFacts DEF Init, Thread, Producer
<1>2. /\ \A h \in Holder : held[h] = {}
      /\ held["batch"] = {} /\ held["journal"] = {} /\ held["due"] = {} /\ held["draw"] = {}
      /\ held \in [Holder -> SUBSET Payload]
  BY DEF Init, Holder
<1>3. /\ ring.active = FALSE /\ ring.accepting = FALSE /\ ring.initialized = FALSE
      /\ ring \in RingType
  BY Sizes0 DEF Init, RingType, Slot
<1> DEFINE z == [generation |-> 1, references |-> 0, committed |-> 0, published |-> 0,
                 write |-> 0, writer |-> [u \in Unit |-> 0]]
<1>4. /\ z \in SlotState /\ z.generation = 1 /\ z.references = 0
      /\ z.committed = 0 /\ z.published = 0
  BY Sizes0 DEF SlotState
<1>5. /\ slots \in [Slot -> SlotState]
      /\ \A s \in Slot : /\ slots[s].generation = 1 /\ slots[s].references = 0
                         /\ slots[s].committed = 0 /\ slots[s].published = 0
  <2>1. slots = [s \in Slot |-> z]
    BY DEF Init
  <2> HIDE DEF z
  <2> QED BY <1>4, <2>1
<1>6. TypeOK
  <2>1. left \in [Producer -> Seq(1 .. InputRingSlotSize)] /\ calls \in [reference : Nat, capture : Nat]
    BY RingAssumption DEF Init, Producer
  <2>2. path1 \in [run : SUBSET Payload, leaving : SUBSET Payload, requested : BOOLEAN,
                    quiet : BOOLEAN, missed : BOOLEAN]
    BY DEF Init
  <2> QED BY <1>1, <1>2, <1>3, <1>5, <2>1, <2>2 DEF TypeOK, Init, ThreadState, RingType
<1>7. ThreadsAreTyped
  BY <1>1 DEF ThreadsAreTyped, ThreadIsTyped, Places, Filling, Asking, InCapture, Critical,
              InCall, InShutdown, Thread, Producer
<1>8. MutexIsHeld
  BY <1>1 DEF MutexIsHeld, Init, Nobody, Critical, Producer
<1>9. CallsAreCounted
  BY <1>1 DEF CallsAreCounted, In, Init, InCapture, Critical, InCall
<1>10. RingLife
  BY <1>1, <1>3 DEF RingLife, InShutdown, Critical, Producer, Thread
<1>11. SlotsAreOrdered
  BY <1>3, <1>5 DEF SlotsAreOrdered
<1>12. ReservationIsNext /\ PinsAreCurrent
  BY <1>1 DEF ReservationIsNext, PinsAreCurrent, Filling, Pinning, Thread
<1>13. Fresh = {} /\ \A r : r \notin Live
  BY <1>1, <1>2, LiveIs DEF Fresh
<1>14. LiveIsWhole /\ LiveIsDisjoint
  BY <1>13 DEF LiveIsWhole, LiveIsDisjoint
<1>15. HoldersAreDistinct
  BY <1>1, <1>2, <1>13, FS_EmptySet DEF HoldersAreDistinct
<1>19. RunIsHeld
  BY <1>1 DEF RunIsHeld, Init
<1>16. LeftIsLate
  BY <1>1, <1>2 DEF LeftIsLate, Pinning
<1>17. OwnershipIsExact
  <2> SUFFICES ASSUME NEW s \in Slot
               PROVE  slots[s].references =
                          Owned("batch", s) + Owned("journal", s) + Owned("due", s)
                          + Owned("draw", s) + Cardinality(InFlight(s))
    BY DEF OwnershipIsExact
  <2>1. /\ Owned("batch", s) = 0 /\ Owned("journal", s) = 0
        /\ Owned("due", s) = 0 /\ Owned("draw", s) = 0
    BY <1>2, FS_EmptySet DEF Owned
  <2>2. InFlight(s) = {}
    BY <1>1 DEF InFlight
  <2>3. Cardinality(InFlight(s)) = 0
    BY <2>2, FS_EmptySet
  <2> QED BY <1>5, <2>1, <2>3
<1>18. WakeupIsUnique
  BY <1>3 DEF WakeupIsUnique
<1> QED BY <1>6, <1>7, <1>8, <1>9, <1>10, <1>11, <1>12, <1>14, <1>15, <1>16, <1>17, <1>18,
           <1>19
        DEF IInv

LEMMA StepIInv ==
  ASSUME IInv, [Next]_vars
  PROVE  IInv'
<1>1. /\ th' \in [Thread -> ThreadState] /\ ThreadsAreTyped'
      /\ MutexIsHeld' /\ capture_mutex' \in Producer \union {Nobody}
      /\ CallsAreCounted' /\ calls' \in [reference : Nat, capture : Nat]
  BY OrderlyStep
<1>2. RingVarsTyped'
  BY RingVarsStep
<1>3. SlotsAreOrdered' /\ slots' \in [Slot -> SlotState]
  BY SlotsOrderedStep
<1>4. /\ LiveIsWhole' /\ LiveIsDisjoint' /\ HoldersAreDistinct'
      /\ held' \in [Holder -> SUBSET Payload]
  BY HeldStep DEF HeldGoes
<1>9. path1' \in Path1Type /\ RunIsHeld'
  BY Path1Step, RunStep
<1>5. TypeOK'
  BY <1>1, <1>2, <1>3, <1>4, <1>9 DEF TypeOK, Path1Type, RingVarsTyped, RingType, ThreadState
<1>6. RingLife' /\ WakeupIsUnique'
  BY LifeStep, WakeupStep
<1>7. ReservationIsNext' /\ PinsAreCurrent'
  BY ReservationStep, PinsCurrentStep
<1>8. OwnershipIsExact' /\ LeftIsLate'
  BY ExactStep, LateStep
<1> QED BY <1>1, <1>3, <1>4, <1>5, <1>6, <1>7, <1>8, <1>9 DEF IInv

LEMMA ImmutableFromIInv ==
  ASSUME IInv
  PROVE  PayloadIsImmutable
<1> SUFFICES ASSUME NEW h \in Holder, NEW r \in held[h]
             PROVE  /\ ring.active => Resolves(r)
                    /\ \A u \in Covers(r) : slots[r.slot].writer[u] = r.generation
                    /\ \A g \in Holder : \A q \in held[g] :
                          q # r /\ q.slot = r.slot => Covers(q) \intersect Covers(r) = {}
  BY DEF PayloadIsImmutable
<1>1. /\ r \in Live /\ r.generation = slots[r.slot].generation
      /\ slots[r.slot].references # 0
      /\ ring.initialized => r.slot < ring.count
  BY HeldIsCurrent
<1>2. /\ r.offset + r.size <= slots[r.slot].committed
      /\ \A u \in Covers(r) : slots[r.slot].writer[u] = r.generation
      /\ r.slot \in Slot /\ r.offset \in Nat /\ r.size \in Nat
  BY <1>1, LiveFacts
<1>3. ring.active => ring.initialized
  BY DEF IInv, RingLife
<1>4. slots[r.slot].committed \in Nat
  BY <1>2, SlotFacts
<1>5. ring.active => Resolves(r)
  BY <1>1, <1>2, <1>3, <1>4 DEF Resolves, Mapped
<1>6. ASSUME NEW g \in Holder, NEW q \in held[g], q # r, q.slot = r.slot
      PROVE  Covers(q) \intersect Covers(r) = {}
  <2>1. q \in Live
    BY HeldIsCurrent
  <2>2. q.offset \in Nat /\ q.size \in Nat
    BY <2>1, LiveFacts
  <2>3. Apart(q, r)
    BY <1>1, <1>6, <2>1 DEF IInv, LiveIsDisjoint
  <2> QED BY <1>2, <2>2, <2>3 DEF Apart, Covers
<1> QED BY <1>2, <1>5, <1>6

LEMMA CommittedFromIInv ==
  ASSUME IInv
  PROVE  PublishedIsCommitted
BY DEF IInv, SlotsAreOrdered, PublishedIsCommitted

LEMMA OutliveFromIInv ==
  ASSUME IInv
  PROVE  OwnersOutliveRing
BY DEF IInv, RingLife, LeftIsLate, OwnersOutliveRing, Critical

-----------------------------------------------------------------------------
(* Theorems *)

\* IInv holds throughout, whatever the number of slots, their size, the last
\* generation and the captures CapturePayload() is asked for.
THEOREM InputInvariant == Spec => []IInv
<1>1. Init => IInv
  BY InitIInv
<1>2. IInv /\ [Next]_vars => IInv'
  BY StepIInv
<1> QED BY <1>1, <1>2, PTL DEF Spec

\* Every variable keeps its type: no generation passes a u32's last value and
\* no offset of CapturePayload() the end of its slot.
THEOREM TypeCorrect == Spec => []TypeOK
<1>1. IInv => TypeOK
  BY DEF IInv
<1> QED BY <1>1, InputInvariant, PTL

\* The packed reference count equals the owners of the slot, in every
\* interleaving of CapturePayload(), RetainRawVifPayload(), its roll-back,
\* MergeAdjacentDirectAffineV4_32Spans() and ReleaseRawVifPayload().
THEOREM OwnershipStaysExact == Spec => []OwnershipIsExact
<1>1. IInv => OwnershipIsExact
  BY DEF IInv
<1> QED BY <1>1, InputInvariant, PTL

\* What a queued span or a draw holds resolves while the ring is published,
\* to the bytes that its own capture wrote.
THEOREM PayloadStaysImmutable == Spec => []PayloadIsImmutable
<1>1. IInv => PayloadIsImmutable
  BY ImmutableFromIInv
<1> QED BY <1>1, InputInvariant, PTL

\* PublishRawVifPayloads() gives the GPU only bytes that are committed.
THEOREM PublishedStaysCommitted == Spec => []PublishedIsCommitted
<1>1. IInv => PublishedIsCommitted
  BY CommittedFromIInv
<1> QED BY <1>1, InputInvariant, PTL

\* A producer that sleeps for a slot has one wake-up: on offer in
\* waiting_slot, with the last owner who claimed it, or in the semaphore.
THEOREM WakeupStaysUnique == Spec => []WakeupIsUnique
<1>1. IInv => WakeupIsUnique
  BY DEF IInv
<1> QED BY <1>1, InputInvariant, PTL

\* Shutdown() unmaps the slots and deletes the semaphore only when no call and
\* no owner is left but those that came after it had unpublished the ring.
THEOREM OwnersStayOutliving == Spec => []OwnersOutliveRing
<1>1. IInv => OwnersOutliveRing
  BY OutliveFromIInv
<1> QED BY <1>1, InputInvariant, PTL
=============================================================================
