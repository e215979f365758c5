--------------------------- MODULE InputRingFacts ----------------------------
(***************************************************************************)
(* The inductive invariant of the input ring, and what its proof needs to  *)
(* know of the threads, the ring's own life, the slots and the counting of *)
(* owners.  InputRingProofs combines it.                                   *)
(***************************************************************************)
EXTENDS InputRing, FiniteSetTheorems, SequenceTheorems, TLAPS

-----------------------------------------------------------------------------
(* The inductive invariant *)

Critical == {"loop", "reserve", "empty", "fill", "commit", "arm", "recheck",
             "disarm", "request", "wait"}
InCapture == Critical \union {"load", "lock", "leave"}
InCall == {"retain", "confirm", "release", "claim", "signal", "exit"}
InShutdown == {"stop", "wake", "references", "reference_calls", "capture_calls",
               "unmap"}
Pinning == {"empty", "fill", "commit", "leave", "captured", "confirm", "release"}

\* Who may be where, and what each carries there
Places(t) ==
    CASE t = "EE" -> {"idle", "captured"} \union InCapture \union
                     (InCall \ {"retain", "confirm"})
      [] t = "MTVU" -> {"idle", "publish"} \union InCapture \union InCall
      [] OTHER -> {"idle"} \union InShutdown \union (InCall \ {"retain", "confirm"})
Filling == {"empty", "fill", "commit"}
Asking == InCapture \ {"empty", "fill", "commit", "leave"}

ThreadIsTyped(t, x) ==
    /\ x.at \in Places(t)
    /\ x.at \in {"captured", "publish"} \union Filling \union InCall => x.payload \in Payload
    /\ x.at \in {"idle"} \union Asking \union InShutdown => x.payload = NoPayload
    /\ t = "MTVU" /\ x.at = "leave" => x.payload = NoPayload
    /\ x.at \in Asking => 1 <= x.size /\ x.size <= x.need

ThreadsAreTyped == \A t \in Thread : ThreadIsTyped(t, th[t])

MutexIsHeld == \A p \in Producer : capture_mutex = p <=> th[p].at \in Critical

In(t, S) == IF th[t].at \in S THEN 1 ELSE 0

CallsAreCounted ==
    /\ calls.capture = In("EE", InCapture) + In("MTVU", InCapture)
    /\ calls.reference = In("EE", InCall) + In("MTVU", InCall) + In("GS", InCall)

\* Shutdown() unpublishes, stops, waits for the calls, and unmaps.
RingLife ==
    /\ ring.active => ring.initialized
    /\ ring.accepting => ring.initialized
    /\ ring.initialized => /\ ring.count >= MinimumInputRingSlotCount
                           /\ ring.current < ring.count /\ sema # NoSema
    /\ th["GS"].at \in InShutdown => ring.initialized /\ ~ring.active
    /\ th["GS"].at \in InShutdown \ {"stop"} => ~ring.accepting
    /\ ~ring.initialized \/ th["GS"].at = "unmap" =>
           \A p \in Producer : th[p].at \notin {"lock"} \union Critical

SlotsAreOrdered ==
    \A s \in Slot :
        /\ slots[s].generation >= 1 /\ slots[s].published <= slots[s].committed
        /\ ring.initialized /\ s < ring.count => slots[s].committed <= slots[s].write

\* The words of a running capture begin at the write offset.
ReservationIsNext ==
    \A p \in Producer : th[p].at \in Filling =>
        LET r == th[p].payload
        IN  /\ r.slot = ring.current /\ r.offset + r.size <= InputRingSlotSize
            /\ th[p].at # "commit" => slots[r.slot].write = r.offset
            /\ th[p].at = "commit" =>
                   /\ slots[r.slot].write = r.offset + r.size
                   /\ \A u \in Covers(r) : slots[r.slot].writer[u] = r.generation
            /\ th[p].at # "empty" => slots[r.slot].committed <= r.offset
            /\ th[p].at = "empty" => slots[r.slot].references = 1

\* A thread that pins a slot pins its running generation.
PinsAreCurrent ==
    \A t \in Thread : th[t].at \in Pinning /\ th[t].payload # NoPayload =>
        /\ th[t].payload.generation = slots[th[t].payload.slot].generation
        /\ ring.initialized => th[t].payload.slot < ring.count

\* What a holder has, and what the EE has captured and not yet recorded
Fresh == {r \in {th["EE"].payload} : th["EE"].at \in {"leave", "captured"} /\ r # NoPayload}
Live == (UNION {held[h] : h \in Holder}) \union Fresh

LiveIsWhole ==
    \A r \in Live :
        /\ r.generation = slots[r.slot].generation
        /\ r.offset + r.size <= slots[r.slot].committed
        /\ \A u \in Covers(r) : slots[r.slot].writer[u] = r.generation
        /\ ring.initialized => r.slot < ring.count

Apart(q, r) == q.offset + q.size <= r.offset \/ r.offset + r.size <= q.offset

LiveIsDisjoint ==
    \A q, r \in Live : q # r /\ q.slot = r.slot => Apart(q, r)

\* Which references are whose
HoldersAreDistinct ==
    /\ \A h \in Holder : IsFiniteSet(held[h])
    /\ \A r \in held["batch"] :
           r \notin held["journal"] \union held["due"] \union held["draw"]
    /\ \A r \in held["journal"] : r \notin held["due"]
    /\ \A h \in Holder : \A r \in Fresh : r \notin held[h]
    /\ th["MTVU"].at \in {"retain", "confirm"} =>
           \/ /\ th["MTVU"].payload \in held["due"]
              /\ th["MTVU"].payload \notin held["draw"]
           \/ /\ th["MTVU"].at = "retain"
              /\ th["MTVU"].payload.generation < slots[th["MTVU"].payload.slot].generation

\* MTVU's pending run and what it publishes are draws it has not handed over.
RunIsHeld ==
    /\ path1.run \subseteq held["draw"] /\ path1.leaving \subseteq held["draw"]
    /\ th["MTVU"].at = "publish" =>
           /\ th["MTVU"].payload \in path1.leaving
           /\ th["MTVU"].size <= slots[th["MTVU"].payload.slot].committed

\* What Shutdown() leaves behind was reserved after it began.
LeftIsLate ==
    /\ ~ring.initialized \/ th["GS"].at \in {"reference_calls", "capture_calls", "unmap"} =>
           /\ \A h \in Holder : \A r \in held[h] : r.late
           /\ \A t \in Thread : th[t].at \in Pinning /\ th[t].payload # NoPayload =>
                  th[t].payload.late
    /\ ~ring.initialized \/ th["GS"].at \in {"capture_calls", "unmap"} =>
           \A t \in Thread : th[t].at \in {"claim", "signal"} => th[t].payload.late

IInv ==
    /\ TypeOK
    /\ ThreadsAreTyped
    /\ MutexIsHeld
    /\ CallsAreCounted
    /\ RingLife
    /\ SlotsAreOrdered
    /\ ReservationIsNext
    /\ PinsAreCurrent
    /\ LiveIsWhole
    /\ LiveIsDisjoint
    /\ HoldersAreDistinct
    /\ RunIsHeld
    /\ LeftIsLate
    /\ OwnershipIsExact
    /\ WakeupIsUnique
-----------------------------------------------------------------------------
(* Constants and cardinalities *)

LEMMA Sizes0 ==
  /\ InputRingSlotCount \in Nat /\ MinimumInputRingSlotCount \in Nat
  /\ MinimumInputRingSlotCount >= 2 /\ InputRingSlotCount >= 2
  /\ InputRingSlotSize \in Nat /\ InputRingSlotSize > 0
  /\ DirectInputEpochReservation \in 1 .. InputRingSlotSize
  /\ MaxGeneration \in Nat /\ MaxGeneration > 0
BY RingAssumption

\* A step is the ring's, or MTVU's run's, which leaves the ring alone.
LEMMA RunStays ==
  ASSUME [Next]_vars
  PROVE  RingNext \/ UNCHANGED ringVars
BY DEF Next, Path1Next, LeaveRecordLoop, TakePublicationRequests,
       PublishMtvuPath1Completions, PublishMtvuPath1Completion, vars

\* A set of threads is counted by asking each of them.
LEMMA ThreadCard ==
  ASSUME NEW S \in SUBSET Thread
  PROVE  /\ IsFiniteSet(S)
         /\ Cardinality(S) = (IF "EE" \in S THEN 1 ELSE 0) +
                (IF "MTVU" \in S THEN 1 ELSE 0) + (IF "GS" \in S THEN 1 ELSE 0)
<1> DEFINE A == S \intersect {"EE"}
           B == S \intersect {"EE", "MTVU"}
<1>1. IsFiniteSet({}) /\ Cardinality({}) = 0
  BY FS_EmptySet
<1>2. IsFiniteSet(A) /\ Cardinality(A) = IF "EE" \in S THEN 1 ELSE 0
  <2>1. CASE "EE" \in S
    <3>1. A = {} \union {"EE"}
      BY <2>1
    <3> QED BY <1>1, <2>1, <3>1, FS_AddElement
  <2>2. CASE "EE" \notin S
    <3>1. A = {}
      BY <2>2
    <3> QED BY <1>1, <2>2, <3>1
  <2> QED BY <2>1, <2>2
<1>3. IsFiniteSet(B) /\ Cardinality(B) = Cardinality(A) + IF "MTVU" \in S THEN 1 ELSE 0
  <2>1. CASE "MTVU" \in S
    <3>1. B = A \union {"MTVU"} /\ "MTVU" \notin A
      BY <2>1
    <3> HIDE DEF A, B
    <3> QED BY <1>2, <2>1, <3>1, FS_AddElement
  <2>2. CASE "MTVU" \notin S
    <3>1. B = A
      BY <2>2
    <3> HIDE DEF A, B
    <3> QED BY <1>2, <2>2, <3>1
  <2> QED BY <2>1, <2>2
<1>4. IsFiniteSet(S) /\ Cardinality(S) = Cardinality(B) + IF "GS" \in S THEN 1 ELSE 0
  <2>1. CASE "GS" \in S
    <3>1. S = B \union {"GS"} /\ "GS" \notin B
      BY <2>1 DEF Thread, Producer
    <3> HIDE DEF A, B
    <3> QED BY <1>3, <2>1, <3>1, FS_AddElement
  <2>2. CASE "GS" \notin S
    <3>1. S = B
      BY <2>2 DEF Thread, Producer
    <3> HIDE DEF A, B
    <3>2. Cardinality(B) \in Nat
      BY <1>3, FS_CardinalityType
    <3> QED BY <1>3, <2>2, <3>1, <3>2
  <2> QED BY <2>1, <2>2
<1> HIDE DEF A, B
<1> QED BY <1>2, <1>3, <1>4

\* The slot after the current one
LEMMA ModIsSmall ==
  ASSUME NEW a \in Nat, NEW b \in Nat, b > 0
  PROVE  a % b \in 0 .. b - 1
OBVIOUS

-----------------------------------------------------------------------------
(* What a step does to the threads *)

ThreadState == [at : Where, size : 0 .. InputRingSlotSize,
                need : 0 .. InputRingSlotSize, payload : Payload \union {NoPayload}]

\* Only thread t moves.
Moves(t) ==
    /\ th' \in [Thread -> ThreadState]
    /\ \A u \in Thread : u # t => th'[u] = th[u]

\* The mutex and the call counters follow the thread that moves, and it
\* carries what it should.
Was(t, S) == IF th[t].at \in S THEN 1 ELSE 0
Is(t, S) == IF th'[t].at \in S THEN 1 ELSE 0

Orderly(t) ==
    /\ Moves(t) /\ ThreadIsTyped(t, th'[t])
    /\ \/ capture_mutex' = capture_mutex
          /\ (th[t].at \in Critical <=> th'[t].at \in Critical)
       \/ /\ capture_mutex = Nobody /\ capture_mutex' = t
          /\ t \in Producer /\ th'[t].at \in Critical
       \/ /\ capture_mutex' = Nobody
          /\ t \in Producer /\ th[t].at \in Critical /\ th'[t].at \notin Critical
    /\ calls' \in [reference : Int, capture : Int]
    /\ calls'.capture = calls.capture + Is(t, InCapture) - Was(t, InCapture)
    /\ calls'.reference = calls.reference + Is(t, InCall) - Was(t, InCall)

LEMMA BecomeFacts ==
  ASSUME th \in [Thread -> ThreadState], NEW t \in Thread, NEW l, l \in Where, Become(t, l)
  PROVE  /\ Moves(t) /\ th'[t].at = l
         /\ th'[t].size = th[t].size /\ th'[t].need = th[t].need
         /\ th'[t].payload = th[t].payload
<1>1. th' = [th EXCEPT ![t] = [th[t] EXCEPT !.at = l]]
  BY DEF Become
<1>2. th[t] \in ThreadState
  OBVIOUS
<1>3. /\ [th[t] EXCEPT !.at = l] \in ThreadState
      /\ [th[t] EXCEPT !.at = l].at = l
      /\ [th[t] EXCEPT !.at = l].size = th[t].size
      /\ [th[t] EXCEPT !.at = l].need = th[t].need
      /\ [th[t] EXCEPT !.at = l].payload = th[t].payload
  BY <1>2 DEF ThreadState
<1> QED BY <1>1, <1>3 DEF Moves

LEMMA ReplaceFacts ==
  ASSUME th \in [Thread -> ThreadState], NEW t \in Thread, NEW x \in ThreadState,
         th' = [th EXCEPT ![t] = x]
  PROVE  Moves(t) /\ th'[t] = x
BY DEF Moves

LEMMA IdleFacts == Idle \in ThreadState /\ Idle.at = "idle" /\ Idle.payload = NoPayload
BY Sizes0 DEF Idle, ThreadState, Where

LEMMA ThreadFacts ==
  ASSUME IInv
  PROVE  /\ th \in [Thread -> ThreadState]
         /\ \A t \in Thread : th[t] \in ThreadState /\ ThreadIsTyped(t, th[t])
         /\ calls \in [reference : Nat, capture : Nat]
         /\ \A p \in Producer : p \in Thread
BY DEF IInv, TypeOK, ThreadState, ThreadsAreTyped, Thread

\* A walk inside a call, or inside Shutdown()
LEMMA WalkIsOrderly ==
  ASSUME IInv, NEW t \in Thread, NEW l, l \in Where, Become(t, l), UNCHANGED calls,
         l \in Places(t),
         th[t].at \in InCapture <=> l \in InCapture,
         th[t].at \in InCall <=> l \in InCall,
         l \in {"captured", "publish"} \union Filling \union InCall
             => th[t].at \in {"captured", "publish"} \union Filling \union InCall,
         l \in {"idle"} \union Asking \union InShutdown
             => th[t].at \in {"idle"} \union Asking \union InShutdown,
         t = "MTVU" /\ l = "leave" => th[t].at \in Asking,
         l \in Asking => th[t].at \in Asking,
         \/ capture_mutex' = capture_mutex /\ (th[t].at \in Critical <=> l \in Critical)
         \/ /\ capture_mutex = Nobody /\ capture_mutex' = t
            /\ t \in Producer /\ l \in Critical
         \/ /\ capture_mutex' = Nobody
            /\ t \in Producer /\ th[t].at \in Critical /\ l \notin Critical
  PROVE  Orderly(t)
<1>1. /\ Moves(t) /\ th'[t].at = l
      /\ th'[t].size = th[t].size /\ th'[t].need = th[t].need
      /\ th'[t].payload = th[t].payload
  BY BecomeFacts, ThreadFacts
<1>2. ThreadIsTyped(t, th[t])
  BY ThreadFacts
<1>3. ThreadIsTyped(t, th'[t])
  BY <1>1, <1>2 DEF ThreadIsTyped
<1>4. /\ calls' \in [reference : Int, capture : Int]
      /\ calls'.capture = calls.capture + Is(t, InCapture) - Was(t, InCapture)
      /\ calls'.reference = calls.reference + Is(t, InCall) - Was(t, InCall)
  <2>1. Is(t, InCapture) = Was(t, InCapture) /\ Is(t, InCall) = Was(t, InCall)
        /\ Was(t, InCapture) \in Int /\ Was(t, InCall) \in Int
    BY <1>1 DEF Is, Was
  <2>2. calls' = calls /\ calls \in [reference : Nat, capture : Nat]
    BY ThreadFacts
  <2> QED BY <2>1, <2>2
<1> QED BY <1>1, <1>3, <1>4 DEF Orderly

-----------------------------------------------------------------------------
(* Every step is a step of one thread *)

LEMMA CallsUp ==
  ASSUME IInv, NEW t \in Thread, Moves(t), ThreadIsTyped(t, th'[t]),
         UNCHANGED capture_mutex, th[t].at \notin Critical, th'[t].at \notin Critical,
         calls' = [calls EXCEPT !.capture = @ + 1],
         th[t].at \notin InCapture \union InCall,
         th'[t].at \in InCapture, th'[t].at \notin InCall
  PROVE  Orderly(t)
BY ThreadFacts DEF Orderly, Is, Was

LEMMA CallsDown ==
  ASSUME IInv, NEW t \in Thread, Moves(t), ThreadIsTyped(t, th'[t]),
         UNCHANGED capture_mutex, th[t].at \notin Critical, th'[t].at \notin Critical,
         calls' = [calls EXCEPT !.capture = @ - 1],
         th[t].at \in InCapture, th[t].at \notin InCall,
         th'[t].at \notin InCapture \union InCall
  PROVE  Orderly(t)
BY ThreadFacts DEF Orderly, Is, Was

LEMMA CallExits ==
  ASSUME IInv, NEW t \in Thread, Moves(t), ThreadIsTyped(t, th'[t]),
         UNCHANGED capture_mutex, th[t].at \notin Critical, th'[t].at \notin Critical,
         calls' = [calls EXCEPT !.reference = @ - 1],
         th[t].at \in InCall, th[t].at \notin InCapture,
         th'[t].at \notin InCapture \union InCall
  PROVE  Orderly(t)
BY ThreadFacts DEF Orderly, Is, Was

LEMMA CallsSame ==
  ASSUME IInv, NEW t \in Thread, Moves(t), ThreadIsTyped(t, th'[t]), UNCHANGED calls,
         \/ capture_mutex' = capture_mutex
            /\ (th[t].at \in Critical <=> th'[t].at \in Critical)
         \/ /\ capture_mutex' = Nobody
            /\ t \in Producer /\ th[t].at \in Critical /\ th'[t].at \notin Critical,
         th[t].at \in InCapture <=> th'[t].at \in InCapture,
         th[t].at \in InCall <=> th'[t].at \in InCall
  PROVE  Orderly(t)
BY ThreadFacts DEF Orderly, Is, Was

LEMMA StayIsOrderly ==
  ASSUME IInv, NEW t \in Thread, UNCHANGED <<th, capture_mutex, calls>>
  PROVE  Orderly(t)
<1>1. Moves(t) /\ ThreadIsTyped(t, th'[t])
  BY ThreadFacts DEF Moves
<1> QED BY <1>1, CallsSame

LEMMA EnterIsOrderly ==
  ASSUME IInv, NEW t \in Thread, NEW l \in {"retain", "exit", "release"}, NEW r \in Payload,
         th[t].at \in {"idle", "captured"}, l \in Places(t), UNCHANGED capture_mutex,
         EnterReferenceCall(t, l, r)
  PROVE  Orderly(t)
<1> DEFINE x == [th[t] EXCEPT !.at = l, !.payload = r]
<1>1. th' = [th EXCEPT ![t] = x] /\ calls' = [calls EXCEPT !.reference = @ + 1]
  BY DEF EnterReferenceCall
<1>2. x \in ThreadState /\ x.at = l /\ x.payload = r
  BY ThreadFacts DEF ThreadState, Where
<1> HIDE DEF x
<1>3. Moves(t) /\ th'[t] = x
  BY <1>1, <1>2, ReplaceFacts, ThreadFacts
<1>4. ThreadIsTyped(t, th'[t])
  BY <1>2, <1>3 DEF ThreadIsTyped, InCall, InShutdown, InCapture, Critical, Asking
<1>5. /\ th[t].at \notin InCapture \union InCall \union Critical
      /\ th'[t].at \in InCall /\ th'[t].at \notin InCapture /\ th'[t].at \notin Critical
  BY <1>2, <1>3 DEF InCall, InCapture, Critical
<1> QED BY <1>1, <1>3, <1>4, <1>5, ThreadFacts DEF Orderly, Is, Was

LEMMA HeldFacts ==
  ASSUME IInv
  PROVE  /\ held \in [Holder -> SUBSET Payload]
         /\ \A h \in Holder : \A r \in held[h] : r \in Payload
BY DEF IInv, TypeOK

\* What MTVU publishes to the GPU is a draw's.
LEMMA LeavingFacts ==
  ASSUME IInv
  PROVE  \A r \in path1.leaving : r \in Payload /\ r \in held["draw"]
BY HeldFacts DEF IInv, RunIsHeld, Holder

LEMMA SlotFacts ==
  ASSUME IInv
  PROVE  /\ slots \in [Slot -> SlotState]
         /\ \A s \in Slot :
                /\ slots[s] \in SlotState
                /\ slots[s].generation \in 1 .. MaxGeneration /\ slots[s].references \in Nat
                /\ slots[s].committed \in 0 .. InputRingSlotSize
                /\ slots[s].published \in 0 .. InputRingSlotSize
                /\ slots[s].write \in 0 .. InputRingSlotSize
                /\ slots[s].writer \in [Unit -> 0 .. MaxGeneration]
         /\ \A r \in Payload : r.slot \in Slot
<1>1. slots \in [Slot -> SlotState]
  BY DEF IInv, TypeOK
<1>2. ASSUME NEW s \in Slot
      PROVE  /\ slots[s] \in SlotState
             /\ slots[s].generation \in 1 .. MaxGeneration /\ slots[s].references \in Nat
             /\ slots[s].committed \in 0 .. InputRingSlotSize
             /\ slots[s].published \in 0 .. InputRingSlotSize
             /\ slots[s].write \in 0 .. InputRingSlotSize
             /\ slots[s].writer \in [Unit -> 0 .. MaxGeneration]
  <2>1. slots[s].generation >= 1
    BY DEF IInv, SlotsAreOrdered
  <2>2. slots[s] \in SlotState
    BY <1>1
  <2> QED BY <2>1, <2>2, Sizes0 DEF SlotState
<1> QED BY <1>1, <1>2 DEF Payload

LEMMA RingFacts ==
  ASSUME IInv
  PROVE  /\ ring \in [active : BOOLEAN, accepting : BOOLEAN, initialized : BOOLEAN,
                      count : 0 .. InputRingSlotCount, current : Slot]
         /\ ring.current \in Slot /\ ring.current \in Nat
         /\ ring.count \in Nat /\ ring.count <= InputRingSlotCount
         /\ ring.active \in BOOLEAN /\ ring.initialized \in BOOLEAN
         /\ ring.initialized => ring.count >= 2 /\ ring.current < ring.count
<1>1. ring \in [active : BOOLEAN, accepting : BOOLEAN, initialized : BOOLEAN,
                count : 0 .. InputRingSlotCount, current : Slot]
  BY DEF IInv, TypeOK
<1>2. ring.initialized => ring.count >= MinimumInputRingSlotCount /\ ring.current < ring.count
  BY DEF IInv, RingLife
<1> QED BY <1>1, <1>2, Sizes0 DEF Slot

\* A producer inside CapturePayload() finds the ring mapped.
LEMMA CaptureIsMapped ==
  ASSUME IInv, NEW p \in Producer, th[p].at \in Critical \union {"lock"}
  PROVE  ring.initialized
BY DEF IInv, RingLife

LEMMA NextSlotFacts ==
  ASSUME IInv, ring.initialized
  PROVE  NextSlot \in Slot /\ NextSlot < ring.count /\ NextSlot # ring.current
<1>1. ring.current + 1 \in Nat /\ ring.count \in Nat /\ ring.count > 1
      /\ ring.current < ring.count /\ ring.count <= InputRingSlotCount /\ ring.current \in Nat
  BY RingFacts
<1> DEFINE c == ring.current
           m == ring.count
<1> HIDE DEF c, m
<1>2. (c + 1) % m \in 0 .. m - 1
  BY <1>1, ModIsSmall DEF c, m
<1>3. (c + 1) % m # c
  BY <1>1 DEF c, m
<1>4. NextSlot = (c + 1) % m
  BY DEF NextSlot, c, m
<1> QED BY <1>1, <1>2, <1>3, <1>4, Sizes0 DEF Slot, c, m

LEMMA StaleFacts ==
  ASSUME IInv, NEW r \in Stale
  PROVE  /\ r \in Payload /\ r.slot \in Slot
         /\ r.generation < slots[r.slot].generation /\ r.offset = 0 /\ r.size = 1
<1> PICK s \in Slot : r = [slot |-> s, generation |-> slots[s].generation - 1,
                           offset |-> 0, size |-> 1, late |-> FALSE]
  BY DEF Stale
<1>1. slots[s].generation \in 1 .. MaxGeneration
  BY SlotFacts
<1>2. slots[s].generation - 1 \in 0 .. MaxGeneration /\ 0 \in Unit /\ 1 \in 1 .. InputRingSlotSize
      /\ slots[s].generation - 1 < slots[s].generation
  BY <1>1, Sizes0 DEF Unit
<1> QED BY <1>2 DEF Payload

\* What Reserve() reserves
LEMMA ReserveFacts ==
  ASSUME IInv, NEW p \in Producer, Reserve(p), ~StopAccepting(p),
         NEW g, g = IF Current.references = 0 THEN Current.generation + 1
                                             ELSE Current.generation,
         NEW r, r = [slot |-> ring.current, offset |-> Current.write, generation |-> g,
                     size |-> th[p].size, late |-> ~ring.active]
  PROVE  /\ r \in Payload /\ g \in 1 .. MaxGeneration
         /\ r.offset + r.size <= InputRingSlotSize
<1>1. th[p].at = "reserve" /\ Fits(p)
  BY DEF Reserve, At
<1>2. /\ Current.generation \in 1 .. MaxGeneration /\ Current.write \in 0 .. InputRingSlotSize
      /\ ring.current \in Slot
  BY RingFacts, SlotFacts DEF Current
<1>3. 1 <= th[p].size /\ th[p].size <= th[p].need
      /\ th[p].size \in Nat /\ th[p].need \in Nat
  <2>1. th[p] \in ThreadState /\ ThreadIsTyped(p, th[p])
    BY ThreadFacts
  <2>2. 1 <= th[p].size /\ th[p].size <= th[p].need
    BY <1>1, <2>1 DEF ThreadIsTyped, Asking, InCapture, Critical
  <2>3. th[p].size \in 0 .. InputRingSlotSize /\ th[p].need \in 0 .. InputRingSlotSize
    BY <2>1 DEF ThreadState
  <2> QED BY <2>2, <2>3, Sizes0
<1>4. Current.write + th[p].need <= InputRingSlotSize
  BY <1>1 DEF Fits
<1>5. Current.write \in Unit /\ th[p].size \in 1 .. InputRingSlotSize
      /\ Current.write + th[p].size <= InputRingSlotSize
  BY <1>2, <1>3, <1>4, Sizes0 DEF Unit
<1>6. ~(Current.references = 0 /\ Current.generation = MaxGeneration)
  BY DEF Reserve
<1>7. g \in 1 .. MaxGeneration /\ g \in 0 .. MaxGeneration
  BY <1>2, <1>6, Sizes0
<1> QED BY <1>2, <1>5, <1>7, RingFacts DEF Payload

\* A capture has one of the sizes that are left.
LEMMA CaptureIsSized ==
  ASSUME IInv, NEW p \in Producer, left[p] # <<>>
  PROVE  /\ Head(left[p]) \in 1 .. InputRingSlotSize
         /\ Tail(left[p]) \in Seq(1 .. InputRingSlotSize)
<1> DEFINE S == 1 .. InputRingSlotSize
           q == left[p]
<1>1. q \in Seq(S) /\ q # <<>>
  BY DEF IInv, TypeOK
<1> HIDE DEF S, q
<1>2. Head(q) \in S /\ Tail(q) \in Seq(S)
  BY <1>1, HeadTailProperties
<1> QED BY <1>2 DEF S, q

\* Every step is an orderly step of one thread.
LEMMA StepIsOrderly ==
  ASSUME IInv, [Next]_vars
  PROVE  \E u \in Thread : Orderly(u)
<1>1. ASSUME NEW p \in Producer, CaptureRawVifPayload(p)
      PROVE  \E u \in Thread : Orderly(u)
  <2> DEFINE n == Head(left[p])
             e == IF p = "EE" /\ held["batch"] = {} /\ n < DirectInputEpochReservation
                  THEN DirectInputEpochReservation ELSE n
             x == [th[p] EXCEPT !.at = "load", !.size = n, !.need = e]
  <2>1. /\ th[p].at = "idle" /\ th' = [th EXCEPT ![p] = x] /\ UNCHANGED capture_mutex
        /\ calls' = [calls EXCEPT !.capture = @ + 1]
    BY <1>1 DEF CaptureRawVifPayload, At
  <2>2. p \in Thread /\ th[p] \in ThreadState /\ ThreadIsTyped(p, th[p])
    BY ThreadFacts
  <2>3. n \in 1 .. InputRingSlotSize /\ DirectInputEpochReservation \in 1 .. InputRingSlotSize
    BY <1>1, CaptureIsSized, RingAssumption DEF CaptureRawVifPayload
  <2> HIDE DEF n
  <2>8. e \in 1 .. InputRingSlotSize /\ n <= e
    BY <2>3, Sizes0
  <2> HIDE DEF e
  <2>9. n \in 0 .. InputRingSlotSize /\ e \in 0 .. InputRingSlotSize /\ 1 <= n
    BY <2>3, <2>8, Sizes0
  <2>4. x \in ThreadState /\ x.at = "load" /\ x.payload = th[p].payload
        /\ 1 <= x.size /\ x.size <= x.need
    BY <2>2, <2>8, <2>9 DEF ThreadState, Where
  <2> HIDE DEF x
  <2>5. Moves(p) /\ th'[p] = x
    BY <2>1, <2>2, <2>4, ReplaceFacts, ThreadFacts
  <2>6. th[p].payload = NoPayload
    BY <2>1, <2>2 DEF ThreadIsTyped
  <2>7. ThreadIsTyped(p, th'[p])
    BY <2>4, <2>5, <2>6 DEF ThreadIsTyped, Places, Critical, InCapture, InCall, InShutdown,
       Filling, Asking, Where, Producer, Thread, Nobody
  <2> QED BY <2>1, <2>2, <2>4, <2>5, <2>7, CallsUp DEF Critical, InCapture, InCall, Producer
<1>2. ASSUME NEW p \in Producer, LoadActiveRing(p)
      PROVE  \E u \in Thread : Orderly(u)
  <2>1. th[p].at = "load" /\ UNCHANGED calls
        /\ \/ Become(p, "lock") /\ UNCHANGED capture_mutex
           \/ Become(p, "leave") /\ UNCHANGED capture_mutex
    BY <1>2 DEF LoadActiveRing, At
  <2>2. p \in Thread /\ ThreadIsTyped(p, th[p])
    BY ThreadFacts DEF Thread, Producer
  <2>3. CASE Become(p, "lock") /\ UNCHANGED capture_mutex
    BY <2>1, <2>2, <2>3, WalkIsOrderly DEF ThreadIsTyped, Places, Critical, InCapture,
       InCall, InShutdown, Filling, Asking, Where, Producer, Thread, Nobody
  <2>4. CASE Become(p, "leave") /\ UNCHANGED capture_mutex
    BY <2>1, <2>2, <2>4, WalkIsOrderly DEF ThreadIsTyped, Places, Critical, InCapture,
       InCall, InShutdown, Filling, Asking, Where, Producer, Thread, Nobody
  <2> QED BY <2>1, <2>3, <2>4
<1>3. ASSUME NEW p \in Producer, LockCapture(p)
      PROVE  \E u \in Thread : Orderly(u)
  <2>1. th[p].at = "lock" /\ UNCHANGED calls
        /\ Become(p, "loop") /\ capture_mutex = Nobody /\ capture_mutex' = p
    BY <1>3 DEF LockCapture, At
  <2>2. p \in Thread /\ ThreadIsTyped(p, th[p])
    BY ThreadFacts DEF Thread, Producer
  <2> QED BY <2>1, <2>2, WalkIsOrderly DEF ThreadIsTyped, Places, Critical, InCapture,
             InCall, InShutdown, Filling, Asking, Where, Producer, Thread, Nobody
<1>4. ASSUME NEW p \in Producer, TestAccepting(p)
      PROVE  \E u \in Thread : Orderly(u)
  <2>1. th[p].at = "loop" /\ UNCHANGED calls
        /\ \/ Become(p, "reserve") /\ UNCHANGED capture_mutex
           \/ Become(p, "leave") /\ capture_mutex' = Nobody
    BY <1>4 DEF TestAccepting, At, Return
  <2>2. p \in Thread /\ ThreadIsTyped(p, th[p])
    BY ThreadFacts DEF Thread, Producer
  <2>3. CASE Become(p, "reserve") /\ UNCHANGED capture_mutex
    BY <2>1, <2>2, <2>3, WalkIsOrderly DEF ThreadIsTyped, Places, Critical, InCapture,
       InCall, InShutdown, Filling, Asking, Where, Producer, Thread, Nobody
  <2>4. CASE Become(p, "leave") /\ capture_mutex' = Nobody
    BY <2>1, <2>2, <2>4, WalkIsOrderly DEF ThreadIsTyped, Places, Critical, InCapture,
       InCall, InShutdown, Filling, Asking, Where, Producer, Thread, Nobody
  <2> QED BY <2>1, <2>3, <2>4
<1>5. ASSUME NEW p \in Producer, Reserve(p)
      PROVE  \E u \in Thread : Orderly(u)
  <2>1. th[p].at = "reserve" /\ Fits(p) /\ UNCHANGED calls
    BY <1>5 DEF Reserve, At
  <2>2. p \in Thread /\ th[p] \in ThreadState /\ ThreadIsTyped(p, th[p])
    BY ThreadFacts
  <2>3. CASE StopAccepting(p)
    <3>1. Become(p, "leave") /\ capture_mutex' = Nobody
      BY <2>3 DEF StopAccepting, Return
    <3> QED BY <2>1, <2>2, <3>1, WalkIsOrderly DEF ThreadIsTyped, Places, Critical,
               InCapture, InCall, InShutdown, Filling, Asking, Where, Producer, Thread,
               Nobody
  <2>4. CASE ~StopAccepting(p)
    <3> DEFINE g == IF Current.references = 0 THEN Current.generation + 1
                                             ELSE Current.generation
               r == [slot |-> ring.current, offset |-> Current.write, generation |-> g,
                     size |-> th[p].size, late |-> ~ring.active]
               x == [th[p] EXCEPT !.at = IF Current.references = 0 THEN "empty" ELSE "fill",
                                  !.payload = r]
    <3>1. th' = [th EXCEPT ![p] = x] /\ UNCHANGED capture_mutex
      BY <1>5, <2>4 DEF Reserve
    <3>2. r \in Payload
      BY <1>5, <2>4, ReserveFacts
    <3> HIDE DEF r
    <3>3. x \in ThreadState /\ x.at \in {"empty", "fill"} /\ x.payload = r
      BY <2>2, <3>2 DEF ThreadState, Where
    <3> HIDE DEF x
    <3>4. Moves(p) /\ th'[p] = x
      BY <2>2, <3>1, <3>3, ReplaceFacts, ThreadFacts
    <3>5. ThreadIsTyped(p, th'[p])
      BY <3>2, <3>3, <3>4 DEF ThreadIsTyped, Places, Critical, InCapture, InCall,
         InShutdown, Filling, Asking, Where, Producer, Thread, Nobody
    <3> QED BY <2>1, <2>2, <3>1, <3>3, <3>4, <3>5, CallsSame DEF Critical, InCapture,
               InCall, Producer
  <2> QED BY <2>3, <2>4
<1>6. ASSUME NEW p \in Producer, BeginGeneration(p)
      PROVE  \E u \in Thread : Orderly(u)
  <2>1. th[p].at = "empty" /\ UNCHANGED calls
        /\ Become(p, "fill") /\ UNCHANGED capture_mutex
    BY <1>6 DEF BeginGeneration, At
  <2>2. p \in Thread /\ ThreadIsTyped(p, th[p])
    BY ThreadFacts DEF Thread, Producer
  <2> QED BY <2>1, <2>2, WalkIsOrderly DEF ThreadIsTyped, Places, Critical, InCapture,
             InCall, InShutdown, Filling, Asking, Where, Producer, Thread, Nobody
<1>7. ASSUME NEW p \in Producer, NEW intact \in BOOLEAN, Recycle(p, intact)
      PROVE  \E u \in Thread : Orderly(u)
  <2>1. th[p].at = "reserve" /\ UNCHANGED calls
        /\ \/ Become(p, "loop") /\ UNCHANGED capture_mutex
           \/ Become(p, "leave") /\ capture_mutex' = Nobody
    BY <1>7 DEF Recycle, At, StopAccepting, Return
  <2>2. p \in Thread /\ ThreadIsTyped(p, th[p])
    BY ThreadFacts DEF Thread, Producer
  <2>3. CASE Become(p, "loop") /\ UNCHANGED capture_mutex
    BY <2>1, <2>2, <2>3, WalkIsOrderly DEF ThreadIsTyped, Places, Critical, InCapture,
       InCall, InShutdown, Filling, Asking, Where, Producer, Thread, Nobody
  <2>4. CASE Become(p, "leave") /\ capture_mutex' = Nobody
    BY <2>1, <2>2, <2>4, WalkIsOrderly DEF ThreadIsTyped, Places, Critical, InCapture,
       InCall, InShutdown, Filling, Asking, Where, Producer, Thread, Nobody
  <2> QED BY <2>1, <2>3, <2>4
<1>8. ASSUME NEW p \in Producer, FindOwned(p)
      PROVE  \E u \in Thread : Orderly(u)
  <2>1. th[p].at = "reserve" /\ UNCHANGED calls
        /\ Become(p, "arm") /\ UNCHANGED capture_mutex
    BY <1>8 DEF FindOwned, At
  <2>2. p \in Thread /\ ThreadIsTyped(p, th[p])
    BY ThreadFacts DEF Thread, Producer
  <2> QED BY <2>1, <2>2, WalkIsOrderly DEF ThreadIsTyped, Places, Critical, InCapture,
             InCall, InShutdown, Filling, Asking, Where, Producer, Thread, Nobody
<1>9. ASSUME NEW p \in Producer, ArmWaiter(p)
      PROVE  \E u \in Thread : Orderly(u)
  <2>1. th[p].at = "arm" /\ UNCHANGED calls
        /\ \/ Become(p, "recheck") /\ UNCHANGED capture_mutex
           \/ Become(p, "leave") /\ capture_mutex' = Nobody
    BY <1>9 DEF ArmWaiter, At, Return
  <2>2. p \in Thread /\ ThreadIsTyped(p, th[p])
    BY ThreadFacts DEF Thread, Producer
  <2>3. CASE Become(p, "recheck") /\ UNCHANGED capture_mutex
    BY <2>1, <2>2, <2>3, WalkIsOrderly DEF ThreadIsTyped, Places, Critical, InCapture,
       InCall, InShutdown, Filling, Asking, Where, Producer, Thread, Nobody
  <2>4. CASE Become(p, "leave") /\ capture_mutex' = Nobody
    BY <2>1, <2>2, <2>4, WalkIsOrderly DEF ThreadIsTyped, Places, Critical, InCapture,
       InCall, InShutdown, Filling, Asking, Where, Producer, Thread, Nobody
  <2> QED BY <2>1, <2>3, <2>4
<1>10. ASSUME NEW p \in Producer, Recheck(p)
      PROVE  \E u \in Thread : Orderly(u)
  <2>1. th[p].at = "recheck" /\ UNCHANGED calls
        /\ \/ Become(p, "request") /\ UNCHANGED capture_mutex
           \/ Become(p, "disarm") /\ UNCHANGED capture_mutex
    BY <1>10 DEF Recheck, At
  <2>2. p \in Thread /\ ThreadIsTyped(p, th[p])
    BY ThreadFacts DEF Thread, Producer
  <2>3. CASE Become(p, "request") /\ UNCHANGED capture_mutex
    BY <2>1, <2>2, <2>3, WalkIsOrderly DEF ThreadIsTyped, Places, Critical, InCapture,
       InCall, InShutdown, Filling, Asking, Where, Producer, Thread, Nobody
  <2>4. CASE Become(p, "disarm") /\ UNCHANGED capture_mutex
    BY <2>1, <2>2, <2>4, WalkIsOrderly DEF ThreadIsTyped, Places, Critical, InCapture,
       InCall, InShutdown, Filling, Asking, Where, Producer, Thread, Nobody
  <2> QED BY <2>1, <2>3, <2>4
<1>11. ASSUME NEW p \in Producer, Disarm(p)
      PROVE  \E u \in Thread : Orderly(u)
  <2>1. th[p].at = "disarm" /\ UNCHANGED calls
        /\ \/ Become(p, "loop") /\ UNCHANGED capture_mutex
           \/ Become(p, "request") /\ UNCHANGED capture_mutex
    BY <1>11 DEF Disarm, At
  <2>2. p \in Thread /\ ThreadIsTyped(p, th[p])
    BY ThreadFacts DEF Thread, Producer
  <2>3. CASE Become(p, "loop") /\ UNCHANGED capture_mutex
    BY <2>1, <2>2, <2>3, WalkIsOrderly DEF ThreadIsTyped, Places, Critical, InCapture,
       InCall, InShutdown, Filling, Asking, Where, Producer, Thread, Nobody
  <2>4. CASE Become(p, "request") /\ UNCHANGED capture_mutex
    BY <2>1, <2>2, <2>4, WalkIsOrderly DEF ThreadIsTyped, Places, Critical, InCapture,
       InCall, InShutdown, Filling, Asking, Where, Producer, Thread, Nobody
  <2> QED BY <2>1, <2>3, <2>4
<1>12. ASSUME NEW p \in Producer, RequestGpuVuInputRetirement(p)
      PROVE  \E u \in Thread : Orderly(u)
  <2>1. th[p].at = "request" /\ UNCHANGED calls
        /\ Become(p, "wait") /\ UNCHANGED capture_mutex
    BY <1>12 DEF RequestGpuVuInputRetirement, At
  <2>2. p \in Thread /\ ThreadIsTyped(p, th[p])
    BY ThreadFacts DEF Thread, Producer
  <2> QED BY <2>1, <2>2, WalkIsOrderly DEF ThreadIsTyped, Places, Critical, InCapture,
             InCall, InShutdown, Filling, Asking, Where, Producer, Thread, Nobody
<1>13. ASSUME NEW p \in Producer, WaitSlotReleased(p)
      PROVE  \E u \in Thread : Orderly(u)
  <2>1. th[p].at = "wait" /\ UNCHANGED calls
        /\ Become(p, "loop") /\ UNCHANGED capture_mutex
    BY <1>13 DEF WaitSlotReleased, At
  <2>2. p \in Thread /\ ThreadIsTyped(p, th[p])
    BY ThreadFacts DEF Thread, Producer
  <2> QED BY <2>1, <2>2, WalkIsOrderly DEF ThreadIsTyped, Places, Critical, InCapture,
             InCall, InShutdown, Filling, Asking, Where, Producer, Thread, Nobody
<1>14. ASSUME NEW p \in Producer, Fill(p)
      PROVE  \E u \in Thread : Orderly(u)
  <2>1. th[p].at = "fill" /\ UNCHANGED calls
        /\ Become(p, "commit") /\ UNCHANGED capture_mutex
    BY <1>14 DEF Fill, At
  <2>2. p \in Thread /\ ThreadIsTyped(p, th[p])
    BY ThreadFacts DEF Thread, Producer
  <2> QED BY <2>1, <2>2, WalkIsOrderly DEF ThreadIsTyped, Places, Critical, InCapture,
             InCall, InShutdown, Filling, Asking, Where, Producer, Thread, Nobody
<1>15. ASSUME NEW p \in Producer, Commit(p)
      PROVE  \E u \in Thread : Orderly(u)
  <2> DEFINE x == [th[p] EXCEPT !.at = "leave",
                                !.payload = IF p = "MTVU" THEN NoPayload ELSE @]
  <2>1. /\ th[p].at = "commit" /\ th' = [th EXCEPT ![p] = x] /\ capture_mutex' = Nobody
        /\ UNCHANGED calls
    BY <1>15 DEF Commit, At
  <2>2. p \in Thread /\ th[p] \in ThreadState
    BY ThreadFacts
  <2>3. x \in ThreadState /\ x.at = "leave" /\ (p = "MTVU" => x.payload = NoPayload)
    BY <2>2 DEF ThreadState, Where
  <2> HIDE DEF x
  <2>4. Moves(p) /\ th'[p] = x
    BY <2>1, <2>2, <2>3, ReplaceFacts, ThreadFacts
  <2>5. ThreadIsTyped(p, th'[p])
    BY <2>3, <2>4 DEF ThreadIsTyped, Places, Critical, InCapture, InCall, InShutdown,
       Filling, Asking, Where, Producer, Thread, Nobody
  <2> QED BY <2>1, <2>2, <2>3, <2>4, <2>5, CallsSame DEF Critical, InCapture, InCall,
             Producer
<1>16. ASSUME NEW p \in Producer, LeaveCapture(p)
      PROVE  \E u \in Thread : Orderly(u)
  <2>1. /\ th[p].at = "leave" /\ UNCHANGED capture_mutex
        /\ calls' = [calls EXCEPT !.capture = @ - 1]
    BY <1>16 DEF LeaveCapture, At
  <2>2. p \in Thread /\ th[p] \in ThreadState /\ ThreadIsTyped(p, th[p])
    BY ThreadFacts
  <2>3. CASE th[p].payload = NoPayload
    <3>1. th' = [th EXCEPT ![p] = Idle]
      BY <1>16, <2>3 DEF LeaveCapture
    <3>2. Moves(p) /\ th'[p] = Idle
      BY <2>2, <3>1, ReplaceFacts, IdleFacts, ThreadFacts
    <3>3. ThreadIsTyped(p, th'[p]) /\ th'[p].at = "idle"
      BY <3>2, IdleFacts DEF ThreadIsTyped, Places, Critical, InCapture, InCall, InShutdown,
         Filling, Asking, Where, Producer, Thread, Nobody
    <3> QED BY <2>1, <2>2, <3>2, <3>3, CallsDown DEF Critical, InCapture, InCall, Producer
  <2>4. CASE th[p].payload # NoPayload
    <3> DEFINE x == [Idle EXCEPT !.at = "captured", !.payload = th[p].payload]
    <3>1. th' = [th EXCEPT ![p] = x]
      BY <1>16, <2>4 DEF LeaveCapture
    <3>2. x \in ThreadState /\ x.at = "captured" /\ x.payload = th[p].payload
      BY <2>2, IdleFacts DEF ThreadState, Where
    <3> HIDE DEF x
    <3>3. Moves(p) /\ th'[p] = x
      BY <2>2, <3>1, <3>2, ReplaceFacts, ThreadFacts
    <3>4. p = "EE" /\ th[p].payload \in Payload
      BY <2>1, <2>2, <2>4 DEF ThreadIsTyped, Producer, ThreadState
    <3>5. ThreadIsTyped(p, th'[p]) /\ th'[p].at = "captured"
      BY <3>2, <3>3, <3>4 DEF ThreadIsTyped, Places, Critical, InCapture, InCall,
         InShutdown, Filling, Asking, Where, Producer, Thread, Nobody
    <3> QED BY <2>1, <2>2, <3>3, <3>5, CallsDown DEF Critical, InCapture, InCall, Producer
  <2> QED BY <2>3, <2>4
<1>17. CASE RetainOwnership
  <2>1. th["MTVU"].at = "retain" /\ UNCHANGED calls
        /\ \/ Become("MTVU", "confirm") /\ UNCHANGED capture_mutex
           \/ Become("MTVU", "exit") /\ UNCHANGED capture_mutex
    BY <1>17 DEF RetainOwnership, At
  <2>2. "MTVU" \in Thread /\ ThreadIsTyped("MTVU", th["MTVU"])
    BY ThreadFacts DEF Thread, Producer
  <2>3. CASE Become("MTVU", "confirm") /\ UNCHANGED capture_mutex
    BY <2>1, <2>2, <2>3, WalkIsOrderly DEF ThreadIsTyped, Places, Critical, InCapture,
       InCall, InShutdown, Filling, Asking, Where, Producer, Thread, Nobody
  <2>4. CASE Become("MTVU", "exit") /\ UNCHANGED capture_mutex
    BY <2>1, <2>2, <2>4, WalkIsOrderly DEF ThreadIsTyped, Places, Critical, InCapture,
       InCall, InShutdown, Filling, Asking, Where, Producer, Thread, Nobody
  <2> QED BY <2>1, <2>3, <2>4
<1>18. CASE ConfirmRetain
  <2>1. th["MTVU"].at = "confirm" /\ UNCHANGED calls
        /\ \/ Become("MTVU", "exit") /\ UNCHANGED capture_mutex
           \/ Become("MTVU", "release") /\ UNCHANGED capture_mutex
    BY <1>18 DEF ConfirmRetain, At
  <2>2. "MTVU" \in Thread /\ ThreadIsTyped("MTVU", th["MTVU"])
    BY ThreadFacts DEF Thread, Producer
  <2>3. CASE Become("MTVU", "exit") /\ UNCHANGED capture_mutex
    BY <2>1, <2>2, <2>3, WalkIsOrderly DEF ThreadIsTyped, Places, Critical, InCapture,
       InCall, InShutdown, Filling, Asking, Where, Producer, Thread, Nobody
  <2>4. CASE Become("MTVU", "release") /\ UNCHANGED capture_mutex
    BY <2>1, <2>2, <2>4, WalkIsOrderly DEF ThreadIsTyped, Places, Critical, InCapture,
       InCall, InShutdown, Filling, Asking, Where, Producer, Thread, Nobody
  <2> QED BY <2>1, <2>3, <2>4
<1>19. ASSUME NEW t \in Thread, ReleaseOwnership(t)
      PROVE  \E u \in Thread : Orderly(u)
  <2>1. th[t].at = "release" /\ UNCHANGED calls
        /\ \/ Become(t, "claim") /\ UNCHANGED capture_mutex
           \/ Become(t, "exit") /\ UNCHANGED capture_mutex
    BY <1>19 DEF ReleaseOwnership, At
  <2>2. t \in Thread /\ ThreadIsTyped(t, th[t])
    BY ThreadFacts DEF Thread, Producer
  <2>3. CASE Become(t, "claim") /\ UNCHANGED capture_mutex
    BY <2>1, <2>2, <2>3, WalkIsOrderly DEF ThreadIsTyped, Places, Critical, InCapture,
       InCall, InShutdown, Filling, Asking, Where, Producer, Thread, Nobody
  <2>4. CASE Become(t, "exit") /\ UNCHANGED capture_mutex
    BY <2>1, <2>2, <2>4, WalkIsOrderly DEF ThreadIsTyped, Places, Critical, InCapture,
       InCall, InShutdown, Filling, Asking, Where, Producer, Thread, Nobody
  <2> QED BY <2>1, <2>3, <2>4
<1>20. ASSUME NEW t \in Thread, ClaimWaiter(t)
      PROVE  \E u \in Thread : Orderly(u)
  <2>1. th[t].at = "claim" /\ UNCHANGED calls
        /\ \/ Become(t, "signal") /\ UNCHANGED capture_mutex
           \/ Become(t, "exit") /\ UNCHANGED capture_mutex
    BY <1>20 DEF ClaimWaiter, At
  <2>2. t \in Thread /\ ThreadIsTyped(t, th[t])
    BY ThreadFacts DEF Thread, Producer
  <2>3. CASE Become(t, "signal") /\ UNCHANGED capture_mutex
    BY <2>1, <2>2, <2>3, WalkIsOrderly DEF ThreadIsTyped, Places, Critical, InCapture,
       InCall, InShutdown, Filling, Asking, Where, Producer, Thread, Nobody
  <2>4. CASE Become(t, "exit") /\ UNCHANGED capture_mutex
    BY <2>1, <2>2, <2>4, WalkIsOrderly DEF ThreadIsTyped, Places, Critical, InCapture,
       InCall, InShutdown, Filling, Asking, Where, Producer, Thread, Nobody
  <2> QED BY <2>1, <2>3, <2>4
<1>21. ASSUME NEW t \in Thread, SignalWaiter(t)
      PROVE  \E u \in Thread : Orderly(u)
  <2>1. th[t].at = "signal" /\ UNCHANGED calls
        /\ Become(t, "exit") /\ UNCHANGED capture_mutex
    BY <1>21 DEF SignalWaiter, At
  <2>2. t \in Thread /\ ThreadIsTyped(t, th[t])
    BY ThreadFacts DEF Thread, Producer
  <2> QED BY <2>1, <2>2, WalkIsOrderly DEF ThreadIsTyped, Places, Critical, InCapture,
             InCall, InShutdown, Filling, Asking, Where, Producer, Thread, Nobody
<1>22. ASSUME NEW t \in Thread, ExitReferenceCall(t)
      PROVE  \E u \in Thread : Orderly(u)
  <2>1. /\ th[t].at = "exit" /\ UNCHANGED capture_mutex /\ th' = [th EXCEPT ![t] = Idle]
        /\ calls' = [calls EXCEPT !.reference = @ - 1]
    BY <1>22 DEF ExitReferenceCall, At
  <2>2. Moves(t) /\ th'[t] = Idle
    BY <2>1, ReplaceFacts, IdleFacts, ThreadFacts
  <2>3. ThreadIsTyped(t, th'[t]) /\ th'[t].at = "idle"
    BY <2>2, IdleFacts DEF ThreadIsTyped, Places, Critical, InCapture, InCall, InShutdown,
       Filling, Asking, Where, Producer, Thread, Nobody
  <2> QED BY <2>1, <2>2, <2>3, CallExits DEF Critical, InCapture, InCall
<1>23. CASE SeparateSpan
  <2>1. /\ th["EE"].at = "captured" /\ UNCHANGED <<capture_mutex, calls>>
        /\ th' = [th EXCEPT !["EE"] = Idle] /\ "EE" \in Thread
    BY <1>23 DEF SeparateSpan, At, Thread, Producer
  <2>2. Moves("EE") /\ th'["EE"] = Idle
    BY <2>1, ReplaceFacts, IdleFacts, ThreadFacts
  <2>3. ThreadIsTyped("EE", th'["EE"]) /\ th'["EE"].at = "idle"
    BY <2>2, IdleFacts DEF ThreadIsTyped, Places, Critical, InCapture, InCall, InShutdown,
       Filling, Asking, Where, Producer, Thread, Nobody
  <2> QED BY <2>1, <2>2, <2>3, CallsSame DEF Critical, InCapture, InCall
<1>24. ASSUME NEW r \in held["batch"], MergeSpan(r)
      PROVE  \E u \in Thread : Orderly(u)
  <2>1. /\ th["EE"].at = "captured" /\ UNCHANGED capture_mutex
        /\ EnterReferenceCall("EE", "release", th["EE"].payload) /\ "EE" \in Thread
    BY <1>24 DEF MergeSpan, At, Thread, Producer
  <2>2. th["EE"].payload \in Payload
    BY <2>1, ThreadFacts DEF ThreadIsTyped
  <2> QED BY <2>1, <2>2, EnterIsOrderly DEF Places, Critical, InCapture, InCall, InShutdown,
             Filling, Asking, Where, Producer, Thread, Nobody
<1>25. ASSUME NEW r \in held["due"] \union Stale, Retain(r)
      PROVE  \E u \in Thread : Orderly(u)
  <2>1. /\ th["MTVU"].at = "idle" /\ UNCHANGED capture_mutex /\ "MTVU" \in Thread
        /\ \/ EnterReferenceCall("MTVU", "retain", r)
           \/ EnterReferenceCall("MTVU", "exit", r)
    BY <1>25 DEF Retain, At, Thread, Producer
  <2>2. r \in Payload
    BY StaleFacts, HeldFacts DEF Holder
  <2> QED BY <2>1, <2>2, EnterIsOrderly DEF Places, Critical, InCapture, InCall, InShutdown,
             Filling, Asking, Where, Producer, Thread, Nobody
<1>26. ASSUME NEW h \in Holder, NEW r \in held[h], Release(h, r)
      PROVE  \E u \in Thread : Orderly(u)
  <2> DEFINE t == Owner(h)
  <2>1. /\ th[t].at = "idle" /\ UNCHANGED capture_mutex
        /\ EnterReferenceCall(t, "release", r)
    BY <1>26 DEF Release, At
  <2>2. t \in Thread /\ r \in Payload
    BY HeldFacts DEF Owner, Thread, Producer, Holder
  <2>3. "release" \in Places(t)
    BY <2>2 DEF Places, Critical, InCapture, InCall, InShutdown, Filling, Asking, Where,
       Producer, Thread, Nobody
  <2> HIDE DEF t
  <2> QED BY <2>1, <2>2, <2>3, EnterIsOrderly DEF Critical, InCapture, InCall, InShutdown,
             Filling, Asking, Where, Producer, Thread, Nobody
<1>27. CASE PublishPendingVifBatch
  <2>1. UNCHANGED <<th, capture_mutex, calls>> /\ "GS" \in Thread
    BY <1>27 DEF PublishPendingVifBatch, Thread
  <2> QED BY <2>1, StayIsOrderly
<1>28. CASE ExecuteVU
  <2>1. UNCHANGED <<th, capture_mutex, calls>> /\ "GS" \in Thread
    BY <1>28 DEF ExecuteVU, Thread
  <2> QED BY <2>1, StayIsOrderly
<1>29. ASSUME NEW r \in path1.leaving, NEW intact \in BOOLEAN, LoadCommitted(r, intact)
      PROVE  \E u \in Thread : Orderly(u)
  <2>1. th["MTVU"].at = "idle" /\ UNCHANGED <<capture_mutex, calls>> /\ "MTVU" \in Thread
    BY <1>29 DEF LoadCommitted, At, Thread, Producer
  <2>2. CASE th' = th
    BY <2>1, <2>2, StayIsOrderly
  <2>3. CASE th' # th
    <3> DEFINE x == [th["MTVU"] EXCEPT !.at = "publish", !.payload = r,
                                     !.size = slots[r.slot].committed]
    <3>1. th' = [th EXCEPT !["MTVU"] = x]
      BY <1>29, <2>3 DEF LoadCommitted
    <3>2. r \in Payload /\ th["MTVU"] \in ThreadState
          /\ slots[r.slot].committed \in 0 .. InputRingSlotSize
      BY <1>29, <2>1, LeavingFacts, ThreadFacts, SlotFacts
    <3>3. x \in ThreadState /\ x.at = "publish" /\ x.payload = r
      BY <3>2 DEF ThreadState, Where
    <3> HIDE DEF x
    <3>4. Moves("MTVU") /\ th'["MTVU"] = x
      BY <2>1, <3>1, <3>3, ReplaceFacts, ThreadFacts
    <3>5. ThreadIsTyped("MTVU", th'["MTVU"]) /\ th'["MTVU"].at = "publish"
      BY <3>2, <3>3, <3>4 DEF ThreadIsTyped, Places, Critical, InCapture, InCall,
         InShutdown, Filling, Asking, Where, Producer, Thread, Nobody
    <3> QED BY <2>1, <3>4, <3>5, CallsSame DEF Critical, InCapture, InCall
  <2> QED BY <2>2, <2>3
<1>30. CASE StorePublished
  <2>1. /\ th["MTVU"].at = "publish" /\ UNCHANGED <<capture_mutex, calls>>
        /\ th' = [th EXCEPT !["MTVU"] = Idle] /\ "MTVU" \in Thread
    BY <1>30 DEF StorePublished, At, Thread, Producer
  <2>2. Moves("MTVU") /\ th'["MTVU"] = Idle
    BY <2>1, ReplaceFacts, IdleFacts, ThreadFacts
  <2>3. ThreadIsTyped("MTVU", th'["MTVU"]) /\ th'["MTVU"].at = "idle"
    BY <2>2, IdleFacts DEF ThreadIsTyped, Places, Critical, InCapture, InCall, InShutdown,
       Filling, Asking, Where, Producer, Thread, Nobody
  <2> QED BY <2>1, <2>2, <2>3, CallsSame DEF Critical, InCapture, InCall
<1>31. ASSUME NEW n \in 0 .. InputRingSlotCount, Initialize(n)
      PROVE  \E u \in Thread : Orderly(u)
  <2>1. UNCHANGED <<th, capture_mutex>> /\ "GS" \in Thread
        /\ calls' = [calls EXCEPT !.reference = 0]
        /\ th["EE"].at = "idle" /\ th["MTVU"].at = "idle" /\ th["GS"].at = "idle"
    BY <1>31 DEF Initialize, At, Thread, Producer
  <2>2. calls.reference = 0
    BY <2>1 DEF IInv, CallsAreCounted, In, InCall
  <2>3. calls' = calls
    BY <2>1, <2>2, ThreadFacts
  <2> QED BY <2>1, <2>3, StayIsOrderly
<1>32. CASE Unpublish
  <2>1. th["GS"].at = "idle" /\ UNCHANGED calls
        /\ Become("GS", "stop") /\ UNCHANGED capture_mutex
    BY <1>32 DEF Unpublish, At
  <2>2. "GS" \in Thread /\ ThreadIsTyped("GS", th["GS"])
    BY ThreadFacts DEF Thread, Producer
  <2> QED BY <2>1, <2>2, WalkIsOrderly DEF ThreadIsTyped, Places, Critical, InCapture,
             InCall, InShutdown, Filling, Asking, Where, Producer, Thread, Nobody
<1>33. CASE Stop
  <2>1. th["GS"].at = "stop" /\ UNCHANGED calls
        /\ Become("GS", "wake") /\ UNCHANGED capture_mutex
    BY <1>33 DEF Stop, At
  <2>2. "GS" \in Thread /\ ThreadIsTyped("GS", th["GS"])
    BY ThreadFacts DEF Thread, Producer
  <2> QED BY <2>1, <2>2, WalkIsOrderly DEF ThreadIsTyped, Places, Critical, InCapture,
             InCall, InShutdown, Filling, Asking, Where, Producer, Thread, Nobody
<1>34. CASE WakeWaiter
  <2>1. th["GS"].at = "wake" /\ UNCHANGED calls
        /\ Become("GS", "references") /\ UNCHANGED capture_mutex
    BY <1>34 DEF WakeWaiter, At
  <2>2. "GS" \in Thread /\ ThreadIsTyped("GS", th["GS"])
    BY ThreadFacts DEF Thread, Producer
  <2> QED BY <2>1, <2>2, WalkIsOrderly DEF ThreadIsTyped, Places, Critical, InCapture,
             InCall, InShutdown, Filling, Asking, Where, Producer, Thread, Nobody
<1>35. CASE PollReferences
  <2>1. th["GS"].at = "references" /\ UNCHANGED calls
        /\ Become("GS", "reference_calls") /\ UNCHANGED capture_mutex
    BY <1>35 DEF PollReferences, At
  <2>2. "GS" \in Thread /\ ThreadIsTyped("GS", th["GS"])
    BY ThreadFacts DEF Thread, Producer
  <2> QED BY <2>1, <2>2, WalkIsOrderly DEF ThreadIsTyped, Places, Critical, InCapture,
             InCall, InShutdown, Filling, Asking, Where, Producer, Thread, Nobody
<1>36. CASE PollReferenceCalls
  <2>1. th["GS"].at = "reference_calls" /\ UNCHANGED calls
        /\ \/ Become("GS", "capture_calls") /\ UNCHANGED capture_mutex
           \/ Become("GS", "references") /\ UNCHANGED capture_mutex
    BY <1>36 DEF PollReferenceCalls, At
  <2>2. "GS" \in Thread /\ ThreadIsTyped("GS", th["GS"])
    BY ThreadFacts DEF Thread, Producer
  <2>3. CASE Become("GS", "capture_calls") /\ UNCHANGED capture_mutex
    BY <2>1, <2>2, <2>3, WalkIsOrderly DEF ThreadIsTyped, Places, Critical, InCapture,
       InCall, InShutdown, Filling, Asking, Where, Producer, Thread, Nobody
  <2>4. CASE Become("GS", "references") /\ UNCHANGED capture_mutex
    BY <2>1, <2>2, <2>4, WalkIsOrderly DEF ThreadIsTyped, Places, Critical, InCapture,
       InCall, InShutdown, Filling, Asking, Where, Producer, Thread, Nobody
  <2> QED BY <2>1, <2>3, <2>4
<1>37. CASE PollCaptureCalls
  <2>1. th["GS"].at = "capture_calls" /\ UNCHANGED calls
        /\ \/ Become("GS", "unmap") /\ UNCHANGED capture_mutex
           \/ Become("GS", "references") /\ UNCHANGED capture_mutex
    BY <1>37 DEF PollCaptureCalls, At
  <2>2. "GS" \in Thread /\ ThreadIsTyped("GS", th["GS"])
    BY ThreadFacts DEF Thread, Producer
  <2>3. CASE Become("GS", "unmap") /\ UNCHANGED capture_mutex
    BY <2>1, <2>2, <2>3, WalkIsOrderly DEF ThreadIsTyped, Places, Critical, InCapture,
       InCall, InShutdown, Filling, Asking, Where, Producer, Thread, Nobody
  <2>4. CASE Become("GS", "references") /\ UNCHANGED capture_mutex
    BY <2>1, <2>2, <2>4, WalkIsOrderly DEF ThreadIsTyped, Places, Critical, InCapture,
       InCall, InShutdown, Filling, Asking, Where, Producer, Thread, Nobody
  <2> QED BY <2>1, <2>3, <2>4
<1>38. CASE RefuseShutdown
  <2>1. th["GS"].at = "references" /\ UNCHANGED calls
        /\ Become("GS", "idle") /\ UNCHANGED capture_mutex
    BY <1>38 DEF RefuseShutdown, At
  <2>2. "GS" \in Thread /\ ThreadIsTyped("GS", th["GS"])
    BY ThreadFacts DEF Thread, Producer
  <2> QED BY <2>1, <2>2, WalkIsOrderly DEF ThreadIsTyped, Places, Critical, InCapture,
             InCall, InShutdown, Filling, Asking, Where, Producer, Thread, Nobody
<1>39. CASE Unmap
  <2>1. th["GS"].at = "unmap" /\ UNCHANGED calls
        /\ Become("GS", "idle") /\ UNCHANGED capture_mutex
    BY <1>39 DEF Unmap, At
  <2>2. "GS" \in Thread /\ ThreadIsTyped("GS", th["GS"])
    BY ThreadFacts DEF Thread, Producer
  <2> QED BY <2>1, <2>2, WalkIsOrderly DEF ThreadIsTyped, Places, Critical, InCapture,
             InCall, InShutdown, Filling, Asking, Where, Producer, Thread, Nobody
<1>40. CASE UNCHANGED ringVars
  <2>1. UNCHANGED <<th, capture_mutex, calls>> /\ "GS" \in Thread
    BY <1>40 DEF ringVars, Thread
  <2> QED BY <2>1, StayIsOrderly
<1> QED
  BY <1>1, <1>2, <1>3, <1>4, <1>5, <1>6, <1>7, <1>8, <1>9, <1>10, <1>11, <1>12, 
     <1>13, <1>14, <1>15, <1>16, <1>17, <1>18, <1>19, <1>20, <1>21, <1>22, <1>23, 
     <1>24, <1>25, <1>26, <1>27, <1>28, <1>29, <1>30, <1>31, <1>32, <1>33, <1>34, 
     <1>35, <1>36, <1>37, <1>38, <1>39, <1>40, RunStays
     DEF RingNext, CaptureStep, ReferenceStep, FinishSpan, ShutdownStep
-----------------------------------------------------------------------------
(* Types of threads, the mutex and the call counters *)

\* A step keeps ThreadsAreTyped, MutexIsHeld and CallsAreCounted.
LEMMA OrderlyStep ==
  ASSUME IInv, [Next]_vars
  PROVE  /\ th' \in [Thread -> ThreadState] /\ ThreadsAreTyped'
         /\ MutexIsHeld' /\ capture_mutex' \in Producer \union {Nobody}
         /\ CallsAreCounted' /\ calls' \in [reference : Nat, capture : Nat]
<1> PICK t \in Thread : Orderly(t)
  BY StepIsOrderly
<1>1. Moves(t) /\ ThreadIsTyped(t, th'[t])
  BY DEF Orderly
<1>2. th' \in [Thread -> ThreadState] /\ \A u \in Thread : u # t => th'[u] = th[u]
  BY <1>1 DEF Moves
<1>3. ThreadsAreTyped'
  BY <1>1, <1>2, ThreadFacts DEF ThreadsAreTyped
<1>4. MutexIsHeld'
  <2>1. MutexIsHeld
    BY DEF IInv
  <2>2. \/ capture_mutex' = capture_mutex
           /\ (th[t].at \in Critical <=> th'[t].at \in Critical)
        \/ /\ capture_mutex = Nobody /\ capture_mutex' = t
           /\ t \in Producer /\ th'[t].at \in Critical
        \/ /\ capture_mutex' = Nobody
           /\ t \in Producer /\ th[t].at \in Critical /\ th'[t].at \notin Critical
    BY DEF Orderly
  <2> HIDE DEF Critical
  <2> QED BY <1>2, <2>1, <2>2 DEF MutexIsHeld, Producer, Nobody, Thread
<1>5. capture_mutex' \in Producer \union {Nobody}
  BY DEF Orderly, IInv, TypeOK
<1>6. /\ calls \in [reference : Nat, capture : Nat] /\ CallsAreCounted
      /\ calls' \in [reference : Int, capture : Int]
      /\ calls'.capture = calls.capture + Is(t, InCapture) - Was(t, InCapture)
      /\ calls'.reference = calls.reference + Is(t, InCall) - Was(t, InCall)
  BY ThreadFacts DEF Orderly, IInv
<1>7. th["GS"].at \notin InCapture /\ th'["GS"].at \notin InCapture
  <2>1. th["GS"].at \in Places("GS") /\ th'["GS"].at \in Places("GS")
    BY <1>3, ThreadFacts DEF ThreadsAreTyped, ThreadIsTyped, Thread
  <2> QED BY <2>1 DEF Places, InCapture, Critical, InCall, InShutdown
<1>8. CallsAreCounted'
  <2>1. t = "EE" \/ t = "MTVU" \/ t = "GS"
    BY DEF Thread, Producer
  <2>2. "EE" \in Thread /\ "MTVU" \in Thread /\ "GS" \in Thread
    BY DEF Thread, Producer
  <2>3. CASE t = "EE"
    BY <1>2, <1>6, <2>2, <2>3 DEF CallsAreCounted, In, Is, Was
  <2>4. CASE t = "MTVU"
    BY <1>2, <1>6, <2>2, <2>4 DEF CallsAreCounted, In, Is, Was
  <2>5. CASE t = "GS"
    BY <1>2, <1>6, <1>7, <2>2, <2>5 DEF CallsAreCounted, In, Is, Was
  <2> QED BY <2>1, <2>3, <2>4, <2>5
<1>9. calls' \in [reference : Nat, capture : Nat]
  BY <1>6, <1>8 DEF CallsAreCounted, In
<1> QED BY <1>2, <1>3, <1>4, <1>5, <1>8, <1>9

-----------------------------------------------------------------------------
(* Where each action takes its thread *)

Goes(t, F, L) ==
    /\ t \in Thread /\ Moves(t) /\ th[t].at = F /\ th'[t].at \in L
    /\ th'[t].payload = th[t].payload
    /\ th'[t].size = th[t].size /\ th'[t].need = th[t].need

LEMMA LoadActiveRingGoes ==
  ASSUME IInv, NEW p \in Producer, LoadActiveRing(p)
  PROVE  Goes(p, "load", {"lock", "leave"})
<1>1. th[p].at = "load" /\ p \in Thread
  BY DEF LoadActiveRing, At, Thread, Producer
<1>2. \/ Become(p, "lock")
      \/ Become(p, "leave")
  BY DEF LoadActiveRing, At
<1> QED BY <1>1, <1>2, BecomeFacts, ThreadFacts DEF Goes, Where

LEMMA LockCaptureGoes ==
  ASSUME IInv, NEW p \in Producer, LockCapture(p)
  PROVE  Goes(p, "lock", {"loop"})
<1>1. th[p].at = "lock" /\ p \in Thread
  BY DEF LockCapture, At, Thread, Producer
<1>2. Become(p, "loop")
  BY DEF LockCapture, At
<1> QED BY <1>1, <1>2, BecomeFacts, ThreadFacts DEF Goes, Where

LEMMA TestAcceptingGoes ==
  ASSUME IInv, NEW p \in Producer, TestAccepting(p)
  PROVE  Goes(p, "loop", {"reserve", "leave"})
<1>1. th[p].at = "loop" /\ p \in Thread
  BY DEF TestAccepting, At, Thread, Producer
<1>2. \/ Become(p, "reserve")
      \/ Become(p, "leave")
  BY DEF TestAccepting, At, Return
<1> QED BY <1>1, <1>2, BecomeFacts, ThreadFacts DEF Goes, Where

LEMMA BeginGenerationGoes ==
  ASSUME IInv, NEW p \in Producer, BeginGeneration(p)
  PROVE  Goes(p, "empty", {"fill"})
<1>1. th[p].at = "empty" /\ p \in Thread
  BY DEF BeginGeneration, At, Thread, Producer
<1>2. Become(p, "fill")
  BY DEF BeginGeneration, At
<1> QED BY <1>1, <1>2, BecomeFacts, ThreadFacts DEF Goes, Where

LEMMA RecycleGoes ==
  ASSUME IInv, NEW p \in Producer, NEW intact \in BOOLEAN, Recycle(p, intact)
  PROVE  Goes(p, "reserve", {"loop", "leave"})
<1>1. th[p].at = "reserve" /\ p \in Thread
  BY DEF Recycle, At, Thread, Producer
<1>2. \/ Become(p, "loop")
      \/ Become(p, "leave")
  BY DEF Recycle, At, StopAccepting, Return
<1> QED BY <1>1, <1>2, BecomeFacts, ThreadFacts DEF Goes, Where

LEMMA FindOwnedGoes ==
  ASSUME IInv, NEW p \in Producer, FindOwned(p)
  PROVE  Goes(p, "reserve", {"arm"})
<1>1. th[p].at = "reserve" /\ p \in Thread
  BY DEF FindOwned, At, Thread, Producer
<1>2. Become(p, "arm")
  BY DEF FindOwned, At
<1> QED BY <1>1, <1>2, BecomeFacts, ThreadFacts DEF Goes, Where

LEMMA ArmWaiterGoes ==
  ASSUME IInv, NEW p \in Producer, ArmWaiter(p)
  PROVE  Goes(p, "arm", {"recheck", "leave"})
<1>1. th[p].at = "arm" /\ p \in Thread
  BY DEF ArmWaiter, At, Thread, Producer
<1>2. \/ Become(p, "recheck")
      \/ Become(p, "leave")
  BY DEF ArmWaiter, At, Return
<1> QED BY <1>1, <1>2, BecomeFacts, ThreadFacts DEF Goes, Where

LEMMA RecheckGoes ==
  ASSUME IInv, NEW p \in Producer, Recheck(p)
  PROVE  Goes(p, "recheck", {"request", "disarm"})
<1>1. th[p].at = "recheck" /\ p \in Thread
  BY DEF Recheck, At, Thread, Producer
<1>2. \/ Become(p, "request")
      \/ Become(p, "disarm")
  BY DEF Recheck, At
<1> QED BY <1>1, <1>2, BecomeFacts, ThreadFacts DEF Goes, Where

LEMMA DisarmGoes ==
  ASSUME IInv, NEW p \in Producer, Disarm(p)
  PROVE  Goes(p, "disarm", {"loop", "request"})
<1>1. th[p].at = "disarm" /\ p \in Thread
  BY DEF Disarm, At, Thread, Producer
<1>2. \/ Become(p, "loop")
      \/ Become(p, "request")
  BY DEF Disarm, At
<1> QED BY <1>1, <1>2, BecomeFacts, ThreadFacts DEF Goes, Where

LEMMA RequestGpuVuInputRetirementGoes ==
  ASSUME IInv, NEW p \in Producer, RequestGpuVuInputRetirement(p)
  PROVE  Goes(p, "request", {"wait"})
<1>1. th[p].at = "request" /\ p \in Thread
  BY DEF RequestGpuVuInputRetirement, At, Thread, Producer
<1>2. Become(p, "wait")
  BY DEF RequestGpuVuInputRetirement, At
<1> QED BY <1>1, <1>2, BecomeFacts, ThreadFacts DEF Goes, Where

LEMMA WaitSlotReleasedGoes ==
  ASSUME IInv, NEW p \in Producer, WaitSlotReleased(p)
  PROVE  Goes(p, "wait", {"loop"})
<1>1. th[p].at = "wait" /\ p \in Thread
  BY DEF WaitSlotReleased, At, Thread, Producer
<1>2. Become(p, "loop")
  BY DEF WaitSlotReleased, At
<1> QED BY <1>1, <1>2, BecomeFacts, ThreadFacts DEF Goes, Where

LEMMA FillGoes ==
  ASSUME IInv, NEW p \in Producer, Fill(p)
  PROVE  Goes(p, "fill", {"commit"})
<1>1. th[p].at = "fill" /\ p \in Thread
  BY DEF Fill, At, Thread, Producer
<1>2. Become(p, "commit")
  BY DEF Fill, At
<1> QED BY <1>1, <1>2, BecomeFacts, ThreadFacts DEF Goes, Where

LEMMA RetainOwnershipGoes ==
  ASSUME IInv, RetainOwnership
  PROVE  Goes("MTVU", "retain", {"confirm", "exit"})
<1>1. th["MTVU"].at = "retain" /\ "MTVU" \in Thread
  BY DEF RetainOwnership, At, Thread, Producer
<1>2. \/ Become("MTVU", "confirm")
      \/ Become("MTVU", "exit")
  BY DEF RetainOwnership, At
<1> QED BY <1>1, <1>2, BecomeFacts, ThreadFacts DEF Goes, Where

LEMMA ConfirmRetainGoes ==
  ASSUME IInv, ConfirmRetain
  PROVE  Goes("MTVU", "confirm", {"exit", "release"})
<1>1. th["MTVU"].at = "confirm" /\ "MTVU" \in Thread
  BY DEF ConfirmRetain, At, Thread, Producer
<1>2. \/ Become("MTVU", "exit")
      \/ Become("MTVU", "release")
  BY DEF ConfirmRetain, At
<1> QED BY <1>1, <1>2, BecomeFacts, ThreadFacts DEF Goes, Where

LEMMA ReleaseOwnershipGoes ==
  ASSUME IInv, NEW t \in Thread, ReleaseOwnership(t)
  PROVE  Goes(t, "release", {"claim", "exit"})
<1>1. th[t].at = "release" /\ t \in Thread
  BY DEF ReleaseOwnership, At, Thread, Producer
<1>2. \/ Become(t, "claim")
      \/ Become(t, "exit")
  BY DEF ReleaseOwnership, At
<1> QED BY <1>1, <1>2, BecomeFacts, ThreadFacts DEF Goes, Where

LEMMA ClaimWaiterGoes ==
  ASSUME IInv, NEW t \in Thread, ClaimWaiter(t)
  PROVE  Goes(t, "claim", {"signal", "exit"})
<1>1. th[t].at = "claim" /\ t \in Thread
  BY DEF ClaimWaiter, At, Thread, Producer
<1>2. \/ Become(t, "signal")
      \/ Become(t, "exit")
  BY DEF ClaimWaiter, At
<1> QED BY <1>1, <1>2, BecomeFacts, ThreadFacts DEF Goes, Where

LEMMA SignalWaiterGoes ==
  ASSUME IInv, NEW t \in Thread, SignalWaiter(t)
  PROVE  Goes(t, "signal", {"exit"})
<1>1. th[t].at = "signal" /\ t \in Thread
  BY DEF SignalWaiter, At, Thread, Producer
<1>2. Become(t, "exit")
  BY DEF SignalWaiter, At
<1> QED BY <1>1, <1>2, BecomeFacts, ThreadFacts DEF Goes, Where

LEMMA UnpublishGoes ==
  ASSUME IInv, Unpublish
  PROVE  Goes("GS", "idle", {"stop"})
<1>1. th["GS"].at = "idle" /\ "GS" \in Thread
  BY DEF Unpublish, At, Thread, Producer
<1>2. Become("GS", "stop")
  BY DEF Unpublish, At
<1> QED BY <1>1, <1>2, BecomeFacts, ThreadFacts DEF Goes, Where

LEMMA StopGoes ==
  ASSUME IInv, Stop
  PROVE  Goes("GS", "stop", {"wake"})
<1>1. th["GS"].at = "stop" /\ "GS" \in Thread
  BY DEF Stop, At, Thread, Producer
<1>2. Become("GS", "wake")
  BY DEF Stop, At
<1> QED BY <1>1, <1>2, BecomeFacts, ThreadFacts DEF Goes, Where

LEMMA WakeWaiterGoes ==
  ASSUME IInv, WakeWaiter
  PROVE  Goes("GS", "wake", {"references"})
<1>1. th["GS"].at = "wake" /\ "GS" \in Thread
  BY DEF WakeWaiter, At, Thread, Producer
<1>2. Become("GS", "references")
  BY DEF WakeWaiter, At
<1> QED BY <1>1, <1>2, BecomeFacts, ThreadFacts DEF Goes, Where

LEMMA PollReferencesGoes ==
  ASSUME IInv, PollReferences
  PROVE  Goes("GS", "references", {"reference_calls"})
<1>1. th["GS"].at = "references" /\ "GS" \in Thread
  BY DEF PollReferences, At, Thread, Producer
<1>2. Become("GS", "reference_calls")
  BY DEF PollReferences, At
<1> QED BY <1>1, <1>2, BecomeFacts, ThreadFacts DEF Goes, Where

LEMMA PollReferenceCallsGoes ==
  ASSUME IInv, PollReferenceCalls
  PROVE  Goes("GS", "reference_calls", {"capture_calls", "references"})
<1>1. th["GS"].at = "reference_calls" /\ "GS" \in Thread
  BY DEF PollReferenceCalls, At, Thread, Producer
<1>2. \/ Become("GS", "capture_calls")
      \/ Become("GS", "references")
  BY DEF PollReferenceCalls, At
<1> QED BY <1>1, <1>2, BecomeFacts, ThreadFacts DEF Goes, Where

LEMMA PollCaptureCallsGoes ==
  ASSUME IInv, PollCaptureCalls
  PROVE  Goes("GS", "capture_calls", {"unmap", "references"})
<1>1. th["GS"].at = "capture_calls" /\ "GS" \in Thread
  BY DEF PollCaptureCalls, At, Thread, Producer
<1>2. \/ Become("GS", "unmap")
      \/ Become("GS", "references")
  BY DEF PollCaptureCalls, At
<1> QED BY <1>1, <1>2, BecomeFacts, ThreadFacts DEF Goes, Where

LEMMA RefuseShutdownGoes ==
  ASSUME IInv, RefuseShutdown
  PROVE  Goes("GS", "references", {"idle"})
<1>1. th["GS"].at = "references" /\ "GS" \in Thread
  BY DEF RefuseShutdown, At, Thread, Producer
<1>2. Become("GS", "idle")
  BY DEF RefuseShutdown, At
<1> QED BY <1>1, <1>2, BecomeFacts, ThreadFacts DEF Goes, Where

LEMMA UnmapGoes ==
  ASSUME IInv, Unmap
  PROVE  Goes("GS", "unmap", {"idle"})
<1>1. th["GS"].at = "unmap" /\ "GS" \in Thread
  BY DEF Unmap, At, Thread, Producer
<1>2. Become("GS", "idle")
  BY DEF Unmap, At
<1> QED BY <1>1, <1>2, BecomeFacts, ThreadFacts DEF Goes, Where

\* Entering a reference call
LEMMA EnterGoes ==
  ASSUME IInv, NEW t \in Thread, NEW l \in {"retain", "exit", "release"}, NEW r \in Payload,
         EnterReferenceCall(t, l, r)
  PROVE  Moves(t) /\ th'[t].at = l /\ th'[t].payload = r
<1> DEFINE x == [th[t] EXCEPT !.at = l, !.payload = r]
<1>1. th' = [th EXCEPT ![t] = x]
  BY DEF EnterReferenceCall
<1>2. x \in ThreadState /\ x.at = l /\ x.payload = r
  BY ThreadFacts DEF ThreadState, Where
<1> HIDE DEF x
<1> QED BY <1>1, <1>2, ReplaceFacts, ThreadFacts

\* Going home
LEMMA HomeGoes ==
  ASSUME IInv, NEW t \in Thread, th' = [th EXCEPT ![t] = Idle]
  PROVE  Moves(t) /\ th'[t].at = "idle" /\ th'[t].payload = NoPayload
BY ReplaceFacts, IdleFacts, ThreadFacts

LEMMA CaptureRawVifPayloadGoes ==
  ASSUME IInv, NEW p \in Producer, CaptureRawVifPayload(p)
  PROVE  /\ p \in Thread /\ Moves(p) /\ th[p].at = "idle" /\ th'[p].at = "load"
         /\ th'[p].payload = th[p].payload
<1> DEFINE n == Head(left[p])
           e == IF p = "EE" /\ held["batch"] = {} /\ n < DirectInputEpochReservation
                THEN DirectInputEpochReservation ELSE n
           x == [th[p] EXCEPT !.at = "load", !.size = n, !.need = e]
<1>1. th[p].at = "idle" /\ th' = [th EXCEPT ![p] = x]
  BY DEF CaptureRawVifPayload, At
<1>4. n \in 1 .. InputRingSlotSize /\ DirectInputEpochReservation \in 1 .. InputRingSlotSize
  BY CaptureIsSized, RingAssumption DEF CaptureRawVifPayload
<1> HIDE DEF n
<1>2. n \in 0 .. InputRingSlotSize /\ e \in 0 .. InputRingSlotSize
  BY <1>4, Sizes0
<1> HIDE DEF e
<1>3. x \in ThreadState /\ x.at = "load" /\ x.payload = th[p].payload /\ p \in Thread
  BY <1>2, ThreadFacts DEF ThreadState, Where
<1> HIDE DEF x
<1> QED BY <1>1, <1>3, ReplaceFacts, ThreadFacts

LEMMA ReserveGoes ==
  ASSUME IInv, NEW p \in Producer, Reserve(p),
         NEW g, g = IF Current.references = 0 THEN Current.generation + 1
                                             ELSE Current.generation,
         NEW r, r = [slot |-> ring.current, offset |-> Current.write, generation |-> g,
                     size |-> th[p].size, late |-> ~ring.active]
  PROVE  /\ p \in Thread /\ Moves(p) /\ th[p].at = "reserve"
         /\ \/ /\ StopAccepting(p) /\ th'[p].at = "leave" /\ th'[p].payload = NoPayload
               /\ UNCHANGED slots
            \/ /\ ~StopAccepting(p) /\ th'[p].payload = r
               /\ th'[p].at = IF Current.references = 0 THEN "empty" ELSE "fill"
               /\ slots' = [slots EXCEPT ![ring.current].generation = g,
                                         ![ring.current].references = @ + 1]
               /\ UNCHANGED ring
<1>1. p \in Thread /\ th[p].at = "reserve"
  BY ThreadFacts DEF Reserve, At
<1>2. CASE StopAccepting(p)
  <2>1. Become(p, "leave")
    BY <1>2 DEF StopAccepting, Return
  <2>2. Moves(p) /\ th'[p].at = "leave" /\ th'[p].payload = th[p].payload
    BY <1>1, <2>1, BecomeFacts, ThreadFacts DEF Where
  <2>3. th[p].payload = NoPayload
    BY <1>1, ThreadFacts DEF ThreadIsTyped, Asking, InCapture, Critical
  <2>4. UNCHANGED slots
    <3>1. CASE Current.references = 0 /\ Current.generation = MaxGeneration
      BY <3>1 DEF Reserve
    <3>2. CASE ~(Current.references = 0 /\ Current.generation = MaxGeneration)
      <4>1. UNCHANGED capture_mutex
        BY <3>2 DEF Reserve
      <4>2. capture_mutex = p /\ capture_mutex' = Nobody
        BY <1>1, <1>2 DEF StopAccepting, Return, IInv, MutexIsHeld, Critical
      <4> QED BY <4>1, <4>2 DEF Producer, Nobody
    <3> QED BY <3>1, <3>2
  <2> QED BY <1>1, <1>2, <2>2, <2>3, <2>4
<1>3. CASE ~StopAccepting(p)
  <2> DEFINE x == [th[p] EXCEPT !.at = IF Current.references = 0 THEN "empty" ELSE "fill",
                                !.payload = r]
  <2>1. /\ th' = [th EXCEPT ![p] = x] /\ UNCHANGED ring
        /\ slots' = [slots EXCEPT ![ring.current].generation = g,
                                  ![ring.current].references = @ + 1]
    BY <1>3 DEF Reserve
  <2>2. r \in Payload
    BY <1>3, ReserveFacts
  <2>3. /\ x \in ThreadState /\ x.payload = r
        /\ x.at = IF Current.references = 0 THEN "empty" ELSE "fill"
    BY <1>1, <2>2, ThreadFacts, ZenonT(60) DEF ThreadState, Where
  <2> HIDE DEF x
  <2> QED BY <1>1, <1>3, <2>1, <2>3, ReplaceFacts, ThreadFacts
<1> QED BY <1>2, <1>3

LEMMA CommitGoes ==
  ASSUME IInv, NEW p \in Producer, Commit(p)
  PROVE  /\ p \in Thread /\ Moves(p) /\ th[p].at = "commit" /\ th'[p].at = "leave"
         /\ th'[p].payload = IF p = "MTVU" THEN NoPayload ELSE th[p].payload
<1> DEFINE x == [th[p] EXCEPT !.at = "leave",
                              !.payload = IF p = "MTVU" THEN NoPayload ELSE @]
<1>1. th[p].at = "commit" /\ th' = [th EXCEPT ![p] = x]
  BY DEF Commit, At
<1>2. /\ x \in ThreadState /\ x.at = "leave" /\ p \in Thread
      /\ x.payload = IF p = "MTVU" THEN NoPayload ELSE th[p].payload
  BY ThreadFacts DEF ThreadState, Where
<1> HIDE DEF x
<1> QED BY <1>1, <1>2, ReplaceFacts, ThreadFacts

LEMMA LeaveCaptureGoes ==
  ASSUME IInv, NEW p \in Producer, LeaveCapture(p)
  PROVE  /\ p \in Thread /\ Moves(p) /\ th[p].at = "leave"
         /\ th'[p].payload = th[p].payload
         /\ th'[p].at = IF th[p].payload = NoPayload THEN "idle" ELSE "captured"
<1>1. th[p].at = "leave" /\ p \in Thread
  BY ThreadFacts DEF LeaveCapture, At
<1>2. CASE th[p].payload = NoPayload
  BY <1>1, <1>2, HomeGoes DEF LeaveCapture
<1>3. CASE th[p].payload # NoPayload
  <2> DEFINE x == [Idle EXCEPT !.at = "captured", !.payload = th[p].payload]
  <2>1. th' = [th EXCEPT ![p] = x]
    BY <1>3 DEF LeaveCapture
  <2>2. x \in ThreadState /\ x.at = "captured" /\ x.payload = th[p].payload
    BY <1>1, ThreadFacts, IdleFacts DEF ThreadState, Where
  <2> HIDE DEF x
  <2> QED BY <1>1, <1>3, <2>1, <2>2, ReplaceFacts, ThreadFacts
<1> QED BY <1>2, <1>3

LEMMA ExitReferenceCallGoes ==
  ASSUME IInv, NEW t \in Thread, ExitReferenceCall(t)
  PROVE  /\ Moves(t) /\ th[t].at = "exit" /\ th'[t].at = "idle"
         /\ th'[t].payload = NoPayload
BY HomeGoes DEF ExitReferenceCall, At

LEMMA SeparateSpanGoes ==
  ASSUME IInv, SeparateSpan
  PROVE  /\ "EE" \in Thread /\ Moves("EE") /\ th["EE"].at = "captured" /\ th'["EE"].at = "idle"
         /\ th'["EE"].payload = NoPayload
<1>1. "EE" \in Thread
  BY DEF Thread, Producer
<1> QED BY <1>1, HomeGoes DEF SeparateSpan, At

LEMMA MergeSpanGoes ==
  ASSUME IInv, NEW r \in held["batch"], MergeSpan(r)
  PROVE  /\ "EE" \in Thread /\ Moves("EE") /\ th["EE"].at = "captured" /\ th'["EE"].at = "release"
         /\ th'["EE"].payload = th["EE"].payload /\ th["EE"].payload \in Payload
<1>1. "EE" \in Thread /\ th["EE"].at = "captured"
      /\ EnterReferenceCall("EE", "release", th["EE"].payload)
  BY DEF Thread, Producer, MergeSpan, At
<1>2. th["EE"].payload \in Payload
  BY <1>1, ThreadFacts DEF ThreadIsTyped
<1> QED BY <1>1, <1>2, EnterGoes

LEMMA RetainGoes ==
  ASSUME IInv, NEW r \in held["due"] \union Stale, Retain(r)
  PROVE  /\ "MTVU" \in Thread /\ Moves("MTVU") /\ th["MTVU"].at = "idle"
         /\ th'["MTVU"].at \in {"retain", "exit"} /\ th'["MTVU"].payload = r
         /\ r \in Payload
<1>1. "MTVU" \in Thread /\ th["MTVU"].at = "idle"
      /\ (EnterReferenceCall("MTVU", "retain", r) \/ EnterReferenceCall("MTVU", "exit", r))
  BY DEF Thread, Producer, Retain, At
<1>2. r \in Payload
  BY StaleFacts, HeldFacts DEF Holder
<1> QED BY <1>1, <1>2, EnterGoes

LEMMA ReleaseGoes ==
  ASSUME IInv, NEW h \in Holder, NEW r \in held[h], Release(h, r), NEW t, t = Owner(h)
  PROVE  /\ t \in Thread /\ Moves(t) /\ th[t].at = "idle" /\ th'[t].at = "release"
         /\ th'[t].payload = r /\ r \in Payload /\ h # "batch"
<1>1. th[t].at = "idle" /\ EnterReferenceCall(t, "release", r) /\ h # "batch"
  BY DEF Release, At
<1>2. t \in Thread /\ r \in Payload
  BY HeldFacts DEF Owner, Thread, Producer, Holder
<1> QED BY <1>1, <1>2, EnterGoes

LEMMA LoadCommittedGoes ==
  ASSUME IInv, NEW r \in path1.leaving, NEW intact \in BOOLEAN, LoadCommitted(r, intact)
  PROVE  /\ "MTVU" \in Thread /\ Moves("MTVU") /\ th["MTVU"].at = "idle"
         /\ \/ th' = th
            \/ /\ th'["MTVU"].at = "publish" /\ th'["MTVU"].payload = r
               /\ th'["MTVU"].size = slots[r.slot].committed
<1>1. th["MTVU"].at = "idle" /\ "MTVU" \in Thread
  BY DEF LoadCommitted, At, Thread, Producer
<1>2. CASE th' = th
  BY <1>1, <1>2, ThreadFacts DEF Moves
<1>3. CASE th' # th
  <2> DEFINE x == [th["MTVU"] EXCEPT !.at = "publish", !.payload = r,
                                   !.size = slots[r.slot].committed]
  <2>1. th' = [th EXCEPT !["MTVU"] = x]
    BY <1>3 DEF LoadCommitted
  <2>2. r \in Payload /\ th["MTVU"] \in ThreadState
        /\ slots[r.slot].committed \in 0 .. InputRingSlotSize
    BY <1>1, LeavingFacts, ThreadFacts, SlotFacts
  <2>3. x \in ThreadState /\ x.at = "publish" /\ x.payload = r
        /\ x.size = slots[r.slot].committed
    BY <2>2 DEF ThreadState, Where
  <2> HIDE DEF x
  <2> QED BY <1>1, <2>1, <2>3, ReplaceFacts, ThreadFacts
<1> QED BY <1>2, <1>3

LEMMA StorePublishedGoes ==
  ASSUME IInv, StorePublished
  PROVE  /\ "MTVU" \in Thread /\ Moves("MTVU") /\ th["MTVU"].at = "publish" /\ th'["MTVU"].at = "idle"
         /\ th'["MTVU"].payload = NoPayload
<1>1. "MTVU" \in Thread
  BY DEF Thread, Producer
<1> QED BY <1>1, HomeGoes DEF StorePublished, At

LEMMA InitializeStays ==
  ASSUME IInv, NEW n \in 0 .. InputRingSlotCount, Initialize(n)
  PROVE  /\ th' = th /\ held' = held /\ ~ring.initialized
         /\ \A t \in Thread : th[t].at = "idle"
         /\ \A s \in Slot : slots[s].references = 0
BY DEF Initialize, At, Thread
-----------------------------------------------------------------------------
(* The ring's own life *)

RingType == [active : BOOLEAN, accepting : BOOLEAN, initialized : BOOLEAN,
             count : 0 .. InputRingSlotCount, current : Slot]

RingVarsTyped ==
    /\ ring \in RingType
    /\ waiting_slot \in Slot \union {NoSlot} /\ sema \in {NoSema, 0, 1}
    /\ retire \in Slot \union {NoSlot} /\ left \in [Producer -> Seq(1 .. InputRingSlotSize)]

\* A producer that uses NextSlot finds it.
LEMMA NextSlotIsThere ==
  ASSUME IInv, NEW p \in Producer, th[p].at \in Critical
  PROVE  NextSlot \in Slot /\ NextSlot < ring.count /\ NextSlot # ring.current
BY CaptureIsMapped, NextSlotFacts

\* Every step keeps the types of the ring's variables.
LEMMA RingVarsStep ==
  ASSUME IInv, [Next]_vars
  PROVE  RingVarsTyped'
<1> RingVarsTyped
  BY DEF IInv, TypeOK, RingVarsTyped, RingType
<1>1. ASSUME NEW p \in Producer, CaptureRawVifPayload(p)
      PROVE  RingVarsTyped'
  <2>1. UNCHANGED <<ring, waiting_slot, sema, retire>> /\ left[p] # <<>>
        /\ left' = [left EXCEPT ![p] = Tail(left[p])]
    BY <1>1 DEF CaptureRawVifPayload
  <2>3. Tail(left[p]) \in Seq(1 .. InputRingSlotSize)
    BY <2>1, CaptureIsSized
  <2>2. left' \in [Producer -> Seq(1 .. InputRingSlotSize)]
    BY <2>1, <2>3 DEF RingVarsTyped
  <2> QED BY <2>1, <2>2 DEF RingVarsTyped
<1>2. ASSUME NEW p \in Producer, LoadActiveRing(p)
      PROVE  RingVarsTyped'
  BY <1>2 DEF LoadActiveRing, RingVarsTyped
<1>3. ASSUME NEW p \in Producer, LockCapture(p)
      PROVE  RingVarsTyped'
  BY <1>3 DEF LockCapture, RingVarsTyped
<1>4. ASSUME NEW p \in Producer, TestAccepting(p)
      PROVE  RingVarsTyped'
  BY <1>4 DEF TestAccepting, RingVarsTyped
<1>5. ASSUME NEW p \in Producer, Reserve(p)
      PROVE  RingVarsTyped'
  <2>1. ring' = ring \/ ring' = [ring EXCEPT !.accepting = FALSE]
    BY <1>5 DEF Reserve, StopAccepting
  <2>2. UNCHANGED <<waiting_slot, sema, retire, left>>
    BY <1>5 DEF Reserve
  <2>3. ring' \in RingType
    BY <2>1 DEF RingVarsTyped, RingType
  <2> QED BY <2>2, <2>3 DEF RingVarsTyped
<1>6. ASSUME NEW p \in Producer, BeginGeneration(p)
      PROVE  RingVarsTyped'
  BY <1>6 DEF BeginGeneration, RingVarsTyped
<1>7. ASSUME NEW p \in Producer, NEW intact \in BOOLEAN, Recycle(p, intact)
      PROVE  RingVarsTyped'
  <2>1. \/ ring' = [ring EXCEPT !.accepting = FALSE]
        \/ ring' = [ring EXCEPT !.current = NextSlot]
    BY <1>7 DEF Recycle, StopAccepting
  <2>2. UNCHANGED <<waiting_slot, sema, retire, left>>
    BY <1>7 DEF Recycle
  <2>3. NextSlot \in Slot
    BY <1>7, RecycleGoes, NextSlotIsThere DEF Goes, Critical
  <2>4. ring' \in RingType
    BY <2>1, <2>3 DEF RingVarsTyped, RingType
  <2> QED BY <2>2, <2>4 DEF RingVarsTyped
<1>8. ASSUME NEW p \in Producer, FindOwned(p)
      PROVE  RingVarsTyped'
  BY <1>8 DEF FindOwned, RingVarsTyped
<1>9. ASSUME NEW p \in Producer, ArmWaiter(p)
      PROVE  RingVarsTyped'
  <2>1. NextSlot \in Slot
    BY <1>9, ArmWaiterGoes, NextSlotIsThere DEF Goes, Critical
  <2>2. UNCHANGED <<ring, sema, retire, left>> /\ (waiting_slot' = NextSlot \/ UNCHANGED waiting_slot)
    BY <1>9 DEF ArmWaiter
  <2> QED BY <2>1, <2>2 DEF RingVarsTyped
<1>10. ASSUME NEW p \in Producer, Recheck(p)
      PROVE  RingVarsTyped'
  BY <1>10 DEF Recheck, RingVarsTyped
<1>11. ASSUME NEW p \in Producer, Disarm(p)
      PROVE  RingVarsTyped'
  BY <1>11 DEF Disarm, RingVarsTyped, Signalled, NoSema, NoSlot
<1>12. ASSUME NEW p \in Producer, RequestGpuVuInputRetirement(p)
      PROVE  RingVarsTyped'
  <2>1. NextSlot \in Slot
    BY <1>12, RequestGpuVuInputRetirementGoes, NextSlotIsThere DEF Goes, Critical
  <2>2. UNCHANGED <<ring, sema, waiting_slot, left>> /\ retire' = NextSlot
    BY <1>12 DEF RequestGpuVuInputRetirement
  <2> QED BY <2>1, <2>2 DEF RingVarsTyped
<1>13. ASSUME NEW p \in Producer, WaitSlotReleased(p)
      PROVE  RingVarsTyped'
  BY <1>13 DEF WaitSlotReleased, RingVarsTyped, Signalled, NoSema, NoSlot
<1>14. ASSUME NEW p \in Producer, Fill(p)
      PROVE  RingVarsTyped'
  BY <1>14 DEF Fill, RingVarsTyped
<1>15. ASSUME NEW p \in Producer, Commit(p)
      PROVE  RingVarsTyped'
  BY <1>15 DEF Commit, RingVarsTyped
<1>16. ASSUME NEW p \in Producer, LeaveCapture(p)
      PROVE  RingVarsTyped'
  BY <1>16 DEF LeaveCapture, RingVarsTyped
<1>17. CASE RetainOwnership
  BY <1>17 DEF RetainOwnership, RingVarsTyped
<1>18. CASE ConfirmRetain
  BY <1>18 DEF ConfirmRetain, RingVarsTyped
<1>19. ASSUME NEW t \in Thread, ReleaseOwnership(t)
      PROVE  RingVarsTyped'
  BY <1>19 DEF ReleaseOwnership, RingVarsTyped
<1>20. ASSUME NEW t \in Thread, ClaimWaiter(t)
      PROVE  RingVarsTyped'
  BY <1>20 DEF ClaimWaiter, RingVarsTyped, Signalled, NoSema, NoSlot
<1>21. ASSUME NEW t \in Thread, SignalWaiter(t)
      PROVE  RingVarsTyped'
  BY <1>21 DEF SignalWaiter, RingVarsTyped, Signalled, NoSema, NoSlot
<1>22. ASSUME NEW t \in Thread, ExitReferenceCall(t)
      PROVE  RingVarsTyped'
  BY <1>22 DEF ExitReferenceCall, RingVarsTyped
<1>23. CASE SeparateSpan
  BY <1>23 DEF SeparateSpan, RingVarsTyped
<1>24. ASSUME NEW r \in held["batch"], MergeSpan(r)
      PROVE  RingVarsTyped'
  BY <1>24 DEF MergeSpan, RingVarsTyped
<1>25. ASSUME NEW r \in held["due"] \union Stale, Retain(r)
      PROVE  RingVarsTyped'
  BY <1>25 DEF Retain, RingVarsTyped
<1>26. ASSUME NEW h \in Holder, NEW r \in held[h], Release(h, r)
      PROVE  RingVarsTyped'
  BY <1>26 DEF Release, RingVarsTyped
<1>27. CASE PublishPendingVifBatch
  BY <1>27 DEF PublishPendingVifBatch, RingVarsTyped
<1>28. CASE ExecuteVU
  BY <1>28 DEF ExecuteVU, RingVarsTyped
<1>29. ASSUME NEW r \in path1.leaving, NEW intact \in BOOLEAN, LoadCommitted(r, intact)
      PROVE  RingVarsTyped'
  <2>1. ring' = ring \/ ring' = [ring EXCEPT !.accepting = FALSE]
    BY <1>29 DEF LoadCommitted, StopAccepting
  <2>2. UNCHANGED <<waiting_slot, sema, retire, left>>
    BY <1>29 DEF LoadCommitted
  <2>3. ring' \in RingType
    BY <2>1 DEF RingVarsTyped, RingType
  <2> QED BY <2>2, <2>3 DEF RingVarsTyped
<1>30. CASE StorePublished
  BY <1>30 DEF StorePublished, RingVarsTyped
<1>31. ASSUME NEW n \in 0 .. InputRingSlotCount, Initialize(n)
      PROVE  RingVarsTyped'
  <2>1. waiting_slot' = NoSlot /\ UNCHANGED <<retire, left>>
    BY <1>31 DEF Initialize
  <2>2. \/ ring' = [ring EXCEPT !.count = IF n = 0 THEN @ ELSE n] /\ UNCHANGED sema
        \/ /\ ring' = [active |-> TRUE, accepting |-> TRUE, initialized |-> TRUE,
                       count |-> n, current |-> 0]
           /\ sema' = 0
    BY <1>31 DEF Initialize
  <2>3. 0 \in Slot
    BY Sizes0 DEF Slot
  <2>4. ring' \in RingType
    <3>1. CASE ring' = [ring EXCEPT !.count = IF n = 0 THEN @ ELSE n]
      <4>1. ring \in RingType /\ n \in 0 .. InputRingSlotCount
        BY <1>31 DEF RingVarsTyped
      <4> QED BY <3>1, <4>1 DEF RingType
    <3>2. CASE ring' = [active |-> TRUE, accepting |-> TRUE, initialized |-> TRUE,
                        count |-> n, current |-> 0]
      <4>1. n \in 0 .. InputRingSlotCount
        BY <1>31
      <4> QED BY <2>3, <3>2, <4>1 DEF RingType
    <3> QED BY <2>2, <3>1, <3>2
  <2>5. sema' \in {NoSema, 0, 1}
    BY <2>2 DEF RingVarsTyped
  <2> QED BY <2>1, <2>4, <2>5 DEF RingVarsTyped
<1>32. CASE Unpublish
  <2>1. ring' = [ring EXCEPT !.active = FALSE] /\ UNCHANGED <<waiting_slot, sema, retire, left>>
    BY <1>32 DEF Unpublish
  <2>2. ring' \in RingType
    BY <2>1 DEF RingVarsTyped, RingType
  <2> QED BY <2>1, <2>2 DEF RingVarsTyped
<1>33. CASE Stop
  <2>1. ring' = [ring EXCEPT !.accepting = FALSE] /\ UNCHANGED <<waiting_slot, sema, retire, left>>
    BY <1>33 DEF Stop
  <2>2. ring' \in RingType
    BY <2>1 DEF RingVarsTyped, RingType
  <2> QED BY <2>1, <2>2 DEF RingVarsTyped
<1>34. CASE WakeWaiter
  BY <1>34 DEF WakeWaiter, RingVarsTyped, Signalled, NoSema, NoSlot
<1>35. CASE PollReferences
  BY <1>35 DEF PollReferences, RingVarsTyped
<1>36. CASE PollReferenceCalls
  BY <1>36 DEF PollReferenceCalls, RingVarsTyped
<1>37. CASE PollCaptureCalls
  BY <1>37 DEF PollCaptureCalls, RingVarsTyped
<1>38. CASE RefuseShutdown
  BY <1>38 DEF RefuseShutdown, RingVarsTyped
<1>39. CASE Unmap
  <2>1. 0 \in Slot /\ 0 \in 0 .. InputRingSlotCount
    BY Sizes0 DEF Slot
  <2>2. ring' = [ring EXCEPT !.current = 0, !.count = 0, !.initialized = FALSE]
        /\ sema' = NoSema /\ UNCHANGED <<waiting_slot, retire, left>>
    BY <1>39 DEF Unmap
  <2>3. ring' \in RingType
    BY <2>1, <2>2 DEF RingVarsTyped, RingType
  <2> QED BY <2>2, <2>3 DEF RingVarsTyped
<1>40. CASE UNCHANGED ringVars
  BY <1>40 DEF ringVars, RingVarsTyped
<1> QED
  BY <1>1, <1>2, <1>3, <1>4, <1>5, <1>6, <1>7, <1>8, <1>9, <1>10, <1>11, <1>12, 
     <1>13, <1>14, <1>15, <1>16, <1>17, <1>18, <1>19, <1>20, <1>21, <1>22, <1>23, 
     <1>24, <1>25, <1>26, <1>27, <1>28, <1>29, <1>30, <1>31, <1>32, <1>33, <1>34, 
     <1>35, <1>36, <1>37, <1>38, <1>39, <1>40, RunStays
     DEF RingNext, CaptureStep, ReferenceStep, FinishSpan, ShutdownStep

\* What of the ring a step leaves alone, and where the threads are after it
LifeFrame ==
    /\ ring' \in RingType /\ ring'.initialized = ring.initialized
    /\ ring'.count = ring.count /\ (ring'.active => ring.active)
    /\ (ring'.accepting => ring.accepting)
    /\ ring.initialized => ring'.current < ring.count
    /\ ring.initialized /\ sema # NoSema => sema' # NoSema

\* A step that keeps the ring mapped keeps RingLife, if it takes no thread
\* where the ring has to be alive and may not be.
LEMMA LifeStays ==
  ASSUME IInv, LifeFrame, NEW t \in Thread, Moves(t),
         th'[t].at \in InShutdown => t = "GS",
         th'[t].at \in Critical \union {"lock"} =>
             th[t].at \in Critical \union {"lock"} \/ ring.active,
         th'[t].at \in InShutdown =>
             ring.initialized /\ ~ring'.active /\ (th'[t].at # "stop" => ~ring'.accepting),
         th'[t].at = "unmap" => \A p \in Producer : th[p].at \notin InCapture
  PROVE  RingLife'
<1>1. RingLife /\ \A u \in Thread : u # t => th'[u] = th[u]
  BY DEF IInv, Moves
<1>2. "GS" \in Thread /\ \A p \in Producer : p \in Thread /\ p # "GS"
  BY DEF Thread, Producer
<1>3. /\ ring'.active => ring'.initialized
      /\ ring'.accepting => ring'.initialized
      /\ ring'.initialized => /\ ring'.count >= MinimumInputRingSlotCount
                              /\ ring'.current < ring'.count /\ sema' # NoSema
  BY <1>1 DEF LifeFrame, RingLife
<1>4. th'["GS"].at \in InShutdown => ring'.initialized /\ ~ring'.active
  BY <1>1, <1>2 DEF LifeFrame, RingLife
<1>5. th'["GS"].at \in InShutdown \ {"stop"} => ~ring'.accepting
  BY <1>1, <1>2 DEF LifeFrame, RingLife
<1>6. ASSUME ~ring'.initialized \/ th'["GS"].at = "unmap", NEW p \in Producer
      PROVE  th'[p].at \notin {"lock"} \union Critical
  <2>1. CASE t = p
    <3>1. ~ring.initialized \/ th["GS"].at = "unmap"
      BY <1>1, <1>2, <1>6, <2>1 DEF LifeFrame
    <3>2. th[p].at \notin {"lock"} \union Critical /\ ~ring.active
      BY <1>1, <3>1 DEF RingLife, InShutdown
    <3> QED BY <2>1, <3>2
  <2>2. CASE t # p
    <3>1. th'[p] = th[p]
      BY <1>1, <1>2, <2>2
    <3>2. CASE ~ring.initialized \/ th["GS"].at = "unmap"
      BY <1>1, <3>1, <3>2 DEF RingLife
    <3>3. CASE ~(~ring.initialized \/ th["GS"].at = "unmap")
      <4>1. t = "GS" /\ th'[t].at = "unmap"
        BY <1>1, <1>2, <1>6, <3>3 DEF LifeFrame
      <4>2. th[p].at \notin InCapture
        BY <4>1
      <4> QED BY <3>1, <4>2 DEF InCapture
    <3> QED BY <3>2, <3>3
  <2> QED BY <2>1, <2>2
<1> QED BY <1>3, <1>4, <1>5, <1>6 DEF RingLife

LEMMA SameRing ==
  ASSUME IInv, UNCHANGED <<ring, sema>>
  PROVE  LifeFrame
BY RingFacts DEF LifeFrame, RingType

LEMMA StoppedRing ==
  ASSUME IInv, ring' = ring \/ ring' = [ring EXCEPT !.accepting = FALSE], UNCHANGED sema
  PROVE  LifeFrame
<1>1. ring \in RingType
  BY RingFacts DEF RingType
<1>2. ring' \in RingType /\ ring'.initialized = ring.initialized /\ ring'.count = ring.count
      /\ ring'.active = ring.active /\ (ring'.accepting => ring.accepting)
      /\ ring'.current = ring.current
  BY <1>1 DEF RingType
<1> QED BY <1>2, RingFacts DEF LifeFrame

\* Every step keeps RingLife.
LEMMA LifeStep ==
  ASSUME IInv, [Next]_vars
  PROVE  RingLife'
<1>1. ASSUME NEW p \in Producer, CaptureRawVifPayload(p)
      PROVE  RingLife'
  <2>1. UNCHANGED <<ring, sema>>
    BY <1>1 DEF CaptureRawVifPayload
  <2>2. LifeFrame
    BY <2>1, SameRing
  <2> QED BY <1>1, <2>2, CaptureRawVifPayloadGoes, LifeStays DEF Critical, InCapture,
             InCall, InShutdown
<1>2. ASSUME NEW p \in Producer, LoadActiveRing(p)
      PROVE  RingLife'
  <2>1. UNCHANGED <<ring, sema>> /\ (th'[p].at = "lock" => ring.active)
    <3>1. Become(p, IF ring.active /\ ring.accepting THEN "lock" ELSE "leave")
      BY <1>2 DEF LoadActiveRing
    <3>2. CASE ring.active /\ ring.accepting
      BY <1>2, <3>2 DEF LoadActiveRing
    <3>3. CASE ~(ring.active /\ ring.accepting)
      <4>1. Become(p, "leave")
        BY <3>1, <3>3
      <4>2. th'[p].at = "leave"
        BY <4>1, BecomeFacts, ThreadFacts DEF Where
      <4> QED BY <1>2, <4>2 DEF LoadActiveRing
    <3> QED BY <3>2, <3>3
  <2>2. LifeFrame
    BY <2>1, SameRing
  <2>3. Goes(p, "load", {"lock", "leave"})
    BY <1>2, LoadActiveRingGoes
  <2> QED BY <2>1, <2>2, <2>3, LifeStays DEF Goes, Critical, InCapture, InCall, InShutdown
<1>3. ASSUME NEW p \in Producer, LockCapture(p)
      PROVE  RingLife'
  <2>1. UNCHANGED <<ring, sema>>
    BY <1>3 DEF LockCapture
  <2>2. LifeFrame
    BY <2>1, SameRing
  <2> QED BY <1>3, <2>2, LockCaptureGoes, LifeStays DEF Goes, Critical, InCapture, InCall,
             InShutdown
<1>4. ASSUME NEW p \in Producer, TestAccepting(p)
      PROVE  RingLife'
  <2>1. UNCHANGED <<ring, sema>>
    BY <1>4 DEF TestAccepting
  <2>2. LifeFrame
    BY <2>1, SameRing
  <2> QED BY <1>4, <2>2, TestAcceptingGoes, LifeStays DEF Goes, Critical, InCapture, InCall,
             InShutdown
<1>5. ASSUME NEW p \in Producer, Reserve(p)
      PROVE  RingLife'
  <2>1. (ring' = ring \/ ring' = [ring EXCEPT !.accepting = FALSE]) /\ UNCHANGED sema
    BY <1>5 DEF Reserve, StopAccepting
  <2>2. LifeFrame
    BY <2>1, StoppedRing
  <2>3. /\ p \in Thread /\ Moves(p) /\ th[p].at = "reserve"
        /\ th'[p].at \in {"leave", "empty", "fill"}
    BY <1>5, ReserveGoes
  <2> QED BY <2>2, <2>3, LifeStays DEF Critical, InCapture, InCall, InShutdown
<1>6. ASSUME NEW p \in Producer, BeginGeneration(p)
      PROVE  RingLife'
  <2>1. UNCHANGED <<ring, sema>>
    BY <1>6 DEF BeginGeneration
  <2>2. LifeFrame
    BY <2>1, SameRing
  <2> QED BY <1>6, <2>2, BeginGenerationGoes, LifeStays DEF Goes, Critical, InCapture,
             InCall, InShutdown
<1>7. ASSUME NEW p \in Producer, NEW intact \in BOOLEAN, Recycle(p, intact)
      PROVE  RingLife'
  <2>1. UNCHANGED sema
        /\ \/ ring' = [ring EXCEPT !.accepting = FALSE]
           \/ ring' = [ring EXCEPT !.current = NextSlot]
    BY <1>7 DEF Recycle, StopAccepting
  <2>2. NextSlot \in Slot /\ NextSlot < ring.count
    BY <1>7, RecycleGoes, NextSlotIsThere DEF Goes, Critical
  <2>3. ring \in RingType
    BY RingFacts DEF RingType
  <2>4. ASSUME ring' = [ring EXCEPT !.current = NextSlot]
        PROVE  LifeFrame
    <3>1. ring' \in RingType /\ ring'.initialized = ring.initialized
          /\ ring'.count = ring.count /\ ring'.active = ring.active
          /\ ring'.accepting = ring.accepting /\ ring'.current = NextSlot
      BY <2>2, <2>3, <2>4 DEF RingType
    <3> HIDE DEF NextSlot
    <3> QED BY <2>1, <2>2, <3>1 DEF LifeFrame
  <2>5. LifeFrame
    <3>1. CASE ring' = [ring EXCEPT !.accepting = FALSE]
      BY <2>1, <3>1, StoppedRing
    <3> QED BY <2>1, <2>4, <3>1
  <2> QED BY <1>7, <2>5, RecycleGoes, LifeStays DEF Goes, Critical, InCapture, InCall,
             InShutdown
<1>8. ASSUME NEW p \in Producer, FindOwned(p)
      PROVE  RingLife'
  <2>1. UNCHANGED <<ring, sema>>
    BY <1>8 DEF FindOwned
  <2>2. LifeFrame
    BY <2>1, SameRing
  <2> QED BY <1>8, <2>2, FindOwnedGoes, LifeStays DEF Goes, Critical, InCapture, InCall,
             InShutdown
<1>9. ASSUME NEW p \in Producer, ArmWaiter(p)
      PROVE  RingLife'
  <2>1. UNCHANGED <<ring, sema>>
    BY <1>9 DEF ArmWaiter
  <2>2. LifeFrame
    BY <2>1, SameRing
  <2> QED BY <1>9, <2>2, ArmWaiterGoes, LifeStays DEF Goes, Critical, InCapture, InCall,
             InShutdown
<1>10. ASSUME NEW p \in Producer, Recheck(p)
      PROVE  RingLife'
  <2>1. UNCHANGED <<ring, sema>>
    BY <1>10 DEF Recheck
  <2>2. LifeFrame
    BY <2>1, SameRing
  <2> QED BY <1>10, <2>2, RecheckGoes, LifeStays DEF Goes, Critical, InCapture, InCall,
             InShutdown
<1>11. ASSUME NEW p \in Producer, Disarm(p)
      PROVE  RingLife'
  <2>1. UNCHANGED <<ring, sema>>
    BY <1>11 DEF Disarm
  <2>2. LifeFrame
    BY <2>1, SameRing
  <2> QED BY <1>11, <2>2, DisarmGoes, LifeStays DEF Goes, Critical, InCapture, InCall,
             InShutdown
<1>12. ASSUME NEW p \in Producer, RequestGpuVuInputRetirement(p)
      PROVE  RingLife'
  <2>1. UNCHANGED <<ring, sema>>
    BY <1>12 DEF RequestGpuVuInputRetirement
  <2>2. LifeFrame
    BY <2>1, SameRing
  <2> QED BY <1>12, <2>2, RequestGpuVuInputRetirementGoes, LifeStays DEF Goes, Critical,
             InCapture, InCall, InShutdown
<1>13. ASSUME NEW p \in Producer, WaitSlotReleased(p)
      PROVE  RingLife'
  <2>1. UNCHANGED ring /\ (ring.initialized /\ sema # NoSema => sema' # NoSema)
    BY <1>13 DEF WaitSlotReleased, Signalled, NoSema, IInv, TypeOK
  <2>2. LifeFrame
    BY <2>1, RingFacts DEF LifeFrame, RingType
  <2> QED BY <1>13, <2>2, WaitSlotReleasedGoes, LifeStays DEF Goes, Critical, InCapture,
             InCall, InShutdown
<1>14. ASSUME NEW p \in Producer, Fill(p)
      PROVE  RingLife'
  <2>1. UNCHANGED <<ring, sema>>
    BY <1>14 DEF Fill
  <2>2. LifeFrame
    BY <2>1, SameRing
  <2> QED BY <1>14, <2>2, FillGoes, LifeStays DEF Goes, Critical, InCapture, InCall,
             InShutdown
<1>15. ASSUME NEW p \in Producer, Commit(p)
      PROVE  RingLife'
  <2>1. UNCHANGED <<ring, sema>>
    BY <1>15 DEF Commit
  <2>2. LifeFrame
    BY <2>1, SameRing
  <2> QED BY <1>15, <2>2, CommitGoes, LifeStays DEF Critical, InCapture, InCall, InShutdown
<1>16. ASSUME NEW p \in Producer, LeaveCapture(p)
      PROVE  RingLife'
  <2>1. UNCHANGED <<ring, sema>>
    BY <1>16 DEF LeaveCapture
  <2>2. LifeFrame
    BY <2>1, SameRing
  <2>3. p \in Thread /\ Moves(p) /\ th'[p].at \in {"idle", "captured"}
    BY <1>16, LeaveCaptureGoes
  <2> QED BY <2>2, <2>3, LifeStays DEF Critical, InCapture, InCall, InShutdown
<1>17. CASE RetainOwnership
  <2>1. UNCHANGED <<ring, sema>>
    BY <1>17 DEF RetainOwnership
  <2>2. LifeFrame
    BY <2>1, SameRing
  <2> QED BY <1>17, <2>2, RetainOwnershipGoes, LifeStays DEF Goes, Critical, InCapture,
             InCall, InShutdown
<1>18. CASE ConfirmRetain
  <2>1. UNCHANGED <<ring, sema>>
    BY <1>18 DEF ConfirmRetain
  <2>2. LifeFrame
    BY <2>1, SameRing
  <2> QED BY <1>18, <2>2, ConfirmRetainGoes, LifeStays DEF Goes, Critical, InCapture,
             InCall, InShutdown
<1>19. ASSUME NEW t \in Thread, ReleaseOwnership(t)
      PROVE  RingLife'
  <2>1. UNCHANGED <<ring, sema>>
    BY <1>19 DEF ReleaseOwnership
  <2>2. LifeFrame
    BY <2>1, SameRing
  <2> QED BY <1>19, <2>2, ReleaseOwnershipGoes, LifeStays DEF Goes, Critical, InCapture,
             InCall, InShutdown
<1>20. ASSUME NEW t \in Thread, ClaimWaiter(t)
      PROVE  RingLife'
  <2>1. UNCHANGED <<ring, sema>>
    BY <1>20 DEF ClaimWaiter
  <2>2. LifeFrame
    BY <2>1, SameRing
  <2> QED BY <1>20, <2>2, ClaimWaiterGoes, LifeStays DEF Goes, Critical, InCapture, InCall,
             InShutdown
<1>21. ASSUME NEW t \in Thread, SignalWaiter(t)
      PROVE  RingLife'
  <2>1. UNCHANGED ring /\ (ring.initialized /\ sema # NoSema => sema' # NoSema)
    BY <1>21 DEF SignalWaiter, Signalled, NoSema, IInv, TypeOK
  <2>2. LifeFrame
    BY <2>1, RingFacts DEF LifeFrame, RingType
  <2> QED BY <1>21, <2>2, SignalWaiterGoes, LifeStays DEF Goes, Critical, InCapture, InCall,
             InShutdown
<1>22. ASSUME NEW t \in Thread, ExitReferenceCall(t)
      PROVE  RingLife'
  <2>1. UNCHANGED <<ring, sema>>
    BY <1>22 DEF ExitReferenceCall
  <2>2. LifeFrame
    BY <2>1, SameRing
  <2> QED BY <1>22, <2>2, ExitReferenceCallGoes, LifeStays DEF Critical, InCapture, InCall,
             InShutdown
<1>23. CASE SeparateSpan
  <2>1. UNCHANGED <<ring, sema>>
    BY <1>23 DEF SeparateSpan
  <2>2. LifeFrame
    BY <2>1, SameRing
  <2> QED BY <1>23, <2>2, SeparateSpanGoes, LifeStays DEF Critical, InCapture, InCall,
             InShutdown
<1>24. ASSUME NEW r \in held["batch"], MergeSpan(r)
      PROVE  RingLife'
  <2>1. UNCHANGED <<ring, sema>>
    BY <1>24 DEF MergeSpan
  <2>2. LifeFrame
    BY <2>1, SameRing
  <2> QED BY <1>24, <2>2, MergeSpanGoes, LifeStays DEF Critical, InCapture, InCall,
             InShutdown
<1>25. ASSUME NEW r \in held["due"] \union Stale, Retain(r)
      PROVE  RingLife'
  <2>1. UNCHANGED <<ring, sema>>
    BY <1>25 DEF Retain
  <2>2. LifeFrame
    BY <2>1, SameRing
  <2> QED BY <1>25, <2>2, RetainGoes, LifeStays DEF Critical, InCapture, InCall, InShutdown
<1>26. ASSUME NEW h \in Holder, NEW r \in held[h], Release(h, r)
      PROVE  RingLife'
  <2>1. UNCHANGED <<ring, sema>>
    BY <1>26 DEF Release
  <2>2. LifeFrame
    BY <2>1, SameRing
  <2> QED BY <1>26, <2>2, ReleaseGoes, LifeStays DEF Critical, InCapture, InCall, InShutdown
<1>27. CASE PublishPendingVifBatch
  BY <1>27 DEF PublishPendingVifBatch, IInv, RingLife
<1>28. CASE ExecuteVU
  BY <1>28 DEF ExecuteVU, IInv, RingLife
<1>29. ASSUME NEW r \in path1.leaving, NEW intact \in BOOLEAN, LoadCommitted(r, intact)
      PROVE  RingLife'
  <2>1. (ring' = ring \/ ring' = [ring EXCEPT !.accepting = FALSE]) /\ UNCHANGED sema
    BY <1>29 DEF LoadCommitted
  <2>2. LifeFrame
    BY <2>1, StoppedRing
  <2>3. "MTVU" \in Thread /\ Moves("MTVU") /\ th'["MTVU"].at \in {"idle", "publish"}
    BY <1>29, LoadCommittedGoes
  <2> QED BY <2>2, <2>3, LifeStays DEF Critical, InCapture, InCall, InShutdown
<1>30. CASE StorePublished
  <2>1. UNCHANGED <<ring, sema>>
    BY <1>30 DEF StorePublished
  <2>2. LifeFrame
    BY <2>1, SameRing
  <2> QED BY <1>30, <2>2, StorePublishedGoes, LifeStays DEF Critical, InCapture, InCall,
             InShutdown
<1>31. ASSUME NEW n \in 0 .. InputRingSlotCount, Initialize(n)
      PROVE  RingLife'
  <2>1. /\ th' = th /\ ~ring.initialized /\ (\A t \in Thread : th[t].at = "idle") /\ RingLife
    BY <1>31, InitializeStays DEF IInv
  <2>4. n \in Nat /\ MinimumInputRingSlotCount \in Nat /\ ring \in RingType
    BY <1>31, Sizes0, RingFacts DEF RingType
  <2>2. CASE n < MinimumInputRingSlotCount
    <3>1. ring' = [ring EXCEPT !.count = IF n = 0 THEN @ ELSE n]
      BY <1>31, <2>2 DEF Initialize
    <3>2. /\ ring'.active = ring.active /\ ring'.accepting = ring.accepting
          /\ ring'.initialized = ring.initialized
      BY <2>4, <3>1 DEF RingType
    <3> QED BY <2>1, <3>2 DEF RingLife
  <2>3. CASE ~(n < MinimumInputRingSlotCount)
    <3>1. /\ ring' = [active |-> TRUE, accepting |-> TRUE, initialized |-> TRUE,
                      count |-> n, current |-> 0]
          /\ sema' = 0
      BY <1>31, <2>3 DEF Initialize
    <3>3. n >= MinimumInputRingSlotCount
      BY <2>3, <2>4
    <3>2. th'["GS"].at = "idle"
      BY <2>1 DEF Thread
    <3> QED BY <3>1, <3>2, <3>3, Sizes0 DEF RingLife, InShutdown, NoSema
  <2> QED BY <2>2, <2>3
<1>32. CASE Unpublish
  <2>1. ring' = [ring EXCEPT !.active = FALSE] /\ UNCHANGED sema /\ ring.initialized
    BY <1>32 DEF Unpublish
  <2>2. ring \in RingType
    BY RingFacts DEF RingType
  <2>3. LifeFrame /\ ~ring'.active
    BY <2>1, <2>2, RingFacts DEF LifeFrame, RingType
  <2> QED BY <1>32, <2>1, <2>3, UnpublishGoes, LifeStays DEF Goes, Critical, InCapture,
             InCall, InShutdown
<1>33. CASE Stop
  <2>1. ring' = [ring EXCEPT !.accepting = FALSE] /\ UNCHANGED sema /\ RingLife
    BY <1>33 DEF Stop, IInv
  <2>2. ring \in RingType
    BY RingFacts DEF RingType
  <2>3. LifeFrame /\ ~ring'.accepting /\ ring'.active = ring.active
    BY <2>1, <2>2, RingFacts DEF LifeFrame, RingType
  <2> QED BY <1>33, <2>1, <2>3, StopGoes, LifeStays DEF Goes, RingLife, Critical, InCapture,
             InCall, InShutdown
<1>34. CASE WakeWaiter
  <2>1. UNCHANGED ring /\ (ring.initialized /\ sema # NoSema => sema' # NoSema)
    BY <1>34 DEF WakeWaiter, Signalled, NoSema, IInv, TypeOK
  <2>2. LifeFrame
    BY <2>1, RingFacts DEF LifeFrame, RingType
  <2>3. RingLife
    BY DEF IInv
  <2> QED BY <1>34, <2>1, <2>2, <2>3, WakeWaiterGoes, LifeStays DEF Goes, RingLife,
             Critical, InCapture, InCall, InShutdown
<1>35. CASE PollReferences
  <2>1. UNCHANGED <<ring, sema>> /\ RingLife
    BY <1>35 DEF PollReferences, IInv
  <2>2. LifeFrame
    BY <2>1, SameRing
  <2> QED BY <1>35, <2>1, <2>2, PollReferencesGoes, LifeStays DEF Goes, RingLife, Critical,
             InCapture, InCall, InShutdown
<1>36. CASE PollReferenceCalls
  <2>1. UNCHANGED <<ring, sema>> /\ RingLife
    BY <1>36 DEF PollReferenceCalls, IInv
  <2>2. LifeFrame
    BY <2>1, SameRing
  <2> QED BY <1>36, <2>1, <2>2, PollReferenceCallsGoes, LifeStays DEF Goes, RingLife,
             Critical, InCapture, InCall, InShutdown
<1>37. CASE PollCaptureCalls
  <2>1. UNCHANGED <<ring, sema>> /\ RingLife
    BY <1>37 DEF PollCaptureCalls, IInv
  <2>2. LifeFrame
    BY <2>1, SameRing
  <2>3. Goes("GS", "capture_calls", {"unmap", "references"})
    BY <1>37, PollCaptureCallsGoes
  <2>4. th'["GS"].at = "unmap" => calls.capture = 0
    <3>1. CASE calls.capture # 0
      <4>1. Become("GS", "references")
        BY <1>37, <3>1 DEF PollCaptureCalls
      <4> QED BY <2>3, <4>1, BecomeFacts, ThreadFacts DEF Goes, Where
    <3> QED BY <3>1
  <2>5. calls.capture = 0 => \A p \in Producer : th[p].at \notin InCapture
    BY DEF IInv, CallsAreCounted, In, Producer
  <2> QED BY <2>1, <2>2, <2>3, <2>4, <2>5, LifeStays DEF Goes, RingLife, Critical,
             InCapture, InCall, InShutdown
<1>38. CASE RefuseShutdown
  <2>1. UNCHANGED <<ring, sema>>
    BY <1>38 DEF RefuseShutdown
  <2>2. LifeFrame
    BY <2>1, SameRing
  <2> QED BY <1>38, <2>2, RefuseShutdownGoes, LifeStays DEF Goes, Critical, InCapture,
             InCall, InShutdown
<1>39. CASE Unmap
  <2>1. ring' = [ring EXCEPT !.current = 0, !.count = 0, !.initialized = FALSE]
    BY <1>39 DEF Unmap
  <2>2. ring \in RingType
    BY RingFacts DEF RingType
  <2>3. Goes("GS", "unmap", {"idle"}) /\ RingLife
    BY <1>39, UnmapGoes DEF IInv
  <2>4. ~ring.active /\ ~ring.accepting /\ \A p \in Producer : th[p].at \notin {"lock"} \union Critical
    BY <2>3 DEF Goes, RingLife, InShutdown
  <2>5. ~ring'.active /\ ~ring'.accepting /\ ~ring'.initialized
    BY <2>1, <2>2, <2>4 DEF RingType
  <2>6. \A p \in Producer : th'[p] = th[p]
    BY <2>3 DEF Goes, Moves, Thread, Producer
  <2>7. th'["GS"].at = "idle"
    BY <2>3 DEF Goes
  <2> QED BY <2>4, <2>5, <2>6, <2>7 DEF RingLife, InShutdown
<1>40. CASE UNCHANGED ringVars
  BY <1>40 DEF ringVars, IInv, RingLife
<1> QED
  BY <1>1, <1>2, <1>3, <1>4, <1>5, <1>6, <1>7, <1>8, <1>9, <1>10, <1>11, <1>12, 
     <1>13, <1>14, <1>15, <1>16, <1>17, <1>18, <1>19, <1>20, <1>21, <1>22, <1>23, 
     <1>24, <1>25, <1>26, <1>27, <1>28, <1>29, <1>30, <1>31, <1>32, <1>33, <1>34, 
     <1>35, <1>36, <1>37, <1>38, <1>39, <1>40, RunStays
     DEF RingNext, CaptureStep, ReferenceStep, FinishSpan, ShutdownStep

-----------------------------------------------------------------------------
(* The wake-up of a blocked producer *)

Sleeping == {"recheck", "disarm", "request", "wait"}
Count(x, S) == IF x.at \in S THEN 1 ELSE 0

LEMMA CountType ==
  ASSUME NEW x, NEW S
  PROVE  Count(x, S) \in {0, 1} /\ (Count(x, S) = 1 <=> x.at \in S)
BY DEF Count

\* The two cardinalities of WakeupIsUnique, thread by thread
LEMMA WakeupCounts ==
  ASSUME NEW f, f \in [Thread -> ThreadState], f["GS"].at \notin Sleeping
  PROVE  /\ Cardinality({p \in Producer : f[p].at \in {"recheck", "disarm", "request", "wait"}})
                = Count(f["EE"], Sleeping) + Count(f["MTVU"], Sleeping) + Count(f["GS"], Sleeping)
         /\ Cardinality({t \in Thread : f[t].at = "signal"})
                = Count(f["EE"], {"signal"}) + Count(f["MTVU"], {"signal"})
                  + Count(f["GS"], {"signal"})
<1> DEFINE A == {p \in Producer : f[p].at \in {"recheck", "disarm", "request", "wait"}}
           B == {t \in Thread : f[t].at = "signal"}
<1>1. A \in SUBSET Thread /\ B \in SUBSET Thread
  BY DEF Thread
<1>2. /\ "EE" \in A <=> f["EE"].at \in Sleeping
      /\ "MTVU" \in A <=> f["MTVU"].at \in Sleeping
      /\ "GS" \in A <=> f["GS"].at \in Sleeping
      /\ "EE" \in B <=> f["EE"].at \in {"signal"}
      /\ "MTVU" \in B <=> f["MTVU"].at \in {"signal"}
      /\ "GS" \in B <=> f["GS"].at \in {"signal"}
  BY DEF Producer, Thread, Sleeping
<1> HIDE DEF A, B
<1>3. Cardinality(A) = Count(f["EE"], Sleeping) + Count(f["MTVU"], Sleeping) + Count(f["GS"], Sleeping)
  BY <1>1, <1>2, ThreadCard DEF Count
<1>4. Cardinality(B) = Count(f["EE"], {"signal"}) + Count(f["MTVU"], {"signal"}) + Count(f["GS"], {"signal"})
  BY <1>1, <1>2, ThreadCard DEF Count
<1> QED BY <1>3, <1>4 DEF A, B

\* Waking, as a number: what is on offer and what the semaphore holds
Offered(w) == IF w = NoSlot THEN 0 ELSE 1

LEMMA GsNeverSleeps ==
  ASSUME IInv, [Next]_vars
  PROVE  th["GS"].at \notin Sleeping /\ th'["GS"].at \notin Sleeping
<1>1. th["GS"].at \in Places("GS")
  BY ThreadFacts DEF ThreadIsTyped, Thread
<1>2. th'["GS"].at \in Places("GS")
  BY OrderlyStep DEF ThreadsAreTyped, ThreadIsTyped, Thread
<1> QED BY <1>1, <1>2 DEF Places, InCapture, Critical, InCall, InShutdown, Sleeping

\* At most one producer is inside CapturePayload()'s lock.
LEMMA OneProducer ==
  ASSUME IInv, NEW p \in Producer, NEW q \in Producer, th[p].at \in Critical, th[q].at \in Critical
  PROVE  p = q
<1>1. capture_mutex = p /\ capture_mutex = q
  BY DEF IInv, MutexIsHeld
<1> QED BY <1>1

LEMMA OneSleeper ==
  ASSUME IInv, ring.initialized
  PROVE  LET a == Count(th["EE"], Sleeping) + Count(th["MTVU"], Sleeping) + Count(th["GS"], Sleeping)
             b == Count(th["EE"], {"signal"}) + Count(th["MTVU"], {"signal"})
                  + Count(th["GS"], {"signal"})
         IN  a = sema + b + Offered(waiting_slot) /\ a <= 1
<1> DEFINE a == Count(th["EE"], Sleeping) + Count(th["MTVU"], Sleeping) + Count(th["GS"], Sleeping)
           b == Count(th["EE"], {"signal"}) + Count(th["MTVU"], {"signal"})
                + Count(th["GS"], {"signal"})
<1>1. th["GS"].at \notin Sleeping
  <2>1. th["GS"].at \in Places("GS")
    BY ThreadFacts DEF ThreadIsTyped, Thread
  <2> QED BY <2>1 DEF Places, InCapture, Critical, InCall, InShutdown, Sleeping
<1>2. a = Cardinality(Sleeper) /\ b = Cardinality({t \in Thread : At(t, "signal")})
  BY <1>1, WakeupCounts, ThreadFacts DEF Sleeper, At
<1>3. a = sema + b + Offered(waiting_slot)
  <2> HIDE DEF a, b
  <2> QED BY <1>2 DEF IInv, WakeupIsUnique, Offered
<1>4. ~(th["EE"].at \in Sleeping /\ th["MTVU"].at \in Sleeping)
  <2>1. "EE" \in Producer /\ "MTVU" \in Producer
    BY DEF Producer
  <2> QED BY <2>1, OneProducer DEF Sleeping, Critical
<1>5. a <= 1
  BY <1>1, <1>4 DEF Count
<1> QED BY <1>3, <1>5

\* The balance of a step
LEMMA WakeupBalance ==
  ASSUME IInv, [Next]_vars, NEW t \in Thread, Moves(t), ring'.initialized => ring.initialized,
         ring.initialized =>
             Count(th'[t], Sleeping) - Count(th[t], Sleeping) =
                 sema' - sema + Offered(waiting_slot') - Offered(waiting_slot)
                 + Count(th'[t], {"signal"}) - Count(th[t], {"signal"})
  PROVE  WakeupIsUnique'
<1> SUFFICES ASSUME ring'.initialized
             PROVE  Cardinality(Sleeper') = sema' + Cardinality({u \in Thread : At(u, "signal")'})
                                    + (IF waiting_slot' = NoSlot THEN 0 ELSE 1)
  BY DEF WakeupIsUnique
<1> DEFINE a == Count(th["EE"], Sleeping) + Count(th["MTVU"], Sleeping) + Count(th["GS"], Sleeping)
           b == Count(th["EE"], {"signal"}) + Count(th["MTVU"], {"signal"})
                + Count(th["GS"], {"signal"})
           c == Count(th'["EE"], Sleeping) + Count(th'["MTVU"], Sleeping) + Count(th'["GS"], Sleeping)
           d == Count(th'["EE"], {"signal"}) + Count(th'["MTVU"], {"signal"})
                + Count(th'["GS"], {"signal"})
<1>1. a = sema + b + Offered(waiting_slot)
  BY OneSleeper
<1>2. Cardinality(Sleeper') = c /\ Cardinality({u \in Thread : At(u, "signal")'}) = d
  BY GsNeverSleeps, WakeupCounts, OrderlyStep DEF Sleeper, At
<1>3. sema \in Int /\ sema' \in Int
  BY RingVarsStep DEF IInv, TypeOK, RingVarsTyped, NoSema
<1>4. c = sema' + d + Offered(waiting_slot')
  <2> DEFINE s1 == Count(th["EE"], Sleeping)
             s2 == Count(th["MTVU"], Sleeping)
             s3 == Count(th["GS"], Sleeping)
             b1 == Count(th["EE"], {"signal"})
             b2 == Count(th["MTVU"], {"signal"})
             b3 == Count(th["GS"], {"signal"})
             c1 == Count(th'["EE"], Sleeping)
             c2 == Count(th'["MTVU"], Sleeping)
             c3 == Count(th'["GS"], Sleeping)
             d1 == Count(th'["EE"], {"signal"})
             d2 == Count(th'["MTVU"], {"signal"})
             d3 == Count(th'["GS"], {"signal"})
             o == Offered(waiting_slot)
             n == Offered(waiting_slot')
  <2>1. \A u \in Thread : u # t => th'[u] = th[u]
    BY DEF Moves
  <2>2. "EE" \in Thread /\ "MTVU" \in Thread /\ "GS" \in Thread /\ t \in {"EE", "MTVU", "GS"}
    BY DEF Thread, Producer
  <2>3. o \in Int /\ n \in Int /\ ring.initialized
    BY DEF Offered
  <2>4. /\ s1 \in Int /\ s2 \in Int /\ s3 \in Int /\ b1 \in Int /\ b2 \in Int /\ b3 \in Int
        /\ c1 \in Int /\ c2 \in Int /\ c3 \in Int /\ d1 \in Int /\ d2 \in Int /\ d3 \in Int
    BY DEF Count
  <2>5. Count(th'[t], Sleeping) - Count(th[t], Sleeping) =
              sema' - sema + n - o + Count(th'[t], {"signal"}) - Count(th[t], {"signal"})
    BY <2>3
  <2>6. \/ /\ c1 - s1 = sema' - sema + n - o + d1 - b1
           /\ c2 = s2 /\ d2 = b2 /\ c3 = s3 /\ d3 = b3
        \/ /\ c2 - s2 = sema' - sema + n - o + d2 - b2
           /\ c1 = s1 /\ d1 = b1 /\ c3 = s3 /\ d3 = b3
        \/ /\ c3 - s3 = sema' - sema + n - o + d3 - b3
           /\ c1 = s1 /\ d1 = b1 /\ c2 = s2 /\ d2 = b2
    <3> HIDE DEF o, n
    <3>1. CASE t = "EE"
      BY <2>1, <2>2, <2>5, <3>1
    <3>2. CASE t = "MTVU"
      BY <2>1, <2>2, <2>5, <3>2
    <3>3. CASE t = "GS"
      BY <2>1, <2>2, <2>5, <3>3
    <3> QED BY <2>2, <3>1, <3>2, <3>3
  <2>7. s1 + s2 + s3 = sema + (b1 + b2 + b3) + o
    BY <1>1
  <2> HIDE DEF s1, s2, s3, b1, b2, b3, c1, c2, c3, d1, d2, d3, o, n
  <2>8. c1 + c2 + c3 = sema' + (d1 + d2 + d3) + n
    <3> DEFINE x == sema
               y == sema'
    <3>1. x \in Int /\ y \in Int
      BY <1>3
    <3> HIDE DEF x, y
    <3>2. s1 + s2 + s3 = x + (b1 + b2 + b3) + o
      BY <2>7 DEF x
    <3>3. CASE /\ c1 - s1 = y - x + n - o + d1 - b1
               /\ c2 = s2 /\ d2 = b2 /\ c3 = s3 /\ d3 = b3
      <4>1. c1 + c2 + c3 = y + (d1 + d2 + d3) + n
        BY ONLY <2>3, <2>4, <3>1, <3>2, <3>3
      <4> QED BY <4>1 DEF y
    <3>4. CASE /\ c2 - s2 = y - x + n - o + d2 - b2
               /\ c1 = s1 /\ d1 = b1 /\ c3 = s3 /\ d3 = b3
      <4>1. c1 + c2 + c3 = y + (d1 + d2 + d3) + n
        BY ONLY <2>3, <2>4, <3>1, <3>2, <3>4
      <4> QED BY <4>1 DEF y
    <3>5. CASE /\ c3 - s3 = y - x + n - o + d3 - b3
               /\ c1 = s1 /\ d1 = b1 /\ c2 = s2 /\ d2 = b2
      <4>1. c1 + c2 + c3 = y + (d1 + d2 + d3) + n
        BY ONLY <2>3, <2>4, <3>1, <3>2, <3>5
      <4> QED BY <4>1 DEF y
    <3> QED BY <2>6, <3>3, <3>4, <3>5 DEF x, y
  <2> QED BY <2>8 DEF c1, c2, c3, d1, d2, d3, n
<1> HIDE DEF a, b, c, d
<1> QED BY <1>2, <1>4 DEF Offered

LEMMA WakeupQuiet ==
  ASSUME IInv, [Next]_vars, NEW t \in Thread, Moves(t), ring'.initialized => ring.initialized,
         UNCHANGED <<sema, waiting_slot>>,
         th'[t].at \in Sleeping <=> th[t].at \in Sleeping,
         th'[t].at = "signal" <=> th[t].at = "signal"
  PROVE  WakeupIsUnique'
<1>1. /\ Count(th'[t], Sleeping) = Count(th[t], Sleeping) /\ Count(th[t], Sleeping) \in Int
      /\ Count(th'[t], {"signal"}) = Count(th[t], {"signal"}) /\ Count(th[t], {"signal"}) \in Int
      /\ Offered(waiting_slot') = Offered(waiting_slot) /\ Offered(waiting_slot) \in Int
  BY DEF Count, Offered
<1>2. sema' = sema /\ sema \in Int
  BY DEF IInv, TypeOK, NoSema
<1>3. Count(th'[t], Sleeping) - Count(th[t], Sleeping) =
                 sema' - sema + Offered(waiting_slot') - Offered(waiting_slot)
                 + Count(th'[t], {"signal"}) - Count(th[t], {"signal"})
  BY <1>1, <1>2
<1> QED BY <1>3, WakeupBalance

\* Every step keeps WakeupIsUnique.
LEMMA WakeupStep ==
  ASSUME IInv, [Next]_vars
  PROVE  WakeupIsUnique'
<1>1. ASSUME NEW p \in Producer, CaptureRawVifPayload(p)
      PROVE  WakeupIsUnique'
  <2>1. UNCHANGED <<sema, waiting_slot>>
    BY <1>1 DEF CaptureRawVifPayload
  <2>2. ring'.initialized => ring.initialized
    BY <1>1 DEF CaptureRawVifPayload
  <2> QED BY <1>1, <2>1, <2>2, CaptureRawVifPayloadGoes, WakeupQuiet DEF Sleeping
<1>2. ASSUME NEW p \in Producer, LoadActiveRing(p)
      PROVE  WakeupIsUnique'
  <2>1. UNCHANGED <<sema, waiting_slot>>
    BY <1>2 DEF LoadActiveRing
  <2>2. ring'.initialized => ring.initialized
    BY <1>2 DEF LoadActiveRing
  <2> QED BY <1>2, <2>1, <2>2, LoadActiveRingGoes, WakeupQuiet DEF Goes, Sleeping
<1>3. ASSUME NEW p \in Producer, LockCapture(p)
      PROVE  WakeupIsUnique'
  <2>1. UNCHANGED <<sema, waiting_slot>>
    BY <1>3 DEF LockCapture
  <2>2. ring'.initialized => ring.initialized
    BY <1>3 DEF LockCapture
  <2> QED BY <1>3, <2>1, <2>2, LockCaptureGoes, WakeupQuiet DEF Goes, Sleeping
<1>4. ASSUME NEW p \in Producer, TestAccepting(p)
      PROVE  WakeupIsUnique'
  <2>1. UNCHANGED <<sema, waiting_slot>>
    BY <1>4 DEF TestAccepting
  <2>2. ring'.initialized => ring.initialized
    BY <1>4 DEF TestAccepting
  <2> QED BY <1>4, <2>1, <2>2, TestAcceptingGoes, WakeupQuiet DEF Goes, Sleeping
<1>5. ASSUME NEW p \in Producer, Reserve(p)
      PROVE  WakeupIsUnique'
  <2>1. UNCHANGED <<sema, waiting_slot>>
    BY <1>5 DEF Reserve
  <2>2. ring'.initialized => ring.initialized
    <3>1. \/ ring' = ring
          \/ ring' = [ring EXCEPT !.accepting = FALSE]
          \/ ring' = [ring EXCEPT !.current = NextSlot]
      BY <1>5 DEF Reserve, StopAccepting
    <3> QED BY <3>1, RingFacts
  <2>3. p \in Thread /\ Moves(p) /\ th[p].at = "reserve" /\ th'[p].at \in {"leave", "empty", "fill"}
    BY <1>5, ReserveGoes
  <2> QED BY <2>1, <2>2, <2>3, WakeupQuiet DEF Sleeping
<1>6. ASSUME NEW p \in Producer, BeginGeneration(p)
      PROVE  WakeupIsUnique'
  <2>1. UNCHANGED <<sema, waiting_slot>>
    BY <1>6 DEF BeginGeneration
  <2>2. ring'.initialized => ring.initialized
    BY <1>6 DEF BeginGeneration
  <2> QED BY <1>6, <2>1, <2>2, BeginGenerationGoes, WakeupQuiet DEF Goes, Sleeping
<1>7. ASSUME NEW p \in Producer, NEW intact \in BOOLEAN, Recycle(p, intact)
      PROVE  WakeupIsUnique'
  <2>1. UNCHANGED <<sema, waiting_slot>>
    BY <1>7 DEF Recycle
  <2>2. ring'.initialized => ring.initialized
    <3>1. \/ ring' = ring
          \/ ring' = [ring EXCEPT !.accepting = FALSE]
          \/ ring' = [ring EXCEPT !.current = NextSlot]
      BY <1>7 DEF Recycle, StopAccepting
    <3> QED BY <3>1, RingFacts
  <2> QED BY <1>7, <2>1, <2>2, RecycleGoes, WakeupQuiet DEF Goes, Sleeping
<1>8. ASSUME NEW p \in Producer, FindOwned(p)
      PROVE  WakeupIsUnique'
  <2>1. UNCHANGED <<sema, waiting_slot>>
    BY <1>8 DEF FindOwned
  <2>2. ring'.initialized => ring.initialized
    BY <1>8 DEF FindOwned
  <2> QED BY <1>8, <2>1, <2>2, FindOwnedGoes, WakeupQuiet DEF Goes, Sleeping
<1>9. ASSUME NEW p \in Producer, ArmWaiter(p)
      PROVE  WakeupIsUnique'
  <2>1. UNCHANGED <<ring, sema>> /\ Goes(p, "arm", {"recheck", "leave"})
    BY <1>9, ArmWaiterGoes DEF ArmWaiter
  <2>2. NextSlot \in Slot
    BY <2>1, NextSlotIsThere DEF Goes, Critical
  <2>3. CASE waiting_slot = NoSlot
    <3>1. waiting_slot' = NextSlot /\ Become(p, "recheck")
      BY <1>9, <2>3 DEF ArmWaiter
    <3>2. th'[p].at = "recheck"
      BY <2>1, <3>1, BecomeFacts, ThreadFacts DEF Goes, Where
    <3>3. Offered(waiting_slot') = 1 /\ Offered(waiting_slot) = 0
      BY <2>2, <2>3, <3>1 DEF Offered, Slot, NoSlot
    <3>4. Count(th'[p], Sleeping) = 1 /\ Count(th[p], Sleeping) = 0
          /\ Count(th'[p], {"signal"}) = 0 /\ Count(th[p], {"signal"}) = 0
      BY <2>1, <3>2 DEF Count, Goes, Sleeping
    <3>5. sema' = sema /\ sema \in Int
      BY <2>1 DEF IInv, TypeOK, NoSema
    <3>6. Count(th'[p], Sleeping) - Count(th[p], Sleeping) =
                 sema' - sema + Offered(waiting_slot') - Offered(waiting_slot)
                 + Count(th'[p], {"signal"}) - Count(th[p], {"signal"})
      BY <3>3, <3>4, <3>5
    <3> QED BY <2>1, <3>6, WakeupBalance DEF Goes
  <2>4. CASE waiting_slot # NoSlot
    <3>1. UNCHANGED waiting_slot /\ Become(p, "leave")
      BY <1>9, <2>4 DEF ArmWaiter, Return
    <3>2. th'[p].at = "leave"
      BY <2>1, <3>1, BecomeFacts, ThreadFacts DEF Goes, Where
    <3> QED BY <2>1, <3>1, <3>2, WakeupQuiet DEF Goes, Sleeping
  <2> QED BY <2>3, <2>4
<1>10. ASSUME NEW p \in Producer, Recheck(p)
      PROVE  WakeupIsUnique'
  <2>1. UNCHANGED <<sema, waiting_slot>>
    BY <1>10 DEF Recheck
  <2>2. ring'.initialized => ring.initialized
    BY <1>10 DEF Recheck
  <2> QED BY <1>10, <2>1, <2>2, RecheckGoes, WakeupQuiet DEF Goes, Sleeping
<1>11. ASSUME NEW p \in Producer, Disarm(p)
      PROVE  WakeupIsUnique'
  <2>1. UNCHANGED <<ring, sema>> /\ Goes(p, "disarm", {"loop", "request"})
    BY <1>11, DisarmGoes DEF Disarm
  <2>2. NextSlot \in Slot
    BY <2>1, NextSlotIsThere DEF Goes, Critical
  <2>3. CASE waiting_slot = NextSlot
    <3>1. waiting_slot' = NoSlot /\ Become(p, "loop")
      BY <1>11, <2>3 DEF Disarm
    <3>2. th'[p].at = "loop"
      BY <2>1, <3>1, BecomeFacts, ThreadFacts DEF Goes, Where
    <3>3. Offered(waiting_slot') = 0 /\ Offered(waiting_slot) = 1
      BY <2>2, <2>3, <3>1 DEF Offered, Slot, NoSlot
    <3>4. Count(th'[p], Sleeping) = 0 /\ Count(th[p], Sleeping) = 1
          /\ Count(th'[p], {"signal"}) = 0 /\ Count(th[p], {"signal"}) = 0
      BY <2>1, <3>2 DEF Count, Goes, Sleeping
    <3>5. sema' = sema /\ sema \in Int
      BY <2>1 DEF IInv, TypeOK, NoSema
    <3>6. Count(th'[p], Sleeping) - Count(th[p], Sleeping) =
                 sema' - sema + Offered(waiting_slot') - Offered(waiting_slot)
                 + Count(th'[p], {"signal"}) - Count(th[p], {"signal"})
      BY <3>3, <3>4, <3>5
    <3> QED BY <2>1, <3>6, WakeupBalance DEF Goes
  <2>4. CASE waiting_slot # NextSlot
    <3>1. UNCHANGED waiting_slot /\ Become(p, "request")
      BY <1>11, <2>4 DEF Disarm
    <3>2. th'[p].at = "request"
      BY <2>1, <3>1, BecomeFacts, ThreadFacts DEF Goes, Where
    <3> QED BY <2>1, <3>1, <3>2, WakeupQuiet DEF Goes, Sleeping
  <2> QED BY <2>3, <2>4
<1>12. ASSUME NEW p \in Producer, RequestGpuVuInputRetirement(p)
      PROVE  WakeupIsUnique'
  <2>1. UNCHANGED <<sema, waiting_slot>>
    BY <1>12 DEF RequestGpuVuInputRetirement
  <2>2. ring'.initialized => ring.initialized
    BY <1>12 DEF RequestGpuVuInputRetirement
  <2> QED BY <1>12, <2>1, <2>2, RequestGpuVuInputRetirementGoes, WakeupQuiet DEF Goes,
             Sleeping
<1>13. ASSUME NEW p \in Producer, WaitSlotReleased(p)
      PROVE  WakeupIsUnique'
  <2>1. UNCHANGED ring /\ Goes(p, "wait", {"loop"}) /\ sema > 0 /\ sema' = sema - 1
    BY <1>13, WaitSlotReleasedGoes DEF WaitSlotReleased
  <2>2. ring.initialized
    BY <2>1, CaptureIsMapped DEF Goes, Critical
  <2>3. /\ Count(th["EE"], Sleeping) \in {0, 1} /\ Count(th["MTVU"], Sleeping) \in {0, 1}
        /\ Count(th["GS"], Sleeping) \in {0, 1} /\ Count(th["EE"], {"signal"}) \in {0, 1}
        /\ Count(th["MTVU"], {"signal"}) \in {0, 1} /\ Count(th["GS"], {"signal"}) \in {0, 1}
        /\ Offered(waiting_slot) \in {0, 1} /\ sema \in {NoSema, 0, 1}
    BY DEF Count, Offered, IInv, TypeOK
  <2>4. Offered(waiting_slot) = 0 /\ sema = 1
    BY <2>1, <2>2, <2>3, OneSleeper DEF NoSema
  <2>5. waiting_slot = NoSlot
    BY <2>4 DEF Offered
  <2>6. waiting_slot' = NoSlot
    BY <1>13, <2>5 DEF WaitSlotReleased
  <2>7. Offered(waiting_slot') = 0
    BY <2>6 DEF Offered
  <2>8. Count(th'[p], Sleeping) = 0 /\ Count(th[p], Sleeping) = 1
        /\ Count(th'[p], {"signal"}) = 0 /\ Count(th[p], {"signal"}) = 0
    BY <2>1 DEF Count, Goes, Sleeping
  <2>9. Count(th'[p], Sleeping) - Count(th[p], Sleeping) =
               sema' - sema + Offered(waiting_slot') - Offered(waiting_slot)
               + Count(th'[p], {"signal"}) - Count(th[p], {"signal"})
    BY <2>1, <2>4, <2>7, <2>8
  <2> QED BY <2>1, <2>9, WakeupBalance DEF Goes
<1>14. ASSUME NEW p \in Producer, Fill(p)
      PROVE  WakeupIsUnique'
  <2>1. UNCHANGED <<sema, waiting_slot>>
    BY <1>14 DEF Fill
  <2>2. ring'.initialized => ring.initialized
    BY <1>14 DEF Fill
  <2> QED BY <1>14, <2>1, <2>2, FillGoes, WakeupQuiet DEF Goes, Sleeping
<1>15. ASSUME NEW p \in Producer, Commit(p)
      PROVE  WakeupIsUnique'
  <2>1. UNCHANGED <<sema, waiting_slot>>
    BY <1>15 DEF Commit
  <2>2. ring'.initialized => ring.initialized
    BY <1>15 DEF Commit
  <2> QED BY <1>15, <2>1, <2>2, CommitGoes, WakeupQuiet DEF Sleeping
<1>16. ASSUME NEW p \in Producer, LeaveCapture(p)
      PROVE  WakeupIsUnique'
  <2>1. UNCHANGED <<sema, waiting_slot>>
    BY <1>16 DEF LeaveCapture
  <2>2. ring'.initialized => ring.initialized
    BY <1>16 DEF LeaveCapture
  <2>3. p \in Thread /\ Moves(p) /\ th[p].at = "leave" /\ th'[p].at \in {"idle", "captured"}
    BY <1>16, LeaveCaptureGoes
  <2> QED BY <2>1, <2>2, <2>3, WakeupQuiet DEF Sleeping
<1>17. CASE RetainOwnership
  <2>1. UNCHANGED <<sema, waiting_slot>>
    BY <1>17 DEF RetainOwnership
  <2>2. ring'.initialized => ring.initialized
    BY <1>17 DEF RetainOwnership
  <2> QED BY <1>17, <2>1, <2>2, RetainOwnershipGoes, WakeupQuiet DEF Goes, Sleeping
<1>18. CASE ConfirmRetain
  <2>1. UNCHANGED <<sema, waiting_slot>>
    BY <1>18 DEF ConfirmRetain
  <2>2. ring'.initialized => ring.initialized
    BY <1>18 DEF ConfirmRetain
  <2> QED BY <1>18, <2>1, <2>2, ConfirmRetainGoes, WakeupQuiet DEF Goes, Sleeping
<1>19. ASSUME NEW t \in Thread, ReleaseOwnership(t)
      PROVE  WakeupIsUnique'
  <2>1. UNCHANGED <<sema, waiting_slot>>
    BY <1>19 DEF ReleaseOwnership
  <2>2. ring'.initialized => ring.initialized
    BY <1>19 DEF ReleaseOwnership
  <2> QED BY <1>19, <2>1, <2>2, ReleaseOwnershipGoes, WakeupQuiet DEF Goes, Sleeping
<1>20. ASSUME NEW t \in Thread, ClaimWaiter(t)
      PROVE  WakeupIsUnique'
  <2>1. UNCHANGED <<ring, sema>> /\ Goes(t, "claim", {"signal", "exit"})
    BY <1>20, ClaimWaiterGoes DEF ClaimWaiter
  <2>2. th[t].payload.slot \in Slot
    BY <2>1, ThreadFacts, SlotFacts DEF Goes, ThreadIsTyped, InCall
  <2>3. CASE waiting_slot = th[t].payload.slot
    <3>1. waiting_slot' = NoSlot /\ Become(t, "signal")
      BY <1>20, <2>3 DEF ClaimWaiter
    <3>2. th'[t].at = "signal"
      BY <2>1, <3>1, BecomeFacts, ThreadFacts DEF Goes, Where
    <3>3. Offered(waiting_slot') = 0 /\ Offered(waiting_slot) = 1
      BY <2>2, <2>3, <3>1 DEF Offered, Slot, NoSlot
    <3>4. Count(th'[t], Sleeping) = 0 /\ Count(th[t], Sleeping) = 0
          /\ Count(th'[t], {"signal"}) = 1 /\ Count(th[t], {"signal"}) = 0
      BY <2>1, <3>2 DEF Count, Goes, Sleeping
    <3>5. sema' = sema /\ sema \in Int
      BY <2>1 DEF IInv, TypeOK, NoSema
    <3>6. Count(th'[t], Sleeping) - Count(th[t], Sleeping) =
                 sema' - sema + Offered(waiting_slot') - Offered(waiting_slot)
                 + Count(th'[t], {"signal"}) - Count(th[t], {"signal"})
      BY <3>3, <3>4, <3>5
    <3> QED BY <2>1, <3>6, WakeupBalance DEF Goes
  <2>4. CASE waiting_slot # th[t].payload.slot
    <3>1. UNCHANGED waiting_slot /\ Become(t, "exit")
      BY <1>20, <2>4 DEF ClaimWaiter
    <3>2. th'[t].at = "exit"
      BY <2>1, <3>1, BecomeFacts, ThreadFacts DEF Goes, Where
    <3> QED BY <2>1, <3>1, <3>2, WakeupQuiet DEF Goes, Sleeping
  <2> QED BY <2>3, <2>4
<1>21. ASSUME NEW t \in Thread, SignalWaiter(t)
      PROVE  WakeupIsUnique'
  <2>1. UNCHANGED <<ring, waiting_slot>> /\ Goes(t, "signal", {"exit"}) /\ sema' = Signalled
    BY <1>21, SignalWaiterGoes DEF SignalWaiter
  <2>2. /\ Count(th["EE"], Sleeping) \in {0, 1} /\ Count(th["MTVU"], Sleeping) \in {0, 1}
        /\ Count(th["GS"], Sleeping) \in {0, 1} /\ Count(th["EE"], {"signal"}) \in {0, 1}
        /\ Count(th["MTVU"], {"signal"}) \in {0, 1} /\ Count(th["GS"], {"signal"}) \in {0, 1}
        /\ Offered(waiting_slot) \in {0, 1} /\ sema \in {NoSema, 0, 1}
    BY DEF Count, Offered, IInv, TypeOK
  <2>3. Count(th'[t], Sleeping) = 0 /\ Count(th[t], Sleeping) = 0
        /\ Count(th'[t], {"signal"}) = 0 /\ Count(th[t], {"signal"}) = 1
    BY <2>1 DEF Count, Goes, Sleeping
  <2>4. Offered(waiting_slot') = Offered(waiting_slot)
    BY <2>1
  <2>5. ASSUME ring.initialized
        PROVE  sema' = 1 /\ sema = 0
    <3>1. sema # NoSema
      BY <2>5 DEF IInv, RingLife
    <3>2. t \in {"EE", "MTVU", "GS"}
      BY DEF Thread, Producer
    <3>3. sema # 1
      BY <2>2, <2>3, <2>5, <3>2, OneSleeper
    <3> QED BY <2>1, <2>2, <3>1, <3>3 DEF Signalled
  <2>6. ring.initialized => Count(th'[t], Sleeping) - Count(th[t], Sleeping) =
               sema' - sema + Offered(waiting_slot') - Offered(waiting_slot)
               + Count(th'[t], {"signal"}) - Count(th[t], {"signal"})
    BY <2>2, <2>3, <2>4, <2>5
  <2> QED BY <2>1, <2>6, WakeupBalance DEF Goes
<1>22. ASSUME NEW t \in Thread, ExitReferenceCall(t)
      PROVE  WakeupIsUnique'
  <2>1. UNCHANGED <<sema, waiting_slot>>
    BY <1>22 DEF ExitReferenceCall
  <2>2. ring'.initialized => ring.initialized
    BY <1>22 DEF ExitReferenceCall
  <2> QED BY <1>22, <2>1, <2>2, ExitReferenceCallGoes, WakeupQuiet DEF Sleeping
<1>23. CASE SeparateSpan
  <2>1. UNCHANGED <<sema, waiting_slot>>
    BY <1>23 DEF SeparateSpan
  <2>2. ring'.initialized => ring.initialized
    BY <1>23 DEF SeparateSpan
  <2> QED BY <1>23, <2>1, <2>2, SeparateSpanGoes, WakeupQuiet DEF Sleeping
<1>24. ASSUME NEW r \in held["batch"], MergeSpan(r)
      PROVE  WakeupIsUnique'
  <2>1. UNCHANGED <<sema, waiting_slot>>
    BY <1>24 DEF MergeSpan
  <2>2. ring'.initialized => ring.initialized
    BY <1>24 DEF MergeSpan
  <2> QED BY <1>24, <2>1, <2>2, MergeSpanGoes, WakeupQuiet DEF Sleeping
<1>25. ASSUME NEW r \in held["due"] \union Stale, Retain(r)
      PROVE  WakeupIsUnique'
  <2>1. UNCHANGED <<sema, waiting_slot>>
    BY <1>25 DEF Retain
  <2>2. ring'.initialized => ring.initialized
    BY <1>25 DEF Retain
  <2> QED BY <1>25, <2>1, <2>2, RetainGoes, WakeupQuiet DEF Sleeping
<1>26. ASSUME NEW h \in Holder, NEW r \in held[h], Release(h, r)
      PROVE  WakeupIsUnique'
  <2>1. UNCHANGED <<sema, waiting_slot>>
    BY <1>26 DEF Release
  <2>2. ring'.initialized => ring.initialized
    BY <1>26 DEF Release
  <2> DEFINE t == Owner(h)
  <2>3. t \in Thread /\ Moves(t) /\ th[t].at = "idle" /\ th'[t].at = "release"
    BY <1>26, ReleaseGoes
  <2> HIDE DEF t
  <2> QED BY <2>1, <2>2, <2>3, WakeupQuiet DEF Sleeping
<1>27. CASE PublishPendingVifBatch
  <2>1. UNCHANGED <<ring, sema, waiting_slot, th>> /\ "GS" \in Thread
    BY <1>27 DEF PublishPendingVifBatch, Thread
  <2>2. Moves("GS")
    BY <2>1, ThreadFacts DEF Moves
  <2> QED BY <2>1, <2>2, WakeupQuiet
<1>28. CASE ExecuteVU
  <2>1. UNCHANGED <<ring, sema, waiting_slot, th>> /\ "GS" \in Thread
    BY <1>28 DEF ExecuteVU, Thread
  <2>2. Moves("GS")
    BY <2>1, ThreadFacts DEF Moves
  <2> QED BY <2>1, <2>2, WakeupQuiet
<1>29. ASSUME NEW r \in path1.leaving, NEW intact \in BOOLEAN, LoadCommitted(r, intact)
      PROVE  WakeupIsUnique'
  <2>1. UNCHANGED <<sema, waiting_slot>>
    BY <1>29 DEF LoadCommitted
  <2>2. ring'.initialized => ring.initialized
    <3>1. \/ ring' = ring
          \/ ring' = [ring EXCEPT !.accepting = FALSE]
          \/ ring' = [ring EXCEPT !.current = NextSlot]
      BY <1>29 DEF LoadCommitted, StopAccepting
    <3> QED BY <3>1, RingFacts
  <2>3. "MTVU" \in Thread /\ Moves("MTVU") /\ th["MTVU"].at = "idle" /\ th'["MTVU"].at \in {"idle", "publish"}
    BY <1>29, LoadCommittedGoes
  <2> QED BY <2>1, <2>2, <2>3, WakeupQuiet DEF Sleeping
<1>30. CASE StorePublished
  <2>1. UNCHANGED <<sema, waiting_slot>>
    BY <1>30 DEF StorePublished
  <2>2. ring'.initialized => ring.initialized
    BY <1>30 DEF StorePublished
  <2> QED BY <1>30, <2>1, <2>2, StorePublishedGoes, WakeupQuiet DEF Sleeping
<1>31. ASSUME NEW n \in 0 .. InputRingSlotCount, Initialize(n)
      PROVE  WakeupIsUnique'
  <2>1. /\ th' = th /\ ~ring.initialized /\ (\A t \in Thread : th[t].at = "idle")
        /\ waiting_slot' = NoSlot
    BY <1>31, InitializeStays DEF Initialize
  <2>2. CASE n < MinimumInputRingSlotCount
    <3>1. ring' = [ring EXCEPT !.count = IF n = 0 THEN @ ELSE n]
      BY <1>31, <2>2 DEF Initialize
    <3>2. ring'.initialized = ring.initialized
      BY <3>1, RingFacts
    <3> QED BY <2>1, <3>2 DEF WakeupIsUnique
  <2>3. CASE ~(n < MinimumInputRingSlotCount)
    <3>1. sema' = 0
      BY <1>31, <2>3 DEF Initialize
    <3>2. Sleeper' = {} /\ {t \in Thread : At(t, "signal")'} = {}
      BY <2>1 DEF Sleeper, At, Thread
    <3>3. Cardinality({}) = 0
      BY FS_EmptySet
    <3> QED BY <2>1, <3>1, <3>2, <3>3 DEF WakeupIsUnique
  <2> QED BY <2>2, <2>3
<1>32. CASE Unpublish
  <2>1. UNCHANGED <<sema, waiting_slot>>
    BY <1>32 DEF Unpublish
  <2>2. ring'.initialized => ring.initialized
  BY <1>32, RingFacts DEF Unpublish
  <2> QED BY <1>32, <2>1, <2>2, UnpublishGoes, WakeupQuiet DEF Goes, Sleeping
<1>33. CASE Stop
  <2>1. UNCHANGED <<sema, waiting_slot>>
    BY <1>33 DEF Stop
  <2>2. ring'.initialized => ring.initialized
  BY <1>33, RingFacts DEF Stop
  <2> QED BY <1>33, <2>1, <2>2, StopGoes, WakeupQuiet DEF Goes, Sleeping
<1>34. CASE WakeWaiter
  <2>1. UNCHANGED ring /\ Goes("GS", "wake", {"references"}) /\ waiting_slot' = NoSlot
        /\ sema' = IF waiting_slot # NoSlot THEN Signalled ELSE sema
    BY <1>34, WakeWaiterGoes DEF WakeWaiter
  <2>2. /\ Count(th["EE"], Sleeping) \in {0, 1} /\ Count(th["MTVU"], Sleeping) \in {0, 1}
        /\ Count(th["GS"], Sleeping) \in {0, 1} /\ Count(th["EE"], {"signal"}) \in {0, 1}
        /\ Count(th["MTVU"], {"signal"}) \in {0, 1} /\ Count(th["GS"], {"signal"}) \in {0, 1}
        /\ Offered(waiting_slot) \in {0, 1} /\ sema \in {NoSema, 0, 1}
    BY DEF Count, Offered, IInv, TypeOK
  <2>3. Count(th'["GS"], Sleeping) = 0 /\ Count(th["GS"], Sleeping) = 0
        /\ Count(th'["GS"], {"signal"}) = 0 /\ Count(th["GS"], {"signal"}) = 0
    BY <2>1 DEF Count, Goes, Sleeping
  <2>4. Offered(waiting_slot') = 0
    BY <2>1 DEF Offered
  <2>5. ASSUME ring.initialized
        PROVE  sema' = sema + Offered(waiting_slot)
    <3>1. sema # NoSema
      BY <2>5 DEF IInv, RingLife
    <3>2. CASE waiting_slot = NoSlot
      BY <2>1, <2>2, <3>2 DEF Offered, NoSema
    <3>3. CASE waiting_slot # NoSlot
      <4>1. Offered(waiting_slot) = 1 /\ sema' = 1
        BY <2>1, <3>1, <3>3 DEF Offered, Signalled
      <4>2. sema # 1
        BY <2>2, <2>5, <4>1, OneSleeper
      <4> QED BY <2>2, <3>1, <4>1, <4>2
    <3> QED BY <3>2, <3>3
  <2>6. ring.initialized => Count(th'["GS"], Sleeping) - Count(th["GS"], Sleeping) =
               sema' - sema + Offered(waiting_slot') - Offered(waiting_slot)
               + Count(th'["GS"], {"signal"}) - Count(th["GS"], {"signal"})
    BY <2>2, <2>3, <2>4, <2>5 DEF NoSema
  <2> QED BY <2>1, <2>6, WakeupBalance DEF Goes
<1>35. CASE PollReferences
  <2>1. UNCHANGED <<sema, waiting_slot>>
    BY <1>35 DEF PollReferences
  <2>2. ring'.initialized => ring.initialized
    BY <1>35 DEF PollReferences
  <2> QED BY <1>35, <2>1, <2>2, PollReferencesGoes, WakeupQuiet DEF Goes, Sleeping
<1>36. CASE PollReferenceCalls
  <2>1. UNCHANGED <<sema, waiting_slot>>
    BY <1>36 DEF PollReferenceCalls
  <2>2. ring'.initialized => ring.initialized
    BY <1>36 DEF PollReferenceCalls
  <2> QED BY <1>36, <2>1, <2>2, PollReferenceCallsGoes, WakeupQuiet DEF Goes, Sleeping
<1>37. CASE PollCaptureCalls
  <2>1. UNCHANGED <<sema, waiting_slot>>
    BY <1>37 DEF PollCaptureCalls
  <2>2. ring'.initialized => ring.initialized
    BY <1>37 DEF PollCaptureCalls
  <2> QED BY <1>37, <2>1, <2>2, PollCaptureCallsGoes, WakeupQuiet DEF Goes, Sleeping
<1>38. CASE RefuseShutdown
  <2>1. UNCHANGED <<sema, waiting_slot>>
    BY <1>38 DEF RefuseShutdown
  <2>2. ring'.initialized => ring.initialized
    BY <1>38 DEF RefuseShutdown
  <2> QED BY <1>38, <2>1, <2>2, RefuseShutdownGoes, WakeupQuiet DEF Goes, Sleeping
<1>39. CASE Unmap
  <2>1. ring' = [ring EXCEPT !.current = 0, !.count = 0, !.initialized = FALSE]
    BY <1>39 DEF Unmap
  <2>2. ~ring'.initialized
    BY <2>1, RingFacts
  <2> QED BY <2>2 DEF WakeupIsUnique
<1>40. CASE UNCHANGED ringVars
  <2>1. UNCHANGED <<ring, sema, waiting_slot, th>> /\ "GS" \in Thread
    BY <1>40 DEF ringVars, Thread
  <2>2. Moves("GS")
    BY <2>1, ThreadFacts DEF Moves
  <2> QED BY <2>1, <2>2, WakeupQuiet
<1> QED
  BY <1>1, <1>2, <1>3, <1>4, <1>5, <1>6, <1>7, <1>8, <1>9, <1>10, <1>11, <1>12, 
     <1>13, <1>14, <1>15, <1>16, <1>17, <1>18, <1>19, <1>20, <1>21, <1>22, <1>23, 
     <1>24, <1>25, <1>26, <1>27, <1>28, <1>29, <1>30, <1>31, <1>32, <1>33, <1>34, 
     <1>35, <1>36, <1>37, <1>38, <1>39, <1>40, RunStays
     DEF RingNext, CaptureStep, ReferenceStep, FinishSpan, ShutdownStep

-----------------------------------------------------------------------------
(* Counting the owners of a slot *)

\* Of a set of payloads, those in slot s
Of(H, s) == {r \in H : r.slot = s}

LEMMA OfFacts ==
  ASSUME NEW H, NEW s, IsFiniteSet(H)
  PROVE  IsFiniteSet(Of(H, s)) /\ Cardinality(Of(H, s)) \in Nat
<1>1. Of(H, s) \subseteq H
  BY DEF Of
<1>2. IsFiniteSet(Of(H, s))
  BY <1>1, FS_Subset
<1> QED BY <1>2, FS_CardinalityType

LEMMA OfAdd ==
  ASSUME NEW H, NEW s, NEW r, IsFiniteSet(H), r \notin H
  PROVE  /\ IsFiniteSet(H \union {r})
         /\ Cardinality(Of(H \union {r}, s)) =
                Cardinality(Of(H, s)) + (IF r.slot = s THEN 1 ELSE 0)
<1>1. IsFiniteSet(H \union {r})
  BY FS_AddElement
<1>2. IsFiniteSet(Of(H, s)) /\ Cardinality(Of(H, s)) \in Nat
  BY OfFacts
<1>3. CASE r.slot = s
  <2>1. Of(H \union {r}, s) = Of(H, s) \union {r} /\ r \notin Of(H, s)
    BY <1>3 DEF Of
  <2>2. Cardinality(Of(H, s) \union {r}) = Cardinality(Of(H, s)) + 1
    BY <1>2, <2>1, FS_AddElement
  <2> QED BY <1>1, <1>3, <2>1, <2>2
<1>4. CASE r.slot # s
  <2>1. Of(H \union {r}, s) = Of(H, s)
    BY <1>4 DEF Of
  <2> QED BY <1>1, <1>2, <1>4, <2>1
<1> QED BY <1>3, <1>4

LEMMA OfRemove ==
  ASSUME NEW H, NEW s, NEW r, IsFiniteSet(H), r \in H
  PROVE  /\ IsFiniteSet(H \ {r})
         /\ Cardinality(Of(H, s)) =
                Cardinality(Of(H \ {r}, s)) + (IF r.slot = s THEN 1 ELSE 0)
<1> DEFINE K == H \ {r}
<1>1. IsFiniteSet(K)
  BY FS_Subset
<1>2. H = K \union {r} /\ r \notin K
  OBVIOUS
<1> HIDE DEF K
<1>3. Cardinality(Of(K \union {r}, s)) = Cardinality(Of(K, s)) + (IF r.slot = s THEN 1 ELSE 0)
  BY <1>1, <1>2, OfAdd
<1> QED BY <1>1, <1>2, <1>3 DEF K

LEMMA OfUnion ==
  ASSUME NEW H, NEW K, NEW s, IsFiniteSet(H), IsFiniteSet(K), \A r \in K : r \notin H
  PROVE  /\ IsFiniteSet(H \union K)
         /\ Cardinality(Of(H \union K, s)) = Cardinality(Of(H, s)) + Cardinality(Of(K, s))
<1>1. IsFiniteSet(Of(H, s)) /\ IsFiniteSet(Of(K, s))
      /\ Cardinality(Of(H, s)) \in Nat /\ Cardinality(Of(K, s)) \in Nat
  BY OfFacts
<1>2. Of(H \union K, s) = Of(H, s) \union Of(K, s) /\ Of(H, s) \intersect Of(K, s) = {}
  BY DEF Of
<1>3. Cardinality(Of(H, s) \union Of(K, s)) =
          Cardinality(Of(H, s)) + Cardinality(Of(K, s)) - Cardinality(Of(H, s) \intersect Of(K, s))
  BY <1>1, FS_Union
<1>4. Cardinality(Of(H, s) \intersect Of(K, s)) = 0
  BY <1>2, FS_EmptySet
<1>5. IsFiniteSet(H \union K)
  BY FS_Union
<1> DEFINE a == Cardinality(Of(H, s))
           b == Cardinality(Of(K, s))
<1>6. a \in Nat /\ b \in Nat /\ Cardinality(Of(H \union K, s)) = a + b - 0
  BY <1>1, <1>2, <1>3, <1>4
<1> HIDE DEF a, b
<1>7. Cardinality(Of(H \union K, s)) = a + b
  BY <1>6
<1> QED BY <1>5, <1>7 DEF a, b

LEMMA OfEmpty ==
  ASSUME NEW s
  PROVE  IsFiniteSet({}) /\ Cardinality(Of({}, s)) = 0
<1>1. Of({}, s) = {}
  BY DEF Of
<1> QED BY <1>1, FS_EmptySet

\* The references of holders, and of threads
Sum(H, s) == Cardinality(Of(H["batch"], s)) + Cardinality(Of(H["journal"], s))
             + Cardinality(Of(H["due"], s)) + Cardinality(Of(H["draw"], s))
Pins(x, s) == IF x.at \in Pinning /\ x.payload.slot = s THEN 1 ELSE 0

LEMMA PinsType ==
  ASSUME NEW x, NEW s
  PROVE  Pins(x, s) \in {0, 1} /\ (Pins(x, s) = 1 <=> x.at \in Pinning /\ x.payload.slot = s)
BY DEF Pins

LEMMA InFlightCount ==
  ASSUME NEW f, NEW s
  PROVE  Cardinality({t \in Thread :
             /\ f[t].at \in {"empty", "fill", "commit", "leave", "captured", "confirm", "release"}
             /\ f[t].payload.slot = s}) = Pins(f["EE"], s) + Pins(f["MTVU"], s) + Pins(f["GS"], s)
<1> DEFINE A == {t \in Thread :
             /\ f[t].at \in {"empty", "fill", "commit", "leave", "captured", "confirm", "release"}
             /\ f[t].payload.slot = s}
<1>1. A \in SUBSET Thread
  OBVIOUS
<1>2. /\ "EE" \in A <=> f["EE"].at \in Pinning /\ f["EE"].payload.slot = s
      /\ "MTVU" \in A <=> f["MTVU"].at \in Pinning /\ f["MTVU"].payload.slot = s
      /\ "GS" \in A <=> f["GS"].at \in Pinning /\ f["GS"].payload.slot = s
  BY DEF Thread, Producer, Pinning
<1> HIDE DEF A
<1>3. Cardinality(A) = Pins(f["EE"], s) + Pins(f["MTVU"], s) + Pins(f["GS"], s)
  BY <1>1, <1>2, ThreadCard DEF Pins
<1> QED BY <1>3 DEF A

\* OwnershipIsExact, as a sum
LEMMA ExactSum ==
  ASSUME IInv, NEW s \in Slot
  PROVE  /\ slots[s].references = Sum(held, s) +
                (Pins(th["EE"], s) + Pins(th["MTVU"], s) + Pins(th["GS"], s))
         /\ Sum(held, s) \in Nat
<1>1. Cardinality(InFlight(s)) = Pins(th["EE"], s) + Pins(th["MTVU"], s) + Pins(th["GS"], s)
  BY InFlightCount DEF InFlight
<1>2. \A h \in Holder : Owned(h, s) = Cardinality(Of(held[h], s))
  BY DEF Owned, Of
<1>3. slots[s].references = Owned("batch", s) + Owned("journal", s) + Owned("due", s)
          + Owned("draw", s) + Cardinality(InFlight(s))
  BY DEF IInv, OwnershipIsExact
<1>4. "batch" \in Holder /\ "journal" \in Holder /\ "due" \in Holder /\ "draw" \in Holder
  BY DEF Holder
<1>5. \A h \in Holder : Cardinality(Of(held[h], s)) \in Nat
  BY OfFacts DEF IInv, HoldersAreDistinct
<1> QED BY <1>1, <1>2, <1>3, <1>4, <1>5 DEF Sum

\* The balance of a step, for every slot
LEMMA ExactBalance ==
  ASSUME IInv, NEW t \in Thread, Moves(t),
         \A s \in Slot : /\ Sum(held', s) \in Int /\ slots'[s].references \in Int
                         /\ slots'[s].references - slots[s].references =
                                Sum(held', s) - Sum(held, s) + Pins(th'[t], s) - Pins(th[t], s)
  PROVE  OwnershipIsExact'
<1> SUFFICES ASSUME NEW s \in Slot
             PROVE  slots'[s].references = Owned("batch", s)' + Owned("journal", s)' + Owned("due", s)'
                        + Owned("draw", s)' + Cardinality(InFlight(s)')
  BY DEF OwnershipIsExact
<1> DEFINE a1 == Pins(th["EE"], s)
           a2 == Pins(th["MTVU"], s)
           a3 == Pins(th["GS"], s)
           b1 == Pins(th'["EE"], s)
           b2 == Pins(th'["MTVU"], s)
           b3 == Pins(th'["GS"], s)
           x == Sum(held, s)
           y == Sum(held', s)
           m == slots[s].references
           n == slots'[s].references
<1>1. m = x + (a1 + a2 + a3) /\ x \in Nat
  BY ExactSum
<1>2. Cardinality(InFlight(s)') = b1 + b2 + b3
  BY InFlightCount DEF InFlight
<1>3. /\ a1 \in {0, 1} /\ a2 \in {0, 1} /\ a3 \in {0, 1}
      /\ b1 \in {0, 1} /\ b2 \in {0, 1} /\ b3 \in {0, 1} /\ y \in Int /\ n \in Int
  BY DEF Pins
<1>4. Owned("batch", s)' + Owned("journal", s)' + Owned("due", s)' + Owned("draw", s)' = y
  BY DEF Owned, Sum, Of
<1>5. n - m = y - x + Pins(th'[t], s) - Pins(th[t], s)
  OBVIOUS
<1>6. \/ n - m = y - x + b1 - a1 /\ b2 = a2 /\ b3 = a3
      \/ n - m = y - x + b2 - a2 /\ b1 = a1 /\ b3 = a3
      \/ n - m = y - x + b3 - a3 /\ b1 = a1 /\ b2 = a2
  <2> HIDE DEF x, y, m, n
  <2>1. /\ t \in {"EE", "MTVU", "GS"}
        /\ \A u \in Thread : u # t => th'[u] = th[u]
        /\ "EE" \in Thread /\ "MTVU" \in Thread /\ "GS" \in Thread
    BY DEF Moves, Thread, Producer
  <2>2. CASE t = "EE"
    <3>1. th'["MTVU"] = th["MTVU"] /\ th'["GS"] = th["GS"]
      BY ONLY <2>1, <2>2
    <3>2. b2 = a2 /\ b3 = a3 /\ Pins(th'[t], s) = b1 /\ Pins(th[t], s) = a1
      BY <2>2, <3>1
    <3> HIDE DEF a1, a2, a3, b1, b2, b3
    <3> QED BY ONLY <1>5, <3>2
  <2>3. CASE t = "MTVU"
    <3>1. th'["EE"] = th["EE"] /\ th'["GS"] = th["GS"]
      BY ONLY <2>1, <2>3
    <3>2. b1 = a1 /\ b3 = a3 /\ Pins(th'[t], s) = b2 /\ Pins(th[t], s) = a2
      BY <2>3, <3>1
    <3> HIDE DEF a1, a2, a3, b1, b2, b3
    <3> QED BY ONLY <1>5, <3>2
  <2>4. CASE t = "GS"
    <3>1. th'["EE"] = th["EE"] /\ th'["MTVU"] = th["MTVU"]
      BY ONLY <2>1, <2>4
    <3>2. b1 = a1 /\ b2 = a2 /\ Pins(th'[t], s) = b3 /\ Pins(th[t], s) = a3
      BY <2>4, <3>1
    <3> HIDE DEF a1, a2, a3, b1, b2, b3
    <3> QED BY ONLY <1>5, <3>2
  <2> QED BY <2>1, <2>2, <2>3, <2>4
<1> HIDE DEF a1, a2, a3, b1, b2, b3, x, y, m, n
<1>7. n = y + (b1 + b2 + b3)
  <2>1. CASE n - m = y - x + b1 - a1 /\ b2 = a2 /\ b3 = a3
    BY ONLY <1>1, <1>3, <2>1
  <2>2. CASE n - m = y - x + b2 - a2 /\ b1 = a1 /\ b3 = a3
    BY ONLY <1>1, <1>3, <2>2
  <2>3. CASE n - m = y - x + b3 - a3 /\ b1 = a1 /\ b2 = a2
    BY ONLY <1>1, <1>3, <2>3
  <2> QED BY <1>6, <2>1, <2>2, <2>3
<1>8. Owned("batch", s)' + Owned("journal", s)' + Owned("due", s)' + Owned("draw", s)'
          + Cardinality(InFlight(s)') = n
  BY <1>2, <1>4, <1>7
<1> QED BY <1>8 DEF n

\* A slot without references has no owner.
LEMMA Unowned ==
  ASSUME IInv, NEW s \in Slot, slots[s].references = 0
  PROVE  /\ \A h \in Holder : \A r \in held[h] : r.slot # s
         /\ \A t \in Thread : ~(th[t].at \in Pinning /\ th[t].payload.slot = s)
<1>1. /\ Pins(th["EE"], s) \in {0, 1} /\ Pins(th["MTVU"], s) \in {0, 1}
      /\ Pins(th["GS"], s) \in {0, 1}
  BY DEF Pins
<1>2. "batch" \in Holder /\ "journal" \in Holder /\ "due" \in Holder /\ "draw" \in Holder
  BY DEF Holder
<1>3. \A h \in Holder : IsFiniteSet(Of(held[h], s)) /\ Cardinality(Of(held[h], s)) \in Nat
  BY OfFacts DEF IInv, HoldersAreDistinct
<1>4. /\ Pins(th["EE"], s) = 0 /\ Pins(th["MTVU"], s) = 0 /\ Pins(th["GS"], s) = 0
      /\ Sum(held, s) = 0
  <2> DEFINE x == Sum(held, s)
  <2>1. 0 = x + (Pins(th["EE"], s) + Pins(th["MTVU"], s) + Pins(th["GS"], s)) /\ x \in Nat
    BY ExactSum
  <2> HIDE DEF x
  <2>2. x = 0 /\ Pins(th["EE"], s) = 0 /\ Pins(th["MTVU"], s) = 0 /\ Pins(th["GS"], s) = 0
    BY <1>1, <2>1
  <2> QED BY <2>2 DEF x
<1>5. \A h \in Holder : Cardinality(Of(held[h], s)) = 0
  <2>1. /\ Cardinality(Of(held["batch"], s)) = 0 /\ Cardinality(Of(held["journal"], s)) = 0
        /\ Cardinality(Of(held["due"], s)) = 0 /\ Cardinality(Of(held["draw"], s)) = 0
    BY <1>2, <1>3, <1>4 DEF Sum
  <2> QED BY <2>1 DEF Holder
<1>6. \A h \in Holder : Of(held[h], s) = {}
  BY <1>3, <1>5, FS_EmptySet
<1>7. \A h \in Holder : \A r \in held[h] : r.slot # s
  BY <1>6 DEF Of
<1>8. \A t \in Thread : ~(th[t].at \in Pinning /\ th[t].payload.slot = s)
  BY <1>4, PinsType DEF Thread, Producer
<1> QED BY <1>7, <1>8

\* The only reference of a slot is that of the thread that pins it.
LEMMA Alone ==
  ASSUME IInv, NEW t \in Thread, th[t].at \in Pinning, NEW s \in Slot, th[t].payload.slot = s,
         slots[s].references = 1
  PROVE  /\ \A h \in Holder : \A r \in held[h] : r.slot # s
         /\ \A u \in Thread : u # t => ~(th[u].at \in Pinning /\ th[u].payload.slot = s)
<1>1. /\ Pins(th["EE"], s) \in {0, 1} /\ Pins(th["MTVU"], s) \in {0, 1}
      /\ Pins(th["GS"], s) \in {0, 1} /\ Pins(th[t], s) = 1
  BY DEF Pins
<1>2. "batch" \in Holder /\ "journal" \in Holder /\ "due" \in Holder /\ "draw" \in Holder
  BY DEF Holder
<1>3. \A h \in Holder : IsFiniteSet(Of(held[h], s)) /\ Cardinality(Of(held[h], s)) \in Nat
  BY OfFacts DEF IInv, HoldersAreDistinct
<1>4. t \in {"EE", "MTVU", "GS"}
  BY DEF Thread, Producer
<1>5. /\ t # "EE" => Pins(th["EE"], s) = 0
      /\ t # "MTVU" => Pins(th["MTVU"], s) = 0
      /\ t # "GS" => Pins(th["GS"], s) = 0
      /\ Sum(held, s) = 0
  <2> DEFINE x == Sum(held, s)
             a == Pins(th["EE"], s)
             b == Pins(th["MTVU"], s)
             c == Pins(th["GS"], s)
  <2>1. 1 = x + (a + b + c) /\ x \in Nat
    BY ExactSum
  <2>2. (t = "EE" => a = 1) /\ (t = "MTVU" => b = 1) /\ (t = "GS" => c = 1)
        /\ a \in {0, 1} /\ b \in {0, 1} /\ c \in {0, 1}
    BY <1>1
  <2> HIDE DEF x, a, b, c
  <2>3. x = 0 /\ (t # "EE" => a = 0) /\ (t # "MTVU" => b = 0) /\ (t # "GS" => c = 0)
    BY <1>4, <2>1, <2>2
  <2> QED BY <2>3 DEF x, a, b, c
<1>6. \A h \in Holder : Cardinality(Of(held[h], s)) = 0
  <2>1. /\ Cardinality(Of(held["batch"], s)) = 0 /\ Cardinality(Of(held["journal"], s)) = 0
        /\ Cardinality(Of(held["due"], s)) = 0 /\ Cardinality(Of(held["draw"], s)) = 0
    BY <1>2, <1>3, <1>5 DEF Sum
  <2> QED BY <2>1 DEF Holder
<1>7. \A h \in Holder : Of(held[h], s) = {}
  BY <1>3, <1>6, FS_EmptySet
<1>8. \A h \in Holder : \A r \in held[h] : r.slot # s
  BY <1>7 DEF Of
<1>9. \A u \in Thread : u # t => ~(th[u].at \in Pinning /\ th[u].payload.slot = s)
  BY <1>5, PinsType DEF Thread, Producer
<1> QED BY <1>8, <1>9

\* A pinned slot has references, of the generation that is pinned.
LEMMA Pinned ==
  ASSUME IInv, NEW t \in Thread, th[t].at \in Pinning, th[t].payload # NoPayload,
         NEW s, s = th[t].payload.slot
  PROVE  /\ th[t].payload \in Payload /\ s \in Slot
         /\ slots[s].references # 0 /\ slots[s].references \in Nat
         /\ slots[s].generation = th[t].payload.generation
<1>1. th[t].payload \in Payload
  BY ThreadFacts DEF ThreadState
<1>2. s \in Slot
  BY <1>1 DEF Payload
<1>3. slots[s].generation = th[t].payload.generation
  BY DEF IInv, PinsAreCurrent
<1> QED BY <1>1, <1>2, <1>3, Unowned, SlotFacts

-----------------------------------------------------------------------------
(* What a step does to the slots *)

OneSlot(s) ==
    /\ s \in Slot /\ slots' \in [Slot -> SlotState]
    /\ \A z \in Slot : z # s => slots'[z] = slots[z]

LEMMA ReplaceSlot ==
  ASSUME IInv, NEW s \in Slot, NEW q \in SlotState, slots' = [slots EXCEPT ![s] = q]
  PROVE  OneSlot(s) /\ slots'[s] = q
BY SlotFacts DEF OneSlot

LEMMA ReserveSlots ==
  ASSUME IInv, NEW p \in Producer, Reserve(p), ~StopAccepting(p),
         NEW c, c = ring.current,
         NEW g, g = IF Current.references = 0 THEN Current.generation + 1
                                             ELSE Current.generation
  PROVE  /\ OneSlot(c) /\ slots'[c].generation = g /\ g \in 1 .. MaxGeneration
         /\ slots'[c].references = slots[c].references + 1
         /\ slots'[c].committed = slots[c].committed
         /\ slots'[c].published = slots[c].published
         /\ slots'[c].write = slots[c].write /\ slots'[c].writer = slots[c].writer
<1> DEFINE q == [slots[c] EXCEPT !.generation = g, !.references = slots[c].references + 1]
<1>1. slots' = [slots EXCEPT ![c] = q]
  BY DEF Reserve, Current
<1>2. g \in 1 .. MaxGeneration /\ c \in Slot /\ slots[c] \in SlotState
      /\ slots[c].references \in Nat
  BY ReserveFacts, RingFacts, SlotFacts
<1>3. g \in 0 .. MaxGeneration /\ slots[c].references + 1 \in Nat
  BY <1>2, Sizes0
<1>4. /\ q \in SlotState /\ q.generation = g /\ q.references = slots[c].references + 1
      /\ q.committed = slots[c].committed /\ q.published = slots[c].published
      /\ q.write = slots[c].write /\ q.writer = slots[c].writer
  BY <1>2, <1>3 DEF SlotState
<1> HIDE DEF q
<1>5. OneSlot(c) /\ slots'[c] = q
  BY <1>1, <1>2, <1>4, ReplaceSlot
<1> QED BY <1>2, <1>4, <1>5

LEMMA BeginSlots ==
  ASSUME IInv, NEW p \in Producer, BeginGeneration(p), NEW c, c = ring.current
  PROVE  /\ OneSlot(c) /\ slots'[c].generation = slots[c].generation
         /\ slots'[c].references = slots[c].references
         /\ slots'[c].committed = 0 /\ slots'[c].published = 0
         /\ slots'[c].write = slots[c].write /\ slots'[c].writer = slots[c].writer
<1> DEFINE q == Emptied(slots[c])
<1>1. slots' = [slots EXCEPT ![c] = q]
  BY DEF BeginGeneration
<1>2. c \in Slot /\ slots[c] \in SlotState /\ 0 \in 0 .. InputRingSlotSize
  BY RingFacts, SlotFacts, Sizes0
<1>3. /\ q \in SlotState /\ q.generation = slots[c].generation
      /\ q.references = slots[c].references
      /\ q.committed = 0 /\ q.published = 0
      /\ q.write = slots[c].write /\ q.writer = slots[c].writer
  BY <1>2 DEF SlotState, Emptied
<1> HIDE DEF q
<1>4. OneSlot(c) /\ slots'[c] = q
  BY <1>1, <1>2, <1>3, ReplaceSlot
<1> QED BY <1>3, <1>4

LEMMA RenewedFacts ==
  ASSUME NEW x \in SlotState, x.generation < MaxGeneration, NEW q, q = Renewed(x)
  PROVE  /\ q \in SlotState /\ q.generation = x.generation + 1
         /\ q.references = x.references /\ q.committed = 0 /\ q.published = 0
         /\ q.write = 0 /\ q.writer = x.writer
<1> DEFINE e == Emptied(x)
<1>1. x.generation + 1 \in 0 .. MaxGeneration /\ 0 \in 0 .. InputRingSlotSize
  BY Sizes0 DEF SlotState
<1>2. /\ e \in SlotState /\ e.generation = x.generation
      /\ e.references = x.references /\ e.committed = 0 /\ e.published = 0
      /\ e.writer = x.writer
  BY <1>1 DEF SlotState, Emptied
<1>3. q = [e EXCEPT !.generation = e.generation + 1, !.write = 0]
  BY DEF Renewed
<1> HIDE DEF e
<1> QED BY <1>1, <1>2, <1>3 DEF SlotState

LEMMA RecycleSlots ==
  ASSUME IInv, NEW p \in Producer, NEW intact \in BOOLEAN, Recycle(p, intact),
         ~StopAccepting(p), NEW c, c = NextSlot
  PROVE  /\ OneSlot(c) /\ slots'[c].generation = slots[c].generation + 1
         /\ slots[c].references = 0 /\ slots'[c].references = 0
         /\ slots'[c].committed = 0 /\ slots'[c].published = 0
         /\ slots'[c].write = 0 /\ slots'[c].writer = slots[c].writer
         /\ ring' = [ring EXCEPT !.current = c]
<1> DEFINE q == Renewed(slots[c])
<1>1. /\ slots' = [slots EXCEPT ![c] = q] /\ slots[c].references = 0
      /\ ring' = [ring EXCEPT !.current = c] /\ slots[c].generation # MaxGeneration
  BY DEF Recycle
<1>2. /\ c \in Slot /\ slots[c] \in SlotState /\ slots[c].generation \in 1 .. MaxGeneration
  BY RecycleGoes, NextSlotIsThere, SlotFacts DEF Goes, Critical
<1>3. slots[c].generation < MaxGeneration
  BY <1>1, <1>2, Sizes0
<1>4. /\ q \in SlotState /\ q.generation = slots[c].generation + 1
      /\ q.references = slots[c].references /\ q.committed = 0 /\ q.published = 0
      /\ q.write = 0 /\ q.writer = slots[c].writer
  BY <1>2, <1>3, RenewedFacts
<1> HIDE DEF q
<1>5. OneSlot(c) /\ slots'[c] = q
  BY <1>1, <1>2, <1>4, ReplaceSlot
<1> QED BY <1>1, <1>4, <1>5

\* The payload of a running capture
LEMMA FillingFacts ==
  ASSUME IInv, NEW p \in Producer, th[p].at \in Filling, NEW r, r = th[p].payload
  PROVE  /\ r \in Payload /\ r.slot \in Slot /\ r.slot = ring.current
         /\ r.generation \in 0 .. MaxGeneration /\ r.offset \in Unit
         /\ r.size \in 1 .. InputRingSlotSize /\ r.offset + r.size <= InputRingSlotSize
         /\ r.offset + r.size \in 0 .. InputRingSlotSize
         /\ r.generation = slots[r.slot].generation /\ slots[r.slot].references # 0
         /\ ring.initialized /\ r.slot < ring.count /\ r # NoPayload
<1>1. r \in Payload
  BY ThreadFacts DEF ThreadIsTyped
<1>2. /\ r.slot \in Slot /\ r.generation \in 0 .. MaxGeneration /\ r.offset \in Unit
      /\ r.size \in 1 .. InputRingSlotSize
  BY <1>1 DEF Payload
<1>3. r.slot = ring.current /\ r.offset + r.size <= InputRingSlotSize
  BY DEF IInv, ReservationIsNext
<1>4. r # NoPayload
  BY <1>2 DEF NoPayload, Slot, NoSlot
<1>5. th[p].at \in Pinning /\ th[p].at \in Critical /\ p \in Thread
  BY ThreadFacts DEF Filling, Pinning, Critical
<1>6. r.generation = slots[r.slot].generation /\ slots[r.slot].references # 0
  BY <1>4, <1>5, Pinned
<1>7. ring.initialized /\ ring.current < ring.count
  BY <1>5, CaptureIsMapped, RingFacts
<1>8. r.offset + r.size \in 0 .. InputRingSlotSize
  BY <1>2, <1>3, Sizes0 DEF Unit
<1> QED BY <1>1, <1>2, <1>3, <1>4, <1>6, <1>7, <1>8

LEMMA FillSlots ==
  ASSUME IInv, NEW p \in Producer, Fill(p), NEW r, r = th[p].payload, NEW c, c = r.slot
  PROVE  /\ OneSlot(c) /\ slots'[c].generation = slots[c].generation
         /\ slots'[c].references = slots[c].references
         /\ slots'[c].committed = slots[c].committed
         /\ slots'[c].published = slots[c].published
         /\ slots'[c].write = r.offset + r.size
         /\ \A u \in Unit : slots'[c].writer[u] =
                IF u \in Covers(r) THEN r.generation ELSE slots[c].writer[u]
<1> DEFINE w == [u \in Unit |-> IF u \in Covers(r) THEN r.generation ELSE slots[c].writer[u]]
           q == [slots[c] EXCEPT !.write = r.offset + r.size, !.writer = w]
<1>1. slots' = [slots EXCEPT ![c] = q]
  BY DEF Fill, Covers
<1>2. th[p].at \in Filling
  BY FillGoes DEF Goes, Filling
<1>3. /\ c \in Slot /\ slots[c] \in SlotState /\ r.offset + r.size \in 0 .. InputRingSlotSize
      /\ r.generation \in 0 .. MaxGeneration
      /\ slots[c].writer \in [Unit -> 0 .. MaxGeneration]
  BY <1>2, FillingFacts, SlotFacts
<1>4. w \in [Unit -> 0 .. MaxGeneration]
      /\ \A u \in Unit : w[u] = IF u \in Covers(r) THEN r.generation ELSE slots[c].writer[u]
  BY <1>3
<1> HIDE DEF w
<1>5. /\ q \in SlotState /\ q.generation = slots[c].generation
      /\ q.references = slots[c].references
      /\ q.committed = slots[c].committed /\ q.published = slots[c].published
      /\ q.write = r.offset + r.size /\ q.writer = w
  BY <1>3, <1>4 DEF SlotState
<1> HIDE DEF q
<1>6. OneSlot(c) /\ slots'[c] = q
  BY <1>1, <1>3, <1>5, ReplaceSlot
<1> QED BY <1>4, <1>5, <1>6

LEMMA CommitSlots ==
  ASSUME IInv, NEW p \in Producer, Commit(p), NEW r, r = th[p].payload, NEW c, c = r.slot
  PROVE  /\ OneSlot(c) /\ slots'[c].generation = slots[c].generation
         /\ slots'[c].references = slots[c].references
         /\ slots'[c].committed = r.offset + r.size
         /\ slots'[c].published = slots[c].published
         /\ slots'[c].write = slots[c].write /\ slots'[c].writer = slots[c].writer
<1> DEFINE q == [slots[c] EXCEPT !.committed = r.offset + r.size]
<1>1. slots' = [slots EXCEPT ![c] = q]
  BY DEF Commit
<1>2. th[p].at \in Filling
  BY CommitGoes DEF Filling
<1>3. c \in Slot /\ slots[c] \in SlotState /\ r.offset + r.size \in 0 .. InputRingSlotSize
  BY <1>2, FillingFacts, SlotFacts
<1>4. /\ q \in SlotState /\ q.generation = slots[c].generation
      /\ q.references = slots[c].references
      /\ q.committed = r.offset + r.size /\ q.published = slots[c].published
      /\ q.write = slots[c].write /\ q.writer = slots[c].writer
  BY <1>3 DEF SlotState
<1> HIDE DEF q
<1>5. OneSlot(c) /\ slots'[c] = q
  BY <1>1, <1>3, <1>4, ReplaceSlot
<1> QED BY <1>4, <1>5

\* A change of the reference count alone
Counted(c, n) ==
    /\ OneSlot(c) /\ slots'[c].generation = slots[c].generation
    /\ slots'[c].references = n
    /\ slots'[c].committed = slots[c].committed /\ slots'[c].published = slots[c].published
    /\ slots'[c].write = slots[c].write /\ slots'[c].writer = slots[c].writer

LEMMA CountSlots ==
  ASSUME IInv, NEW c \in Slot, NEW n \in Nat, slots' = [slots EXCEPT ![c].references = n]
  PROVE  Counted(c, n)
<1> DEFINE q == [slots[c] EXCEPT !.references = n]
<1>1. slots' = [slots EXCEPT ![c] = q]
  OBVIOUS
<1>2. slots[c] \in SlotState
  BY SlotFacts
<1>3. /\ q \in SlotState /\ q.generation = slots[c].generation /\ q.references = n
      /\ q.committed = slots[c].committed /\ q.published = slots[c].published
      /\ q.write = slots[c].write /\ q.writer = slots[c].writer
  BY <1>2 DEF SlotState
<1> HIDE DEF q
<1>4. OneSlot(c) /\ slots'[c] = q
  BY <1>1, <1>3, ReplaceSlot
<1> QED BY <1>3, <1>4 DEF Counted

LEMMA RetainSlots ==
  ASSUME IInv, RetainOwnership, NEW r, r = th["MTVU"].payload, NEW c, c = r.slot
  PROVE  /\ r \in Payload /\ c \in Slot /\ th["MTVU"].at = "retain"
         /\ \/ /\ UNCHANGED slots /\ th'["MTVU"].at = "exit"
            \/ /\ Counted(c, slots[c].references + 1) /\ th'["MTVU"].at = "confirm"
               /\ slots[c].generation = r.generation /\ slots[c].references # 0
<1>1. th["MTVU"].at = "retain" /\ "MTVU" \in Thread
  BY RetainOwnershipGoes DEF Goes
<1>2. r \in Payload
  BY <1>1, ThreadFacts DEF ThreadIsTyped, InCall
<1>3. c \in Slot /\ slots[c].references + 1 \in Nat
  BY <1>2, SlotFacts
<1>4. CASE slots[c].generation = r.generation /\ slots[c].references # 0
  <2>1. slots' = [slots EXCEPT ![c].references = slots[c].references + 1] /\ Become("MTVU", "confirm")
    BY <1>4 DEF RetainOwnership
  <2>2. th'["MTVU"].at = "confirm"
    BY <1>1, <2>1, BecomeFacts, ThreadFacts DEF Where
  <2> QED BY <1>1, <1>2, <1>3, <1>4, <2>1, <2>2, CountSlots
<1>5. CASE ~(slots[c].generation = r.generation /\ slots[c].references # 0)
  <2>1. UNCHANGED slots /\ Become("MTVU", "exit")
    BY <1>5 DEF RetainOwnership
  <2>2. th'["MTVU"].at = "exit"
    BY <1>1, <2>1, BecomeFacts, ThreadFacts DEF Where
  <2> QED BY <1>1, <1>2, <1>3, <2>1, <2>2
<1> QED BY <1>4, <1>5

\* A release finds its reference: there is no other way out.
LEMMA ReleaseSlots ==
  ASSUME IInv, NEW t \in Thread, ReleaseOwnership(t), NEW r, r = th[t].payload, NEW c, c = r.slot
  PROVE  /\ r \in Payload /\ c \in Slot /\ th[t].at = "release"
         /\ Counted(c, slots[c].references - 1) /\ slots[c].references - 1 \in Nat
         /\ slots[c].references # 0 /\ slots[c].generation = r.generation
<1>1. th[t].at = "release"
  BY ReleaseOwnershipGoes DEF Goes
<1>2. r \in Payload
  BY <1>1, ThreadFacts DEF ThreadIsTyped, InCall
<1>3. r # NoPayload
  BY <1>2 DEF NoPayload, Slot, NoSlot, Payload
<1>4. /\ c \in Slot /\ slots[c].references # 0 /\ slots[c].references \in Nat
      /\ slots[c].generation = r.generation
  BY <1>1, <1>3, Pinned DEF Pinning
<1>5. slots' = [slots EXCEPT ![c].references = slots[c].references - 1]
  BY <1>4 DEF ReleaseOwnership
<1>6. slots[c].references - 1 \in Nat
  BY <1>4
<1> QED BY <1>1, <1>2, <1>4, <1>5, <1>6, CountSlots

LEMMA PublishSlots ==
  ASSUME IInv, StorePublished, NEW r, r = th["MTVU"].payload, NEW c, c = r.slot
  PROVE  /\ OneSlot(c) /\ slots'[c].generation = slots[c].generation
         /\ slots'[c].references = slots[c].references
         /\ slots'[c].committed = slots[c].committed
         /\ slots'[c].published <= slots[c].committed
         /\ slots'[c].write = slots[c].write /\ slots'[c].writer = slots[c].writer
<1>1. th["MTVU"].at = "publish" /\ "MTVU" \in Thread
  BY StorePublishedGoes
<1>2. r \in Payload /\ th["MTVU"] \in ThreadState
  BY <1>1, ThreadFacts DEF ThreadIsTyped
<1>3. /\ c \in Slot /\ slots[c] \in SlotState /\ slots[c].published \in 0 .. InputRingSlotSize
      /\ slots[c].committed \in 0 .. InputRingSlotSize
      /\ th["MTVU"].size \in 0 .. InputRingSlotSize
  BY <1>2, SlotFacts DEF ThreadState
<1> DEFINE n == th["MTVU"].size
           q == [slots[c] EXCEPT !.published = n]
<1>4. slots' = [slots EXCEPT ![c] = q]
  BY DEF StorePublished
<1>5. n \in 0 .. InputRingSlotSize
  BY <1>3
<1>6. n <= slots[c].committed
  BY <1>1 DEF IInv, RunIsHeld
<1> HIDE DEF n
<1>7. /\ q \in SlotState /\ q.generation = slots[c].generation
      /\ q.references = slots[c].references
      /\ q.committed = slots[c].committed /\ q.published = n
      /\ q.write = slots[c].write /\ q.writer = slots[c].writer
  BY <1>3, <1>5 DEF SlotState
<1> HIDE DEF q
<1>8. OneSlot(c) /\ slots'[c] = q
  BY <1>3, <1>4, <1>7, ReplaceSlot
<1> QED BY <1>6, <1>7, <1>8

LEMMA UnmapSlots ==
  ASSUME IInv, Unmap
  PROVE  /\ slots' \in [Slot -> SlotState]
         /\ \A s \in Slot : /\ slots'[s].generation = slots[s].generation
                            /\ slots'[s].references = slots[s].references
                            /\ slots'[s].committed = slots[s].committed
                            /\ slots'[s].published = slots[s].published
                            /\ slots'[s].writer = slots[s].writer
<1>1. slots' = [s \in Slot |-> IF s < ring.count THEN [slots[s] EXCEPT !.write = 0] ELSE slots[s]]
  BY DEF Unmap
<1>2. ASSUME NEW s \in Slot
      PROVE  /\ slots'[s] \in SlotState /\ slots'[s].generation = slots[s].generation
             /\ slots'[s].references = slots[s].references
             /\ slots'[s].committed = slots[s].committed
             /\ slots'[s].published = slots[s].published
             /\ slots'[s].writer = slots[s].writer
  <2> DEFINE q == [slots[s] EXCEPT !.write = 0]
  <2>1. slots[s] \in SlotState /\ 0 \in 0 .. InputRingSlotSize
    BY SlotFacts, Sizes0
  <2>2. /\ q \in SlotState /\ q.generation = slots[s].generation
        /\ q.references = slots[s].references /\ q.committed = slots[s].committed
        /\ q.published = slots[s].published /\ q.writer = slots[s].writer
    BY <2>1 DEF SlotState
  <2>3. slots'[s] = q \/ slots'[s] = slots[s]
    BY <1>1
  <2> HIDE DEF q
  <2> QED BY <2>1, <2>2, <2>3
<1>3. slots' \in [Slot -> SlotState]
  <2>1. slots' = [s \in Slot |-> slots'[s]]
    BY <1>1
  <2> QED BY <1>2, <2>1
<1> QED BY <1>2, <1>3

LEMMA InitializeSlots ==
  ASSUME IInv, NEW n \in 0 .. InputRingSlotCount, Initialize(n)
  PROVE  /\ slots' \in [Slot -> SlotState]
         /\ \A s \in Slot : /\ slots'[s].references = 0
                            /\ slots'[s].generation >= slots[s].generation
                            /\ slots'[s].published <= slots'[s].committed
                            /\ s < n => slots'[s].committed = 0
<1>1. slots' = [s \in Slot |-> IF s < n THEN Renewed(slots[s]) ELSE slots[s]]
  BY DEF Initialize
<1>2. ASSUME NEW s \in Slot
      PROVE  /\ slots'[s] \in SlotState /\ slots'[s].references = 0
             /\ slots'[s].generation >= slots[s].generation
             /\ slots'[s].published <= slots'[s].committed
             /\ s < n => slots'[s].committed = 0
  <2> DEFINE q == Renewed(slots[s])
  <2>1. slots[s] \in SlotState /\ slots[s].generation \in 1 .. MaxGeneration
    BY SlotFacts
  <2>2. slots[s].references = 0 /\ slots[s].generation < MaxGeneration
    BY DEF Initialize
  <2>5. /\ q \in SlotState /\ q.generation = slots[s].generation + 1
        /\ q.references = slots[s].references /\ q.committed = 0 /\ q.published = 0
    BY <2>1, <2>2, RenewedFacts
  <2>6. (s < n /\ slots'[s] = q) \/ (~(s < n) /\ slots'[s] = slots[s])
    BY <1>1
  <2>7. slots[s].published <= slots[s].committed
    BY DEF IInv, SlotsAreOrdered
  <2> HIDE DEF q
  <2>8. CASE s < n /\ slots'[s] = q
    BY <2>1, <2>2, <2>5, <2>8
  <2>9. CASE ~(s < n) /\ slots'[s] = slots[s]
    BY <2>1, <2>2, <2>7, <2>9
  <2> QED BY <2>6, <2>8, <2>9
<1>3. slots' \in [Slot -> SlotState]
  <2>1. slots' = [s \in Slot |-> slots'[s]]
    BY <1>1
  <2> QED BY <1>2, <2>1
<1> QED BY <1>2, <1>3
=============================================================================
