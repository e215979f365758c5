------------------------------ MODULE InputRing ------------------------------
(***************************************************************************)
(* The immutable VIF input ring (pcsx2/vita/VitaGpuVuVifInput.cpp): mapped *)
(* slots that the EE (raw VIF data) and MTVU (derived tables) append to,   *)
(* and that queued spans, draws and the GPU pin by reference.              *)
(*                                                                         *)
(* One step is one access to an atomic.  A compare-exchange loop is one    *)
(* step on the value it finds, since every retry tests the value again.    *)
(* A unit of a slot stands for PayloadAlignment bytes.                     *)
(***************************************************************************)
EXTENDS Integers, Sequences, FiniteSets

CONSTANTS
    InputRingSlotCount, MinimumInputRingSlotCount,
    InputRingSlotSize,                  \* units
    DirectInputEpochReservation,        \* units
    MaxGeneration,                      \* the last value of a u32
    MaximumDeferredAffineSpans,         \* of MTVU's journal
    Workloads                           \* bound: the sizes, in units and in order,
                                        \* of the captures each producer makes

ASSUME RingAssumption ==
    /\ MinimumInputRingSlotCount \in Nat /\ MinimumInputRingSlotCount >= 2
    /\ InputRingSlotCount \in Nat /\ InputRingSlotCount >= MinimumInputRingSlotCount
    /\ InputRingSlotSize \in Nat \ {0}
    /\ DirectInputEpochReservation \in 1 .. InputRingSlotSize
    /\ MaxGeneration \in Nat \ {0}
    /\ MaximumDeferredAffineSpans \in Nat \ {0}
    /\ \A w \in Workloads : w \in [{"EE", "MTVU"} -> Seq(1 .. InputRingSlotSize)]

VARIABLES
    slots,          \* per slot: ownership (generation, references), the
                    \* committed, published and write offsets, and who wrote
                    \* each unit
    ring,           \* active (s_active_input_ring is this ring), accepting,
                    \* initialized, count (active_slot_count), current
    waiting_slot,   \* a slot, or NoSlot
    sema,           \* slot_released_sema: its count, or NoSema
    capture_mutex,  \* the producer in CapturePayload(), or Nobody
    calls,          \* active_reference_calls, s_active_capture_calls
    left,           \* the captures each producer has still to make (the bound)
    retire,         \* the slot RequestGpuVuInputRetirement() last named
    held,           \* the references each holder owns
    th,             \* per thread: where it is, the payload it works on
    path1           \* MTVU's PATH1 side: run (its pending draws), leaving (those
                    \* it is about to complete), requested (a flush is), quiet
                    \* (it has left its record loop, and not yet looked at the
                    \* requests), missed (the last request was taken with
                    \* records unread: history only)

ringVars == <<slots, ring, waiting_slot, sema, capture_mutex, calls, retire, held, th, left>>
vars == <<ringVars, path1>>

Slot == 0 .. InputRingSlotCount - 1
NoSlot == -1
NoSema == -1
Unit == 0 .. InputRingSlotSize - 1
Nobody == "nobody"
Producer == {"EE", "MTVU"}
Thread == Producer \union {"GS"}
\* The EE's unpublished batch; MTVU's queue and journal; those spans of the two
\* that a queued record observes; and the draws, which are the GS worker's once
\* MTVU has completed the run they are in
Holder == {"batch", "journal", "due", "draw"}

\* late: reserved after Shutdown() had unpublished the ring (history only)
Payload == [slot : Slot, generation : 0 .. MaxGeneration, offset : Unit,
            size : 1 .. InputRingSlotSize, late : BOOLEAN]
NoPayload == [slot |-> NoSlot]

Idle == [at |-> "idle", size |-> 0, need |-> 0, payload |-> NoPayload]

At(t, l) == th[t].at = l
Become(t, l) == th' = [th EXCEPT ![t].at = l]
Mapped(s) == ring.initialized /\ s < ring.count
InRun == path1.run \union path1.leaving
\* MTVU is not at a record: it looks at the requests, or completes a run
Completing == path1.quiet \/ path1.leaving # {}

-----------------------------------------------------------------------------
(* CapturePayload() and its two callers *)

\* CaptureRawVifPayload() by the EE, CaptureDerivedGpuVuPayload() by MTVU.
\* The EE's first capture of a batch begins a VU command epoch.
CaptureRawVifPayload(p) ==
    /\ At(p, "idle") /\ left[p] # <<>> /\ (p = "MTVU" => ~Completing)
    /\ left' = [left EXCEPT ![p] = Tail(@)]
    /\ calls' = [calls EXCEPT !.capture = @ + 1]
    /\ LET n == Head(left[p])
           epoch == p = "EE" /\ held["batch"] = {} /\ n < DirectInputEpochReservation
       IN  th' = [th EXCEPT ![p].at = "load", ![p].size = n,
                            ![p].need = IF epoch THEN DirectInputEpochReservation ELSE n]
    /\ UNCHANGED <<slots, ring, waiting_slot, sema, capture_mutex, retire, held, path1>>

LoadActiveRing(p) ==
    /\ At(p, "load")
    /\ Become(p, IF ring.active /\ ring.accepting THEN "lock" ELSE "leave")
    /\ UNCHANGED <<slots, ring, waiting_slot, sema, capture_mutex, calls, retire, held, left, path1>>

LockCapture(p) ==
    /\ At(p, "lock") /\ capture_mutex = Nobody
    /\ capture_mutex' = p
    /\ Become(p, "loop")
    /\ UNCHANGED <<slots, ring, waiting_slot, sema, calls, retire, held, left, path1>>

\* CapturePayload() returns: the lock is released
Return(p) == capture_mutex' = Nobody /\ Become(p, "leave")

\* The top of the loop, and the same test before it
TestAccepting(p) ==
    /\ At(p, "loop")
    /\ IF ring.accepting /\ ring.count >= MinimumInputRingSlotCount
       THEN Become(p, "reserve") /\ UNCHANGED capture_mutex
       ELSE Return(p)
    /\ UNCHANGED <<slots, ring, waiting_slot, sema, calls, retire, held, left, path1>>

Current == slots[ring.current]
NextSlot == (ring.current + 1) % ring.count
Fits(p) == Current.write + th[p].need <= InputRingSlotSize

StopAccepting(p) ==
    /\ ring' = [ring EXCEPT !.accepting = FALSE]
    /\ Return(p)

\* Mutant: what the GPU was given before stays on record.
EmptiedOfCommitted(s) == [s EXCEPT !.committed = 0]

\* What begins a new generation of slot s empties its publication proofs.
Emptied(s) == [s EXCEPT !.committed = 0, !.published = 0]

\* The next generation of a slot that is filled from its start
Renewed(s) == [Emptied(s) EXCEPT !.generation = @ + 1, !.write = 0]

\* Mutant: the generation is a wrapping sequence.
ReserveWithoutLimit(p) ==
    /\ At(p, "reserve") /\ Fits(p)
    /\ LET first == Current.references = 0
           generation == IF first THEN Current.generation + 1 ELSE Current.generation
       IN  /\ slots' = [slots EXCEPT ![ring.current].generation = generation,
                                     ![ring.current].references = @ + 1]
           /\ th' = [th EXCEPT
                ![p].at = IF first THEN "empty" ELSE "fill",
                ![p].payload = [slot |-> ring.current, offset |-> Current.write,
                                generation |-> generation,
                                size |-> th[p].size, late |-> ~ring.active]]
    /\ UNCHANGED <<ring, waiting_slot, sema, capture_mutex, calls, retire, held, left, path1>>

\* Room in the current slot: one more reference, a new generation if it is
\* the first.  A u32's last generation disables the ring.
Reserve(p) ==
    /\ At(p, "reserve") /\ Fits(p)
    /\ LET first == Current.references = 0
           generation == IF first THEN Current.generation + 1 ELSE Current.generation
       IN  IF first /\ Current.generation = MaxGeneration
           THEN StopAccepting(p) /\ UNCHANGED slots
           ELSE /\ slots' = [slots EXCEPT ![ring.current].generation = generation,
                                          ![ring.current].references = @ + 1]
                /\ th' = [th EXCEPT
                     ![p].at = IF first THEN "empty" ELSE "fill",
                     ![p].payload = [slot |-> ring.current, offset |-> Current.write,
                                     generation |-> generation,
                                     size |-> th[p].size, late |-> ~ring.active]]
                /\ UNCHANGED <<ring, capture_mutex>>
    /\ UNCHANGED <<waiting_slot, sema, calls, retire, held, left, path1>>

BeginGeneration(p) ==
    /\ At(p, "empty")
    /\ slots' = [slots EXCEPT ![ring.current] = Emptied(@)]
    /\ Become(p, "fill")
    /\ UNCHANGED <<ring, waiting_slot, sema, capture_mutex, calls, retire, held, left, path1>>

\* Mutant: a slot is taken over whatever its references.
RecycleReferenced(p, intact) ==
    /\ At(p, "reserve") /\ ~Fits(p) /\ intact
    /\ slots[NextSlot].generation < MaxGeneration
    /\ slots' = [slots EXCEPT ![NextSlot] = Renewed(@)]
    /\ ring' = [ring EXCEPT !.current = NextSlot]
    /\ Become(p, "loop")
    /\ UNCHANGED <<waiting_slot, sema, capture_mutex, calls, retire, held, left, path1>>

\* No room, and the next slot has no owner: a new generation of it, from
\* the start, if its fetch guard is intact.
Recycle(p, intact) ==
    /\ At(p, "reserve") /\ ~Fits(p)
    /\ slots[NextSlot].references = 0
    /\ IF ~intact \/ slots[NextSlot].generation = MaxGeneration
       THEN StopAccepting(p) /\ UNCHANGED slots
       ELSE /\ slots' = [slots EXCEPT ![NextSlot] = Renewed(@)]
            /\ ring' = [ring EXCEPT !.current = NextSlot]
            /\ Become(p, "loop") /\ UNCHANGED capture_mutex
    /\ UNCHANGED <<waiting_slot, sema, calls, retire, held, left, path1>>

\* No room, and the next slot is owned
FindOwned(p) ==
    /\ At(p, "reserve") /\ ~Fits(p)
    /\ slots[NextSlot].references # 0
    /\ Become(p, "arm")
    /\ UNCHANGED <<slots, ring, waiting_slot, sema, capture_mutex, calls, retire, held, left, path1>>

\* Publish the waiter.  A second one is an error that the mutex rules out.
ArmWaiter(p) ==
    /\ At(p, "arm")
    /\ IF waiting_slot = NoSlot
       THEN waiting_slot' = NextSlot /\ Become(p, "recheck") /\ UNCHANGED capture_mutex
       ELSE Return(p) /\ UNCHANGED waiting_slot
    /\ UNCHANGED <<slots, ring, sema, calls, retire, held, left, path1>>

\* Mutant: the producer waits without looking again.
WaitUnchecked(p) ==
    /\ At(p, "recheck")
    /\ Become(p, "request")
    /\ UNCHANGED <<slots, ring, waiting_slot, sema, capture_mutex, calls, retire, held, left, path1>>

\* should_wait.  Both loads can only turn false during the call, so reading
\* them at once loses nothing.
Recheck(p) ==
    /\ At(p, "recheck")
    /\ Become(p, IF ring.accepting /\ slots[NextSlot].references # 0
                 THEN "request" ELSE "disarm")
    /\ UNCHANGED <<slots, ring, waiting_slot, sema, capture_mutex, calls, retire, held, left, path1>>

\* The token is still the producer's, or whoever claimed it will signal.
Disarm(p) ==
    /\ At(p, "disarm")
    /\ IF waiting_slot = NextSlot
       THEN waiting_slot' = NoSlot /\ Become(p, "loop")
       ELSE Become(p, "request") /\ UNCHANGED waiting_slot
    /\ UNCHANGED <<slots, ring, sema, capture_mutex, calls, retire, held, left, path1>>

\* PublishPendingVifBatch(): the EE's private records become MTVU's
Published == [held EXCEPT !["journal"] = @ \union held["batch"], !["batch"] = {}]

\* VU_Thread::RequestGpuVuPath1Flush()
FlushRequested == [path1 EXCEPT !.requested = TRUE, !.missed = FALSE]

\* Mutant: the EE sleeps on its private records.
RequestWithoutPublishing(p) ==
    /\ At(p, "request")
    /\ path1' = FlushRequested
    /\ retire' = NextSlot
    /\ Become(p, "wait")
    /\ UNCHANGED <<slots, ring, waiting_slot, sema, capture_mutex, calls, held, left>>

\* VitaGS::RequestGpuVuInputRetirement()
RequestGpuVuInputRetirement(p) ==
    /\ At(p, "request")
    /\ held' = Published /\ path1' = FlushRequested
    /\ retire' = NextSlot
    /\ Become(p, "wait")
    /\ UNCHANGED <<slots, ring, waiting_slot, sema, capture_mutex, calls, left>>

WaitSlotReleased(p) ==
    /\ At(p, "wait") /\ sema > 0
    /\ sema' = sema - 1
    /\ waiting_slot' = IF waiting_slot = NextSlot THEN NoSlot ELSE waiting_slot
    /\ Become(p, "loop")
    /\ UNCHANGED <<slots, ring, capture_mutex, calls, retire, held, left, path1>>

\* memcpy, and write_offset, which only the owner of capture_mutex looks at
Fill(p) ==
    /\ At(p, "fill")
    /\ LET r == th[p].payload
           mine == r.offset .. r.offset + r.size - 1
       IN  slots' = [slots EXCEPT
               ![r.slot].write = r.offset + r.size,
               ![r.slot].writer = [u \in Unit |-> IF u \in mine THEN r.generation ELSE @[u]]]
    /\ Become(p, "commit")
    /\ UNCHANGED <<ring, waiting_slot, sema, capture_mutex, calls, retire, held, left, path1>>

\* QueueGpuVuDraw(): the draw MTVU is building joins its pending run.
BindToDraw(r) ==
    /\ held' = [held EXCEPT !["draw"] = @ \union {r}]
    /\ path1' = [path1 EXCEPT !.run = @ \union {r}]

\* The release store of committed_offset; the payload is the caller's.
\* MTVU's caller binds it to the draw it is building.
Commit(p) ==
    /\ At(p, "commit")
    /\ LET r == th[p].payload
       IN  /\ slots' = [slots EXCEPT ![r.slot].committed = r.offset + r.size]
           /\ IF p = "MTVU" THEN BindToDraw(r) ELSE UNCHANGED <<held, path1>>
    /\ capture_mutex' = Nobody
    /\ th' = [th EXCEPT ![p].at = "leave",
                        ![p].payload = IF p = "MTVU" THEN NoPayload ELSE @]
    /\ UNCHANGED <<ring, waiting_slot, sema, calls, retire, left>>

\* ~ActiveRingCall() on s_active_capture_calls
LeaveCapture(p) ==
    /\ At(p, "leave")
    /\ calls' = [calls EXCEPT !.capture = @ - 1]
    /\ th' = [th EXCEPT ![p] = IF @.payload = NoPayload THEN Idle
                               ELSE [Idle EXCEPT !.at = "captured", !.payload = th[p].payload]]
    /\ UNCHANGED <<slots, ring, waiting_slot, sema, capture_mutex, retire, held, left, path1>>

\* VifUnpack(): a span that MergeAdjacentDirectAffineV4_32Spans() refuses is
\* a private record of its own (the VU address and the format also decide).
SeparateSpan ==
    /\ At("EE", "captured")
    /\ held' = [held EXCEPT !["batch"] = @ \union {th["EE"].payload}]
    /\ th' = [th EXCEPT !["EE"] = Idle]
    /\ UNCHANGED <<slots, ring, waiting_slot, sema, capture_mutex, calls, retire, left, path1>>

-----------------------------------------------------------------------------
(* Reference calls, by MTVU for its journal and draws, by the GS worker for *)
(* retired draws, by the EE for a span it merged                            *)

EnterReferenceCall(t, l, r) ==
    /\ calls' = [calls EXCEPT !.reference = @ + 1]
    /\ th' = [th EXCEPT ![t].at = l, ![t].payload = r]

\* A plain copy of a payload whose generation is gone
Stale == {[slot |-> s, generation |-> slots[s].generation - 1, offset |-> 0,
           size |-> 1, late |-> FALSE] : s \in Slot}

\* RetainRawVifPayload() for a draw, of what an Execute record reads.  Bound: a
\* payload is in one draw at a time.
Retain(r) ==
    /\ At("MTVU", "idle") /\ ~Completing
    /\ r \in held["due"] \ held["draw"] \/ (ring.initialized /\ r \in Stale)
    /\ EnterReferenceCall("MTVU", IF Mapped(r.slot) /\ slots[r.slot].committed >= r.offset + r.size
                                  THEN "retain" ELSE "exit", r)
    /\ UNCHANGED <<slots, ring, waiting_slot, sema, capture_mutex, retire, held, left, path1>>

\* Mutant: the reference count alone is compared.
RetainAnyGeneration ==
    /\ At("MTVU", "retain")
    /\ LET s == th["MTVU"].payload.slot
       IN  IF slots[s].references # 0
           THEN /\ slots' = [slots EXCEPT ![s].references = @ + 1]
                /\ Become("MTVU", "confirm")
           ELSE Become("MTVU", "exit") /\ UNCHANGED slots
    /\ UNCHANGED <<ring, waiting_slot, sema, capture_mutex, calls, retire, held, left, path1>>

RetainOwnership ==
    /\ At("MTVU", "retain")
    /\ LET r == th["MTVU"].payload
       IN  IF slots[r.slot].generation = r.generation /\ slots[r.slot].references # 0
           THEN /\ slots' = [slots EXCEPT ![r.slot].references = @ + 1]
                /\ Become("MTVU", "confirm")
           ELSE Become("MTVU", "exit") /\ UNCHANGED slots
    /\ UNCHANGED <<ring, waiting_slot, sema, capture_mutex, calls, retire, held, left, path1>>

\* range_ok, or the physical reference is given back like any other
ConfirmRetain ==
    /\ At("MTVU", "confirm")
    /\ LET r == th["MTVU"].payload
       IN  IF /\ Mapped(r.slot) /\ slots[r.slot].committed >= r.offset + r.size
              /\ ring.active /\ ring.accepting
           THEN BindToDraw(r) /\ Become("MTVU", "exit")
           ELSE Become("MTVU", "release") /\ UNCHANGED <<held, path1>>
    /\ UNCHANGED <<slots, ring, waiting_slot, sema, capture_mutex, calls, retire, left>>

Owner(h) == CASE h = "batch" -> "EE" [] h = "draw" -> "GS" [] OTHER -> "MTVU"

\* q was captured after r: slots with owners are filled in ring order.
Newer(q, r) ==
    LET age(s) == (ring.current - s) % ring.count
    IN  IF q.slot = r.slot THEN q.offset > r.offset ELSE age(q.slot) < age(r.slot)

\* ReleaseRawVifPayload() of a reference of holder h.  AppendDeferredVifUnpack()
\* takes an unobserved span out of the journal only to append a newer one.
Release(h, r) ==
    /\ h # "batch" /\ At(Owner(h), "idle") /\ r \in held[h]
    /\ IF h = "draw" THEN r \notin InRun ELSE ~Completing
    /\ h = "journal" /\ ring.initialized => \E q \in held["journal"] : Newer(q, r)
    /\ held' = [held EXCEPT ![h] = @ \ {r}]
    /\ EnterReferenceCall(Owner(h), "release", r)
    /\ UNCHANGED <<slots, ring, waiting_slot, sema, capture_mutex, retire, left, path1>>

\* MergeAdjacentDirectAffineV4_32Spans(): one payload for two, and the later
\* one's reference is released
MergeSpan(r) ==
    /\ At("EE", "captured") /\ r \in held["batch"]
    /\ LET q == th["EE"].payload
           both == [r EXCEPT !.size = @ + q.size, !.late = @ \/ q.late]
       IN  /\ r.slot = q.slot /\ r.generation = q.generation /\ r.offset + r.size = q.offset
           /\ held' = [held EXCEPT !["batch"] = (@ \ {r}) \union {both}]
           /\ EnterReferenceCall("EE", "release", q)
    /\ UNCHANGED <<slots, ring, waiting_slot, sema, capture_mutex, retire, left, path1>>

\* The paired compare-exchange; the last owner goes on to the waiter.
ReleaseOwnership(t) ==
    /\ At(t, "release")
    /\ LET r == th[t].payload
       IN  IF slots[r.slot].generation # r.generation \/ slots[r.slot].references = 0
           THEN Become(t, "exit") /\ UNCHANGED slots
           ELSE /\ slots' = [slots EXCEPT ![r.slot].references = @ - 1]
                /\ Become(t, IF slots[r.slot].references = 1 THEN "claim" ELSE "exit")
    /\ UNCHANGED <<ring, waiting_slot, sema, capture_mutex, calls, retire, held, left, path1>>

\* Mutant: the last owner signals for any waiter.
ClaimAnyWaiter(t) ==
    /\ At(t, "claim")
    /\ IF waiting_slot # NoSlot THEN Become(t, "signal") ELSE Become(t, "exit")
    /\ UNCHANGED <<slots, ring, waiting_slot, sema, capture_mutex, calls, retire, held, left, path1>>

ClaimWaiter(t) ==
    /\ At(t, "claim")
    /\ IF waiting_slot = th[t].payload.slot
       THEN waiting_slot' = NoSlot /\ Become(t, "signal")
       ELSE Become(t, "exit") /\ UNCHANGED waiting_slot
    /\ UNCHANGED <<slots, ring, sema, capture_mutex, calls, retire, held, left, path1>>

\* sceKernelSignalSema(): the maximal count is 1
Signalled == IF sema = NoSema THEN NoSema ELSE 1

SignalWaiter(t) ==
    /\ At(t, "signal")
    /\ sema' = Signalled
    /\ Become(t, "exit")
    /\ UNCHANGED <<slots, ring, waiting_slot, capture_mutex, calls, retire, held, left, path1>>

\* ~ActiveRingCall() on active_reference_calls
ExitReferenceCall(t) ==
    /\ At(t, "exit")
    /\ calls' = [calls EXCEPT !.reference = @ - 1]
    /\ th' = [th EXCEPT ![t] = Idle]
    /\ UNCHANGED <<slots, ring, waiting_slot, sema, capture_mutex, retire, held, left, path1>>

\* VU_Thread::PublishPendingVifBatch() at the end of a VIF transfer
PublishPendingVifBatch ==
    /\ At("EE", "idle") /\ held["batch"] # {}
    /\ held' = Published
    /\ UNCHANGED <<slots, ring, waiting_slot, sema, capture_mutex, calls, retire, th, left, path1>>

\* ExecuteVU(), or any other record that observes VU memory: once MTVU reads
\* it, ReplayDeferredVifUnpacks() or the draw it builds ends the journal.
ExecuteVU ==
    /\ At("EE", "idle") /\ held["batch"] \union held["journal"] # {}
    /\ held' = [held EXCEPT !["due"] = @ \union held["batch"] \union held["journal"],
                            !["batch"] = {}, !["journal"] = {}]
    /\ UNCHANGED <<slots, ring, waiting_slot, sema, capture_mutex, calls, retire, th, left, path1>>

-----------------------------------------------------------------------------
(* MTVU's pending PATH1 run, and its publication to the GPU *)

\* The worker finds its record queue empty and leaves the loop over it.
LeaveRecordLoop ==
    /\ At("MTVU", "idle") /\ ~Completing /\ held["due"] = {}
    /\ path1' = [path1 EXCEPT !.quiet = TRUE]
    /\ UNCHANGED ringVars

\* The exchange of the request word, and the flush it asks for.  Records that
\* were published since the worker left the loop are still unread.
TakePublicationRequests ==
    /\ At("MTVU", "idle") /\ path1.quiet
    /\ path1' = IF path1.requested
                THEN [run |-> {}, leaving |-> path1.run, requested |-> FALSE,
                      quiet |-> FALSE, missed |-> held["due"] # {}]
                ELSE [path1 EXCEPT !.quiet = FALSE]
    /\ UNCHANGED ringVars

\* At a record: PublishMtvuPath1Completions() of the prefix that is ready, or a
\* flush of all, by a run at its limit or a record that needs its draws visible.
PublishMtvuPath1Completions(prefix) ==
    /\ At("MTVU", "idle") /\ ~Completing /\ prefix # {}
    /\ path1' = [path1 EXCEPT !.run = @ \ prefix, !.leaving = prefix]
    /\ UNCHANGED ringVars

\* PublishRawVifPayloads() of one payload of the run, up to loading the
\* committed prefix; a damaged guard (scanned once per generation) disables the
\* ring.  A run that cannot be published ends the process.
LoadCommitted(r, intact) ==
    /\ At("MTVU", "idle") /\ r \in path1.leaving /\ ring.accepting
    /\ LET s == slots[r.slot]
       IN  /\ s.generation = r.generation /\ s.references # 0
           /\ s.committed > s.published
           /\ IF intact
              THEN /\ th' = [th EXCEPT !["MTVU"].at = "publish", !["MTVU"].payload = r,
                                       !["MTVU"].size = s.committed]
                   /\ UNCHANGED ring
              ELSE ring' = [ring EXCEPT !.accepting = FALSE] /\ UNCHANGED th
    /\ UNCHANGED <<slots, waiting_slot, sema, capture_mutex, calls, retire, held, left, path1>>

StorePublished ==
    /\ At("MTVU", "publish")
    /\ slots' = [slots EXCEPT ![th["MTVU"].payload.slot].published = th["MTVU"].size]
    /\ th' = [th EXCEPT !["MTVU"] = Idle]
    /\ UNCHANGED <<ring, waiting_slot, sema, capture_mutex, calls, retire, held, left, path1>>

\* PublishMtvuPath1Completion(): the draws are the GS worker's.
PublishMtvuPath1Completion ==
    /\ At("MTVU", "idle") /\ path1.leaving # {}
    /\ \A r \in path1.leaving : slots[r.slot].published >= r.offset + r.size
    /\ path1' = [path1 EXCEPT !.leaving = {}]
    /\ UNCHANGED ringVars

-----------------------------------------------------------------------------
(* The ring's own life *)

\* Initialize() with n mapped slots; refused with a live owner or a slot whose
\* generations are used up.  Too few slots leave their count behind.  It runs
\* on the GS worker while the CPU thread waits in WaitForOpen() and MTVU is
\* drained.
Initialize(n) ==
    /\ At("GS", "idle") /\ ~ring.initialized
    /\ \A p \in Producer : At(p, "idle")
    /\ \A s \in Slot : slots[s].references = 0 /\ slots[s].generation < MaxGeneration
    /\ LET fresh == {s \in Slot : s < n}
       IN  slots' = [s \in Slot |-> IF s \in fresh THEN Renewed(slots[s]) ELSE slots[s]]
    /\ waiting_slot' = NoSlot /\ calls' = [calls EXCEPT !.reference = 0]
    /\ IF n < MinimumInputRingSlotCount
       THEN /\ ring' = [ring EXCEPT !.count = IF n = 0 THEN @ ELSE n]
            /\ UNCHANGED sema
       ELSE /\ ring' = [active |-> TRUE, accepting |-> TRUE, initialized |-> TRUE,
                        count |-> n, current |-> 0]
            /\ sema' = 0
    /\ UNCHANGED <<capture_mutex, retire, held, th, left, path1>>

\* Shutdown(), once the GPU has finished (Finish() released its draws)
Unpublish ==
    /\ At("GS", "idle") /\ ring.initialized /\ held["draw"] = {}
    /\ ring' = [ring EXCEPT !.active = FALSE]
    /\ Become("GS", "stop")
    /\ UNCHANGED <<slots, waiting_slot, sema, capture_mutex, calls, retire, held, left, path1>>

Stop ==
    /\ At("GS", "stop")
    /\ ring' = [ring EXCEPT !.accepting = FALSE]
    /\ Become("GS", "wake")
    /\ UNCHANGED <<slots, waiting_slot, sema, capture_mutex, calls, retire, held, left, path1>>

WakeWaiter ==
    /\ At("GS", "wake")
    /\ waiting_slot' = NoSlot
    /\ sema' = IF waiting_slot # NoSlot THEN Signalled ELSE sema
    /\ Become("GS", "references")
    /\ UNCHANGED <<slots, ring, capture_mutex, calls, retire, held, left, path1>>

Referenced == \E s \in Slot : s < ring.count /\ slots[s].references # 0

\* The three samples of the polling loop, in order
PollReferences ==
    /\ At("GS", "references") /\ ~Referenced
    /\ Become("GS", "reference_calls")
    /\ UNCHANGED <<slots, ring, waiting_slot, sema, capture_mutex, calls, retire, held, left, path1>>

\* Mutant: the calls are not waited for.
PollNothing ==
    /\ At("GS", "reference_calls")
    /\ Become("GS", "capture_calls")
    /\ UNCHANGED <<slots, ring, waiting_slot, sema, capture_mutex, calls, retire, held, left, path1>>

PollReferenceCalls ==
    /\ At("GS", "reference_calls")
    /\ Become("GS", IF calls.reference = 0 THEN "capture_calls" ELSE "references")
    /\ UNCHANGED <<slots, ring, waiting_slot, sema, capture_mutex, calls, retire, held, left, path1>>

PollCaptureCalls ==
    /\ At("GS", "capture_calls")
    /\ Become("GS", IF calls.capture = 0 THEN "unmap" ELSE "references")
    /\ UNCHANGED <<slots, ring, waiting_slot, sema, capture_mutex, calls, retire, held, left, path1>>

\* The five-second deadline: "refusing to unmap"
RefuseShutdown ==
    /\ At("GS", "references") /\ (Referenced \/ calls.reference # 0 \/ calls.capture # 0)
    /\ Become("GS", "idle")
    /\ UNCHANGED <<slots, ring, waiting_slot, sema, capture_mutex, calls, retire, held, left, path1>>

Unmap ==
    /\ At("GS", "unmap")
    /\ sema' = NoSema
    /\ slots' = [s \in Slot |-> IF s < ring.count THEN [slots[s] EXCEPT !.write = 0]
                                                 ELSE slots[s]]
    /\ ring' = [ring EXCEPT !.current = 0, !.count = 0, !.initialized = FALSE]
    /\ Become("GS", "idle")
    /\ UNCHANGED <<waiting_slot, capture_mutex, calls, retire, held, left, path1>>

-----------------------------------------------------------------------------
(* The specification *)

Init ==
    /\ slots = [s \in Slot |-> [generation |-> 1, references |-> 0, committed |-> 0,
                                published |-> 0, write |-> 0,
                                writer |-> [u \in Unit |-> 0]]]
    /\ ring = [active |-> FALSE, accepting |-> FALSE, initialized |-> FALSE,
               count |-> 0, current |-> 0]
    /\ waiting_slot = NoSlot /\ sema = NoSema /\ capture_mutex = Nobody
    /\ calls = [reference |-> 0, capture |-> 0] /\ retire = NoSlot
    /\ held = [h \in Holder |-> {}]
    /\ th = [t \in Thread |-> Idle] /\ left \in Workloads
    /\ path1 = [run |-> {}, leaving |-> {}, requested |-> FALSE, quiet |-> FALSE,
                 missed |-> FALSE]

\* The rest of a capture, once begun
CaptureStep(p) ==
    \/ LoadActiveRing(p) \/ LockCapture(p) \/ TestAccepting(p) \/ Reserve(p)
    \/ BeginGeneration(p) \/ \E intact \in BOOLEAN : Recycle(p, intact)
    \/ FindOwned(p) \/ ArmWaiter(p) \/ Recheck(p) \/ Disarm(p) \/ RequestGpuVuInputRetirement(p)
    \/ WaitSlotReleased(p) \/ Fill(p) \/ Commit(p) \/ LeaveCapture(p)

\* The rest of a reference call, once begun
ReferenceStep(t) ==
    \/ t = "MTVU" /\ (RetainOwnership \/ ConfirmRetain)
    \/ ReleaseOwnership(t) \/ ClaimWaiter(t) \/ SignalWaiter(t) \/ ExitReferenceCall(t)

\* What the EE does with a span it captured
FinishSpan == SeparateSpan \/ \E r \in held["batch"] : MergeSpan(r)

\* The rest of Shutdown(), once begun
ShutdownStep ==
    \/ Stop \/ WakeWaiter \/ PollReferences \/ PollReferenceCalls
    \/ PollCaptureCalls \/ RefuseShutdown \/ Unmap

\* A step of the ring
RingNext ==
    \/ \E p \in Producer : CaptureRawVifPayload(p)
    \/ \E p \in Producer : CaptureStep(p)
    \/ \E t \in Thread : ReferenceStep(t)
    \/ FinishSpan
    \/ \E r \in held["due"] \union Stale : Retain(r)
    \/ \E h \in Holder : \E r \in held[h] : Release(h, r)
    \/ PublishPendingVifBatch \/ ExecuteVU
    \/ \E r \in path1.leaving, intact \in BOOLEAN : LoadCommitted(r, intact)
    \/ StorePublished
    \/ \E n \in 0 .. InputRingSlotCount : Initialize(n)
    \/ Unpublish \/ ShutdownStep

\* A step of MTVU's pending run
Path1Next ==
    \/ LeaveRecordLoop \/ TakePublicationRequests \/ PublishMtvuPath1Completion
    \/ \E prefix \in SUBSET path1.run : PublishMtvuPath1Completions(prefix)

Next == RingNext \/ Path1Next

Spec == Init /\ [][Next]_vars

\* What MTVU owes: it reads the observing record, and lets go of what it
\* observed; AppendDeferredVifUnpack() replays a full journal before it appends
\* the next span; and a request wakes it to empty its queue and look again.
MtvuRetires == \E r \in held["due"] : Release("due", r)

Overflows(r) ==
    Cardinality({q \in held["journal"] : Newer(q, r)}) >= MaximumDeferredAffineSpans
MtvuReplays == \E r \in held["journal"] : Overflows(r) /\ Release("journal", r)

MtvuServes == path1.requested /\ LeaveRecordLoop

MtvuWorks == MtvuRetires \/ MtvuReplays \/ MtvuServes

\* WaitForGpuVuInputRetirement() of the requested slot
GsRetires == \E r \in held["draw"] : r.slot = retire /\ Release("draw", r)

\* The publication and completion of a run, once begun
CompleteRun ==
    \/ \E r \in path1.leaving : LoadCommitted(r, TRUE)
    \/ StorePublished \/ PublishMtvuPath1Completion

\* The rest of what a worker is in the middle of
GoesOn(t) ==
    \/ /\ ~At(t, "idle")
       /\ \/ t = "MTVU" /\ CaptureStep(t)
          \/ ReferenceStep(t)
          \/ t = "GS" /\ ShutdownStep
    \/ t = "MTVU" /\ (TakePublicationRequests \/ CompleteRun)

\* A thread inside a call goes on, if it is not blocked.  Every publication and
\* every request ends in a KickStart(), so MTVU gets on with what it owes; the
\* GS worker's request stays armed until the slot is free, so it gets through
\* the draws it was given; whatever else each of them is asked to do.
Fairness ==
    /\ WF_vars(WaitSlotReleased("EE")) /\ WF_vars(GoesOn("MTVU")) /\ WF_vars(GoesOn("GS"))
    /\ SF_vars(MtvuWorks) /\ SF_vars(GsRetires)

LiveSpec == Spec /\ Fairness

-----------------------------------------------------------------------------
(* Properties *)

Where == {"idle", "load", "lock", "loop", "reserve", "empty", "fill", "commit",
          "arm", "recheck", "disarm", "request", "wait", "leave", "captured",
          "retain", "confirm", "release", "claim", "signal", "exit", "publish",
          "stop", "wake", "references", "reference_calls", "capture_calls", "unmap"}

SlotState == [generation : 0 .. MaxGeneration, references : Nat,
              committed : 0 .. InputRingSlotSize, published : 0 .. InputRingSlotSize,
              write : 0 .. InputRingSlotSize,
              writer : [Unit -> 0 .. MaxGeneration]]

\* Every variable keeps its type; a generation never passes its last value,
\* and no offset the end of its slot.
TypeOK ==
    /\ slots \in [Slot -> SlotState]
    /\ ring \in [active : BOOLEAN, accepting : BOOLEAN, initialized : BOOLEAN,
                  count : 0 .. InputRingSlotCount, current : Slot]
    /\ waiting_slot \in Slot \union {NoSlot} /\ sema \in {NoSema, 0, 1}
    /\ capture_mutex \in Producer \union {Nobody}
    /\ calls \in [reference : Nat, capture : Nat]
    /\ retire \in Slot \union {NoSlot} /\ left \in [Producer -> Seq(1 .. InputRingSlotSize)]
    /\ held \in [Holder -> SUBSET Payload]
    /\ th \in [Thread -> [at : Where, size : 0 .. InputRingSlotSize,
                          need : 0 .. InputRingSlotSize,
                          payload : Payload \union {NoPayload}]]
    /\ path1 \in [run : SUBSET Payload, leaving : SUBSET Payload, requested : BOOLEAN,
                  quiet : BOOLEAN, missed : BOOLEAN]

\* References in the hands of a thread: reserved and not yet recorded,
\* retained and not confirmed, or about to be given back
InFlight(s) ==
    {t \in Thread : /\ th[t].at \in {"empty", "fill", "commit", "leave", "captured",
                                    "confirm", "release"}
                    /\ th[t].payload.slot = s}

\* How many payloads of slot s holder h owns
Owned(h, s) == Cardinality({r \in held[h] : r.slot = s})

\* The packed count is exact: it equals the owners of the slot, in every
\* interleaving of captures, retains, roll-backs, merges and releases.
OwnershipIsExact ==
    \A s \in Slot :
        slots[s].references =
            Owned("batch", s) + Owned("journal", s) + Owned("due", s) + Owned("draw", s)
            + Cardinality(InFlight(s))

Covers(r) == r.offset .. r.offset + r.size - 1

\* ResolveRawVifPayload(): the pointer is returned
Resolves(r) ==
    /\ ring.active /\ Mapped(r.slot)
    /\ slots[r.slot].generation = r.generation /\ slots[r.slot].references # 0
    /\ slots[r.slot].committed >= r.offset + r.size

\* While the ring is published every held reference resolves, to the bytes
\* its own capture wrote: no append, recycle or later generation has touched
\* a byte that a queued span, a draw or the GPU can observe.
PayloadIsImmutable ==
    \A h \in Holder : \A r \in held[h] :
        /\ ring.active => Resolves(r)
        /\ \A u \in Covers(r) : slots[r.slot].writer[u] = r.generation
        /\ \A g \in Holder : \A q \in held[g] :
              q # r /\ q.slot = r.slot => Covers(q) \intersect Covers(r) = {}

\* The GPU is only given bytes of the running generation's committed prefix.
PublishedIsCommitted ==
    \A s \in Slot : slots[s].references # 0 /\ (\A t \in Thread : ~At(t, "empty"))
        => slots[s].published <= slots[s].committed

\* The wake-up of a blocked producer is in exactly one place: still on offer,
\* in the hands of the owner who claimed it, or in the semaphore; and nothing
\* is left behind when nobody waits.
Sleeper == {p \in Producer : th[p].at \in {"recheck", "disarm", "request", "wait"}}

WakeupIsUnique ==
    ring.initialized =>
        Cardinality(Sleeper) = sema + Cardinality({t \in Thread : At(t, "signal")})
                                    + (IF waiting_slot = NoSlot THEN 0 ELSE 1)

\* Shutdown() takes nothing away from a running call or an owner: when the
\* semaphore is deleted and the slots are unmapped, no last owner is still
\* handing over to a waiter, no producer is between its lookup of the ring and
\* its return, and nobody holds a payload whose capture had reserved its bytes
\* before the ring was unpublished.
OwnersOutliveRing ==
    ~ring.initialized =>
        /\ \A t \in Thread : th[t].at \in {"claim", "signal"} => th[t].payload.late
        /\ \A p \in Producer :
              th[p].at \notin {"lock", "loop", "reserve", "empty", "fill", "commit",
                              "arm", "recheck", "disarm", "request", "wait"}
        /\ \A h \in Holder : \A r \in held[h] : r.late

\* What nobody takes from a slot while the EE sleeps for it: an unobserved span
\* that MTVU's journal has room for; a draw in the pending run of a MTVU that
\* took the flush request ahead of the record that made the draw; whatever MTVU
\* owns while it waits, in a capture of its own, for the mutex the EE holds; and
\* a run whose payloads a closed ring will not publish: the process exits.
Stuck ==
    LET here(S) == \E r \in S : r.slot = NextSlot
    IN  \/ here({r \in held["journal"] : ~Overflows(r)})
        \/ path1.missed /\ here(path1.run)
        \/ At("MTVU", "lock") /\ here(held["journal"] \union held["due"] \union path1.run)
        \/ path1.leaving # {} /\ ~ring.accepting

\* An EE asleep for a slot wakes, in every race of the last release, of
\* Shutdown() and of its own arming, whether its own batch, MTVU's queue, the
\* pending run or the GS worker owns the slot; unless it is stuck as above.
SleeperWakes == At("EE", "wait") ~> (~At("EE", "wait") \/ Stuck)
==============================================================================
