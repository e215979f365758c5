# VitaSX2 in TLA+

VitaSX2 is a redesign of PCSX2 for the PS Vita. Its own core is the machinery
that spreads one PS2 over three slow CPUs and a GPU: the EE thread on CPU0, the
VU1 worker (MTVU) on CPU1, the GS worker on CPU2, and the SGX. The threads are
joined by lock-free words, rings, journals and reference counts that no test
exercises (the repository has no test directory; what documents them is their
comments). This directory models that machinery in TLA+, checks it with TLC
and proves part of it with TLAPS.

## 1. Inventory

| Component | State | Operations | Interacts with |
|---|---|---|---|
| `Threading::WorkSema` (`common/Threading.h`, `common/Semaphore.cpp`) | one signed word, two semaphores | NotifyOfWork, CheckForWork, WaitForWork(WithSpin), WaitForEmpty(WithSpin), Kill, Reset | wakes MTVU, the GS worker, the shader compiler |
| `Threading::SingleWaiterProgressEvent` (`common/SingleWaiterProgressEvent.h`) | hint, waiting and claim flags, two mutexes, a semaphore | WaitForChange, NotifyOfProgress, PublishQuiescence | MTVU's ring-space and frame-boundary waits, PATH1 buffer wait |
| MTVU command ring (`pcsx2/MTVU.cpp`, `.h`) | word buffer, read/write positions (private and published), private VIF batch, request word, execute counters | ReserveSpace, Write*, CommitWritePos, VifUnpack, ExecuteVU, WaitVU, frame bound, Open/Close/Reset/Rebuild, worker loop | WorkSema, ProgressEvent, input ring, GS mailbox |
| Deferred UNPACK journal (`MTVU.cpp`, `vita/VitaGpuVuVifInput.cpp`) | captured spans not yet unpacked | capture, merge, append with compaction, replay | VU memory, row and column registers, ring |
| Immutable VIF input ring (`vita/VitaGpuVuVifInput.cpp`) | slots with packed generation and reference count, waiter, active ring pointer | Capture, Retain, Release, Publish, Initialize, Shutdown | EE, MTVU, GS worker, GPU |
| GS mailbox (`vita/VitaGsMailbox.cpp`, in place of `MTGS.cpp`) | command ring, counted PATH1 reservations, completion queue and pending run, frame count, five wake-ups | GenericStall, Send*, WaitGS, PostVsyncStart, ResetGS, Freeze, open, close, shutdown, MainLoop | all of the above |
| VU1 interrupt hand-off (`MTVU.cpp`, `Gif_Unit.cpp`) | flag word, SIGNAL and LABEL words | Gif_HandlerAD_MTVU, EndProgram, Get_MTVUChanges, vu1Finish | MTVU, the EE's GS registers |
| Generated GPU-VU transactions, universal epochs (`MTVU.cpp`, `vita/VitaGpuVuUniversalEpoch.cpp`) | in-flight executions, private VU state | submit, poll, adopt, roll back | GS worker, GPU |
| Persistent VIF-memory provenance (`VitaGpuVuVifInput.cpp`) | which payload last wrote each qword | record, resolve, invalidate | journal |
| Threads, semaphores (`common/Vita/VitaThreads.cpp`) | native handle, affinity, priority | Start, Join, SetAffinity | all threads |
| Shader compiler and program registry, GXM device/display/arena, VM state and save states, audio, disc reader, PS2 devices, recompilers | | | |

`PROJECT.json` lists every component with its status and, under `hazards`, what
is hard to test at which line. In short: lost, doubled or stray wake-ups in
the two primitives; the wrap of the command ring and pressure on it; records that
are private until published; a request word that races the worker's last look;
UNPACKs executed long after their registers changed; reference counts whose
generation is reused; a wait whose wake-up is behind the sleeper; teardown that
samples three counters one after the other; a reservation that one thread extends
while another claims it; three threads that can each wait for the next; two
words that one side writes and the other clears in several steps.

## 2. Modules

| Module | Models | Checked by | Proved in |
|---|---|---|---|
| `WorkSema` | the semaphore word, one action per atomic access or kernel call | `worksema` | `WorkSemaProofs` |
| `ProgressEvent` | the progress event, with late relaxed stores | `progress` | `ProgressEventProofs` |
| `MtvuRing` | EE and worker over the command ring | `ring*` | `MtvuRingProofs` |
| `VifJournal` | journal against immediate execution | `journal*` | `VifJournalProofs` |
| `InputRing` | slots, references, waiter, pending run, lifecycle | `input` | `InputRingFacts`, `InputRingProofs` |
| `GsStream` | abstract: one ordered stream of commands and PATH1 points | `gs_order` | `GsMailboxProofs` |
| `GsMailbox` | EE, GS worker and MTVU over the mailbox; implements `GsStream` | `gs_*` | `GsMailboxProofs` |
| `VuInterrupts` | SIGNAL, FINISH, LABEL, E and T from MTVU to the EE | `vu_interrupts` | `VuInterruptsProofs` |

`MC*` modules give the constants that a .cfg cannot write. The modules are
stacked by assumption rather than by INSTANCE: `MtvuRing` reduces WorkSema to a
sticky notification flag and the progress event to a wait that ends, perhaps early,
once the word has moved. `WorkSema` and `ProgressEvent` are where those
guarantees are checked and proved. `VifJournal` takes the ring as the FIFO that
`MtvuRing` establishes. `InputRing` takes MTVU as a thread that gets through its
queue. `GsMailbox` composes the three threads: it keeps of the command ring of
MTVU what the mailbox can see of it, the executions that are private, published
and completed, with the request word and the worker's sleep.

Every definition that translates code has an entry in the `map` of
`PROJECT.json`. A definition whose comment begins with "Mutant" is a plausible
bug, defined before the definition it would replace; `mutants` says which
property each one must break.

### WorkSema

`state` is the signed word, in two's complement with `Flag` for bit 30: the bit is
also set in SPINNING and SLEEPING, and the model keeps that. A load followed by a
compare-exchange loop is its successful exchange. A `Job` is one enqueue and the
NotifyOfWork() after it. One thread calls WaitForEmpty(), as in the code. Reset()
is guarded by the waiter being idle: in both users the thread that restarts the
worker is the one that waits. `CheckForWork` has no caller in this build and is
modelled all the same.

- `WakeupIsUnique`, `EmptyWakeupIsUnique`: while a thread sleeps, its wake-up is in
  exactly one place, and no token outlives a sleep.
- `IdleMeansDrained`, `EmptyIsTrue`: a negative word certifies a drained queue, so
  WaitForEmpty() says "empty" only after everything announced before it was done.
- `WorkIsProcessed`, `WaitForEmptyReturns`: liveness. WaitForEmpty() may wait as long as
  work keeps coming, so the second assumes that it stops.

Fairness is weak, per step of a thread inside a call; nothing makes a producer
enqueue, the worker choose to spin, or anybody kill.

### ProgressEvent

Sections under `m_mutex` are single actions. Outside it `seenProgress` and
`seenHint` are the oldest values that the other side may still read, so a relaxed
load returns any value from there on; only a locked section brings a thread up to
date. `Propagate` (a store becoming visible) has no fairness.

- `NoLostWakeup`: a consumer that has quiesced leaves nobody asleep, unclaimed, on
  a value it has passed. `StaleSleeperReturns` is its liveness form.
- `ArmIsOwned`, `TokenPerClaim`: one arm at a time and one token for it, also
  with two waiters and a stray token (`PostUnclaimedTokenForValidation`).

### MtvuRing

A ring word holds which record it belongs to and its offset there; payloads are in
the next two modules. `Reserved` and `Written` differ because WriteVIRegs() and
WriteVFRegs() write fewer words than they reserve. The EE's program counter `epc`
follows a call through batch publication, requests, reservation, wrap and write;
the worker's follows record, commit, quiescence and requests.

- `RecordsIntact`, `HandledInOrder`: unread words are never overwritten; records
  are handled in order, once, across wraps, resets and rebuilds.
- `PublishedIsFrozen`: a span is merged only into a record the worker cannot see.
- `OutstandingIsHonest`: the two lifetime counters of the frame bound never disagree
  with the records.
- `WaitVUIsBarrier`: when WaitVU() returns nothing is unread and nothing deferred.
- `CallsReturn`, `RequestsAreTaken`: liveness.

The first finding (below) puts the ring in a state in which nothing holds. Properties
are therefore stated for behaviours up to it. The ghost `lapped` is set by a wrap onto
words that are unread: with the reader still at position 0, or, if a record could
exceed the safety net of WaitOnSize(), with the reader ahead of the write position
(section 5 proves that the second needs such a record). Fairness: weak
for a started EE call and for the worker, strong for a capture to end once begun,
however often pressure makes it publish the batch first. That is the one thing
assumed of the input ring (see there for when it fails): `CallsReturn` speaks of the
command ring alone. RequestGpuVuPath1Publication() has no caller and is left out.

### VifJournal

The state of the worker (VU memory, row register, journal) and the queue, next to
`refMem` and `refRow`: the same commands executed as the EE issues them, which is
what PCSX2's `_nVifUnpackLoop` does. A lane of a qword remembers which vector it
came from and which row was added, so two memories are equal only if each value
was computed from the same data. Formats: affine (V4-32, mode 0), masked
(a write-protected lane), offset (mode 1), difference (mode 2; mode 3 is alike).
The column register and the fill cycles of CL < WL are left out.

- `JournalIsExact`: replaying the journal now would give exactly the reference
  memory, whatever was merged, thrown away or replayed early.
- `JournalIsCompact`: no journal entry is fully hidden by a newer affine one.

A merged span of all 1024 qwords does not retire an older span that wraps past its
first qword (`VitaGpuVuVifInput.cpp:223` compares without a second turn): memory
is right, one payload is kept longer. The run stays below a full turn.

### InputRing

One program counter per thread; one step is one atomic access, a compare-exchange
loop being one step. A unit of a slot is PayloadAlignment bytes. References
belong to a holder: the EE's private `batch`, MTVU's queue and `journal`, the spans
that an Execute or another observing record makes `due` for release, and `draw`s.
A draw joins the pending run of MTVU (`path1.run`) and is not the GS worker's until MTVU
closes the run: at a record, when its record loop has ended and it takes a
request (`TakePublicationRequests`), or for a full run. The run is then `leaving`: MTVU
publishes its payloads to the GPU one by one, and completes it.
`late` marks payloads reserved after Shutdown() had unpublished the ring.

- `OwnershipIsExact`: the packed count equals the owners, roll-backs included.
- `PayloadIsImmutable`: every held reference resolves while the ring is published,
  and its bytes are those its own capture wrote.
- `PublishedIsCommitted`: the GPU is given only the committed prefix of the running
  generation.
- `WakeupIsUnique`, `SleeperWakes`: the hand-over to a blocked producer.
- `OwnersOutliveRing`: Shutdown() takes nothing from a running call, nor from an
  owner whose bytes were reserved before it began.

Two limits that the properties state rather than hide. Shutdown() samples the
references (`VitaGpuVuVifInput.cpp:969`) before the capture calls (976), so a
capture that reserves in between may leave a `late` owner in an unmapped slot; it
takes a Shutdown() beside a running producer, and `VitaVmState` drains MTVU and
waits on the CPU thread before it closes the GS. And `SleeperWakes`, which needs
the call to publish the private batch and to request the flush before it sleeps,
excepts (`Stuck`) what the code leaves without a way out:

- a span in MTVU's journal while the journal has room: it is released only when a
  later record is read, and the EE asleep is who would issue it. With the code's 64
  spans of at most 16 KiB and four slots of 2 MiB that takes one span left alone while
  the whole ring fills with UNPACKs that hide each other, and no Execute. The run's
  ring is small, so its journal holds one span;
- a draw in the pending run of a MTVU that took the flush request ahead of the
  record that made the draw: finding 4 again, seen from another waiter;
- MTVU waiting, in a capture of its own, for the mutex the sleeper holds;
- a run whose payloads a closed ring refuses to publish: the process exits
  (`VitaGsMailbox.cpp:7922`).

Without the second, third or fourth exception, without the batch publication, or
without the flush request the run has a counterexample. The first is not needed
for a journal of one span, which is full as soon as a newer span is there.

MTVU as a producer exists only in builds with
`VITASX2_GPU_VU_UNIVERSAL_VALIDATION` (off by default). Shutdown() runs beside the
producers, as its comments intend. Initialize() runs with the producers idle (the
CPU thread waits in WaitForOpen()). In validation builds MTVU's retirement request
publishes the EE's private batch, a data race that the model makes one atomic
step. The per-generation cache of the guard scan, and kernel failures when a
semaphore is deleted or a block unmapped, are left out.

Fairness: weak for a thread inside a capture, a reference call or Shutdown();
strong for what MTVU owes: to release what is due (it gets through its queue
whatever else it is asked), to replay a journal that is full when the next span is
there (`MTVU.cpp:7360`), and to leave its record loop while a request waits (every
request ends in a KickStart()); weak for taking the request and completing the
run; and strong for the GS worker retiring the draws of the requested slot that
MTVU has completed (the request stays armed, `VitaGsMailbox.cpp:8598`). That a draw
reaches the GS worker is no assumption: it follows from the flush request.

### GsStream and GsMailbox

`GsStream` is the promise: the commands of the EE are one queue, a PATH1 point stands
for one VU1 execution, and the GS shows the n-th point with the output of the n-th
execution, never across another command. `GsMailbox` is how it is kept:

- the EE (`epc`, `call`) goes through a call: publish MTVU's private records,
  request a flush, find room (`GenericStall`: spin or countdown), extend the open
  PATH1 run or write a command, count and pace a frame, drain, close, reopen;
- the GS worker (`gpc`) wakes, handles the head, claims a run of reservations once
  and uses up completions against it, leaves an unmet PATH1 head in place and
  announces that, advances, counts down a stalled EE, sleeps;
- MTVU (`vpc`, `pending`, `outbox`) executes, keeps draws back, publishes a prefix
  or flushes with the submission marker, and owes two wake-ups per publication.

One step is one atomic access that another thread can see. WaitForEmpty() of
WorkSema is true of a worker that sleeps at an unmet PATH1 head too, which is why
WaitGS() has its drain waiter. The copy tally that decides whether a command wakes
the worker is a free choice; a VSync always does. An execution yields PATH1 data of
the CPU, nothing, a direct draw, or a generated draw.

- `ImplementsStream`: the refinement. `Unread` maps the words between the two positions
  (with what is left of a claimed run) to the abstract queue; an execution whose
  reservation is not in the ring yet is not issued.
- `WaitGSIsBarrier`: when a strong WaitGS() returns, every execution is shown,
  nothing is left in any queue, and every generated draw has been submitted. Reset,
  Freeze, StartThread and the close, which discards completions, rely on it.
- `WakeupsAreOwned`: for the ring stall, the VSync listener, the drain waiter and
  open/close, an armed flag and its token are never both there and none outlives
  its call.
- `FramesAreExact`: the frame count is the number of VSyncs between the two positions,
  with the one the EE has counted and not yet published and without the one the
  worker has retired and not yet passed. That it stays at
  VsyncQueueSize is not claimed: the worker's post at the end of a pass satisfies
  a listener whose VSync is not published yet.
- `CallsReturn`: every call returns, unless `missed`: one of the two races that
  `gs_drain` and `gs_flush` exhibit has happened. `missed` is set exactly there.

Fairness: weak per thread (three threads on three cores); the EE need not begin a
call. Left out: SynchronousMTGS, the renderer, universal epochs and the
notification bridge of the validation build, the CanDoGif deferral, the retirement
service (in `InputRing`), a WaitGS() of MTVU on anything but its PATH1 buffer.

### VuInterrupts

`flags`, `gsSignal` and `gsLabel` are the three shared words; each fetch_or, load,
exchange and fetch_and is a step, in the order of the code. `refSignal` and
`refLabel` are the registers if each write were applied at once, in order.

- `LabelIsNeverLost`: coalescing is exact, and a waiting LABEL always has a flag or
  a taker: this is what clearing the flag before the exchange is for.
- `SignalIsExact`: unless the code reported a double SIGNAL, or the one-entry queue
  of the GIF unit was overwritten (`dropped`: it takes three SIGNALs before the guest
  clears CSR), no SIGNAL is lost, torn or applied twice.
- `FinishDelivers`: vu1Finish() with its WaitVU() is a barrier for interrupts too.

## 3. Runs

| Run | Instance | Shows |
|---|---|---|
| `worksema` | 3 jobs, Flag 8 | all of WorkSema, kills and resets included |
| `progress` | 2 waiters, 3 publications, 1 stray token | all of ProgressEvent |
| `ring` | 6 words, 4 records, all calls | wraps, a full ring, merged spans, WaitVU, close, rebuild; liveness |
| `ring_wrap_lap` | 8 words, 6 records | **violation**, finding 1 |
| `journal` | 3 qwords, journal of 2, 3 commands | exactness and compaction, all formats |
| `journal_row` | same, with row writes | **violation**, finding 2 |
| `input` | 2 slots of 2 units, generations to 4, journal of 1, four workloads of 2 to 4 captures | all safety; the sleeper wakes, whoever owns its slot |
| `gs_order` | 5 words, pending run of 3, any 3 calls, all outputs | refinement, barrier, wake-ups, frames |
| `gs_live` | 3 words, 3 calls, no frame queue, CPU packets and generated draws | every call returns |
| `gs_drain` | 3 words, executions and WaitGS, CPU packets | **violation**, finding 3 |
| `gs_flush` | 3 words, executions and WaitGS, generated draws | **violation**, finding 4 |
| `vu_interrupts` | 2 bits, 3 words, 3 writes, 2 programs | the interrupt hand-off |

Why the bounds suffice for the cases that matter: three jobs give a notification
at each of the worker's steps and one more; a 6-word ring with a margin of one
wraps within four records and makes the EE wait at both ends; a journal of
two overflows at the third span, and a span of two of three qwords wraps; two slots of two units are
filled by captures of one and of two, so that an EE sleeps for a slot that its batch,
MTVU's queue or journal, the pending run or the GS worker owns, and a MTVU for one
of the EE's; four generations reach the last one. A
mailbox of three words is full after two commands, so that the third call stalls,
by spinning and by the countdown, and one of five holds the two frames that make
a VSync wait for its listener (`gs_live`, of three words, cannot hold two: its VSync
has no frame queue and waits with WaitGS(), and that the listener's wait ends is
left to `WakeupsAreOwned`); two reservations fill a run and a third
call closes it or comes after its claim; one CPU packet fills the PATH1 buffer in
`gs_order`, and two in `gs_live` fill the completion queue first.
Three writes make two LABELs coalesce and a SIGNAL double.
`CHECK_DEADLOCK FALSE` appears where a bounded behaviour runs out of calls to
make. All runs use Spec or LiveSpec of the module itself and replace nothing.

## 4. Findings

1. `ReserveSpace()` may wrap while the read position is still 0: the positions are
   then equal with packets pending, which `MTVU.h:35` says cannot be. The FIXME at
   `MTVU.cpp:6967` describes the symptom.
2. A row (or column) write does not replay the journal first, and a span carries no
   row: a mode-1 UNPACK captured before it is replayed with the new row.
3. WaitGS() may read `completion_waiting` between the worker's announcement and its
   second look, which finds the completion: MTVU has published its last, and the EE
   sleeps for one more. A wait that ignored an announcement with a completion
   in the queue, or an announcement withdrawn with a post, would not.
4. A flush request may be consumed with executions unhandled: MTVU decides that the
   ring is empty and then takes the request word. A generated draw executed after
   that stays pending, and the WaitGS() that asked for it does not return. The
   comment at `MTVU.cpp:7297` says otherwise.

## 5. Proofs

For every set of jobs and every flag word of at least 8:

- `TypeCorrect`, `WakeupNeverLost`, `EmptyWakeupNeverLost`, `IdleWordIsHonest`,
  `WaitForEmptyIsCorrect` (`WorkSemaProofs`). The checked invariants are not inductive
  together. `IInv` adds `PcAndWord` (where the worker stands fixes the sign of the
  word), `DrainedWindow` (a worker that found its queue empty and whose word
  still counts nothing has no announced job waiting) and `OwedWindow` (while the
  waiter's wake-up is under way the jobs it waits for are done, or the worker is
  dead). One lemma per thread, one step per action. The only assumption is
  `FlagAssumption`.

For every set of waiters and all bounds:

- `TypeCorrect`, `WakeupIsNeverLost`, `ArmHasOneOwner`, `TokensAreClaims`
  (`ProgressEventProofs`). `NoLostWakeup` needs
  `ArmIsOwned` and `QuiescenceIsVisible`: a consumer that stopped publishing did
  so with everything visible, so a waiter that arms afterwards compares with the
  newest value. Assumed: the bounds are numbers, and no thread is called "free".

For every set of bits and words and any number of writes and programs:

- `TypeCorrect`, `LabelsAreNeverLost`, `SignalsAreExact`, `FinishIsBarrier`
  (`VuInterruptsProofs`). `MergeIsSequential` says that a coalesced LABEL acts like its
  two parts in turn. `SignalIsExact` needs `SignalIsAlone` (between its look at the
  flag and its own flag an unreported SIGNAL finds the flag clear, so the EE is not
  at gsSignal) and that a queued SIGNAL implies CSR.SIGNAL; `FinishDelivers` needs
  `WorkerIsQuiet` (after WaitVU() the EE's one copy of the flags holds them all) and
  `FinishIsAccounted`. One lemma per conjunct, one step per action. Assumed:
  `InterruptAssumption`, that the words are words and the bounds numbers.

For every buffer size, margin, table of record sizes and limits:

- `TypeCorrect`, `RecordsStayIntact`, `RecordsHandledInOrder`, `OutstandingStaysHonest`
  and the action properties `PublishedStaysFrozen` and `WaitVUStaysBarrier`
  (`MtvuRingProofs`). `RecordsIntact` is about words and does not survive a step by
  itself: that the next write misses every unread word is a fact about where the
  records lie. `RecordsFollow` says that from the published read position on each
  unread record begins where the one before it ends, a NULL packet ending at 0, and
  that the four positions stand at records; `RecordsAreOrdered`, that a record in
  front of the reader ends before every later one in front of it, that once a record
  is behind the reader all later ones are, and that a NULL packet is where this
  turns. `RecordsFit` and `WordsAreOfRecords` tie the words to the records,
  `BatchIsPrivate` says what the worker cannot see, and `WorkerIsParked` and
  `WaitIsAnswered` where both threads are around WaitVU(), Reset() and Close(): a worker
  that sleeps on unread records has been notified. Assumed: `SizeAssumption`.
- `MarginSuffices`: if no reservation exceeds the safety net of WaitOnSize() by more
  than two words, the only wrap onto unread words is the one of finding 1. The
  hypothesis is a condition on the records that wrap. The net is 4096 words and the
  records of the running game stay near 1100; the two of 4099 words, a whole
  micro or data memory (`MTVU.cpp:595`, `MTVU.cpp:749`), are written right after
  Reset(), from the start of the buffer, and do not wrap.

For every number and size of slots, last generation, and sequence and sizes of
captures:

- `TypeCorrect`, `OwnershipStaysExact`, `PayloadStaysImmutable`,
  `PublishedStaysCommitted`, `WakeupStaysUnique`, `OwnersStayOutliving`. The invariant and
  the facts about single operations are in `InputRingFacts`, the steps in
  `InputRingProofs`. Ownership: a holder's share of a slot is a cardinality
  (`Owned`), so a transfer between holders moves one from one set to another;
  `HoldersAreDistinct` says that the sets it moves between do not already have it, and
  `PinsAreCurrent` that a thread between its retain and its confirmation, or its
  release, has pinned the running generation. Immutability: `LiveIsWhole` (a live
  payload lies below the committed offset and its bytes have its generation),
  `LiveIsDisjoint`, and `ReservationIsNext` (a capture writes from the write offset on,
  which is above all that); a slot changes generation only with no reference left,
  which `OwnershipIsExact` turns into no owner. Publication: `RunIsHeld` (a pending or
  leaving draw is still owned, so what MTVU publishes is of the running generation and
  its committed prefix can only have grown since it was read). Wake-up and shutdown: `MutexIsHeld`,
  `CallsAreCounted`, `RingLife`, and `LeftIsLate`, which says at which step of
  Shutdown() nothing but late payloads can remain. Assumed: `RingAssumption`, which
  has the minimum of two slots and the sizes of the code.

For every ring size, frame queue, run length, set of calls and number of calls:

- `WakeupsStayOwned`, `TypeCorrect`, `FramesStayCounted` (`GsMailboxProofs`), by the
  first three of four invariants, each resting on those before. `WakeInv`: each flag and its token
  are one unit that exists from the waiter's arming to its last step, only a VSync
  that counted its frame listens, and `LifeIsOrderly` places the worker for every stage of
  open, close and restart. `TypeInv`: an execution is numbered once, and what a
  thread is about to take is there. `FrameInv`: the EE writes only where
  GenericStall() has seen room (`RoomIsLeft`; the worker can only add to it), a VSync
  and its snapshot are published and passed as one (`PacketsAreWhole`), so the worker
  never reads a payload as a command, and the mailbox is empty when it closes.
  `FrameInvariant` is listed for itself: it is why the ring is never overrun.
- `MailboxImplementsStream`, the refinement of `GsStream`, and `WaitGSStaysBarrier`, by the
  fourth, `StreamInv`. `RunInv`: the run that may still grow is the last command and
  unclaimed (`OpenRunIsLast`), an unclaimed run counts at least one execution, what is
  left of a claimed one is at the head, and an execution that has no place yet is on
  its way to one. `ChainInv`: the executions not shown are, numbered without a gap,
  those of the completions, of what MTVU is publishing and of its pending run
  (`PointsAreLinked`), and every generated draw among them, or shown and not submitted,
  has a marker behind it or is still pending (`DrawsAreMarked`). `PointsAreNumbered`: as
  many PATH1 points are unread as executions are issued and not shown. `RingSteps`
  reduces Next to the six steps that touch the commands and a step that leaves them
  alone; for each a lemma says what it does to `Unread` (`ExtendedUnread`,
  `WrittenUnread`, `HandledUnread`, `ConsumedUnread`, `PassedUnread`, `StartedUnread`), and
  `StreamSteps` puts them together into steps of the stream. For the barrier: an empty
  ring has no unread points, so every execution is shown (`DrainedIsShown`), so the
  chain is empty (`DrainedIsEmpty`) and no draw is left to mark. The same argument
  makes a hardware reset, a close and a restart lose nothing, which the invariant
  needs for its own preservation. `Unread` and the chain are recursive functions; what is
  needed of them is proved by the least place at which it would fail (`Induction`).

Assumed for all of these: `MailboxAssumption`. The races of findings 3 and 4 cost
progress only; the stream stays in order and the barrier holds through both.

For every size of VU memory, journal bound, set of formats, span lengths and
sequence of commands:

- `TypeCorrect`, `JournalStaysCompact` and `DeferralIsExact` (`VifJournalProofs`). A record has
  an `Effect` on the VU state, memory and row, and a worker state is `Settled` by
  replaying its journal. `ReadIsExact`: reading a record changes the settled state by
  the record's effect. For a compaction this is because dropping a span changes
  memory only where the new span writes (`SameBut`), and that difference
  survives every span in between until the new one removes it; for an overflow, because
  replaying early is what would have come later. `QueueIsExact`, that the effects of
  the queued records lead from the settled worker to the reference, is then kept by
  the EE and by the worker; merging two adjacent spans has the effect of both. The
  loops over journal and queue are recursive functions, and induction over them is
  again by the least failing place. `DeferralIsExact` assumes `RowIsSafe`: no row write,
  or no format that uses the row. That is the condition finding 2 violates, and apart
  from it nothing is needed but `JournalAssumption`.

In these modules there is a lemma per conjunct or group of conjuncts, with a
step per action; the inductive invariants were first checked by TLC on the
instances of `ring`, `input`, `gs_order` and `journal`.

Only model-checked: the liveness properties (`WorkIsProcessed`, `WaitForEmptyReturns`,
`StaleSleeperReturns`, `CallsReturn` of two modules, `RequestsAreTaken`, `SleeperWakes`), because
fairness and ENABLED are beyond the prover.
The properties of the four runs that expect a violation are false of the code and
have no theorem. Every other property of a passing run is proved.

## 6. Plan

1. (done) WorkSema and ProgressEvent with proofs; MtvuRing; VifJournal; InputRing.
2. (done) The GS mailbox with its abstract stream; the interrupt hand-off with
   proofs.
3. (done) Proofs: all safety and the refinement, in every module.
4. Generated transactions: an abstract VU state machine, and the in-flight,
   adopted and rolled-back executions as its refinement. Provenance as pure
   operators.

Not modelled:

- generated transactions and universal epochs (planned above): thousands of lines
  of `MTVU.cpp` whose state is the private VU1 memory of each execution;
- threads and affinity: a start handshake around the kernel's own primitives;
- the shader compiler and registry: a WorkSema user around the system compiler;
- the recompilers: their correctness is instruction semantics, which a state
  machine of this size says nothing about;
- the GXM device (a closed library), the PS2 devices inherited from PCSX2
  (sequential on the CPU thread), audio, disc reader and file formats.

The repository is mostly that inherited, generated or sequential code; the modules
cover the concurrent core and no more than a small share of its lines. The reasons
are with each component in `PROJECT.json`.
