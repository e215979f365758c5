------------------------------ MODULE MtvuRing ------------------------------
(***************************************************************************)
(* VU_Thread's command ring (pcsx2/MTVU.cpp): the EE thread writes records *)
(* into a ring of words, the MTVU worker reads them in order.              *)
(*                                                                         *)
(* The EE owns m_write_pos and publishes it through m_ato_write_pos; the   *)
(* worker owns m_read_pos and publishes it through m_ato_read_pos.         *)
(* Captured UNPACK records stay private to the EE until a later record, a  *)
(* transfer boundary or pressure publishes the batch.                      *)
(*                                                                         *)
(* WorkSema is reduced to a sticky notification flag (module WorkSema      *)
(* shows that no wake-up is lost and that "empty" is only said of a        *)
(* drained queue), SingleWaiterProgressEvent to a wait that ends, possibly *)
(* early, once the observed word has moved (module ProgressEvent).         *)
(* A ring word holds <<record, offset in it>>; payloads are not modelled.  *)
(***************************************************************************)
EXTENDS Integers, Sequences, FiniteSets

CONSTANTS
    BufferSize,     \* buffer_size, in words
    Margin,         \* the _4kb safety net of WaitOnSize()
    Reserved,       \* Reserved[k]: words ReserveSpace() is asked for
    Written,        \* Written[k]: words a record of kind k occupies
    MaximumOutstandingVuExecutions,
    MaximumDeferredAffineSpans,
    Calls,          \* the EE calls a behaviour may make
    MaxRecords,     \* bound on the records of one behaviour, NULL included
    MaxSpans        \* bound on the spans merged into one record

RecordKind == {"captured", "unpack", "execute", "data", "plain", "flush"}
Call == (RecordKind \ {"flush"}) \union
        {"transferEnd", "direct", "vsync", "wait", "rebuild", "close"}

ASSUME SizeAssumption ==
    /\ BufferSize \in Nat /\ Margin \in Nat
    /\ MaxRecords \in Nat /\ MaxSpans \in Nat
    /\ MaximumOutstandingVuExecutions \in Nat \ {0}
    /\ MaximumDeferredAffineSpans \in Nat \ {0}
    /\ Reserved \in [RecordKind -> Nat] /\ Written \in [RecordKind -> Nat]
    /\ \A k \in RecordKind : /\ 0 < Written[k] /\ Written[k] <= Reserved[k]
                             /\ Reserved[k] < BufferSize
    /\ Calls \subseteq Call

VARIABLES
    buffer,         \* buffer[p] = <<record, offset>>, record 0 for none
    atoWrite, writePos, atoRead, readPos,
    pendingBatch,   \* m_pending_vif_batch
    spanRecord,     \* the record m_pending_captured_vif_span_pos points at
                    \* (its position identifies it), 0 for none
    notified,       \* semaEvent: work announced and not acknowledged
    requests,       \* m_gpu_vu_path1_publication_requests
    shutdown,       \* m_shutdown_flag
    deferred,       \* m_deferred_vif_unpack_count
    enqueued, completed,    \* m_execute_jobs_enqueued, _completed
    epc, call, then, observed,  \* the EE: where, in which call, where after
                                \* KickStart(), and the word it waits on
    wpc,            \* the worker
    written,        \* ghost: every record ever written, in order
    published,      \* ghost: how many of them the worker may see
    handled,        \* ghost: the records the worker has finished, in order
    lapped          \* ghost: the EE has wrapped onto words of an unread lap

eeVars == <<atoWrite, writePos, pendingBatch, spanRecord, enqueued, epc, call,
            then, observed>>
workerVars == <<atoRead, readPos, deferred, completed, wpc, handled>>
vars == <<buffer, eeVars, workerVars, notified, requests, shutdown, written,
          published, lapped>>

Position == 0 .. BufferSize - 1

-----------------------------------------------------------------------------
(* Helpers of the EE thread *)

\* Mutant: the batch stays marked private after it was published.
CommitKeepsBatch(p) ==
    /\ atoWrite' = p
    /\ published' = Len(written')
    /\ UNCHANGED <<pendingBatch, spanRecord>>

\* CommitWritePos(): publishes everything written so far
CommitWritePos(p) ==
    /\ atoWrite' = p
    /\ published' = Len(written')
    /\ pendingBatch' = FALSE
    /\ spanRecord' = 0

\* Mutant: a wrapped writer only checks where its record starts.
FitsStartOnly(n) == atoRead <= writePos \/ atoRead > writePos

\* The test of WaitOnSize(): behind the reader, or enough room in front of it
Fits(n) == atoRead <= writePos \/ atoRead > writePos + n + Margin

\* Write(): the words of a new record of kind k at writePos
WriteRecord(k, n) ==
    /\ written' = Append(written,
                         [kind |-> k, pos |-> writePos, size |-> n, spans |-> 1])
    /\ buffer' = [p \in Position |->
                     IF p \in writePos .. writePos + n - 1
                     THEN <<Len(written) + 1, p - writePos>>
                     ELSE buffer[p]]

RecordOf(c) == IF c \in {"wait", "rebuild", "close"} THEN "flush" ELSE c

Goto(pc) ==
    /\ epc' = pc /\ then' = "idle"
    /\ call' = IF pc \in {"idle", "closed"} THEN "none" ELSE call
KickThen(pc) == epc' = "kick" /\ then' = pc /\ UNCHANGED call

-----------------------------------------------------------------------------
(* The EE thread *)

\* A call of the public interface; PrepareVuCodeForExecute() and the calls
\* that only need WaitVU() appear as their ring operations.
Begin(c) ==
    /\ epc = "idle" /\ c \in Calls
    /\ RecordOf(c) \in RecordKind => Len(written) + 2 <= MaxRecords
    /\ call' = c /\ then' = "idle"
    /\ epc' = CASE c = "captured" -> "capture"
                [] c \in {"transferEnd", "direct", "vsync"} -> "publish"
                [] OTHER -> "reserve"
    /\ UNCHANGED <<buffer, atoWrite, writePos, pendingBatch, spanRecord, enqueued,
                   observed, workerVars, notified, requests, shutdown, written,
                   published, lapped>>

\* semaEvent.NotifyOfWork()
KickStart ==
    /\ epc = "kick"
    /\ notified' = TRUE
    /\ Goto(then)
    /\ UNCHANGED <<buffer, atoWrite, writePos, pendingBatch, spanRecord, enqueued,
                   observed, workerVars, requests, shutdown, written,
                   published, lapped>>

\* VifUnpack(): an adjacent direct-affine span joins the last private one
MergeSpan ==
    /\ epc = "capture" /\ pendingBatch /\ spanRecord > 0
    /\ written[spanRecord].spans < MaxSpans
    /\ written' = [written EXCEPT ![spanRecord].spans = @ + 1]
    /\ Goto("idle")
    /\ UNCHANGED <<buffer, atoWrite, writePos, pendingBatch, spanRecord, enqueued,
                   observed, workerVars, notified, requests, shutdown,
                   published, lapped>>

\* A span that does not merge is a record of its own.
SeparateSpan ==
    /\ epc = "capture"
    /\ Goto("reserve")
    /\ UNCHANGED <<buffer, atoWrite, writePos, pendingBatch, spanRecord, enqueued,
                   observed, workerVars, notified, requests, shutdown,
                   written, published, lapped>>

\* CaptureRawVifPayload() under pressure: VitaGS::RequestGpuVuInputRetirement()
\* publishes the batch and asks for a visibility flush before it waits.
CapturePressure ==
    /\ epc = "capture"
    /\ Goto("publish")
    /\ UNCHANGED <<buffer, atoWrite, writePos, pendingBatch, spanRecord, enqueued,
                   observed, workerVars, notified, requests, shutdown,
                   written, published, lapped>>

\* PublishPendingVifBatch()
AfterPublish == IF call = "transferEnd" THEN "idle" ELSE "request"

PublishPendingVifBatch ==
    /\ epc = "publish"
    /\ IF pendingBatch
       THEN /\ written' = written /\ CommitWritePos(writePos)
            /\ KickThen(AfterPublish)
       ELSE /\ Goto(AfterPublish)
            /\ UNCHANGED <<written, atoWrite, published, pendingBatch, spanRecord>>
    /\ UNCHANGED <<buffer, writePos, enqueued, observed, workerVars, notified,
                   requests, shutdown, lapped>>

\* RequestGpuVuPath1Flush()
RequestGpuVuPath1Flush ==
    /\ epc = "request"
    /\ requests' = requests \union {"publish", "visibility"}
    /\ KickThen(CASE call = "captured" -> "capture"
                  [] call = "vsync" -> "bound"
                  [] OTHER -> "idle")
    /\ UNCHANGED <<buffer, atoWrite, writePos, pendingBatch, spanRecord, enqueued,
                   observed, workerVars, notified, shutdown, written,
                   published, lapped>>

\* Mutant: the last word of the buffer is given away, NULL has no place left.
ReserveWholeBuffer ==
    /\ epc = "reserve"
    /\ Goto(IF writePos + Reserved[RecordOf(call)] > BufferSize
            THEN "wrap" ELSE "space")
    /\ UNCHANGED <<buffer, atoWrite, writePos, pendingBatch, spanRecord, enqueued,
                   observed, workerVars, notified, requests, shutdown,
                   written, published, lapped>>

\* ReserveSpace(): a record that does not fit before the end wraps first
ReserveSpace ==
    /\ epc = "reserve"
    /\ Goto(IF writePos + Reserved[RecordOf(call)] > BufferSize - 1
            THEN "wrap" ELSE "space")
    /\ UNCHANGED <<buffer, atoWrite, writePos, pendingBatch, spanRecord, enqueued,
                   observed, workerVars, notified, requests, shutdown,
                   written, published, lapped>>

Needed == IF epc = "wrap" THEN 1 ELSE Reserved[RecordOf(call)]

\* Mutant: the EE trusts that whoever wrote the last record kicked the worker.
WaitOnSizeUnkicked ==
    /\ epc \in {"wrap", "space"} /\ ~Fits(Needed)
    /\ IF pendingBatch
       THEN /\ written' = written /\ CommitWritePos(writePos)
            /\ KickThen(epc) /\ UNCHANGED observed
       ELSE /\ Goto(IF epc = "wrap" THEN "sleepWrap" ELSE "sleepSpace")
            /\ observed' = atoRead
            /\ UNCHANGED <<written, atoWrite, published, pendingBatch, spanRecord>>
    /\ UNCHANGED <<buffer, writePos, enqueued, workerVars, notified, requests,
                   shutdown, lapped>>

\* WaitOnSize() when there is no room: a private batch is published first,
\* otherwise the worker is kicked and the EE sleeps on the read position.
WaitOnSize ==
    /\ epc \in {"wrap", "space"} /\ ~Fits(Needed)
    /\ IF pendingBatch
       THEN /\ written' = written /\ CommitWritePos(writePos)
            /\ KickThen(epc) /\ UNCHANGED observed
       ELSE /\ KickThen(IF epc = "wrap" THEN "sleepWrap" ELSE "sleepSpace")
            /\ observed' = atoRead
            /\ UNCHANGED <<written, atoWrite, published, pendingBatch, spanRecord>>
    /\ UNCHANGED <<buffer, writePos, enqueued, workerVars, notified, requests,
                   shutdown, lapped>>

\* m_ring_space_progress.WaitForChange() returns; it may do so early.
SpaceWakeup(early) ==
    /\ epc \in {"sleepWrap", "sleepSpace"} /\ (early \/ atoRead # observed)
    /\ Goto(IF epc = "sleepWrap" THEN "wrap" ELSE "space")
    /\ observed' = 0
    /\ UNCHANGED <<buffer, atoWrite, writePos, pendingBatch, spanRecord, enqueued,
                   workerVars, notified, requests, shutdown,
                   written, published, lapped>>

\* The MTVU_NULL_PACKET, the return to position 0 and CommitWritePos().  The
\* reader may still be at 0, or in front of the writer in the lap before.
Wrap ==
    /\ epc = "wrap" /\ Fits(1)
    /\ WriteRecord("null", 1)
    /\ writePos' = 0
    /\ CommitWritePos(0)
    /\ lapped' = (lapped \/ atoRead = 0 \/ atoRead > writePos)
    /\ Goto("space")
    /\ UNCHANGED <<enqueued, observed, workerVars, notified, requests,
                   shutdown>>

\* Mutant: an execution is published without being counted.
WriteUncounted ==
    /\ epc = "space" /\ Fits(Reserved[RecordOf(call)])
    /\ LET k == RecordOf(call) IN
         /\ WriteRecord(k, Written[k])
         /\ writePos' = writePos + Written[k]
         /\ IF k = "captured"
            THEN /\ pendingBatch' = TRUE /\ spanRecord' = Len(written')
                 /\ UNCHANGED <<atoWrite, published>> /\ Goto("idle")
            ELSE /\ CommitWritePos(writePos')
                 /\ KickThen(IF k = "flush" THEN "empty" ELSE "idle")
    /\ UNCHANGED <<observed, workerVars, notified, requests, shutdown,
                   lapped, enqueued>>

\* The rest of every record call: captured UNPACKs stay private, the others
\* are published with everything before them and announced.
WriteCall ==
    /\ epc = "space" /\ Fits(Reserved[RecordOf(call)])
    /\ LET k == RecordOf(call) IN
         /\ WriteRecord(k, Written[k])
         /\ writePos' = writePos + Written[k]
         /\ enqueued' = IF k = "execute" THEN enqueued + 1 ELSE enqueued
         /\ IF k = "captured"
            THEN /\ pendingBatch' = TRUE /\ spanRecord' = Len(written')
                 /\ UNCHANGED <<atoWrite, published>> /\ Goto("idle")
            ELSE /\ CommitWritePos(writePos')
                 /\ KickThen(IF k = "flush" THEN "empty" ELSE "idle")
    /\ UNCHANGED <<observed, workerVars, notified, requests, shutdown,
                   lapped>>

\* semaEvent.WaitForEmpty() at the end of WaitForQueue()
WaitForEmpty ==
    /\ epc = "empty" /\ wpc = "wait" /\ ~notified
    /\ Goto(CASE call = "rebuild" -> "reset" [] call = "close" -> "stop"
              [] OTHER -> "idle")
    /\ UNCHANGED <<buffer, atoWrite, writePos, pendingBatch, spanRecord, enqueued,
                   observed, workerVars, notified, requests, shutdown,
                   written, published, lapped>>

\* Mutant: the worker's private read position is forgotten.
ResetKeepsReadPos ==
    /\ atoWrite' = 0 /\ writePos' = 0 /\ atoRead' = 0 /\ readPos' = readPos
    /\ pendingBatch' = FALSE /\ spanRecord' = 0
    /\ deferred' = 0 /\ requests' = {}

\* The ring part of Reset(), which also forgets requests and deferred spans;
\* the execution counters are lifetime counters and stay.
Reset ==
    /\ atoWrite' = 0 /\ writePos' = 0 /\ atoRead' = 0 /\ readPos' = 0
    /\ pendingBatch' = FALSE /\ spanRecord' = 0
    /\ deferred' = 0 /\ requests' = {}

\* RebuildFromCanonicalStateAfterPortableLoad(), after the caller's WaitVU()
Rebuild ==
    /\ epc = "reset"
    /\ Reset /\ Goto("idle")
    /\ UNCHANGED <<buffer, enqueued, observed, completed, wpc, handled,
                   notified, shutdown, written, published, lapped>>

\* BoundGpuVuExecutionLatencyAtFrameBoundary(); the batch is already public
BoundGpuVuExecutionLatency ==
    /\ epc = "bound"
    /\ enqueued' = IF completed > enqueued THEN completed ELSE enqueued
    /\ IF enqueued' - completed < MaximumOutstandingVuExecutions
       THEN Goto("idle") /\ UNCHANGED observed
       ELSE KickThen("sleepBound") /\ observed' = completed
    /\ UNCHANGED <<buffer, atoWrite, writePos, pendingBatch, spanRecord,
                   workerVars, notified, requests, shutdown, written,
                   published, lapped>>

BoundWakeup(early) ==
    /\ epc = "sleepBound" /\ (early \/ completed # observed)
    /\ Goto("bound")
    /\ observed' = 0
    /\ UNCHANGED <<buffer, atoWrite, writePos, pendingBatch, spanRecord, enqueued,
                   workerVars, notified, requests, shutdown,
                   written, published, lapped>>

\* Close() after its WaitVU(): the flag, the notification, Join(), release
StopWorker ==
    /\ epc = "stop"
    /\ shutdown' = TRUE
    /\ KickThen("join")
    /\ UNCHANGED <<buffer, atoWrite, writePos, pendingBatch, spanRecord, enqueued,
                   observed, workerVars, notified, requests, written,
                   published, lapped>>

Join ==
    /\ epc = "join" /\ wpc = "dead"
    /\ deferred' = 0
    /\ Goto("closed")
    /\ UNCHANGED <<buffer, atoWrite, writePos, pendingBatch, spanRecord, enqueued,
                   observed, atoRead, readPos, completed, wpc, handled,
                   notified, requests, shutdown, written, published, lapped>>

Open ==
    /\ epc = "closed" /\ Len(written) < MaxRecords
    /\ Reset
    /\ notified' = FALSE /\ shutdown' = FALSE /\ wpc' = "wait"
    /\ Goto("idle")
    /\ UNCHANGED <<buffer, enqueued, observed, completed, handled, written,
                   published, lapped>>

-----------------------------------------------------------------------------
(* The worker: ExecuteRingBuffer() *)

WaitForWork ==
    /\ wpc = "wait" /\ notified
    /\ notified' = FALSE
    /\ wpc' = IF shutdown THEN "exit" ELSE "loop"
    /\ UNCHANGED <<buffer, eeVars, atoRead, readPos, deferred, completed, handled,
                   requests, shutdown, written, published, lapped>>

\* Mutant: the observer record leaves the journal alone.
DeferredAfterNoFlush(k) ==
    CASE k = "captured" ->
             IF deferred >= MaximumDeferredAffineSpans THEN 1 ELSE deferred + 1
      [] k \in {"unpack", "execute", "data"} -> 0
      [] OTHER -> deferred

\* What handling a record does to the deferred journal: captured spans join
\* it, CPU and GPU executions use it up, memory writes and observers replay it.
DeferredAfter(k) ==
    CASE k = "captured" ->
             IF deferred >= MaximumDeferredAffineSpans THEN 1 ELSE deferred + 1
      [] k \in {"unpack", "execute", "data", "flush"} -> 0
      [] OTHER -> deferred

\* One record: the tag at the read position, its words, its effect, and the
\* completion count.  A word that is no tag is what jNO_DEFAULT leaves
\* undefined: the worker is lost.  An execution counts as completed when it has
\* been read: generated transactions, which complete it later, are left out.
HandleRecord ==
    /\ wpc = "loop" /\ atoRead # atoWrite
    /\ LET word == buffer[readPos] IN
         IF word[1] = 0 \/ word[2] # 0
         THEN wpc' = "lost" /\ UNCHANGED <<readPos, deferred, completed, handled>>
         ELSE LET r == written[word[1]] IN
              /\ readPos' = IF r.kind = "null" THEN 0 ELSE readPos + r.size
              /\ deferred' = DeferredAfter(r.kind)
              /\ completed' = IF r.kind = "execute" THEN completed + 1
                                                    ELSE completed
              /\ handled' = Append(handled, word[1])
              /\ wpc' = "commit"
    /\ UNCHANGED <<buffer, eeVars, atoRead, notified, requests, shutdown, written,
                   published, lapped>>

CommitReadPos ==
    /\ wpc = "commit"
    /\ atoRead' = readPos
    /\ wpc' = "loop"
    /\ UNCHANGED <<buffer, eeVars, readPos, deferred, completed, handled, notified,
                   requests, shutdown, written, published, lapped>>

\* The ring looked empty: PublishQuiescence(), then the requests are taken.
PublishQuiescence ==
    /\ wpc = "loop" /\ atoRead = atoWrite
    /\ wpc' = "quiet"
    /\ UNCHANGED <<buffer, eeVars, atoRead, readPos, deferred, completed, handled,
                   notified, requests, shutdown, written, published, lapped>>

\* Mutant: requests are only taken when their notification is the last one.
ServeRequestsIfQuiet ==
    /\ wpc = "quiet"
    /\ requests' = IF notified THEN {} ELSE requests
    /\ wpc' = "wait"
    /\ UNCHANGED <<buffer, eeVars, atoRead, readPos, deferred, completed, handled,
                   notified, shutdown, written, published, lapped>>

ServeRequests ==
    /\ wpc = "quiet"
    /\ requests' = {}
    /\ wpc' = "wait"
    /\ UNCHANGED <<buffer, eeVars, atoRead, readPos, deferred, completed, handled,
                   notified, shutdown, written, published, lapped>>

\* The shutdown tail: a last flush, PublishQuiescence() and Kill()
Exit ==
    /\ wpc = "exit"
    /\ wpc' = "dead"
    /\ UNCHANGED <<buffer, eeVars, atoRead, readPos, deferred, completed, handled,
                   notified, requests, shutdown, written, published, lapped>>

-----------------------------------------------------------------------------
Init ==
    /\ buffer = [p \in Position |-> <<0, 0>>]
    /\ atoWrite = 0 /\ writePos = 0 /\ atoRead = 0 /\ readPos = 0
    /\ pendingBatch = FALSE /\ spanRecord = 0
    /\ notified = FALSE /\ requests = {} /\ shutdown = FALSE
    /\ deferred = 0 /\ enqueued = 0 /\ completed = 0
    /\ epc = "idle" /\ call = "none" /\ then = "idle" /\ observed = 0
    /\ wpc = "wait"
    /\ written = <<>> /\ published = 0 /\ handled = <<>>
    /\ lapped = FALSE

EE ==
    \/ \E c \in Call : Begin(c)
    \/ KickStart \/ MergeSpan \/ SeparateSpan \/ CapturePressure
    \/ PublishPendingVifBatch \/ RequestGpuVuPath1Flush
    \/ ReserveSpace \/ WaitOnSize \/ Wrap \/ WriteCall
    \/ \E early \in BOOLEAN : SpaceWakeup(early) \/ BoundWakeup(early)
    \/ WaitForEmpty \/ Rebuild \/ BoundGpuVuExecutionLatency
    \/ StopWorker \/ Join \/ Open

Worker ==
    \/ WaitForWork \/ HandleRecord \/ CommitReadPos \/ PublishQuiescence
    \/ ServeRequests \/ Exit

Next == EE \/ Worker
Spec == Init /\ [][Next]_vars

\* Both threads run; a call under way continues, a wait ends only when its
\* condition holds, and the input ring's pressure does not last for ever.
EEContinues ==
    \/ KickStart \/ MergeSpan \/ SeparateSpan
    \/ PublishPendingVifBatch \/ RequestGpuVuPath1Flush
    \/ ReserveSpace \/ WaitOnSize \/ Wrap \/ WriteCall
    \/ SpaceWakeup(FALSE) \/ BoundWakeup(FALSE)
    \/ WaitForEmpty \/ Rebuild \/ BoundGpuVuExecutionLatency
    \/ StopWorker \/ Join

Fairness ==
    /\ WF_vars(EEContinues) /\ WF_vars(Worker)
    /\ SF_vars(MergeSpan \/ SeparateSpan)

LiveSpec == Spec /\ Fairness

-----------------------------------------------------------------------------
(* Properties *)

EEControl == {"idle", "capture", "publish", "request", "reserve", "wrap", "space",
              "sleepWrap", "sleepSpace", "kick", "empty", "reset", "bound",
              "sleepBound", "stop", "join", "closed"}

Record == [kind : RecordKind \union {"null"}, pos : Position,
           size : 1 .. BufferSize, spans : Nat]

RingTypes ==
    /\ buffer \in [Position -> (0 .. MaxRecords) \X (0 .. BufferSize)]
    /\ written \in Seq(Record) /\ Len(written) <= MaxRecords
    /\ handled \in Seq(1 .. MaxRecords)
    /\ atoWrite \in Position /\ writePos \in Position
    /\ atoRead \in Position /\ readPos \in Position
    /\ spanRecord \in 0 .. Len(written) /\ published \in 0 .. Len(written)

ControlTypes ==
    /\ pendingBatch \in BOOLEAN /\ notified \in BOOLEAN
    /\ shutdown \in BOOLEAN /\ lapped \in BOOLEAN
    /\ requests \subseteq {"publish", "visibility"}
    /\ epc \in EEControl /\ then \in EEControl /\ call \in Call \union {"none"}
    /\ wpc \in {"wait", "loop", "commit", "quiet", "exit", "dead", "lost"}

CounterTypes ==
    /\ deferred \in 0 .. MaximumDeferredAffineSpans
    /\ enqueued \in Nat /\ completed \in Nat /\ observed \in Nat

\* Every variable keeps its type; m_write_pos stays inside the buffer, the
\* assertion of ReserveSpace() and GetWritePtr(), with room for a NULL packet.
TypeOK == RingTypes /\ ControlTypes /\ CounterTypes

\* Records the worker is done with, the one it is handling excluded
Retired == Len(handled) - (IF wpc = "commit" THEN 1 ELSE 0)

\* As long as the EE has never wrapped onto an unread lap, no word of a
\* record is overwritten before the worker has committed past it: what
\* WaitOnSize(), ReserveSpace() and CommitReadPos() together must guarantee.
RecordsIntact ==
    ~lapped => \A i \in Retired + 1 .. Len(written) :
                   \A k \in 0 .. written[i].size - 1 :
                       buffer[written[i].pos + k] = <<i, k>>

\* Under the same condition the worker handles the records in the order they
\* were written, each once, never one that is still private to the EE, and
\* never loses its place, across wraps, Close()/Open() and Rebuild.
HandledInOrder ==
    ~lapped => /\ \A i \in 1 .. Len(handled) : handled[i] = i
               /\ Len(handled) <= published
               /\ wpc # "lost"

\* A record the worker may already be reading is never touched: a span is only
\* merged into a record that CommitWritePos() has not published.
PublishedIsFrozen ==
    [][\A i \in 1 .. published : written'[i] = written[i]]_vars

\* WaitVU() is an observation boundary: when it returns, every record ever
\* written was handled, no deferred UNPACK is left and the worker sleeps.
\* Reset(), reached through Rebuild, Close() and Open(), relies on it.
WaitVUIsBarrier ==
    [][(epc = "empty" /\ epc' # "empty" /\ ~lapped) =>
          /\ Len(handled) = Len(written) /\ deferred = 0
          /\ atoRead = atoWrite /\ readPos = atoRead /\ ~pendingBatch
          /\ wpc = "wait"]_vars

\* The two lifetime counters stay honest through resets: their difference,
\* which bounds how far the EE runs ahead, is the number of unhandled
\* executions, so the unsigned subtraction never wraps.
OutstandingIsHonest ==
    ~lapped => enqueued - completed =
                 Cardinality({i \in Len(handled) + 1 .. Len(written) :
                                  written[i].kind = "execute"})

\* No EE call hangs: ring pressure, the latency bound, WaitVU() and Close()
\* all end, whatever the worker was doing when they began.
CallsReturn ==
    epc \notin {"idle", "closed"} ~> (epc \in {"idle", "closed"} \/ lapped)

\* A publication request is always taken, however it races the worker's
\* way from the last record to sleep.
RequestsAreTaken == requests # {} ~> (requests = {} \/ lapped)

\* MTVU.h: "ring-buffer has no complete pending packets when
\* read_pos==write_pos".  Violated: ReserveSpace() may wrap onto an unread 0.
EqualMeansEmpty == atoRead = atoWrite => Len(handled) >= published
=============================================================================
