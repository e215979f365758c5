----------------------------- MODULE VifJournal -----------------------------
(***************************************************************************)
(* The deferred VIF UNPACKs of MTVU (pcsx2/MTVU.cpp and                    *)
(* pcsx2/vita/VitaGpuVuVifInput.cpp).  The EE captures an UNPACK's payload *)
(* and queues a span; adjacent private spans become one.  The worker does  *)
(* not unpack a span it reads: it keeps a compacted journal and replays it *)
(* when something observes VU memory.                                      *)
(*                                                                         *)
(* refMem and refRow are what PCSX2's _nVifUnpackLoop() makes of the same  *)
(* commands, each executed as the EE issues it.  A qword has two lanes; a  *)
(* lane holds the payload vector it came from and the row it was added to. *)
(* The ring between the threads is the queue module MtvuRing establishes.  *)
(***************************************************************************)
EXTENDS Integers, Sequences

CONSTANTS
    Vu1MemoryQwords,
    Lengths,        \* vector counts a command may have
    Formats,        \* the UNPACK formats a behaviour may use
    Kinds,          \* the records a behaviour may contain
    MaximumDeferredAffineSpans,
    MaxRecords      \* bound on the commands of one behaviour

Format == {"affine", "masked", "offset", "difference"}
RecordKind == {"captured", "unpack", "row", "data", "flush"}

ASSUME JournalAssumption ==
    /\ Vu1MemoryQwords \in Nat \ {0} /\ Lengths \subseteq 1 .. Vu1MemoryQwords
    /\ MaximumDeferredAffineSpans \in Nat \ {0} /\ MaxRecords \in Nat
    /\ Formats \subseteq Format /\ Kinds \subseteq RecordKind

VARIABLES
    worker,         \* the worker's [mem, row, journal]: VU1.Mem, vif.MaskRow
                    \* and m_deferred_vif_unpacks
    queue,          \* the records it has not read
    private,        \* how many at the end of queue are unpublished
    payload,        \* the next free vector of the immutable input
    refMem, refRow,
    issued          \* commands issued so far

vars == <<worker, queue, private, payload, refMem, refRow, issued>>

Address == 0 .. Vu1MemoryQwords - 1
Span == [payload : Nat, format : Format, dest : Address, count : 1 .. Vu1MemoryQwords]
Record == [kind : RecordKind, span : Span]
LaneValue == [vector : Nat, row : Seq(Nat)]
Memory == [Address -> LaneValue \X LaneValue]

-----------------------------------------------------------------------------
(* Spans *)

\* VU memory wraps: the source vector of span s that lands on qword q
VectorAt(q, s) == (q - s.dest) % Vu1MemoryQwords

\* MTVU_Unpack().  "affine" is V4-32 in mode 0 with CL = WL, which
\* MaterializeDirectAffineV4_32Span() copies; "masked" protects a lane;
\* "offset" (mode 1) adds the row; "difference" (mode 2) accumulates into it.
RowAfter(s, row) ==
    IF s.format = "difference" THEN Append(row, s.payload) ELSE row

Lane(q, s, row) ==
    [vector |-> s.payload + VectorAt(q, s),
     row |-> IF s.format \in {"offset", "difference"} THEN RowAfter(s, row)
                                                      ELSE <<>>]

Unpack(s, mem, row) ==
    [q \in Address |->
        IF VectorAt(q, s) >= s.count THEN mem[q]
        ELSE <<Lane(q, s, row),
               IF s.format = "masked" THEN mem[q][2] ELSE Lane(q, s, row)>>]

\* Mutant: a range that wraps past the last qword is never recognised.
FullyOverwritesUnwrapped(newer, older) ==
    /\ newer.format = "affine" /\ older.format = "affine"
    /\ newer.dest <= older.dest
    /\ older.dest + older.count <= newer.dest + newer.count

\* DirectAffineSpanFullyOverwrites()
DirectAffineSpanFullyOverwrites(newer, older) ==
    /\ newer.format = "affine" /\ older.format = "affine"
    /\ VectorAt(older.dest, newer) < newer.count
    /\ older.count <= newer.count - VectorAt(older.dest, newer)

\* Mutant: adjacency in VU memory alone, whatever lies between the payloads.
AdjacentByDestination(earlier, later) ==
    /\ earlier.format = "affine" /\ later.format = "affine"
    /\ earlier.count + later.count <= Vu1MemoryQwords
    /\ (earlier.dest + earlier.count) % Vu1MemoryQwords = later.dest

\* The conditions of MergeAdjacentDirectAffineV4_32Spans()
Adjacent(earlier, later) ==
    /\ earlier.format = "affine" /\ later.format = "affine"
    /\ earlier.count + later.count <= Vu1MemoryQwords
    /\ earlier.payload + earlier.count = later.payload
    /\ (earlier.dest + earlier.count) % Vu1MemoryQwords = later.dest

-----------------------------------------------------------------------------
(* The worker: what reading one record does to its state *)

\* The VU state [mem, row] that span s makes of x
Executed(x, s) == [mem |-> Unpack(s, x.mem, x.row), row |-> RowAfter(s, x.row)]

\* The loop of ReplayVifUnpackSpans(): the state after each number of spans
Replays(x, spans) ==
    LET after[n \in 0 .. Len(spans)] ==
            IF n = 0 THEN x ELSE Executed(after[n - 1], spans[n])
    IN  after

\* ReplayDeferredVifUnpacks(): the journal in order, then cleared
VuState(w) == [mem |-> w.mem, row |-> w.row]
ReplayDeferredVifUnpacks(w) ==
    LET end == Replays(VuState(w), w.journal)[Len(w.journal)]
    IN  [mem |-> end.mem, row |-> end.row, journal |-> <<>>]

\* The loop that erases what the new span overwrites: what is kept of each prefix
Compactions(spans, s) ==
    LET kept[n \in 0 .. Len(spans)] ==
            IF n = 0 THEN <<>>
            ELSE IF DirectAffineSpanFullyOverwrites(s, spans[n]) THEN kept[n - 1]
            ELSE Append(kept[n - 1], spans[n])
    IN  kept
Compacted(spans, s) == Compactions(spans, s)[Len(spans)]

\* Mutant: the journal grows without replaying.
AppendUnbounded(w, s) ==
    [w EXCEPT !.journal = Append(Compacted(@, s), s)]

\* AppendDeferredVifUnpack(): compaction, replay of a full journal, append
AppendDeferredVifUnpack(w, s) ==
    LET kept == [w EXCEPT !.journal = Compacted(@, s)]
        room == IF Len(kept.journal) >= MaximumDeferredAffineSpans
                THEN ReplayDeferredVifUnpacks(kept) ELSE kept
    IN  [room EXCEPT !.journal = Append(@, s)]

\* The record cases of ExecuteRingBuffer().  UNPACKs and data writes replay
\* the journal first; a ROW write only replaces the register.
ReadRecord(w, r) ==
    CASE r.kind = "captured" -> AppendDeferredVifUnpack(w, r.span)
      [] r.kind = "unpack" ->
             LET v == ReplayDeferredVifUnpacks(w)
             IN  [v EXCEPT !.mem = Unpack(r.span, v.mem, v.row),
                           !.row = RowAfter(r.span, v.row)]
      [] r.kind = "data" ->
             LET v == ReplayDeferredVifUnpacks(w)
             IN  [v EXCEPT !.mem = Unpack(r.span, v.mem, v.row)]
      [] r.kind = "row" -> [w EXCEPT !.row = <<r.span.payload>>]
      [] r.kind = "flush" -> ReplayDeferredVifUnpacks(w)

Worker ==
    /\ Len(queue) > private
    /\ worker' = ReadRecord(worker, Head(queue))
    /\ queue' = Tail(queue)
    /\ UNCHANGED <<private, payload, refMem, refRow, issued>>

-----------------------------------------------------------------------------
(* The EE *)

\* VifUnpack() on a captured span: into the last private span if adjacent,
\* otherwise a private record; other records publish everything before them.
Enqueue(r) ==
    IF r.kind = "captured" /\ private > 0 /\ Adjacent(queue[Len(queue)].span, r.span)
    THEN /\ queue' = [queue EXCEPT ![Len(queue)].span.count = @ + r.span.count]
         /\ UNCHANGED private
    ELSE /\ queue' = Append(queue, r)
         /\ private' = IF r.kind = "captured" THEN private + 1 ELSE 0

\* The command's architectural effect, now
Reference(r) ==
    CASE r.kind = "row" -> refRow' = <<r.span.payload>> /\ UNCHANGED refMem
      [] r.kind = "flush" -> UNCHANGED <<refMem, refRow>>
      [] OTHER -> /\ refMem' = Unpack(r.span, refMem, refRow)
                  /\ refRow' = RowAfter(r.span, refRow)

\* gap: input-ring space that another capture or a slot change took since
Issue(k, f, d, n, gap) ==
    /\ k \in Kinds /\ issued < MaxRecords
    /\ gap > 0 => k = "captured" /\ private > 0
    /\ k \notin {"captured", "unpack"} => f = "affine"
    /\ k \in {"row", "flush"} => d = 0 /\ n = 1
    /\ LET r == [kind |-> k, span |-> [payload |-> payload + gap, format |-> f,
                                       dest |-> d, count |-> n]]
       IN  Enqueue(r) /\ Reference(r)
    /\ payload' = payload + gap + n
    /\ issued' = issued + 1
    /\ UNCHANGED worker

PublishPendingVifBatch ==
    /\ private > 0
    /\ private' = 0
    /\ UNCHANGED <<worker, queue, payload, refMem, refRow, issued>>

-----------------------------------------------------------------------------
ZeroLane == [vector |-> 0, row |-> <<>>]
ZeroMem == [q \in Address |-> <<ZeroLane, ZeroLane>>]

Init ==
    /\ worker = [mem |-> ZeroMem, row |-> <<>>, journal |-> <<>>]
    /\ queue = <<>> /\ private = 0 /\ payload = 1
    /\ refMem = ZeroMem /\ refRow = <<>> /\ issued = 0

Next ==
    \/ Worker \/ PublishPendingVifBatch
    \/ \E k \in Kinds, f \in Formats \union {"affine"}, d \in Address, n \in Lengths,
          gap \in 0 .. 1 : Issue(k, f, d, n, gap)

Spec == Init /\ [][Next]_vars

-----------------------------------------------------------------------------
(* Properties *)

\* Every variable keeps its type; spans stay inside VU memory, and the journal
\* inside its bound.
TypeOK ==
    /\ worker \in [mem : Memory, row : Seq(Nat), journal : Seq(Span)]
    /\ Len(worker.journal) <= MaximumDeferredAffineSpans
    /\ queue \in Seq(Record) /\ private \in 0 .. Len(queue)
    /\ payload \in Nat /\ issued \in 0 .. MaxRecords
    /\ refMem \in Memory /\ refRow \in Seq(Nat)

\* What an observer would see now: the queue read, the journal replayed
Reads(w, records) ==
    LET after[n \in 0 .. Len(records)] ==
            IF n = 0 THEN w ELSE ReadRecord(after[n - 1], records[n])
    IN  after
Observed == ReplayDeferredVifUnpacks(Reads(worker, queue)[Len(queue)])

\* Capturing, merging, compacting and replaying late is exact: whenever the
\* worker is drained, VU memory and the row register are those of immediate
\* execution ("Preserve exact behavior by materializing the bounded journal").
JournalIsExact == Observed.mem = refMem /\ Observed.row = refRow

\* Whether every qword the older span writes is written again by the newer
Hides(newer, older) ==
    /\ newer.format = "affine" /\ older.format = "affine"
    /\ \A q \in Address :
          VectorAt(q, older) < older.count => VectorAt(q, newer) < newer.count

\* Compaction is complete for spans shorter than all of VU memory: the journal
\* holds none that a later span hides, so it pins no dead input memory.
JournalIsCompact ==
    \A j \in 1 .. Len(worker.journal) : \A i \in 1 .. j - 1 :
        worker.journal[j].count < Vu1MemoryQwords =>
            ~Hides(worker.journal[j], worker.journal[i])
=============================================================================
