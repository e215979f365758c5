-------------------------- MODULE VifJournalProofs --------------------------
(***************************************************************************)
(* Deferring UNPACKs is exact, for every VU memory, journal bound, set of  *)
(* formats and sequence of commands.                                       *)
(*                                                                         *)
(* A record has an effect on the VU state (memory and row).  Reading it    *)
(* changes the state that replaying the journal would give by exactly that *)
(* effect: compaction drops only what the new span writes again, and an    *)
(* overflow replays what would have been replayed later.  So the effects   *)
(* of the queued records lead from the worker's state to the reference,    *)
(* and merging two adjacent spans has the effect of both.                  *)
(*                                                                         *)
(* The loops are recursive functions.  Induction over them is by the least *)
(* place at which a claim fails.                                           *)
(***************************************************************************)
EXTENDS VifJournal, SequenceTheorems, WellFoundedInduction, TLAPS

-----------------------------------------------------------------------------
(* Induction *)

\* Induction up to a number, as a fact about the set where a claim holds
LEMMA Induction ==
    ASSUME NEW N \in Nat, NEW G, 0 \in G, \A n \in 1 .. N : n - 1 \in G => n \in G
    PROVE  \A n \in 0 .. N : n \in G
<1> DEFINE T == {n \in 0 .. N : n \notin G}
<1> SUFFICES ASSUME T # {} PROVE FALSE
  OBVIOUS
<1>1. T \subseteq Nat
  OBVIOUS
<1>2. PICK x \in T : \A y \in T : ~(<<y, x>> \in OpToRel(<, Nat))
  BY <1>1, NatLessThanWellFounded, WFMin
<1>3. x \in 1 .. N /\ x \notin G
  <2>1. x \in 0 .. N /\ x \notin G
    OBVIOUS
  <2> QED BY <2>1
<1>4. x - 1 \in G
  <2> SUFFICES ASSUME x - 1 \notin G PROVE FALSE
    OBVIOUS
  <2>1. x - 1 \in T
    BY <1>3
  <2>2. x - 1 \in Nat /\ x \in Nat /\ x - 1 < x
    BY <1>3
  <2>3. <<x - 1, x>> \in OpToRel(<, Nat)
    BY <2>2 DEF OpToRel
  <2> QED BY <1>2, <2>1, <2>3
<1> QED BY <1>3, <1>4

\* ReplayVifUnpackSpans(): each state is the one before it with the next span executed.
LEMMA ReplaysLoop ==
    ASSUME NEW x, NEW spans, Len(spans) \in Nat
    PROVE  /\ Replays(x, spans)[0] = x
           /\ \A n \in 1 .. Len(spans) : Replays(x, spans)[n] = Executed(Replays(x, spans)[n - 1], spans[n])
<1> DEFINE N == Len(spans)
           Is(f, m) == f = [n \in 0 .. m |-> IF n = 0 THEN x ELSE Executed(f[n - 1], spans[n])]
           G == {m \in 0 .. N : \E f : Is(f, m)}
<1> HIDE DEF N
<1>0. N \in Nat
  BY DEF N
<1>1. 0 \in G
  <2>1. Is([n \in 0 .. 0 |-> x], 0)
    OBVIOUS
  <2>2. \E f : Is(f, 0)
    BY <2>1
  <2> HIDE DEF Is
  <2> QED BY <1>0, <2>2
<1>2. ASSUME NEW m \in 1 .. N, m - 1 \in G PROVE m \in G
  <2>1. PICK f : Is(f, m - 1)
    BY <1>2
  <2> DEFINE g == [n \in 0 .. m |-> IF n = m THEN Executed(f[m - 1], spans[m]) ELSE f[n]]
  <2>2. Is(g, m)
    <3>1. ASSUME NEW n \in 0 .. m
          PROVE  g[n] = IF n = 0 THEN x ELSE Executed(g[n - 1], spans[n])
      <4>1. CASE n = m
        BY <1>0, <4>1
      <4>2. CASE n # m
        <5>1. n \in 0 .. m - 1 /\ g[n] = f[n]
          BY <1>0, <4>2
        <5>2. f[n] = IF n = 0 THEN x ELSE Executed(f[n - 1], spans[n])
          BY <2>1, <5>1
        <5>3. n # 0 => g[n - 1] = f[n - 1]
          BY <1>0, <4>2
        <5> QED BY <5>1, <5>2, <5>3
      <4> QED BY <4>1, <4>2
    <3> QED BY <3>1
  <2>3. \E e : Is(e, m)
    BY <2>2
  <2> HIDE DEF Is
  <2> QED BY <1>0, <2>3
<1>3. \E f : Is(f, N)
  <2> HIDE DEF G
  <2>1. \A m \in 0 .. N : m \in G
    BY <1>0, <1>1, <1>2, Induction
  <2>2. N \in G
    BY <1>0, <2>1
  <2> USE DEF G
  <2> QED BY <2>2
<1>4. Replays(x, spans) = CHOOSE f : Is(f, N)
  BY DEF Replays, N
<1>5. Is(CHOOSE f : Is(f, N), N)
  <2> HIDE DEF Is
  <2> QED BY <1>3, Zenon
<1> DEFINE h == Replays(x, spans)
<1>6. h = [n \in 0 .. N |-> IF n = 0 THEN x ELSE Executed(h[n - 1], spans[n])]
  BY <1>4, <1>5, Zenon
<1> HIDE DEF h
<1>7. h[0] = x
  BY <1>0, <1>6
<1>8. ASSUME NEW n \in 1 .. N PROVE h[n] = Executed(h[n - 1], spans[n])
  <2>1. n \in 0 .. N /\ n # 0
    BY <1>0
  <2> QED BY <1>6, <2>1, Zenon
<1> QED BY <1>7, <1>8 DEF h, N

\* AppendDeferredVifUnpack(): a span of the journal is erased or kept.
LEMMA CompactionsLoop ==
    ASSUME NEW spans, NEW s, Len(spans) \in Nat
    PROVE  /\ Compactions(spans, s)[0] = <<>>
           /\ \A n \in 1 .. Len(spans) : Compactions(spans, s)[n] = (IF DirectAffineSpanFullyOverwrites(s, spans[n]) THEN Compactions(spans, s)[n - 1] ELSE Append(Compactions(spans, s)[n - 1], spans[n]))
<1> DEFINE N == Len(spans)
           Is(f, m) == f = [n \in 0 .. m |-> IF n = 0 THEN <<>> ELSE (IF DirectAffineSpanFullyOverwrites(s, spans[n]) THEN f[n - 1] ELSE Append(f[n - 1], spans[n]))]
           G == {m \in 0 .. N : \E f : Is(f, m)}
<1> HIDE DEF N
<1>0. N \in Nat
  BY DEF N
<1>1. 0 \in G
  <2>1. Is([n \in 0 .. 0 |-> <<>>], 0)
    OBVIOUS
  <2>2. \E f : Is(f, 0)
    BY <2>1
  <2> HIDE DEF Is
  <2> QED BY <1>0, <2>2
<1>2. ASSUME NEW m \in 1 .. N, m - 1 \in G PROVE m \in G
  <2>1. PICK f : Is(f, m - 1)
    BY <1>2
  <2> DEFINE g == [n \in 0 .. m |-> IF n = m THEN (IF DirectAffineSpanFullyOverwrites(s, spans[m]) THEN f[m - 1] ELSE Append(f[m - 1], spans[m])) ELSE f[n]]
  <2>2. Is(g, m)
    <3>1. ASSUME NEW n \in 0 .. m
          PROVE  g[n] = IF n = 0 THEN <<>> ELSE (IF DirectAffineSpanFullyOverwrites(s, spans[n]) THEN g[n - 1] ELSE Append(g[n - 1], spans[n]))
      <4>1. CASE n = m
        BY <1>0, <4>1
      <4>2. CASE n # m
        <5>1. n \in 0 .. m - 1 /\ g[n] = f[n]
          BY <1>0, <4>2
        <5>2. f[n] = IF n = 0 THEN <<>> ELSE (IF DirectAffineSpanFullyOverwrites(s, spans[n]) THEN f[n - 1] ELSE Append(f[n - 1], spans[n]))
          BY <2>1, <5>1
        <5>3. n # 0 => g[n - 1] = f[n - 1]
          BY <1>0, <4>2
        <5> QED BY <5>1, <5>2, <5>3
      <4> QED BY <4>1, <4>2
    <3> QED BY <3>1
  <2>3. \E e : Is(e, m)
    BY <2>2
  <2> HIDE DEF Is
  <2> QED BY <1>0, <2>3
<1>3. \E f : Is(f, N)
  <2> HIDE DEF G
  <2>1. \A m \in 0 .. N : m \in G
    BY <1>0, <1>1, <1>2, Induction
  <2>2. N \in G
    BY <1>0, <2>1
  <2> USE DEF G
  <2> QED BY <2>2
<1>4. Compactions(spans, s) = CHOOSE f : Is(f, N)
  BY DEF Compactions, N
<1>5. Is(CHOOSE f : Is(f, N), N)
  <2> HIDE DEF Is
  <2> QED BY <1>3, Zenon
<1> DEFINE h == Compactions(spans, s)
<1>6. h = [n \in 0 .. N |-> IF n = 0 THEN <<>> ELSE (IF DirectAffineSpanFullyOverwrites(s, spans[n]) THEN h[n - 1] ELSE Append(h[n - 1], spans[n]))]
  BY <1>4, <1>5, Zenon
<1> HIDE DEF h
<1>7. h[0] = <<>>
  BY <1>0, <1>6
<1>8. ASSUME NEW n \in 1 .. N PROVE h[n] = (IF DirectAffineSpanFullyOverwrites(s, spans[n]) THEN h[n - 1] ELSE Append(h[n - 1], spans[n]))
  <2>1. n \in 0 .. N /\ n # 0
    BY <1>0
  <2> QED BY <1>6, <2>1, Zenon
<1> QED BY <1>7, <1>8 DEF h, N

\* ExecuteRingBuffer(): the worker reads the queued records one by one.
LEMMA ReadsLoop ==
    ASSUME NEW w, NEW records, Len(records) \in Nat
    PROVE  /\ Reads(w, records)[0] = w
           /\ \A n \in 1 .. Len(records) : Reads(w, records)[n] = ReadRecord(Reads(w, records)[n - 1], records[n])
<1> DEFINE N == Len(records)
           Is(f, m) == f = [n \in 0 .. m |-> IF n = 0 THEN w ELSE ReadRecord(f[n - 1], records[n])]
           G == {m \in 0 .. N : \E f : Is(f, m)}
<1> HIDE DEF N
<1>0. N \in Nat
  BY DEF N
<1>1. 0 \in G
  <2>1. Is([n \in 0 .. 0 |-> w], 0)
    OBVIOUS
  <2>2. \E f : Is(f, 0)
    BY <2>1
  <2> HIDE DEF Is
  <2> QED BY <1>0, <2>2
<1>2. ASSUME NEW m \in 1 .. N, m - 1 \in G PROVE m \in G
  <2>1. PICK f : Is(f, m - 1)
    BY <1>2
  <2> DEFINE g == [n \in 0 .. m |-> IF n = m THEN ReadRecord(f[m - 1], records[m]) ELSE f[n]]
  <2>2. Is(g, m)
    <3>1. ASSUME NEW n \in 0 .. m
          PROVE  g[n] = IF n = 0 THEN w ELSE ReadRecord(g[n - 1], records[n])
      <4>1. CASE n = m
        BY <1>0, <4>1
      <4>2. CASE n # m
        <5>1. n \in 0 .. m - 1 /\ g[n] = f[n]
          BY <1>0, <4>2
        <5>2. f[n] = IF n = 0 THEN w ELSE ReadRecord(f[n - 1], records[n])
          BY <2>1, <5>1
        <5>3. n # 0 => g[n - 1] = f[n - 1]
          BY <1>0, <4>2
        <5> QED BY <5>1, <5>2, <5>3
      <4> QED BY <4>1, <4>2
    <3> QED BY <3>1
  <2>3. \E e : Is(e, m)
    BY <2>2
  <2> HIDE DEF Is
  <2> QED BY <1>0, <2>3
<1>3. \E f : Is(f, N)
  <2> HIDE DEF G
  <2>1. \A m \in 0 .. N : m \in G
    BY <1>0, <1>1, <1>2, Induction
  <2>2. N \in G
    BY <1>0, <2>1
  <2> USE DEF G
  <2> QED BY <2>2
<1>4. Reads(w, records) = CHOOSE f : Is(f, N)
  BY DEF Reads, N
<1>5. Is(CHOOSE f : Is(f, N), N)
  <2> HIDE DEF Is
  <2> QED BY <1>3, Zenon
<1> DEFINE h == Reads(w, records)
<1>6. h = [n \in 0 .. N |-> IF n = 0 THEN w ELSE ReadRecord(h[n - 1], records[n])]
  BY <1>4, <1>5, Zenon
<1> HIDE DEF h
<1>7. h[0] = w
  BY <1>0, <1>6
<1>8. ASSUME NEW n \in 1 .. N PROVE h[n] = ReadRecord(h[n - 1], records[n])
  <2>1. n \in 0 .. N /\ n # 0
    BY <1>0
  <2> QED BY <1>6, <2>1, Zenon
<1> QED BY <1>7, <1>8 DEF h, N

-----------------------------------------------------------------------------
(* The inductive invariant *)

\* What record r does to the VU state
Effect(x, r) ==
    IF r.kind = "row" THEN [mem |-> x.mem, row |-> <<r.span.payload>>]
    ELSE IF r.kind = "flush" THEN x
    ELSE Executed(x, r.span)

Effects(x, records) ==
    LET after[n \in 0 .. Len(records)] ==
            IF n = 0 THEN x ELSE Effect(after[n - 1], records[n])
    IN  after

VuStates == [mem : Memory, row : Seq(Nat)]
WorkerState == [mem : Memory, row : Seq(Nat), journal : Seq(Span)]

\* The state that replaying the journal of w now would give
Settled(w) == Replays(VuState(w), w.journal)[Len(w.journal)]

\* Which spans and records a behaviour may contain
SpanIsAllowed(s) == s.format \in Formats \union {"affine"}
RecordIsAllowed(r) ==
    /\ r.kind \in Kinds /\ SpanIsAllowed(r.span)
    /\ r.kind \notin {"captured", "unpack"} => r.span.format = "affine"
SpansAreAllowed(spans) == \A i \in 1 .. Len(spans) : SpanIsAllowed(spans[i])
AllIsAllowed ==
    /\ SpansAreAllowed(worker.journal)
    /\ \A i \in 1 .. Len(queue) : RecordIsAllowed(queue[i])

\* The EE merges only into a record of its own.
BatchIsCaptured ==
    \A i \in Len(queue) - private + 1 .. Len(queue) : queue[i].kind = "captured"

\* The queued effects lead from the worker to the reference.
QueueIsExact ==
    Effects(Settled(worker), queue)[Len(queue)] = [mem |-> refMem, row |-> refRow]

\* The effects of the queued records, one by one
LEMMA EffectsLoop ==
    ASSUME NEW x, NEW records, Len(records) \in Nat
    PROVE  /\ Effects(x, records)[0] = x
           /\ \A n \in 1 .. Len(records) : Effects(x, records)[n] = Effect(Effects(x, records)[n - 1], records[n])
<1> DEFINE N == Len(records)
           Is(f, m) == f = [n \in 0 .. m |-> IF n = 0 THEN x ELSE Effect(f[n - 1], records[n])]
           G == {m \in 0 .. N : \E f : Is(f, m)}
<1> HIDE DEF N
<1>0. N \in Nat
  BY DEF N
<1>1. 0 \in G
  <2>1. Is([n \in 0 .. 0 |-> x], 0)
    OBVIOUS
  <2>2. \E f : Is(f, 0)
    BY <2>1
  <2> HIDE DEF Is
  <2> QED BY <1>0, <2>2
<1>2. ASSUME NEW m \in 1 .. N, m - 1 \in G PROVE m \in G
  <2>1. PICK f : Is(f, m - 1)
    BY <1>2
  <2> DEFINE g == [n \in 0 .. m |-> IF n = m THEN Effect(f[m - 1], records[m]) ELSE f[n]]
  <2>2. Is(g, m)
    <3>1. ASSUME NEW n \in 0 .. m
          PROVE  g[n] = IF n = 0 THEN x ELSE Effect(g[n - 1], records[n])
      <4>1. CASE n = m
        BY <1>0, <4>1
      <4>2. CASE n # m
        <5>1. n \in 0 .. m - 1 /\ g[n] = f[n]
          BY <1>0, <4>2
        <5>2. f[n] = IF n = 0 THEN x ELSE Effect(f[n - 1], records[n])
          BY <2>1, <5>1
        <5>3. n # 0 => g[n - 1] = f[n - 1]
          BY <1>0, <4>2
        <5> QED BY <5>1, <5>2, <5>3
      <4> QED BY <4>1, <4>2
    <3> QED BY <3>1
  <2>3. \E e : Is(e, m)
    BY <2>2
  <2> HIDE DEF Is
  <2> QED BY <1>0, <2>3
<1>3. \E f : Is(f, N)
  <2> HIDE DEF G
  <2>1. \A m \in 0 .. N : m \in G
    BY <1>0, <1>1, <1>2, Induction
  <2>2. N \in G
    BY <1>0, <2>1
  <2> USE DEF G
  <2> QED BY <2>2
<1>4. Effects(x, records) = CHOOSE f : Is(f, N)
  BY DEF Effects, N
<1>5. Is(CHOOSE f : Is(f, N), N)
  <2> HIDE DEF Is
  <2> QED BY <1>3, Zenon
<1> DEFINE h == Effects(x, records)
<1>6. h = [n \in 0 .. N |-> IF n = 0 THEN x ELSE Effect(h[n - 1], records[n])]
  BY <1>4, <1>5, Zenon
<1> HIDE DEF h
<1>7. h[0] = x
  BY <1>0, <1>6
<1>8. ASSUME NEW n \in 1 .. N PROVE h[n] = Effect(h[n - 1], records[n])
  <2>1. n \in 0 .. N /\ n # 0
    BY <1>0
  <2> QED BY <1>6, <2>1, Zenon
<1> QED BY <1>7, <1>8 DEF h, N

-----------------------------------------------------------------------------
(* Spans in a memory that wraps *)

\* Which vector lands on a qword, without the remainder
LEMMA VectorIs ==
    ASSUME NEW q \in Address, NEW s \in Span
    PROVE  /\ VectorAt(q, s) = IF q >= s.dest THEN q - s.dest
                               ELSE q - s.dest + Vu1MemoryQwords
           /\ VectorAt(q, s) \in Address
<1> DEFINE d == s.dest
           V == Vu1MemoryQwords
<1>1. V \in Nat /\ V > 0 /\ d \in 0 .. V - 1 /\ q \in 0 .. V - 1
  BY JournalAssumption DEF Address, Span
<1>2. VectorAt(q, s) = (q - d) % V
  BY DEF VectorAt
<1> HIDE DEF d, V
<1>3. CASE q >= d
  <2>1. q - d \in 0 .. V - 1
    BY <1>1, <1>3
  <2>2. (q - d) % V = q - d
    BY <1>1, <2>1
  <2> QED BY <1>2, <1>3, <2>1, <2>2 DEF d, V, Address
<1>4. CASE ~(q >= d)
  <2>1. q - d + V \in 0 .. V - 1
    BY <1>1, <1>4
  <2>2. (q - d) % V = q - d + V
    BY <1>1, <2>1
  <2> QED BY <1>2, <1>4, <2>1, <2>2 DEF d, V, Address
<1> QED BY <1>3, <1>4

\* The qword after a span
LEMMA NextIs ==
    ASSUME NEW s \in Span, NEW e, e = s.dest + s.count
    PROVE  /\ e < Vu1MemoryQwords => e % Vu1MemoryQwords = e
           /\ ~(e < Vu1MemoryQwords) => e % Vu1MemoryQwords = e - Vu1MemoryQwords
           /\ e % Vu1MemoryQwords \in Address
<1> DEFINE V == Vu1MemoryQwords
<1>1. V \in Nat /\ V > 0 /\ e \in 1 .. 2 * V - 1
  BY JournalAssumption DEF Address, Span
<1> HIDE DEF V
<1>2. CASE e < V
  <2>1. e % V = e
    BY <1>1, <1>2
  <2> QED BY <1>1, <1>2, <2>1 DEF V, Address
<1>3. CASE ~(e < V)
  <2>1. e - V \in 0 .. V - 1
    BY <1>1, <1>3
  <2>2. e % V = e - V
    BY <1>1, <1>3, <2>1
  <2> QED BY <1>1, <1>3, <2>1, <2>2 DEF V, Address
<1> QED BY <1>2, <1>3

\* What a span leaves alone, and what it writes
LEMMA UnpackAt ==
    ASSUME NEW s \in Span, NEW mem \in Memory, NEW row \in Seq(Nat), NEW q \in Address
    PROVE  /\ VectorAt(q, s) >= s.count => Unpack(s, mem, row)[q] = mem[q]
           /\ VectorAt(q, s) < s.count =>
                  Unpack(s, mem, row)[q] =
                      <<Lane(q, s, row),
                        IF s.format = "masked" THEN mem[q][2] ELSE Lane(q, s, row)>>
<1>1. VectorAt(q, s) \in Int /\ s.count \in Int
  BY VectorIs, JournalAssumption DEF Address, Span
<1> HIDE DEF VectorAt, Lane
<1> QED BY <1>1 DEF Unpack

LEMMA LaneIsTyped ==
    ASSUME NEW s \in Span, NEW row \in Seq(Nat), NEW q \in Address
    PROVE  Lane(q, s, row) \in LaneValue /\ RowAfter(s, row) \in Seq(Nat)
<1>1. VectorAt(q, s) \in Nat /\ s.payload \in Nat
  BY VectorIs, JournalAssumption DEF Address, Span
<1>2. RowAfter(s, row) \in Seq(Nat)
  BY <1>1, AppendProperties DEF RowAfter
<1>3. <<>> \in Seq(Nat)
  OBVIOUS
<1>4. s.payload + VectorAt(q, s) \in Nat
  BY <1>1
<1> QED BY <1>2, <1>3, <1>4 DEF Lane, LaneValue

LEMMA ExecutedIsTyped ==
    ASSUME NEW x \in VuStates, NEW s \in Span
    PROVE  Executed(x, s) \in VuStates
<1>1. x.mem \in Memory /\ x.row \in Seq(Nat)
  BY DEF VuStates
<1>2. ASSUME NEW q \in Address PROVE Unpack(s, x.mem, x.row)[q] \in LaneValue \X LaneValue
  <2>1. x.mem[q] \in LaneValue \X LaneValue
    BY <1>1 DEF Memory
  <2>2. Lane(q, s, x.row) \in LaneValue
    BY <1>1, LaneIsTyped
  <2>3. VectorAt(q, s) >= s.count \/ VectorAt(q, s) < s.count
    BY VectorIs, JournalAssumption DEF Address, Span
  <2>4. x.mem[q][2] \in LaneValue
    BY <2>1
  <2>5. CASE VectorAt(q, s) >= s.count
    BY <1>1, <2>1, <2>5, UnpackAt
  <2>6. CASE VectorAt(q, s) < s.count
    <3> DEFINE u == IF s.format = "masked" THEN x.mem[q][2] ELSE Lane(q, s, x.row)
    <3>1. Unpack(s, x.mem, x.row)[q] = <<Lane(q, s, x.row), u>>
      BY <1>1, <2>6, UnpackAt
    <3>2. u \in LaneValue
      BY <2>2, <2>4
    <3> HIDE DEF u
    <3> QED BY <2>2, <3>1, <3>2
  <2> QED BY <2>3, <2>5, <2>6
<1>3. Unpack(s, x.mem, x.row) = [q \in Address |-> Unpack(s, x.mem, x.row)[q]]
  BY DEF Unpack
<1>4. Unpack(s, x.mem, x.row) \in Memory
  BY <1>2, <1>3 DEF Memory
<1>5. RowAfter(s, x.row) \in Seq(Nat)
  <2>1. 0 \in Address
    BY JournalAssumption DEF Address
  <2> QED BY <1>1, <2>1, LaneIsTyped
<1> QED BY <1>4, <1>5 DEF Executed, VuStates

\* Two VU states with the same row and the same qwords are one.
LEMMA SameState ==
    ASSUME NEW x \in VuStates, NEW y \in VuStates, x.row = y.row,
           \A q \in Address : x.mem[q] = y.mem[q]
    PROVE  x = y
<1>1. x.mem = y.mem
  BY DEF VuStates, Memory
<1>2. x = [mem |-> x.mem, row |-> x.row] /\ y = [mem |-> y.mem, row |-> y.row]
  BY DEF VuStates
<1> QED BY <1>1, <1>2

\* The fields of an executed state
LEMMA ExecutedAt ==
    ASSUME NEW x \in VuStates, NEW s \in Span
    PROVE  /\ Executed(x, s) \in VuStates /\ Executed(x, s).row = RowAfter(s, x.row)
           /\ \A q \in Address :
                /\ VectorAt(q, s) >= s.count => Executed(x, s).mem[q] = x.mem[q]
                /\ VectorAt(q, s) < s.count =>
                      Executed(x, s).mem[q] =
                          <<Lane(q, s, x.row),
                            IF s.format = "masked" THEN x.mem[q][2]
                            ELSE Lane(q, s, x.row)>>
<1>1. x.mem \in Memory /\ x.row \in Seq(Nat)
  BY DEF VuStates
<1>2. Executed(x, s).mem = Unpack(s, x.mem, x.row) /\ Executed(x, s).row = RowAfter(s, x.row)
  BY DEF Executed
<1> QED BY <1>1, <1>2, ExecutedIsTyped, UnpackAt

\* An affine span writes both lanes.
LEMMA AffineAt ==
    ASSUME NEW x \in VuStates, NEW s \in Span, s.format = "affine",
           NEW q \in Address, VectorAt(q, s) < s.count
    PROVE  Executed(x, s).mem[q] = <<Lane(q, s, x.row), Lane(q, s, x.row)>>
<1>1. Executed(x, s).mem[q] = <<Lane(q, s, x.row), IF s.format = "masked" THEN x.mem[q][2]
                                                   ELSE Lane(q, s, x.row)>>
  BY ExecutedAt, Zenon
<1>2. s.format # "masked"
  OBVIOUS
<1> QED BY <1>1, <1>2, Zenon

\* MergeAdjacentDirectAffineV4_32Spans() is exact: the merged span has the
\* effect of its two parts, also where it wraps past the last qword.
LEMMA MergeIsExact ==
    ASSUME NEW x \in VuStates, NEW s \in Span, NEW t \in Span, Adjacent(s, t),
           NEW m, m = [s EXCEPT !.count = @ + t.count]
    PROVE  /\ m \in Span /\ m.format = "affine"
           /\ Executed(x, m) = Executed(Executed(x, s), t)
<1> DEFINE V == Vu1MemoryQwords
           y == Executed(x, s)
<1>1. /\ V \in Nat /\ V > 0 /\ s.dest \in 0 .. V - 1 /\ t.dest \in 0 .. V - 1
      /\ s.count \in 1 .. V /\ t.count \in 1 .. V /\ s.payload \in Nat /\ t.payload \in Nat
  BY JournalAssumption DEF Span, Address
<1>2. /\ s.format = "affine" /\ t.format = "affine" /\ s.count + t.count <= V
      /\ s.payload + s.count = t.payload /\ (s.dest + s.count) % V = t.dest
  BY DEF Adjacent
<1>3. /\ m.payload = s.payload /\ m.format = "affine" /\ m.dest = s.dest
      /\ m.count = s.count + t.count
  BY <1>2 DEF Span
<1>4. m \in Span
  BY <1>1, <1>2 DEF Span
<1>5. /\ s.dest + s.count < V => t.dest = s.dest + s.count
      /\ ~(s.dest + s.count < V) => t.dest = (s.dest + s.count) - V
  <2> DEFINE e == s.dest + s.count
  <2>1. (e < V => e % V = e) /\ (~(e < V) => e % V = e - V)
    BY NextIs, Zenon
  <2>2. e % V = t.dest
    BY <1>2, Zenon
  <2>3. e < V => t.dest = e
    BY <2>1, <2>2, Zenon
  <2>4. ~(e < V) => t.dest = e - V
    BY <2>1, <2>2, Zenon
  <2> QED BY <2>3, <2>4
<1>6. y \in VuStates /\ y.row = x.row /\ Executed(y, t).row = x.row /\ Executed(x, m).row = x.row
      /\ Executed(y, t) \in VuStates /\ Executed(x, m) \in VuStates
  <2>1. y \in VuStates /\ y.row = x.row
    BY <1>2, ExecutedAt DEF RowAfter
  <2>2. Executed(x, m) \in VuStates /\ Executed(x, m).row = x.row
    BY <1>3, <1>4, ExecutedAt DEF RowAfter
  <2> HIDE DEF y
  <2>3. Executed(y, t) \in VuStates /\ Executed(y, t).row = y.row
    BY <1>2, <2>1, ExecutedAt DEF RowAfter
  <2> QED BY <2>1, <2>2, <2>3
<1>7. ASSUME NEW q \in Address
      PROVE  Executed(x, m).mem[q] = Executed(y, t).mem[q]
  <2> DEFINE a == VectorAt(q, s)
             b == VectorAt(q, t)
  <2>1. /\ a \in 0 .. V - 1 /\ b \in 0 .. V - 1 /\ q \in 0 .. V - 1
        /\ a = IF q >= s.dest THEN q - s.dest ELSE q - s.dest + V
        /\ b = IF q >= t.dest THEN q - t.dest ELSE q - t.dest + V
    BY VectorIs DEF Address
  <2>2. VectorAt(q, m) = a
    BY <1>3 DEF VectorAt
  <2> HIDE DEF a, b
  <2>3. b = IF a >= s.count THEN a - s.count ELSE a - s.count + V
    BY <1>1, <1>5, <2>1
  <2>4. /\ Lane(q, m, x.row) = [vector |-> s.payload + a, row |-> <<>>]
        /\ Lane(q, s, x.row) = [vector |-> s.payload + a, row |-> <<>>]
        /\ Lane(q, t, y.row) = [vector |-> t.payload + b, row |-> <<>>]
    BY <1>2, <1>3, <2>2 DEF Lane, a, b
  <2>5. CASE a < s.count
    <3>1. b >= t.count /\ a < m.count
      BY <1>1, <1>2, <1>3, <2>1, <2>3, <2>5
    <3>2. Executed(y, t).mem[q] = y.mem[q]
      BY <1>6, <3>1, ExecutedAt DEF b
    <3>3. y.mem[q] = <<Lane(q, s, x.row), Lane(q, s, x.row)>>
      BY <1>2, <2>5, AffineAt DEF a
    <3>4. Executed(x, m).mem[q] = <<Lane(q, m, x.row), Lane(q, m, x.row)>>
      <4>1. VectorAt(q, m) < m.count
        BY <2>2, <3>1
      <4> QED BY <1>3, <1>4, <4>1, AffineAt
    <3> QED BY <2>4, <3>2, <3>3, <3>4
  <2>6. CASE a >= s.count /\ a < s.count + t.count
    <3>1. b < t.count /\ a < m.count /\ t.payload + b = s.payload + a
      BY <1>1, <1>2, <1>3, <2>1, <2>3, <2>6
    <3>2. Executed(y, t).mem[q] = <<Lane(q, t, y.row), Lane(q, t, y.row)>>
      <4>1. VectorAt(q, t) < t.count
        BY <3>1 DEF b
      <4> HIDE DEF y
      <4> QED BY <1>2, <1>6, <4>1, AffineAt
    <3>3. Executed(x, m).mem[q] = <<Lane(q, m, x.row), Lane(q, m, x.row)>>
      <4>1. VectorAt(q, m) < m.count
        BY <2>2, <3>1
      <4> QED BY <1>3, <1>4, <4>1, AffineAt
    <3> QED BY <2>4, <3>1, <3>2, <3>3
  <2>7. CASE a >= s.count + t.count
    <3>1. a >= s.count /\ b >= t.count /\ a >= m.count
      BY <1>1, <1>2, <1>3, <2>1, <2>3, <2>7
    <3>2. Executed(y, t).mem[q] = y.mem[q]
      BY <1>6, <3>1, ExecutedAt DEF b
    <3>3. y.mem[q] = x.mem[q]
      BY <3>1, ExecutedAt DEF a
    <3>4. Executed(x, m).mem[q] = x.mem[q]
      BY <1>4, <2>2, <3>1, ExecutedAt
    <3> QED BY <3>2, <3>3, <3>4
  <2> QED BY <1>1, <2>1, <2>5, <2>6, <2>7
<1>8. Executed(x, m) = Executed(y, t)
  BY <1>6, <1>7, SameState
<1> QED BY <1>3, <1>4, <1>8

-----------------------------------------------------------------------------
(* Replaying a journal *)

LEMMA ReplaysAreTyped ==
    ASSUME NEW x \in VuStates, NEW spans \in Seq(Span)
    PROVE  \A n \in 0 .. Len(spans) : Replays(x, spans)[n] \in VuStates
<1> DEFINE f == Replays(x, spans)
           G == {n \in 0 .. Len(spans) : f[n] \in VuStates}
<1>0. /\ Len(spans) \in Nat /\ f[0] = x
      /\ \A n \in 1 .. Len(spans) : f[n] = Executed(f[n - 1], spans[n])
  BY LenProperties, ReplaysLoop
<1> HIDE DEF f
<1>1. 0 \in G
  BY <1>0
<1>2. ASSUME NEW n \in 1 .. Len(spans), n - 1 \in G PROVE n \in G
  <2>1. f[n - 1] \in VuStates /\ spans[n] \in Span
    BY <1>2, ElementOfSeq
  <2> QED BY <1>0, <2>1, ExecutedIsTyped
<1>3. \A n \in 0 .. Len(spans) : n \in G
  <2> HIDE DEF G
  <2> QED BY <1>0, <1>1, <1>2, Induction
<1> QED BY <1>3 DEF f

\* A replay does not see what comes later in the journal.
LEMMA ReplaysOfPrefix ==
    ASSUME NEW x, NEW a \in Seq(Span), NEW b \in Seq(Span), Len(a) <= Len(b),
           \A n \in 1 .. Len(a) : a[n] = b[n]
    PROVE  \A n \in 0 .. Len(a) : Replays(x, a)[n] = Replays(x, b)[n]
<1> DEFINE f == Replays(x, a)
           g == Replays(x, b)
           G == {n \in 0 .. Len(a) : f[n] = g[n]}
<1>0. /\ Len(a) \in Nat /\ Len(b) \in Nat /\ f[0] = x /\ g[0] = x
      /\ \A n \in 1 .. Len(a) : f[n] = Executed(f[n - 1], a[n])
      /\ \A n \in 1 .. Len(b) : g[n] = Executed(g[n - 1], b[n])
  BY LenProperties, ReplaysLoop
<1> HIDE DEF f, g
<1>1. 0 \in G
  BY <1>0
<1>2. ASSUME NEW n \in 1 .. Len(a), n - 1 \in G PROVE n \in G
  <2>1. n \in 1 .. Len(b) /\ a[n] = b[n] /\ f[n - 1] = g[n - 1]
    BY <1>0, <1>2
  <2>2. f[n] = g[n]
    BY <1>0, <2>1
  <2> QED BY <1>0, <2>2
<1>3. \A n \in 0 .. Len(a) : n \in G
  <2> HIDE DEF G
  <2> QED BY <1>0, <1>1, <1>2, Induction
<1> QED BY <1>3 DEF f, g

LEMMA ReplayOfAppend ==
    ASSUME NEW x \in VuStates, NEW spans \in Seq(Span), NEW s \in Span
    PROVE  /\ Append(spans, s) \in Seq(Span) /\ Len(Append(spans, s)) = Len(spans) + 1
           /\ Replays(x, Append(spans, s))[Len(spans) + 1] =
                  Executed(Replays(x, spans)[Len(spans)], s)
<1> DEFINE b == Append(spans, s)
           N == Len(spans)
<1>1. /\ N \in Nat /\ b \in Seq(Span) /\ Len(b) = N + 1 /\ b[N + 1] = s
      /\ \A n \in 1 .. N : spans[n] = b[n]
  BY LenProperties, AppendProperties
<1> HIDE DEF b
<1>2. Replays(x, b)[N + 1] = Executed(Replays(x, b)[N], s)
  <2>1. /\ N + 1 \in 1 .. Len(b) /\ (N + 1) - 1 = N /\ Len(b) \in Nat
    BY <1>1
  <2> HIDE DEF N
  <2> QED BY <1>1, <2>1, ReplaysLoop
<1>3. Replays(x, spans)[N] = Replays(x, b)[N]
  <2>1. N \in 0 .. N /\ N <= Len(b)
    BY <1>1
  <2> QED BY <1>1, <2>1, ReplaysOfPrefix
<1> QED BY <1>1, <1>2, <1>3 DEF b

-----------------------------------------------------------------------------
(* Compaction *)

\* Two states that differ at most where the new span s writes
SameBut(s, x, y) ==
    /\ x.row = y.row
    /\ \A q \in Address : s.format # "affine" \/ VectorAt(q, s) >= s.count =>
           x.mem[q] = y.mem[q]

\* What DirectAffineSpanFullyOverwrites() accepts writes nothing else.
LEMMA OverwrittenIsCovered ==
    ASSUME NEW s \in Span, NEW t \in Span, DirectAffineSpanFullyOverwrites(s, t)
    PROVE  /\ s.format = "affine" /\ t.format = "affine"
           /\ \A q \in Address : VectorAt(q, t) < t.count => VectorAt(q, s) < s.count
<1> DEFINE V == Vu1MemoryQwords
<1>1. /\ V \in Nat /\ V > 0 /\ s.dest \in 0 .. V - 1 /\ t.dest \in 0 .. V - 1
      /\ s.count \in 1 .. V /\ t.count \in 1 .. V /\ t.dest \in Address
  BY JournalAssumption DEF Span, Address
<1>2. /\ s.format = "affine" /\ t.format = "affine"
      /\ VectorAt(t.dest, s) < s.count /\ t.count <= s.count - VectorAt(t.dest, s)
  BY DEF DirectAffineSpanFullyOverwrites
<1>3. VectorAt(t.dest, s) = IF t.dest >= s.dest THEN t.dest - s.dest
                            ELSE t.dest - s.dest + V
  BY <1>1, VectorIs
<1>4. ASSUME NEW q \in Address, VectorAt(q, t) < t.count PROVE VectorAt(q, s) < s.count
  <2>1. /\ VectorAt(q, t) = IF q >= t.dest THEN q - t.dest ELSE q - t.dest + V
        /\ VectorAt(q, s) = IF q >= s.dest THEN q - s.dest ELSE q - s.dest + V
        /\ q \in 0 .. V - 1
    BY VectorIs DEF Address
  <2> QED BY <1>1, <1>2, <1>3, <1>4, <2>1
<1> QED BY <1>2, <1>4

LEMMA ErasedIsUnseen ==
    ASSUME NEW s \in Span, NEW t \in Span, NEW x \in VuStates, NEW y \in VuStates,
           SameBut(s, x, y), DirectAffineSpanFullyOverwrites(s, t)
    PROVE  SameBut(s, x, Executed(y, t))
<1>1. /\ s.format = "affine" /\ t.format = "affine"
      /\ \A q \in Address : VectorAt(q, t) < t.count => VectorAt(q, s) < s.count
  BY OverwrittenIsCovered
<1>2. Executed(y, t).row = x.row
  BY <1>1, ExecutedAt DEF RowAfter, SameBut
<1>3. ASSUME NEW q \in Address, VectorAt(q, s) >= s.count
      PROVE  x.mem[q] = Executed(y, t).mem[q]
  <2>1. VectorAt(q, t) \in Int /\ VectorAt(q, s) \in Int /\ t.count \in Int /\ s.count \in Int
    BY VectorIs, JournalAssumption DEF Address, Span
  <2>2. VectorAt(q, t) >= t.count
    BY <1>1, <1>3, <2>1
  <2>3. Executed(y, t).mem[q] = y.mem[q]
    BY <2>2, ExecutedAt
  <2> QED BY <1>3, <2>3 DEF SameBut
<1> QED BY <1>1, <1>2, <1>3 DEF SameBut

LEMMA KeptIsAlike ==
    ASSUME NEW s \in Span, NEW t \in Span, NEW x \in VuStates, NEW y \in VuStates,
           SameBut(s, x, y)
    PROVE  SameBut(s, Executed(x, t), Executed(y, t))
<1>1. Executed(x, t).row = Executed(y, t).row
  <2>1. x.row = y.row
    BY DEF SameBut
  <2>2. Executed(x, t).row = RowAfter(t, x.row) /\ Executed(y, t).row = RowAfter(t, y.row)
    BY ExecutedAt
  <2> QED BY <2>1, <2>2
<1>2. ASSUME NEW q \in Address, s.format # "affine" \/ VectorAt(q, s) >= s.count
      PROVE  Executed(x, t).mem[q] = Executed(y, t).mem[q]
  <2>1. x.mem[q] = y.mem[q] /\ x.row = y.row
    BY <1>2 DEF SameBut
  <2>2. VectorAt(q, t) < t.count \/ VectorAt(q, t) >= t.count
    BY VectorIs, JournalAssumption DEF Address, Span
  <2>3. CASE VectorAt(q, t) < t.count
    <3>1. Executed(x, t).mem[q] = <<Lane(q, t, x.row), IF t.format = "masked"
                                      THEN x.mem[q][2] ELSE Lane(q, t, x.row)>>
      BY <2>3, ExecutedAt
    <3>2. Executed(y, t).mem[q] = <<Lane(q, t, y.row), IF t.format = "masked"
                                      THEN y.mem[q][2] ELSE Lane(q, t, y.row)>>
      BY <2>3, ExecutedAt
    <3> QED BY <2>1, <3>1, <3>2, Zenon
  <2>4. CASE VectorAt(q, t) >= t.count
    <3>1. Executed(x, t).mem[q] = x.mem[q] /\ Executed(y, t).mem[q] = y.mem[q]
      BY <2>4, ExecutedAt
    <3> QED BY <2>1, <3>1
  <2> QED BY <2>2, <2>3, <2>4
<1> QED BY <1>1, <1>2 DEF SameBut

LEMMA SpanSettlesIt ==
    ASSUME NEW s \in Span, NEW x \in VuStates, NEW y \in VuStates, SameBut(s, x, y)
    PROVE  Executed(x, s) = Executed(y, s)
<1>1. x.row = y.row /\ Executed(x, s).row = Executed(y, s).row
  <2>1. x.row = y.row
    BY DEF SameBut
  <2>2. Executed(x, s).row = RowAfter(s, x.row) /\ Executed(y, s).row = RowAfter(s, y.row)
    BY ExecutedAt
  <2> QED BY <2>1, <2>2
<1>2. ASSUME NEW q \in Address PROVE Executed(x, s).mem[q] = Executed(y, s).mem[q]
  <2>1. VectorAt(q, s) < s.count \/ VectorAt(q, s) >= s.count
    BY VectorIs, JournalAssumption DEF Address, Span
  <2>2. CASE VectorAt(q, s) >= s.count
    <3>1. Executed(x, s).mem[q] = x.mem[q] /\ Executed(y, s).mem[q] = y.mem[q]
      BY <2>2, ExecutedAt
    <3>2. x.mem[q] = y.mem[q]
      BY <2>2 DEF SameBut
    <3> QED BY <3>1, <3>2
  <2>3. CASE VectorAt(q, s) < s.count /\ s.format = "affine"
    <3>1. Executed(x, s).mem[q] = <<Lane(q, s, x.row), Lane(q, s, x.row)>>
      BY <2>3, AffineAt
    <3>2. Executed(y, s).mem[q] = <<Lane(q, s, y.row), Lane(q, s, y.row)>>
      BY <2>3, AffineAt
    <3> QED BY <1>1, <3>1, <3>2, Zenon
  <2>4. CASE VectorAt(q, s) < s.count /\ s.format # "affine"
    <3>1. x.mem[q] = y.mem[q]
      BY <2>4 DEF SameBut
    <3>2. Executed(x, s).mem[q] = <<Lane(q, s, x.row), IF s.format = "masked"
                                      THEN x.mem[q][2] ELSE Lane(q, s, x.row)>>
      BY <2>4, ExecutedAt
    <3>3. Executed(y, s).mem[q] = <<Lane(q, s, y.row), IF s.format = "masked"
                                      THEN y.mem[q][2] ELSE Lane(q, s, y.row)>>
      BY <2>4, ExecutedAt
    <3> QED BY <1>1, <3>1, <3>2, <3>3, Zenon
  <2> QED BY <2>1, <2>2, <2>3, <2>4
<1> QED BY <1>1, <1>2, ExecutedAt, SameState

\* Erasing what span s overwrites changes nothing once s is executed: the
\* replay of what is kept differs from the whole replay only where s writes.
LEMMA CompactionIsExact ==
    ASSUME NEW x \in VuStates, NEW spans \in Seq(Span), NEW s \in Span
    PROVE  /\ Compacted(spans, s) \in Seq(Span) /\ Len(Compacted(spans, s)) <= Len(spans)
           /\ SameBut(s, Replays(x, Compacted(spans, s))[Len(Compacted(spans, s))],
                         Replays(x, spans)[Len(spans)])
<1> DEFINE kept == Compactions(spans, s)
           f == Replays(x, spans)
           last(n) == Replays(x, kept[n])[Len(kept[n])]
           G == {n \in 0 .. Len(spans) : /\ kept[n] \in Seq(Span) /\ Len(kept[n]) <= n
                                         /\ SameBut(s, last(n), f[n])}
<1>0. /\ Len(spans) \in Nat /\ f[0] = x /\ kept[0] = <<>>
      /\ \A n \in 1 .. Len(spans) : f[n] = Executed(f[n - 1], spans[n])
      /\ \A n \in 0 .. Len(spans) : f[n] \in VuStates
  BY LenProperties, ReplaysLoop, ReplaysAreTyped, CompactionsLoop
<1>1. \A n \in 1 .. Len(spans) :
          kept[n] = (IF DirectAffineSpanFullyOverwrites(s, spans[n]) THEN kept[n - 1]
                     ELSE Append(kept[n - 1], spans[n]))
  BY <1>0, CompactionsLoop
<1> HIDE DEF f, kept
<1>2. 0 \in G
  <2>1. <<>> \in Seq(Span) /\ Len(<<>>) = 0
    OBVIOUS
  <2>2. last(0) = x
    BY <1>0, <2>1, ReplaysLoop
  <2>3. SameBut(s, last(0), f[0])
    BY <1>0, <2>2 DEF SameBut
  <2>4. kept[0] \in Seq(Span) /\ Len(kept[0]) <= 0 /\ 0 \in 0 .. Len(spans)
    BY <1>0, <2>1
  <2> HIDE DEF last
  <2> QED BY <2>3, <2>4
<1>3. ASSUME NEW n \in 1 .. Len(spans), n - 1 \in G PROVE n \in G
  <2>1. /\ kept[n - 1] \in Seq(Span) /\ Len(kept[n - 1]) <= n - 1
        /\ SameBut(s, last(n - 1), f[n - 1])
    BY <1>3
  <2>2. n - 1 \in 0 .. Len(spans) /\ spans[n] \in Span /\ f[n - 1] \in VuStates
        /\ f[n] = Executed(f[n - 1], spans[n])
    BY <1>0, ElementOfSeq
  <2>3. last(n - 1) \in VuStates /\ Len(kept[n - 1]) \in Nat
    BY <2>1, ReplaysAreTyped, LenProperties
  <2>4. CASE DirectAffineSpanFullyOverwrites(s, spans[n])
    <3>1. kept[n] = kept[n - 1]
      BY <1>1, <2>4
    <3>2. SameBut(s, last(n), f[n])
      <4>1. SameBut(s, last(n - 1), f[n])
        <5> HIDE DEF last
        <5> QED BY <2>1, <2>2, <2>3, <2>4, ErasedIsUnseen
      <4> QED BY <3>1, <4>1
    <3> HIDE DEF last
    <3> QED BY <1>0, <2>1, <2>3, <3>1, <3>2
  <2>5. CASE ~DirectAffineSpanFullyOverwrites(s, spans[n])
    <3>1. kept[n] = Append(kept[n - 1], spans[n])
      BY <1>1, <2>5
    <3>2. /\ kept[n] \in Seq(Span) /\ Len(kept[n]) = Len(kept[n - 1]) + 1
          /\ last(n) = Executed(last(n - 1), spans[n])
      BY <2>1, <2>2, <3>1, ReplayOfAppend
    <3> HIDE DEF last
    <3>3. SameBut(s, last(n), f[n])
      BY <2>1, <2>2, <2>3, <3>2, KeptIsAlike
    <3> QED BY <1>0, <2>1, <2>3, <3>2, <3>3
  <2> QED BY <2>4, <2>5
<1>4. Len(spans) \in G
  <2> HIDE DEF G
  <2>1. \A n \in 0 .. Len(spans) : n \in G
    BY <1>0, <1>2, <1>3, Induction
  <2> QED BY <1>0, <2>1
<1>5. Compacted(spans, s) = kept[Len(spans)]
  BY DEF Compacted, kept
<1> QED BY <1>4, <1>5 DEF f

\* AppendDeferredVifUnpack() as a whole: what a replay would give changes by
\* exactly the new span, whether the journal was compacted, replayed or both.
LEMMA AppendIsExact ==
    ASSUME NEW w \in WorkerState, NEW s \in Span
    PROVE  /\ AppendDeferredVifUnpack(w, s) \in WorkerState
           /\ Settled(AppendDeferredVifUnpack(w, s)) = Executed(Settled(w), s)
           /\ \/ AppendDeferredVifUnpack(w, s).journal = Append(<<>>, s)
              \/ /\ AppendDeferredVifUnpack(w, s).journal = Append(Compacted(w.journal, s), s)
                 /\ Len(Compacted(w.journal, s)) < MaximumDeferredAffineSpans
<1> DEFINE c == Compacted(w.journal, s)
           x == VuState(w)
           k == Replays(x, c)[Len(c)]
           z == AppendDeferredVifUnpack(w, s)
<1>1. w.mem \in Memory /\ w.row \in Seq(Nat) /\ w.journal \in Seq(Span)
      /\ w = [mem |-> w.mem, row |-> w.row, journal |-> w.journal]
  BY DEF WorkerState
<1>2. x \in VuStates /\ x.mem = w.mem /\ x.row = w.row
  BY <1>1 DEF VuState, VuStates
<1> HIDE DEF x
<1>3. c \in Seq(Span) /\ SameBut(s, k, Settled(w)) /\ Len(c) \in Nat
  BY <1>1, <1>2, CompactionIsExact, LenProperties DEF Settled, x
<1>4. k \in VuStates /\ Settled(w) \in VuStates
  BY <1>1, <1>2, <1>3, ReplaysAreTyped, LenProperties DEF Settled, x
<1>5. Executed(k, s) = Executed(Settled(w), s)
  BY <1>3, <1>4, SpanSettlesIt
<1> HIDE DEF c
<1>6. CASE Len(c) >= MaximumDeferredAffineSpans
  <2> DEFINE r == [mem |-> k.mem, row |-> k.row, journal |-> <<>>]
  <2>1. [w EXCEPT !.journal = c] = [mem |-> w.mem, row |-> w.row, journal |-> c]
    BY <1>1
  <2>2. ReplayDeferredVifUnpacks([w EXCEPT !.journal = c]) = r
    BY <1>2, <2>1 DEF ReplayDeferredVifUnpacks, VuState, x
  <2>3. z = [mem |-> k.mem, row |-> k.row, journal |-> Append(<<>>, s)]
    BY <1>6, <2>1, <2>2 DEF AppendDeferredVifUnpack, c
  <2>4. <<>> \in Seq(Span) /\ Len(<<>>) = 0
    OBVIOUS
  <2>5. Append(<<>>, s) \in Seq(Span) /\ Len(Append(<<>>, s)) = 1
    BY <2>4, AppendProperties
  <2>6. VuState(z) = k
    BY <1>4, <2>3 DEF VuState, VuStates
  <2>7. z \in WorkerState
    BY <1>4, <2>3, <2>5 DEF WorkerState, VuStates
  <2> HIDE DEF k
  <2>8. Replays(k, <<>>)[0] = k
    BY <2>4, ReplaysLoop
  <2>9. Replays(k, Append(<<>>, s))[1] = Executed(k, s)
    <3>1. Replays(k, Append(<<>>, s))[Len(<<>>) + 1] = Executed(Replays(k, <<>>)[Len(<<>>)], s)
      BY <1>4, <2>4, ReplayOfAppend
    <3> QED BY <2>4, <2>8, <3>1
  <2>10. Settled(z) = Executed(k, s)
    BY <2>3, <2>5, <2>6, <2>9 DEF Settled
  <2> QED BY <1>5, <2>3, <2>7, <2>10
<1>7. CASE ~(Len(c) >= MaximumDeferredAffineSpans)
  <2>1. z = [mem |-> w.mem, row |-> w.row, journal |-> Append(c, s)]
    <3> DEFINE v == [mem |-> w.mem, row |-> w.row, journal |-> c]
    <3>1. [w EXCEPT !.journal = c] = v
      BY <1>1
    <3>2. z = [v EXCEPT !.journal = Append(@, s)]
      BY <1>7, <3>1 DEF AppendDeferredVifUnpack, c
    <3> QED BY <3>2
  <2>2. Append(c, s) \in Seq(Span) /\ Len(Append(c, s)) = Len(c) + 1
        /\ Replays(x, Append(c, s))[Len(c) + 1] = Executed(k, s)
    BY <1>2, <1>3, ReplayOfAppend
  <2>3. VuState(z) = x
    BY <2>1 DEF VuState, x
  <2>4. z \in WorkerState
    BY <1>1, <2>1, <2>2 DEF WorkerState
  <2>5. Settled(z) = Executed(k, s)
    BY <2>1, <2>2, <2>3 DEF Settled
  <2>6. Len(c) < MaximumDeferredAffineSpans
    BY <1>3, <1>7, JournalAssumption
  <2> QED BY <1>5, <2>1, <2>4, <2>5, <2>6 DEF c
<1> QED BY <1>6, <1>7

-----------------------------------------------------------------------------
(* Reading a record *)

\* Mode 0 neither reads nor changes the row.
RowFree(spans) == \A i \in 1 .. Len(spans) : spans[i].format \in {"affine", "masked"}
LEMMA RowIsUnseen ==
    ASSUME NEW x \in VuStates, NEW row \in Seq(Nat), NEW spans \in Seq(Span),
           RowFree(spans)
    PROVE  Replays([mem |-> x.mem, row |-> row], spans)[Len(spans)] =
               [mem |-> Replays(x, spans)[Len(spans)].mem, row |-> row]
<1> DEFINE y == [mem |-> x.mem, row |-> row]
           f == Replays(x, spans)
           g == Replays(y, spans)
           G == {n \in 0 .. Len(spans) : g[n] = [mem |-> f[n].mem, row |-> row]}
<1>y. y = [mem |-> x.mem, row |-> row]
  OBVIOUS
<1> HIDE DEF y
<1>0. /\ Len(spans) \in Nat /\ f[0] = x /\ g[0] = y
      /\ \A n \in 1 .. Len(spans) : f[n] = Executed(f[n - 1], spans[n])
      /\ \A n \in 1 .. Len(spans) : g[n] = Executed(g[n - 1], spans[n])
      /\ \A n \in 0 .. Len(spans) : f[n] \in VuStates
  BY LenProperties, ReplaysLoop, ReplaysAreTyped
<1> HIDE DEF f, g
<1>1. 0 \in G
  BY <1>0, <1>y
<1>2. ASSUME NEW n \in 1 .. Len(spans), n - 1 \in G PROVE n \in G
  <2> DEFINE a == f[n - 1]
             b == g[n - 1]
             s == spans[n]
  <2>1. /\ b = [mem |-> a.mem, row |-> row] /\ a \in VuStates /\ s \in Span
        /\ f[n] = Executed(a, s) /\ g[n] = Executed(b, s)
        /\ s.format \in {"affine", "masked"} /\ f[n] \in VuStates
    BY <1>0, <1>2, ElementOfSeq DEF RowFree
  <2> HIDE DEF a, b, s
  <2>2. b \in VuStates /\ b.mem = a.mem /\ b.row = row
    BY <2>1 DEF VuStates
  <2>3. Executed(b, s).row = row /\ Executed(b, s) \in VuStates /\ Executed(a, s) \in VuStates
    BY <2>1, <2>2, ExecutedAt DEF RowAfter
  <2>4. ASSUME NEW q \in Address PROVE Executed(b, s).mem[q] = Executed(a, s).mem[q]
    <3>1. Lane(q, s, a.row) = Lane(q, s, b.row)
      BY <2>1 DEF Lane
    <3>2. VectorAt(q, s) < s.count \/ VectorAt(q, s) >= s.count
      BY <2>1, VectorIs, JournalAssumption DEF Address, Span
    <3>3. CASE VectorAt(q, s) < s.count
      <4>1. Executed(a, s).mem[q] = <<Lane(q, s, a.row), IF s.format = "masked"
                                        THEN a.mem[q][2] ELSE Lane(q, s, a.row)>>
        BY <2>1, <3>3, ExecutedAt
      <4>2. Executed(b, s).mem[q] = <<Lane(q, s, b.row), IF s.format = "masked"
                                        THEN b.mem[q][2] ELSE Lane(q, s, b.row)>>
        BY <2>1, <2>2, <3>3, ExecutedAt
      <4> QED BY <2>2, <3>1, <4>1, <4>2, Zenon
    <3>4. CASE VectorAt(q, s) >= s.count
      <4>1. Executed(a, s).mem[q] = a.mem[q]
        BY <2>1, <3>4, ExecutedAt
      <4>2. Executed(b, s).mem[q] = b.mem[q]
        BY <2>1, <2>2, <3>4, ExecutedAt
      <4> QED BY <2>2, <4>1, <4>2
    <3> QED BY <3>2, <3>3, <3>4
  <2>5. Executed(b, s).mem = Executed(a, s).mem
    BY <2>3, <2>4 DEF VuStates, Memory
  <2>6. Executed(b, s) = [mem |-> Executed(b, s).mem, row |-> Executed(b, s).row]
    BY <2>3 DEF VuStates
  <2> QED BY <1>0, <2>1, <2>3, <2>5, <2>6
<1>3. Len(spans) \in G
  <2> HIDE DEF G
  <2>1. \A n \in 0 .. Len(spans) : n \in G
    BY <1>0, <1>1, <1>2, Induction
  <2> QED BY <1>0, <2>1
<1> QED BY <1>3 DEF f, g, y

\* A worker with an empty journal is settled.
LEMMA EmptyIsSettled ==
    ASSUME NEW w, w.journal = <<>> PROVE Settled(w) = VuState(w)
<1>1. Len(<<>>) = 0
  OBVIOUS
<1>2. Replays(VuState(w), <<>>)[0] = VuState(w)
  BY <1>1, ReplaysLoop
<1> QED BY <1>1, <1>2 DEF Settled

LEMMA SettledIsTyped ==
    ASSUME NEW w \in WorkerState
    PROVE  VuState(w) \in VuStates /\ Settled(w) \in VuStates
<1>1. VuState(w) \in VuStates /\ w.journal \in Seq(Span)
  BY DEF VuState, VuStates, WorkerState
<1> QED BY <1>1, ReplaysAreTyped, LenProperties DEF Settled

LEMMA ReplayIsExact ==
    ASSUME NEW w \in WorkerState, NEW v, v = ReplayDeferredVifUnpacks(w)
    PROVE  v \in WorkerState /\ v.journal = <<>> /\ VuState(v) = Settled(w)
           /\ Settled(v) = Settled(w) /\ v.mem = Settled(w).mem /\ v.row = Settled(w).row
<1> DEFINE e == Settled(w)
<1>1. e \in VuStates
  BY SettledIsTyped
<1>2. v = [mem |-> e.mem, row |-> e.row, journal |-> <<>>]
  BY DEF ReplayDeferredVifUnpacks, Settled
<1> HIDE DEF e
<1>3. <<>> \in Seq(Span)
  OBVIOUS
<1>4. v \in WorkerState /\ v.journal = <<>> /\ VuState(v) = e /\ v.mem = e.mem /\ v.row = e.row
  BY <1>1, <1>2, <1>3 DEF WorkerState, VuStates, VuState
<1>5. Settled(v) = e
  BY <1>4, EmptyIsSettled
<1> QED BY <1>4, <1>5 DEF e

\* The condition of finding 2: no row write, or no format that uses the row
RowIsSafe == "row" \notin Kinds \/ Formats \subseteq {"affine", "masked"}

\* What reading a record with span s may make of journal a
JournalFollows(a, s, b) ==
    \/ b = <<>> \/ b = a \/ b = Append(<<>>, s)
    \/ b = Append(Compacted(a, s), s) /\ Len(Compacted(a, s)) < MaximumDeferredAffineSpans

\* Reading a record changes what a replay would give by the record's effect.
LEMMA ReadIsExact ==
    ASSUME NEW w \in WorkerState, SpansAreAllowed(w.journal),
           NEW r \in Record, RecordIsAllowed(r)
    PROVE  /\ ReadRecord(w, r) \in WorkerState
           /\ JournalFollows(w.journal, r.span, ReadRecord(w, r).journal)
           /\ RowIsSafe => Settled(ReadRecord(w, r)) = Effect(Settled(w), r)
<1>0. r.kind \in RecordKind /\ r.span \in Span /\ r.span.payload \in Nat
  BY DEF Record, Span
<1>1. CASE r.kind = "captured"
  <2>1. ReadRecord(w, r) = AppendDeferredVifUnpack(w, r.span)
    BY <1>1 DEF ReadRecord
  <2>2. Effect(Settled(w), r) = Executed(Settled(w), r.span)
    BY <1>1 DEF Effect
  <2> QED BY <1>0, <2>1, <2>2, AppendIsExact DEF JournalFollows
<1>2. CASE r.kind \in {"unpack", "data"}
  <2> DEFINE v == ReplayDeferredVifUnpacks(w)
             e == Settled(w)
             z == ReadRecord(w, r)
             y == Executed(e, r.span)
  <2>1. /\ v \in WorkerState /\ v.journal = <<>> /\ v.mem = e.mem /\ v.row = e.row
        /\ e \in VuStates
    BY ReplayIsExact, SettledIsTyped
  <2>2. y \in VuStates /\ y.mem = Unpack(r.span, v.mem, v.row) /\ y.row = RowAfter(r.span, v.row)
    <3> HIDE DEF v, e
    <3> QED BY <1>0, <2>1, ExecutedIsTyped DEF Executed
  <2>3. r.kind = "data" => RowAfter(r.span, v.row) = v.row
    BY DEF RecordIsAllowed, RowAfter
  <2>4. z = [v EXCEPT !.mem = y.mem, !.row = y.row]
    <3>1. CASE r.kind = "unpack"
      <4>1. z = [v EXCEPT !.mem = Unpack(r.span, v.mem, v.row),
                          !.row = RowAfter(r.span, v.row)]
        BY <3>1 DEF ReadRecord
      <4> HIDE DEF v, z, y
      <4> QED BY <2>2, <4>1
    <3>2. CASE r.kind = "data"
      <4>1. z = [v EXCEPT !.mem = Unpack(r.span, v.mem, v.row)]
        BY <3>2 DEF ReadRecord
      <4> HIDE DEF v, z, y
      <4> QED BY <2>1, <2>2, <2>3, <3>2, <4>1 DEF WorkerState
    <3> QED BY <1>2, <3>1, <3>2
  <2> HIDE DEF v, z, y
  <2>5. z \in WorkerState /\ z.journal = <<>> /\ VuState(z) = y
    BY <2>1, <2>2, <2>4 DEF WorkerState, VuStates, VuState
  <2>6. Settled(z) = y
    BY <2>5, EmptyIsSettled
  <2>7. Effect(Settled(w), r) = y
    BY <1>2 DEF Effect, y
  <2>8. JournalFollows(w.journal, r.span, z.journal)
    BY <2>5 DEF JournalFollows
  <2> QED BY <2>5, <2>6, <2>7, <2>8 DEF z
<1>3. CASE r.kind = "row"
  <2> DEFINE row == <<r.span.payload>>
             x == VuState(w)
             y == [mem |-> x.mem, row |-> row]
             z == [w EXCEPT !.row = row]
             N == Len(w.journal)
  <2>1. /\ x \in VuStates /\ row \in Seq(Nat) /\ w.journal \in Seq(Span) /\ N \in Nat
        /\ z \in WorkerState /\ z.journal = w.journal /\ VuState(z) = y
    <3>1. x \in VuStates /\ w.journal \in Seq(Span) /\ N \in Nat /\ row \in Seq(Nat)
      BY <1>0, SettledIsTyped, LenProperties DEF WorkerState
    <3> HIDE DEF row
    <3>2. z \in WorkerState /\ z.journal = w.journal /\ z.mem = w.mem /\ z.row = row
      BY <3>1 DEF WorkerState
    <3> QED BY <3>1, <3>2 DEF VuState
  <2>2. ASSUME RowIsSafe PROVE \A i \in 1 .. N : w.journal[i].format \in {"affine", "masked"}
    <3>1. Formats \subseteq {"affine", "masked"}
      BY <1>3, <2>2 DEF RowIsSafe, RecordIsAllowed
    <3> QED BY <3>1 DEF SpansAreAllowed, SpanIsAllowed
  <2>3. ASSUME RowIsSafe
        PROVE  Replays(y, w.journal)[N] = [mem |-> Replays(x, w.journal)[N].mem, row |-> row]
    <3> HIDE DEF x, row
    <3>1. x \in VuStates /\ row \in Seq(Nat) /\ w.journal \in Seq(Span)
      BY <2>1
    <3>2. RowFree(w.journal)
      BY <2>2, <2>3 DEF RowFree
    <3> QED BY <3>1, <3>2, RowIsUnseen
  <2>4. ReadRecord(w, r) = z
    BY <1>3 DEF ReadRecord
  <2>5. RowIsSafe => Settled(z) = [mem |-> Settled(w).mem, row |-> row]
    <3> HIDE DEF z, y, row
    <3> QED BY <2>1, <2>3 DEF Settled
  <2>6. Effect(Settled(w), r) = [mem |-> Settled(w).mem, row |-> row]
    BY <1>3 DEF Effect
  <2>7. JournalFollows(w.journal, r.span, z.journal)
    BY <2>1 DEF JournalFollows
  <2> HIDE DEF z
  <2> QED BY <2>1, <2>4, <2>5, <2>6, <2>7
<1>4. CASE r.kind = "flush"
  <2>1. ReadRecord(w, r) = ReplayDeferredVifUnpacks(w)
    BY <1>4 DEF ReadRecord
  <2>2. Effect(Settled(w), r) = Settled(w)
    BY <1>4 DEF Effect
  <2> QED BY <2>1, <2>2, ReplayIsExact DEF JournalFollows
<1> QED BY <1>0, <1>1, <1>2, <1>3, <1>4 DEF RecordKind


-----------------------------------------------------------------------------
(* What compaction keeps *)

\* No span of a journal is one that DirectAffineSpanFullyOverwrites() finds
\* overwritten by a later one.
NoneOverwritten(spans) ==
    \A j \in 1 .. Len(spans) : \A i \in 1 .. j - 1 :
        ~DirectAffineSpanFullyOverwrites(spans[j], spans[i])

\* Compaction keeps spans of the journal, none that the new span overwrites,
\* and in an order that leaves none overwritten.
LEMMA CompactionKeeps ==
    ASSUME NEW spans \in Seq(Span), NEW s \in Span, NEW c, c = Compacted(spans, s)
    PROVE  /\ c \in Seq(Span)
           /\ \A i \in 1 .. Len(c) : /\ \E m \in 1 .. Len(spans) : c[i] = spans[m]
                                     /\ ~DirectAffineSpanFullyOverwrites(s, c[i])
           /\ NoneOverwritten(spans) => NoneOverwritten(c)
<1> DEFINE kept == Compactions(spans, s)
           N == Len(spans)
           Kept(a, n) == /\ a \in Seq(Span)
                         /\ \A i \in 1 .. Len(a) :
                               /\ \E m \in 1 .. n : a[i] = spans[m]
                               /\ ~DirectAffineSpanFullyOverwrites(s, a[i])
                         /\ NoneOverwritten(spans) => NoneOverwritten(a)
           G == {n \in 0 .. N : Kept(kept[n], n)}
<1>0. /\ N \in Nat /\ kept[0] = <<>>
      /\ \A n \in 1 .. N :
            kept[n] = (IF DirectAffineSpanFullyOverwrites(s, spans[n]) THEN kept[n - 1]
                       ELSE Append(kept[n - 1], spans[n]))
  BY LenProperties, CompactionsLoop
<1> HIDE DEF kept
<1>1. 0 \in G
  <2>1. <<>> \in Seq(Span) /\ Len(<<>>) = 0
    OBVIOUS
  <2>2. Kept(<<>>, 0)
    BY <2>1 DEF NoneOverwritten
  <2> HIDE DEF Kept
  <2> QED BY <1>0, <2>2
<1>2. ASSUME NEW n \in 1 .. N, n - 1 \in G PROVE n \in G
  <2> DEFINE a == kept[n - 1]
             b == kept[n]
             t == spans[n]
  <2>1. Kept(a, n - 1)
    BY <1>2
  <2>2. /\ t \in Span /\ Len(a) \in Nat
        /\ b = (IF DirectAffineSpanFullyOverwrites(s, t) THEN a ELSE Append(a, t))
    BY <1>0, <2>1, ElementOfSeq, LenProperties
  <2> HIDE DEF a, b
  <2>3. Kept(a, n)
    BY <1>0, <2>1
  <2>4. CASE DirectAffineSpanFullyOverwrites(s, t)
    <3> HIDE DEF Kept
    <3> QED BY <1>0, <2>2, <2>3, <2>4 DEF b
  <2>5. CASE ~DirectAffineSpanFullyOverwrites(s, t)
    <3> DEFINE L == Len(a)
    <3>1. /\ b \in Seq(Span) /\ Len(b) = L + 1 /\ b[L + 1] = t
          /\ \A i \in 1 .. L : b[i] = a[i]
      BY <2>1, <2>2, <2>5, AppendProperties
    <3>2. ASSUME NEW i \in 1 .. L + 1
          PROVE  /\ \E m \in 1 .. n : b[i] = spans[m]
                 /\ ~DirectAffineSpanFullyOverwrites(s, b[i])
      <4>1. CASE i = L + 1
        BY <1>0, <2>5, <3>1, <4>1
      <4>2. CASE i # L + 1
        <5>1. i \in 1 .. L /\ b[i] = a[i]
          BY <2>2, <3>1, <4>2
        <5> QED BY <2>3, <5>1
      <4> QED BY <4>1, <4>2
    <3>3. ASSUME NoneOverwritten(spans) PROVE NoneOverwritten(b)
      <4> SUFFICES ASSUME NEW j \in 1 .. L + 1, NEW i \in 1 .. j - 1
                   PROVE  ~DirectAffineSpanFullyOverwrites(b[j], b[i])
        BY <3>1 DEF NoneOverwritten
      <4>1. i \in 1 .. L /\ b[i] = a[i]
        BY <2>2, <3>1
      <4>2. CASE j = L + 1
        <5>1. PICK m \in 1 .. n - 1 : a[i] = spans[m]
          BY <2>1, <4>1
        <5>2. ~DirectAffineSpanFullyOverwrites(spans[n], spans[m])
          BY <3>3 DEF NoneOverwritten
        <5> QED BY <3>1, <4>1, <4>2, <5>1, <5>2
      <4>3. CASE j # L + 1
        <5>1. j \in 1 .. L /\ b[j] = a[j]
          BY <2>2, <3>1, <4>3
        <5>2. NoneOverwritten(a)
          BY <2>1, <3>3
        <5> QED BY <4>1, <5>1, <5>2 DEF NoneOverwritten
      <4> QED BY <4>2, <4>3
    <3>4. Kept(b, n)
      BY <3>1, <3>2, <3>3
    <3> HIDE DEF Kept
    <3> QED BY <1>0, <3>4 DEF b
  <2> QED BY <2>4, <2>5
<1>3. N \in G
  <2> HIDE DEF G
  <2>1. \A n \in 0 .. N : n \in G
    BY <1>0, <1>1, <1>2, Induction
  <2> QED BY <1>0, <2>1
<1>4. c = kept[N]
  BY DEF Compacted, kept
<1>5. Kept(c, N)
  BY <1>3, <1>4
<1> QED BY <1>5

\* What reading a record preserves of the journal
LEMMA JournalIsKept ==
    ASSUME NEW a \in Seq(Span), NEW s \in Span, NEW b, JournalFollows(a, s, b)
    PROVE  /\ Len(a) <= MaximumDeferredAffineSpans => Len(b) <= MaximumDeferredAffineSpans
           /\ SpansAreAllowed(a) /\ SpanIsAllowed(s) => SpansAreAllowed(b)
           /\ NoneOverwritten(a) => NoneOverwritten(b)
<1> DEFINE c == Compacted(a, s)
           M == MaximumDeferredAffineSpans
<1>1. M \in Nat /\ M >= 1
  BY JournalAssumption
<1>2. CASE b = a
  BY <1>2
<1>3. CASE b = <<>>
  <2>1. Len(b) = 0
    BY <1>3
  <2> QED BY <1>1, <2>1 DEF SpansAreAllowed, NoneOverwritten
<1>4. CASE b = Append(<<>>, s)
  <2>1. Len(b) = 1 /\ b[1] = s
    BY <1>4
  <2>2. SpanIsAllowed(s) => SpansAreAllowed(b)
    BY <2>1 DEF SpansAreAllowed
  <2>3. NoneOverwritten(b)
    BY <2>1 DEF NoneOverwritten
  <2> QED BY <1>1, <2>1, <2>2, <2>3
<1>5. CASE b = Append(c, s) /\ Len(c) < M
  <2> DEFINE L == Len(c)
  <2>1. /\ c \in Seq(Span)
        /\ \A i \in 1 .. L : /\ \E m \in 1 .. Len(a) : c[i] = a[m]
                             /\ ~DirectAffineSpanFullyOverwrites(s, c[i])
        /\ NoneOverwritten(a) => NoneOverwritten(c)
    BY CompactionKeeps
  <2> HIDE DEF c
  <2>2. /\ L \in Nat /\ Len(b) = L + 1 /\ b[L + 1] = s /\ \A i \in 1 .. L : b[i] = c[i]
    BY <1>5, <2>1, LenProperties, AppendProperties
  <2>3. Len(b) <= M
    BY <1>1, <1>5, <2>2
  <2>4. ASSUME SpansAreAllowed(a), SpanIsAllowed(s) PROVE SpansAreAllowed(b)
    <3> SUFFICES ASSUME NEW i \in 1 .. L + 1 PROVE SpanIsAllowed(b[i])
      BY <2>2 DEF SpansAreAllowed
    <3>1. CASE i = L + 1
      BY <2>2, <2>4, <3>1
    <3>2. CASE i # L + 1
      <4>1. i \in 1 .. L /\ b[i] = c[i]
        BY <2>2, <3>2
      <4>2. PICK m \in 1 .. Len(a) : c[i] = a[m]
        BY <2>1, <4>1
      <4> QED BY <2>4, <4>1, <4>2 DEF SpansAreAllowed
    <3> QED BY <3>1, <3>2
  <2>5. ASSUME NoneOverwritten(a) PROVE NoneOverwritten(b)
    <3> SUFFICES ASSUME NEW j \in 1 .. L + 1, NEW i \in 1 .. j - 1
                 PROVE  ~DirectAffineSpanFullyOverwrites(b[j], b[i])
      BY <2>2 DEF NoneOverwritten
    <3>1. i \in 1 .. L /\ b[i] = c[i]
      BY <2>2
    <3>2. CASE j = L + 1
      BY <2>1, <2>2, <3>1, <3>2
    <3>3. CASE j # L + 1
      <4>1. j \in 1 .. L /\ b[j] = c[j]
        BY <2>2, <3>3
      <4> QED BY <2>1, <2>5, <3>1, <4>1 DEF NoneOverwritten
    <3> QED BY <3>2, <3>3
  <2> QED BY <2>3, <2>4, <2>5
<1> QED BY <1>2, <1>3, <1>4, <1>5 DEF JournalFollows

\* DirectAffineSpanFullyOverwrites() misses nothing: a span it does not find
\* overwritten has a qword that the newer one, unless it is all of VU memory,
\* leaves alone.
LEMMA OverlapIsComplete ==
    ASSUME NEW s \in Span, NEW t \in Span, s.count < Vu1MemoryQwords,
           ~DirectAffineSpanFullyOverwrites(s, t)
    PROVE  ~Hides(s, t)
<1> DEFINE V == Vu1MemoryQwords
           a == VectorAt(t.dest, s)
<1>1. /\ V \in Nat /\ V > 0 /\ s.dest \in 0 .. V - 1 /\ t.dest \in 0 .. V - 1
      /\ s.count \in 1 .. V /\ t.count \in 1 .. V /\ t.dest \in Address
  BY JournalAssumption DEF Span, Address
<1>2. a \in 0 .. V - 1 /\ a = IF t.dest >= s.dest THEN t.dest - s.dest ELSE t.dest - s.dest + V
  BY <1>1, VectorIs DEF Address
<1> SUFFICES ASSUME Hides(s, t) PROVE FALSE
  OBVIOUS
<1>3. /\ s.format = "affine" /\ t.format = "affine"
      /\ \A q \in Address : VectorAt(q, t) < t.count => VectorAt(q, s) < s.count
  BY DEF Hides
<1>4. a < s.count
  <2>1. VectorAt(t.dest, t) = 0
    BY <1>1, VectorIs
  <2> QED BY <1>1, <1>3, <2>1
<1>5. ~(t.count <= s.count - a)
  BY <1>3, <1>4 DEF DirectAffineSpanFullyOverwrites
<1> HIDE DEF a
<1>6. PICK q \in Address : VectorAt(q, s) = s.count /\ VectorAt(q, t) = s.count - a
  <2> DEFINE e == s.dest + s.count
             q == IF e < V THEN e ELSE e - V
  <2>1. q \in 0 .. V - 1
    BY <1>1
  <2>2. q \in Address
    BY <2>1 DEF Address
  <2>3. q = (IF s.dest + s.count < V THEN s.dest + s.count ELSE (s.dest + s.count) - V)
    OBVIOUS
  <2> HIDE DEF q
  <2>4. /\ VectorAt(q, s) = IF q >= s.dest THEN q - s.dest ELSE q - s.dest + V
        /\ VectorAt(q, t) = IF q >= t.dest THEN q - t.dest ELSE q - t.dest + V
    BY <2>2, VectorIs
  <2>5. VectorAt(q, s) = s.count
    BY <1>1, <2>1, <2>3, <2>4
  <2>6. VectorAt(q, t) = s.count - a
    BY <1>1, <1>2, <1>4, <2>1, <2>3, <2>4
  <2> QED BY <2>2, <2>5, <2>6
<1>7. s.count - a < t.count
  BY <1>1, <1>2, <1>5
<1>8. s.count < s.count
  BY <1>3, <1>6, <1>7
<1> QED BY <1>1, <1>8

-----------------------------------------------------------------------------
(* The effects of the queued records *)

LEMMA EffectIsTyped ==
    ASSUME NEW x \in VuStates, NEW r \in Record
    PROVE  Effect(x, r) \in VuStates
<1>1. r.span \in Span /\ r.span.payload \in Nat
  BY DEF Record, Span
<1>2. x.mem \in Memory /\ <<r.span.payload>> \in Seq(Nat)
  BY <1>1 DEF VuStates
<1>3. [mem |-> x.mem, row |-> <<r.span.payload>>] \in VuStates
  BY <1>2 DEF VuStates
<1> QED BY <1>1, <1>3, ExecutedIsTyped DEF Effect

LEMMA EffectsAreTyped ==
    ASSUME NEW x \in VuStates, NEW records \in Seq(Record)
    PROVE  \A n \in 0 .. Len(records) : Effects(x, records)[n] \in VuStates
<1> DEFINE f == Effects(x, records)
           G == {n \in 0 .. Len(records) : f[n] \in VuStates}
<1>0. /\ Len(records) \in Nat /\ f[0] = x
      /\ \A n \in 1 .. Len(records) : f[n] = Effect(f[n - 1], records[n])
  BY LenProperties, EffectsLoop
<1> HIDE DEF f
<1>1. 0 \in G
  BY <1>0
<1>2. ASSUME NEW n \in 1 .. Len(records), n - 1 \in G PROVE n \in G
  <2>1. f[n - 1] \in VuStates /\ records[n] \in Record
    BY <1>2, ElementOfSeq
  <2> QED BY <1>0, <2>1, EffectIsTyped
<1>3. \A n \in 0 .. Len(records) : n \in G
  <2> HIDE DEF G
  <2> QED BY <1>0, <1>1, <1>2, Induction
<1> QED BY <1>3 DEF f

\* Queues that begin alike have the same effects that far.
LEMMA EffectsOfPrefix ==
    ASSUME NEW x, NEW a \in Seq(Record), NEW b \in Seq(Record), NEW k \in Nat,
           k <= Len(a), k <= Len(b), \A n \in 1 .. k : a[n] = b[n]
    PROVE  Effects(x, a)[k] = Effects(x, b)[k]
<1> DEFINE f == Effects(x, a)
           g == Effects(x, b)
           G == {n \in 0 .. k : f[n] = g[n]}
<1>0. /\ Len(a) \in Nat /\ Len(b) \in Nat /\ f[0] = x /\ g[0] = x
      /\ \A n \in 1 .. Len(a) : f[n] = Effect(f[n - 1], a[n])
      /\ \A n \in 1 .. Len(b) : g[n] = Effect(g[n - 1], b[n])
  BY LenProperties, EffectsLoop
<1> HIDE DEF f, g
<1>1. 0 \in G
  BY <1>0
<1>2. ASSUME NEW n \in 1 .. k, n - 1 \in G PROVE n \in G
  <2>1. n \in 1 .. Len(a) /\ n \in 1 .. Len(b) /\ a[n] = b[n] /\ f[n - 1] = g[n - 1]
    BY <1>0, <1>2
  <2>2. f[n] = g[n]
    BY <1>0, <2>1
  <2> QED BY <1>0, <2>2
<1>3. \A n \in 0 .. k : n \in G
  <2> HIDE DEF G
  <2> QED BY <1>0, <1>1, <1>2, Induction
<1>4. k \in G
  BY <1>3
<1> QED BY <1>4 DEF f, g

\* The effects of a queue are those of its first record and then of the rest.
LEMMA EffectsOfTail ==
    ASSUME NEW x, NEW records \in Seq(Record), Len(records) > 0
    PROVE  /\ Tail(records) \in Seq(Record) /\ Len(Tail(records)) = Len(records) - 1
           /\ Head(records) = records[1]
           /\ Effects(Effect(x, Head(records)), Tail(records))[Len(Tail(records))] =
                  Effects(x, records)[Len(records)]
<1> DEFINE a == Tail(records)
           K == Len(a)
           N == Len(records)
           f == Effects(Effect(x, records[1]), a)
           g == Effects(x, records)
           G == {n \in 0 .. K : f[n] = g[n + 1]}
<1>0. /\ N \in Nat /\ a \in Seq(Record) /\ K = N - 1 /\ K \in Nat
      /\ \A n \in 1 .. K : a[n] = records[n + 1]
      /\ Head(records) = records[1]
  <2>1. N \in Nat /\ records # <<>>
    BY LenProperties
  <2> QED BY <2>1, HeadTailProperties
<1> HIDE DEF a
<1>1. /\ f[0] = Effect(x, records[1]) /\ g[0] = x
      /\ \A n \in 1 .. K : f[n] = Effect(f[n - 1], a[n])
      /\ \A n \in 1 .. N : g[n] = Effect(g[n - 1], records[n])
  <2>1. f[0] = Effect(x, records[1]) /\ \A n \in 1 .. K : f[n] = Effect(f[n - 1], a[n])
    BY <1>0, EffectsLoop
  <2>2. g[0] = x /\ \A n \in 1 .. N : g[n] = Effect(g[n - 1], records[n])
    BY <1>0, EffectsLoop
  <2> QED BY <2>1, <2>2
<1> HIDE DEF f, g, K, N
<1>2. 0 \in G
  <2>1. 1 \in 1 .. N
    BY <1>0 DEF N
  <2>2. g[1] = Effect(g[1 - 1], records[1])
    BY <1>1, <2>1
  <2> QED BY <1>0, <1>1, <2>2
<1>3. ASSUME NEW n \in 1 .. K, n - 1 \in G PROVE n \in G
  <2>1. f[n - 1] = g[(n - 1) + 1] /\ (n - 1) + 1 = n
    BY <1>0, <1>3
  <2>2. /\ n + 1 \in 1 .. N /\ (n + 1) - 1 = n /\ a[n] = records[n + 1]
        /\ f[n] = Effect(f[n - 1], a[n])
    BY <1>0, <1>1
  <2>3. g[n + 1] = Effect(g[(n + 1) - 1], records[n + 1])
    BY <1>1, <2>2
  <2>4. g[n + 1] = f[n]
    BY <2>1, <2>2, <2>3
  <2>5. n \in 0 .. K
    BY <1>0
  <2> QED BY <2>4, <2>5
<1>4. K \in G
  <2> HIDE DEF G
  <2>1. \A n \in 0 .. K : n \in G
    BY <1>0, <1>2, <1>3, Induction
  <2> QED BY <1>0, <2>1
<1>5. f[K] = g[N]
  BY <1>0, <1>4
<1> QED BY <1>0, <1>5 DEF a, f, g, K, N

\* The worker that reads the whole queue arrives where its effects do.
LEMMA ReadsAreEffects ==
    ASSUME RowIsSafe, NEW w \in WorkerState, SpansAreAllowed(w.journal),
           NEW records \in Seq(Record),
           \A i \in 1 .. Len(records) : RecordIsAllowed(records[i])
    PROVE  /\ Reads(w, records)[Len(records)] \in WorkerState
           /\ Settled(Reads(w, records)[Len(records)]) =
                  Effects(Settled(w), records)[Len(records)]
<1> DEFINE N == Len(records)
           f == Reads(w, records)
           g == Effects(Settled(w), records)
           Agrees(v, y) == v \in WorkerState /\ SpansAreAllowed(v.journal) /\ Settled(v) = y
           G == {n \in 0 .. N : Agrees(f[n], g[n])}
<1>0. /\ N \in Nat /\ f[0] = w /\ g[0] = Settled(w)
      /\ \A n \in 1 .. N : f[n] = ReadRecord(f[n - 1], records[n])
      /\ \A n \in 1 .. N : g[n] = Effect(g[n - 1], records[n])
  <2>1. N \in Nat
    BY LenProperties
  <2>2. f[0] = w /\ \A n \in 1 .. N : f[n] = ReadRecord(f[n - 1], records[n])
    BY <2>1, ReadsLoop
  <2>3. g[0] = Settled(w) /\ \A n \in 1 .. N : g[n] = Effect(g[n - 1], records[n])
    BY <2>1, EffectsLoop
  <2> QED BY <2>1, <2>2, <2>3
<1> HIDE DEF f, g
<1>1. 0 \in G
  BY <1>0
<1>2. ASSUME NEW n \in 1 .. N, n - 1 \in G PROVE n \in G
  <2> DEFINE v == f[n - 1]
             r == records[n]
             z == ReadRecord(v, r)
  <2>1. /\ v \in WorkerState /\ SpansAreAllowed(v.journal) /\ Settled(v) = g[n - 1]
        /\ r \in Record /\ RecordIsAllowed(r)
    BY <1>2, ElementOfSeq
  <2>2. f[n] = z /\ g[n] = Effect(Settled(v), r)
    BY <1>0, <2>1
  <2> HIDE DEF v, r
  <2>3. z \in WorkerState /\ JournalFollows(v.journal, r.span, z.journal)
        /\ Settled(z) = Effect(Settled(v), r)
    BY <2>1, ReadIsExact
  <2>4. v.journal \in Seq(Span) /\ r.span \in Span /\ SpanIsAllowed(r.span)
    BY <2>1 DEF WorkerState, Record, RecordIsAllowed
  <2> HIDE DEF z
  <2>5. SpansAreAllowed(z.journal)
    BY <2>1, <2>3, <2>4, JournalIsKept
  <2>6. Agrees(f[n], g[n])
    BY <2>2, <2>3, <2>5
  <2> HIDE DEF Agrees
  <2> QED BY <1>0, <2>6
<1>3. N \in G
  <2> HIDE DEF G
  <2>1. \A n \in 0 .. N : n \in G
    BY <1>0, <1>1, <1>2, Induction
  <2> QED BY <1>0, <2>1
<1> QED BY <1>3 DEF f, g

-----------------------------------------------------------------------------
(* The EE's steps *)

\* Queueing a record, merged or not, adds exactly its effect.
LEMMA EnqueueIsExact ==
    ASSUME queue \in Seq(Record), private \in 0 .. Len(queue), BatchIsCaptured,
           \A i \in 1 .. Len(queue) : RecordIsAllowed(queue[i]),
           NEW r \in Record, RecordIsAllowed(r), Enqueue(r)
    PROVE  /\ queue' \in Seq(Record) /\ private' \in 0 .. Len(queue') /\ BatchIsCaptured'
           /\ \A i \in 1 .. Len(queue') : RecordIsAllowed(queue'[i])
           /\ \A x \in VuStates : Effects(x, queue')[Len(queue')] =
                                      Effect(Effects(x, queue)[Len(queue)], r)
<1> DEFINE L == Len(queue)
<1>0. L \in Nat /\ private \in Nat /\ private <= L
  BY LenProperties
<1>1. CASE r.kind = "captured" /\ private > 0 /\ Adjacent(queue[Len(queue)].span, r.span)
  <2> DEFINE last == queue[L]
             s == last.span
             t == r.span
             m == [s EXCEPT !.count = @ + t.count]
             merged == [last EXCEPT !.span = m]
  <2>1. L >= 1 /\ L \in 1 .. L /\ last \in Record /\ s \in Span /\ t \in Span
    <3>1. L >= 1 /\ L \in 1 .. L
      BY <1>0, <1>1
    <3>2. last \in Record
      BY <3>1, ElementOfSeq
    <3> HIDE DEF last
    <3> QED BY <3>1, <3>2 DEF Record
  <2>2. last.kind = "captured" /\ RecordIsAllowed(last)
    BY <1>0, <1>1, <2>1 DEF BatchIsCaptured
  <2>3. queue' = [queue EXCEPT ![L] = merged] /\ private' = private
    BY <1>1 DEF Enqueue
  <2> HIDE DEF last
  <2>4. m = [s EXCEPT !.count = @ + t.count]
    OBVIOUS
  <2> HIDE DEF m
  <2>5. /\ m \in Span /\ m.format = "affine"
        /\ \A x \in VuStates : Executed(x, m) = Executed(Executed(x, s), t)
    <3>1. Adjacent(s, t)
      BY <1>1 DEF last
    <3> HIDE DEF s, t
    <3>2. m \in Span /\ m.format = "affine"
      <4>1. [mem |-> ZeroMem, row |-> <<>>] \in VuStates
        <5>1. ZeroLane \in LaneValue
          BY DEF ZeroLane, LaneValue
        <5>2. ZeroMem \in Memory
          BY <5>1 DEF ZeroMem, Memory
        <5> QED BY <5>2 DEF VuStates
      <4> QED BY <2>1, <2>4, <3>1, <4>1, MergeIsExact
    <3> QED BY <2>1, <2>4, <3>1, <3>2, MergeIsExact
  <2>6. merged \in Record /\ merged.kind = "captured" /\ merged.span = m
    BY <2>1, <2>2, <2>5 DEF Record
  <2>7. RecordIsAllowed(merged)
    BY <2>2, <2>5, <2>6 DEF RecordIsAllowed, SpanIsAllowed
  <2> HIDE DEF merged
  <2>8. /\ queue' \in Seq(Record) /\ Len(queue') = L /\ queue'[L] = merged
        /\ \A i \in 1 .. L - 1 : queue'[i] = queue[i]
    BY <1>0, <2>1, <2>3, <2>6, ExceptSeq
  <2>9. \A i \in 1 .. L : RecordIsAllowed(queue'[i]) /\ (queue[i].kind = "captured" =>
                                                             queue'[i].kind = "captured")
    <3> SUFFICES ASSUME NEW i \in 1 .. L
                 PROVE  RecordIsAllowed(queue'[i]) /\ (queue[i].kind = "captured" =>
                                                           queue'[i].kind = "captured")
      OBVIOUS
    <3>1. CASE i = L
      BY <2>6, <2>7, <2>8, <3>1
    <3>2. CASE i # L
      BY <1>0, <2>8, <3>2
    <3> QED BY <3>1, <3>2
  <2>10. BatchIsCaptured'
    <3> SUFFICES ASSUME NEW i \in L - private + 1 .. L PROVE queue'[i].kind = "captured"
      BY <2>3, <2>8 DEF BatchIsCaptured
    <3>1. i \in 1 .. L /\ queue[i].kind = "captured"
      BY <1>0 DEF BatchIsCaptured
    <3> QED BY <2>9, <3>1
  <2>11. ASSUME NEW x \in VuStates
         PROVE  Effects(x, queue')[L] = Effect(Effects(x, queue)[L], r)
    <3> DEFINE f == Effects(x, queue)
               g == Effects(x, queue')
    <3>1. f[L] = Effect(f[L - 1], last) /\ f[L - 1] \in VuStates
      <4>1. L - 1 \in 0 .. L
        BY <1>0, <2>1
      <4> QED BY <1>0, <2>1, <4>1, EffectsLoop, EffectsAreTyped DEF last
    <3>2. g[L] = Effect(g[L - 1], merged)
      BY <1>0, <2>1, <2>8, EffectsLoop
    <3>3. f[L - 1] = g[L - 1]
      <4>1. L - 1 \in Nat /\ L - 1 <= L /\ \A n \in 1 .. L - 1 : queue[n] = queue'[n]
        BY <1>0, <2>1, <2>8
      <4> QED BY <2>8, <4>1, EffectsOfPrefix
    <3> DEFINE y == f[L - 1]
    <3> HIDE DEF f, g
    <3>4. /\ Effect(y, last) = Executed(y, s) /\ Effect(y, merged) = Executed(y, m)
      BY <2>2, <2>6 DEF Effect
    <3>5. Effect(f[L], r) = Executed(f[L], t)
      BY <1>1 DEF Effect
    <3>6. y \in VuStates /\ f[L] = Executed(y, s) /\ g[L] = Executed(y, m)
      BY <3>1, <3>2, <3>3, <3>4
    <3>7. Executed(y, m) = Executed(Executed(y, s), t)
      <4> HIDE DEF y, s, t
      <4> QED BY <2>5, <3>6
    <3>8. g[L] = Effect(f[L], r)
      BY <3>5, <3>6, <3>7
    <3> QED BY <3>8 DEF f, g
  <2> QED BY <1>0, <2>3, <2>8, <2>9, <2>10, <2>11
<1>2. CASE ~(r.kind = "captured" /\ private > 0 /\ Adjacent(queue[Len(queue)].span, r.span))
  <2>1. queue' = Append(queue, r) /\ private' = IF r.kind = "captured" THEN private + 1 ELSE 0
    BY <1>2 DEF Enqueue
  <2>2. /\ queue' \in Seq(Record) /\ Len(queue') = L + 1 /\ queue'[L + 1] = r
        /\ \A i \in 1 .. L : queue'[i] = queue[i]
    BY <2>1, AppendProperties
  <2>3. private' \in 0 .. L + 1
    BY <1>0, <2>1
  <2>4. ASSUME NEW i \in 1 .. L + 1 PROVE RecordIsAllowed(queue'[i])
    <3>1. CASE i = L + 1
      BY <2>2, <3>1
    <3>2. CASE i # L + 1
      BY <1>0, <2>2, <3>2
    <3> QED BY <3>1, <3>2
  <2>5. BatchIsCaptured'
    <3> SUFFICES ASSUME NEW i \in (L + 1) - private' + 1 .. L + 1
                 PROVE  queue'[i].kind = "captured"
      BY <2>2 DEF BatchIsCaptured
    <3>1. CASE r.kind = "captured"
      <4>1. private' = private + 1
        BY <2>1, <3>1
      <4>2. CASE i = L + 1
        BY <2>2, <3>1, <4>2
      <4>3. CASE i # L + 1
        <5>1. i \in L - private + 1 .. L /\ i \in 1 .. L
          BY <1>0, <4>1, <4>3
        <5> QED BY <2>2, <5>1 DEF BatchIsCaptured
      <4> QED BY <4>2, <4>3
    <3>2. CASE r.kind # "captured"
      <4>1. private' = 0
        BY <2>1, <3>2
      <4> QED BY <1>0, <4>1
    <3> QED BY <3>1, <3>2
  <2>6. ASSUME NEW x \in VuStates
        PROVE  Effects(x, queue')[L + 1] = Effect(Effects(x, queue)[L], r)
    <3>1. Effects(x, queue')[L + 1] = Effect(Effects(x, queue')[L], r)
      <4>1. L + 1 \in 1 .. L + 1 /\ (L + 1) - 1 = L
        BY <1>0
      <4>2. Len(queue') \in Nat
        BY <1>0, <2>2
      <4> QED BY <2>2, <4>1, <4>2, EffectsLoop
    <3>2. Effects(x, queue)[L] = Effects(x, queue')[L]
      <4>1. L <= L /\ L <= Len(queue') /\ \A n \in 1 .. L : queue[n] = queue'[n]
        BY <1>0, <2>2
      <4> QED BY <1>0, <2>2, <4>1, EffectsOfPrefix
    <3> QED BY <3>1, <3>2
  <2> QED BY <2>2, <2>3, <2>4, <2>5, <2>6
<1> QED BY <1>1, <1>2

\* The reference moves by the record's effect.
LEMMA ReferenceIsEffect ==
    ASSUME refMem \in Memory, refRow \in Seq(Nat), NEW r \in Record, Reference(r)
    PROVE  /\ refMem' \in Memory /\ refRow' \in Seq(Nat)
           /\ [mem |-> refMem', row |-> refRow'] = Effect([mem |-> refMem, row |-> refRow], r)
<1> DEFINE x == [mem |-> refMem, row |-> refRow]
           y == [mem |-> refMem', row |-> refRow']
<1>1. x \in VuStates /\ x.mem = refMem /\ x.row = refRow
  BY DEF VuStates
<1>2. y = Effect(x, r)
  <2>1. CASE r.kind = "row"
    BY <2>1 DEF Reference, Effect
  <2>2. CASE r.kind = "flush"
    BY <2>2 DEF Reference, Effect
  <2>3. CASE r.kind # "row" /\ r.kind # "flush"
    <3>1. refMem' = Unpack(r.span, refMem, refRow) /\ refRow' = RowAfter(r.span, refRow)
      BY <2>3 DEF Reference
    <3>2. Effect(x, r) = Executed(x, r.span)
      BY <2>3 DEF Effect
    <3> QED BY <3>1, <3>2 DEF Executed
  <2> QED BY <2>1, <2>2, <2>3
<1>3. y \in VuStates
  <2> HIDE DEF x, y
  <2> QED BY <1>1, <1>2, EffectIsTyped
<1>4. y.mem = refMem' /\ y.row = refRow'
  OBVIOUS
<1>5. refMem' \in Memory /\ refRow' \in Seq(Nat)
  <2> HIDE DEF y
  <2> QED BY <1>3, <1>4 DEF VuStates
<1> QED BY <1>2, <1>5

-----------------------------------------------------------------------------
(* The invariants are inductive *)

\* Everything is typed, and what the EE may merge into is its own.
Typed == TypeOK /\ AllIsAllowed /\ BatchIsCaptured

\* The order of the journal, and the link from the worker to the reference
Compact == NoneOverwritten(worker.journal)
Exact == RowIsSafe => QueueIsExact

LEMMA TypedWorker ==
    ASSUME Typed
    PROVE  /\ worker \in WorkerState /\ worker.journal \in Seq(Span)
           /\ SpansAreAllowed(worker.journal) /\ Settled(worker) \in VuStates
           /\ queue \in Seq(Record) /\ Len(queue) \in Nat /\ private \in 0 .. Len(queue)
           /\ \A i \in 1 .. Len(queue) : RecordIsAllowed(queue[i])
<1>1. worker \in WorkerState /\ queue \in Seq(Record) /\ private \in 0 .. Len(queue)
  BY DEF Typed, TypeOK, WorkerState
<1>2. worker.journal \in Seq(Span) /\ Len(queue) \in Nat
  BY <1>1, LenProperties DEF WorkerState
<1>3. Settled(worker) \in VuStates
  BY <1>1, SettledIsTyped
<1> QED BY <1>1, <1>2, <1>3 DEF Typed, AllIsAllowed

LEMMA WorkerStep ==
    ASSUME Typed, Worker
    PROVE  Typed' /\ (Compact => Compact') /\ (Exact => Exact')
<1> DEFINE r == Head(queue)
           z == ReadRecord(worker, r)
           L == Len(queue)
<1>0. /\ L > private /\ worker' = z /\ queue' = Tail(queue)
      /\ UNCHANGED <<private, payload, refMem, refRow, issued>>
  BY DEF Worker
<1>1. /\ worker \in WorkerState /\ worker.journal \in Seq(Span)
      /\ SpansAreAllowed(worker.journal)
      /\ queue \in Seq(Record) /\ L \in Nat /\ private \in 0 .. L
      /\ \A i \in 1 .. L : RecordIsAllowed(queue[i])
  BY TypedWorker
<1>2. L >= 1 /\ queue # <<>>
  BY <1>0, <1>1
<1>3. /\ r = queue[1] /\ r \in Record /\ RecordIsAllowed(r)
      /\ queue' \in Seq(Record) /\ Len(queue') = L - 1
      /\ \A i \in 1 .. L - 1 : queue'[i] = queue[i + 1]
  <2>1. /\ r \in Record /\ Tail(queue) \in Seq(Record) /\ Len(Tail(queue)) = L - 1
        /\ \A i \in 1 .. Len(Tail(queue)) : Tail(queue)[i] = queue[i + 1]
    BY <1>1, <1>2, HeadTailProperties
  <2>2. r = queue[1]
    BY <1>0, <1>1, <1>2, EffectsOfTail
  <2>3. RecordIsAllowed(queue[1])
    BY <1>1, <1>2
  <2> HIDE DEF r
  <2> QED BY <1>0, <2>1, <2>2, <2>3
<1>4. /\ z \in WorkerState /\ JournalFollows(worker.journal, r.span, z.journal)
      /\ RowIsSafe => Settled(z) = Effect(Settled(worker), r)
  <2> HIDE DEF r
  <2> QED BY <1>1, <1>3, ReadIsExact
<1>5. /\ Len(z.journal) <= MaximumDeferredAffineSpans /\ SpansAreAllowed(z.journal)
      /\ NoneOverwritten(worker.journal) => NoneOverwritten(z.journal)
  <2>1. r.span \in Span /\ SpanIsAllowed(r.span)
    BY <1>3 DEF Record, RecordIsAllowed
  <2>2. Len(worker.journal) <= MaximumDeferredAffineSpans
    BY DEF Typed, TypeOK
  <2> HIDE DEF r, z
  <2> QED BY <1>1, <1>4, <2>1, <2>2, JournalIsKept
<1> HIDE DEF z
<1>6. TypeOK'
  <2>1. private' \in 0 .. Len(queue')
    BY <1>0, <1>1, <1>3
  <2>2. /\ payload' \in Nat /\ issued' \in 0 .. MaxRecords /\ refMem' \in Memory
        /\ refRow' \in Seq(Nat)
    BY <1>0 DEF Typed, TypeOK
  <2> QED BY <1>0, <1>3, <1>4, <1>5, <2>1, <2>2 DEF TypeOK, WorkerState
<1>7. AllIsAllowed'
  <2>1. ASSUME NEW i \in 1 .. Len(queue') PROVE RecordIsAllowed(queue'[i])
    <3>1. i \in 1 .. L - 1 /\ i + 1 \in 1 .. L
      BY <1>1, <1>3
    <3> QED BY <1>1, <1>3, <3>1
  <2> QED BY <1>0, <1>5, <2>1 DEF AllIsAllowed
<1>8. BatchIsCaptured'
  <2> SUFFICES ASSUME NEW i \in (L - 1) - private + 1 .. L - 1
               PROVE  queue'[i].kind = "captured"
    BY <1>0, <1>3 DEF BatchIsCaptured
  <2>1. i \in 1 .. L - 1 /\ i + 1 \in L - private + 1 .. L
    BY <1>0, <1>1
  <2> QED BY <1>3, <2>1 DEF Typed, BatchIsCaptured
<1>9. Compact => Compact'
  BY <1>0, <1>5 DEF Compact
<1>10. ASSUME Exact, RowIsSafe PROVE QueueIsExact'
  <2> DEFINE x == Settled(worker)
  <2>1. Settled(worker') = Effect(x, r)
    BY <1>0, <1>4, <1>10
  <2>2. Effects(Effect(x, r), queue')[Len(queue')] = Effects(x, queue)[L]
    <3>1. L > 0
      BY <1>1, <1>2
    <3> HIDE DEF x
    <3> QED BY <1>0, <1>1, <3>1, EffectsOfTail
  <2>3. Effects(x, queue)[L] = [mem |-> refMem, row |-> refRow]
    BY <1>10 DEF Exact, QueueIsExact
  <2> QED BY <1>0, <2>1, <2>2, <2>3 DEF QueueIsExact
<1> QED BY <1>6, <1>7, <1>8, <1>9, <1>10 DEF Typed, Exact

LEMMA IssueStep ==
    ASSUME Typed, NEW k \in Kinds, NEW f \in Formats \union {"affine"}, NEW d \in Address,
           NEW n \in Lengths, NEW gap \in 0 .. 1, Issue(k, f, d, n, gap)
    PROVE  Typed' /\ (Compact => Compact') /\ (Exact => Exact')
<1> DEFINE r == [kind |-> k, span |-> [payload |-> payload + gap, format |-> f,
                                       dest |-> d, count |-> n]]
<1>0. /\ issued < MaxRecords /\ (k \notin {"captured", "unpack"} => f = "affine")
      /\ Enqueue(r) /\ Reference(r) /\ payload' = payload + gap + n
      /\ issued' = issued + 1 /\ worker' = worker
  BY DEF Issue
<1>1. /\ worker \in WorkerState /\ SpansAreAllowed(worker.journal)
      /\ Settled(worker) \in VuStates
      /\ queue \in Seq(Record) /\ Len(queue) \in Nat /\ private \in 0 .. Len(queue)
      /\ \A i \in 1 .. Len(queue) : RecordIsAllowed(queue[i])
  BY TypedWorker
<1>2. /\ payload \in Nat /\ issued \in 0 .. MaxRecords /\ refMem \in Memory
      /\ refRow \in Seq(Nat) /\ BatchIsCaptured
      /\ Len(worker.journal) <= MaximumDeferredAffineSpans
  BY DEF Typed, TypeOK
<1>3. r \in Record /\ RecordIsAllowed(r)
  <2>1. /\ k \in RecordKind /\ f \in Format /\ n \in 1 .. Vu1MemoryQwords
        /\ payload + gap \in Nat
    BY <1>2, JournalAssumption DEF Format
  <2>2. r \in Record
    BY <2>1 DEF Record, Span
  <2> QED BY <1>0, <2>2 DEF RecordIsAllowed, SpanIsAllowed
<1> HIDE DEF r
<1>4. /\ queue' \in Seq(Record) /\ private' \in 0 .. Len(queue') /\ BatchIsCaptured'
      /\ \A i \in 1 .. Len(queue') : RecordIsAllowed(queue'[i])
      /\ \A x \in VuStates : Effects(x, queue')[Len(queue')] =
                                 Effect(Effects(x, queue)[Len(queue)], r)
  BY <1>0, <1>1, <1>2, <1>3, EnqueueIsExact
<1>5. /\ refMem' \in Memory /\ refRow' \in Seq(Nat)
      /\ [mem |-> refMem', row |-> refRow'] = Effect([mem |-> refMem, row |-> refRow], r)
  BY <1>0, <1>2, <1>3, ReferenceIsEffect
<1>6. payload' \in Nat /\ issued' \in 0 .. MaxRecords
  BY <1>0, <1>2, JournalAssumption
<1>7. TypeOK'
  BY <1>0, <1>1, <1>2, <1>4, <1>5, <1>6 DEF TypeOK, WorkerState
<1>8. AllIsAllowed'
  BY <1>0, <1>1, <1>4 DEF AllIsAllowed
<1>9. ASSUME Exact, RowIsSafe PROVE QueueIsExact'
  <2> DEFINE x == Settled(worker)
  <2>1. Effects(x, queue)[Len(queue)] = [mem |-> refMem, row |-> refRow]
    BY <1>9 DEF Exact, QueueIsExact
  <2>2. Effects(x, queue')[Len(queue')] = Effect(Effects(x, queue)[Len(queue)], r)
    <3> HIDE DEF x
    <3>1. x \in VuStates
      BY <1>1 DEF x
    <3> QED BY <1>4, <3>1
  <2>3. Settled(worker') = x
    BY <1>0
  <2> QED BY <1>5, <2>1, <2>2, <2>3 DEF QueueIsExact
<1>10. Compact => Compact'
  BY <1>0 DEF Compact
<1> QED BY <1>4, <1>7, <1>8, <1>9, <1>10 DEF Typed, Exact

LEMMA PublishStep ==
    ASSUME Typed, PublishPendingVifBatch \/ UNCHANGED vars
    PROVE  Typed' /\ (Compact => Compact') /\ (Exact => Exact')
<1>1. /\ UNCHANGED <<worker, queue, payload, refMem, refRow, issued>>
      /\ private' \in {0, private}
  BY DEF PublishPendingVifBatch, vars
<1>2. queue \in Seq(Record) /\ Len(queue) \in Nat /\ private \in 0 .. Len(queue)
  BY TypedWorker
<1>3. TypeOK'
  BY <1>1, <1>2 DEF Typed, TypeOK
<1>4. AllIsAllowed'
  BY <1>1 DEF Typed, AllIsAllowed
<1>5. BatchIsCaptured'
  <2>1. CASE private' = private
    BY <1>1, <2>1 DEF Typed, BatchIsCaptured
  <2>2. CASE private' = 0
    BY <1>1, <1>2, <2>2 DEF BatchIsCaptured
  <2> QED BY <1>1, <2>1, <2>2
<1>6. (Compact => Compact') /\ (Exact => Exact')
  BY <1>1 DEF Compact, Exact, QueueIsExact
<1> QED BY <1>3, <1>4, <1>5, <1>6 DEF Typed

LEMMA InitHolds ==
    ASSUME Init
    PROVE  Typed /\ Compact /\ Exact
<1> USE DEF Init
<1>1. <<>> \in Seq(Span) /\ <<>> \in Seq(Record) /\ <<>> \in Seq(Nat) /\ Len(<<>>) = 0
  OBVIOUS
<1>2. ZeroMem \in Memory
  <2>1. ZeroLane \in LaneValue
    BY DEF ZeroLane, LaneValue
  <2> QED BY <2>1 DEF ZeroMem, Memory
<1>3. worker \in WorkerState /\ worker.journal = <<>> /\ VuState(worker) = [mem |-> refMem, row |-> refRow]
  BY <1>1, <1>2 DEF WorkerState, VuState
<1>4. TypeOK
  <2>1. worker \in [mem : Memory, row : Seq(Nat), journal : Seq(Span)]
    BY <1>3 DEF WorkerState
  <2>2. Len(worker.journal) <= MaximumDeferredAffineSpans /\ issued \in 0 .. MaxRecords
    BY <1>1, <1>3, JournalAssumption
  <2>3. queue \in Seq(Record) /\ private \in 0 .. Len(queue) /\ payload \in Nat
    BY <1>1
  <2> QED BY <1>1, <1>2, <2>1, <2>2, <2>3 DEF TypeOK
<1>5. AllIsAllowed /\ BatchIsCaptured
  BY <1>1, <1>3 DEF AllIsAllowed, SpansAreAllowed, BatchIsCaptured
<1>6. Compact
  BY <1>1, <1>3 DEF Compact, NoneOverwritten
<1>7. Exact
  <2>1. Settled(worker) = VuState(worker)
    BY <1>3, EmptyIsSettled
  <2>2. Effects(Settled(worker), <<>>)[0] = Settled(worker)
    BY <1>1, EffectsLoop
  <2>3. queue = <<>>
    OBVIOUS
  <2> QED BY <1>1, <1>3, <2>1, <2>2, <2>3 DEF Exact, QueueIsExact
<1> QED BY <1>4, <1>5, <1>6, <1>7 DEF Typed

LEMMA NextKeeps ==
    ASSUME Typed, [Next]_vars
    PROVE  Typed' /\ (Compact => Compact') /\ (Exact => Exact')
<1>1. CASE Worker
  BY <1>1, WorkerStep
<1>2. CASE PublishPendingVifBatch \/ UNCHANGED vars
  BY <1>2, PublishStep
<1>3. ASSUME NEW k \in Kinds, NEW f \in Formats \union {"affine"}, NEW d \in Address,
             NEW n \in Lengths, NEW gap \in 0 .. 1, Issue(k, f, d, n, gap)
      PROVE  Typed' /\ (Compact => Compact') /\ (Exact => Exact')
  BY <1>3, IssueStep
<1> QED BY <1>1, <1>2, <1>3 DEF Next

-----------------------------------------------------------------------------
(* Theorems *)

\* Every variable keeps its type: spans stay inside VU memory through merging
\* and compaction, and AppendDeferredVifUnpack() never lets the journal pass
\* MaximumDeferredAffineSpans.  The EE merges only into a captured record of
\* its own unpublished batch.
THEOREM TypeCorrect == Spec => []TypeOK
<1>1. Init => Typed
  BY InitHolds
<1>2. Typed /\ [Next]_vars => Typed'
  BY NextKeeps
<1>3. Typed => TypeOK
  BY DEF Typed
<1> QED BY <1>1, <1>2, <1>3, PTL DEF Spec

\* Compaction is complete: at no time does the journal hold a span that a
\* later one, shorter than all of VU memory, writes over entirely.
THEOREM JournalStaysCompact == Spec => []JournalIsCompact
<1> DEFINE IInv == Typed /\ Compact
<1>1. Init => IInv
  BY InitHolds
<1>2. IInv /\ [Next]_vars => IInv'
  BY NextKeeps
<1>3. IInv => JournalIsCompact
  <2> SUFFICES ASSUME IInv, NEW j \in 1 .. Len(worker.journal), NEW i \in 1 .. j - 1,
                      worker.journal[j].count < Vu1MemoryQwords
               PROVE  ~Hides(worker.journal[j], worker.journal[i])
    BY DEF JournalIsCompact
  <2>1. worker.journal \in Seq(Span) /\ Len(worker.journal) \in Nat
    BY TypedWorker, LenProperties
  <2>2. i \in 1 .. Len(worker.journal)
    BY <2>1
  <2>3. worker.journal[j] \in Span /\ worker.journal[i] \in Span
    BY <2>1, <2>2, ElementOfSeq
  <2>4. ~DirectAffineSpanFullyOverwrites(worker.journal[j], worker.journal[i])
    BY DEF Compact, NoneOverwritten
  <2> QED BY <2>3, <2>4, OverlapIsComplete
<1> HIDE DEF IInv
<1> QED BY <1>1, <1>2, <1>3, PTL DEF Spec

\* Deferral is exact: where no ROW write can overtake a journaled span that
\* uses the row, reading the queue and replaying the journal gives at any time
\* the VU memory and the row of _nVifUnpackLoop(), whatever was merged,
\* compacted and replayed on the way.
THEOREM DeferralIsExact ==
    ASSUME RowIsSafe
    PROVE  Spec => []JournalIsExact
<1> DEFINE IInv == Typed /\ Exact
<1>1. Init => IInv
  BY InitHolds
<1>2. IInv /\ [Next]_vars => IInv'
  BY NextKeeps
<1>3. IInv => JournalIsExact
  <2> SUFFICES ASSUME IInv PROVE JournalIsExact
    OBVIOUS
  <2> DEFINE N == Len(queue)
             v == Reads(worker, queue)[N]
             e == Effects(Settled(worker), queue)[N]
  <2>1. v \in WorkerState /\ Settled(v) = e
    BY TypedWorker, ReadsAreEffects
  <2>2. e = [mem |-> refMem, row |-> refRow]
    BY DEF Exact, QueueIsExact
  <2>3. Observed = ReplayDeferredVifUnpacks(v)
    BY DEF Observed
  <2> HIDE DEF v, e
  <2>4. Observed.mem = e.mem /\ Observed.row = e.row
    BY <2>1, <2>3, ReplayIsExact
  <2> QED BY <2>2, <2>4 DEF JournalIsExact
<1> HIDE DEF IInv
<1> QED BY <1>1, <1>2, <1>3, PTL DEF Spec
=============================================================================
