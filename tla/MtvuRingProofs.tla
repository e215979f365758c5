--------------------------- MODULE MtvuRingProofs ---------------------------
(***************************************************************************)
(* The command ring is correct for every buffer size, margin and record    *)
(* size, as long as the EE has not wrapped onto an unread lap.             *)
(*                                                                         *)
(* The argument is about where records lie.  From the published read       *)
(* position on, each unread record begins where the one before it ends.    *)
(* A record in front of the reader ends before every later one in front    *)
(* of it; after a NULL packet all are behind the reader, in order too.     *)
(***************************************************************************)
EXTENDS MtvuRing, FiniteSetTheorems, SequenceTheorems, TLAPS

-----------------------------------------------------------------------------
(* The inductive invariant *)

\* What the EE does next, an outstanding KickStart() left aside
Where == IF epc = "kick" THEN then ELSE epc

\* A call has the room in the model's bound that its records need, and
\* ReserveSpace() has chosen between the wrap and the end of the buffer.
CallIsBounded ==
    /\ then \notin {"kick", "reset", "stop", "closed"}
    /\ Where \in {"capture"} => call = "captured"
    /\ Where \in {"publish", "request"} =>
           call \in {"transferEnd", "direct", "vsync", "captured"}
    /\ Where \in {"publish", "request", "capture"} /\ call = "captured" =>
           Len(written) + 2 <= MaxRecords
    /\ Where \in {"reserve", "wrap", "sleepWrap"} =>
           RecordOf(call) \in RecordKind /\ Len(written) + 2 <= MaxRecords
    /\ Where \in {"wrap", "sleepWrap"} =>
           writePos + Reserved[RecordOf(call)] > BufferSize - 1
    /\ Where \in {"space", "sleepSpace"} =>
           /\ RecordOf(call) \in RecordKind /\ Len(written) + 1 <= MaxRecords
           /\ writePos + Reserved[RecordOf(call)] <= BufferSize - 1

\* A word with a tag or payload knows its record.
WordsAreOfRecords ==
    \A p \in Position : buffer[p][1] # 0 =>
        /\ buffer[p][1] <= Len(written)
        /\ written[buffer[p][1]].pos + buffer[p][2] = p
        /\ buffer[p][2] < written[buffer[p][1]].size

RecordsFit ==
    \A i \in 1 .. Len(written) :
        /\ written[i].pos + written[i].size <= BufferSize
        /\ written[i].kind # "null" =>
               written[i].pos + written[i].size <= BufferSize - 1

\* What is private to the EE
BatchIsPrivate ==
    /\ ~pendingBatch => published = Len(written) /\ spanRecord = 0
    /\ spanRecord # 0 => spanRecord > published

\* After WaitVU() the EE has nothing private and the worker stays put.
WorkerIsParked ==
    /\ Where \in {"empty", "reset", "stop", "join", "closed"} =>
           ~pendingBatch /\ published = Len(written)
    /\ Where = "empty" => Len(written) > 0 /\ written[Len(written)].kind = "flush"
    /\ shutdown <=> Where \in {"join", "closed"}
    /\ wpc \in {"exit", "dead"} => Where \in {"join", "closed"}
    /\ epc \in {"reset", "stop"} \/ (epc = "kick" /\ then = "join") =>
           wpc = "wait" /\ ~notified
    /\ epc = "join" => wpc \in {"wait", "exit", "dead"}
    /\ epc = "closed" => wpc = "dead"
    /\ wpc = "commit" => Len(handled) > 0

\* Where record i begins, or where the next one would
Start(i) == IF i <= Len(written) THEN written[i].pos ELSE writePos
End(r) == IF r.kind = "null" THEN 0 ELSE r.pos + r.size

\* The positions stand at records, which follow each other.
RecordsFollow ==
    /\ atoRead = Start(Retired + 1) /\ readPos = Start(Len(handled) + 1)
    /\ atoWrite = Start(published + 1)
    /\ \A i \in Retired + 1 .. Len(written) : End(written[i]) = Start(i + 1)

\* An unread record and the beginning of a later one
InOrder(i, j) ==
    /\ Start(i) < atoRead => Start(j) < atoRead
    /\ (Start(i) < atoRead <=> Start(j) < atoRead) =>
           written[i].pos + written[i].size <= Start(j)
    /\ written[i].kind = "null" => Start(i) >= atoRead /\ Start(j) < atoRead

RecordsAreOrdered ==
    \A i \in Retired + 1 .. Len(written) : \A j \in i + 1 .. Len(written) + 1 :
        InOrder(i, j)

\* What a sleeping worker has left undone has been announced.
WaitIsAnswered ==
    /\ epc = "empty" /\ wpc \in {"wait", "quiet"} /\ Retired < published => notified
    /\ Where = "empty" /\ Len(handled) = Len(written) => deferred = 0
    /\ Where \in {"reset", "stop", "join", "closed"} =>
           Len(handled) = Len(written) /\ deferred = 0

RingIsSound ==
    ~lapped => /\ RecordsFollow /\ RecordsAreOrdered /\ WaitIsAnswered

IInv ==
    /\ TypeOK
    /\ CallIsBounded
    /\ WordsAreOfRecords
    /\ RecordsFit
    /\ BatchIsPrivate
    /\ WorkerIsParked
    /\ RingIsSound
    /\ RecordsIntact
    /\ HandledInOrder
    /\ OutstandingIsHonest
-----------------------------------------------------------------------------
(* What writing and merging do to the records *)

\* Write() of a record of kind k and n words appends it to the records,
\* stores its words at the write position, and does nothing else to either.
Appended(k, n) ==
    /\ written' \in Seq(Record)
    /\ Len(written') = Len(written) + 1
    /\ \A i \in 1 .. Len(written) : written'[i] = written[i]
    /\ written'[Len(written) + 1].kind = k
    /\ written'[Len(written) + 1].pos = writePos
    /\ written'[Len(written) + 1].size = n
    /\ buffer' \in [Position -> (0 .. MaxRecords) \X (0 .. BufferSize)]
    /\ \A p \in Position : p \in writePos .. writePos + n - 1 =>
           buffer'[p] = <<Len(written) + 1, p - writePos>>
    /\ \A p \in Position : p \notin writePos .. writePos + n - 1 =>
           buffer'[p] = buffer[p]

LEMMA WriteFacts ==
  ASSUME IInv, Len(written) + 1 <= MaxRecords,
         NEW k \in RecordKind \union {"null"}, NEW n \in 1 .. BufferSize,
         writePos + n <= BufferSize, WriteRecord(k, n)
  PROVE  Appended(k, n)
<1> DEFINE r == [kind |-> k, pos |-> writePos, size |-> n, spans |-> 1]
<1>1. RingTypes
  BY DEF IInv, TypeOK
<1>2. r \in Record
  BY <1>1 DEF RingTypes, Record
<1>3. written' = Append(written, r)
  BY DEF WriteRecord
<1>4. /\ written' \in Seq(Record)
      /\ Len(written') = Len(written) + 1
      /\ \A i \in 1 .. Len(written) : written'[i] = written[i]
      /\ written'[Len(written) + 1] = r
  BY <1>1, <1>2, <1>3, AppendProperties DEF RingTypes
<1>5. buffer' = [p \in Position |->
                     IF p \in writePos .. writePos + n - 1
                     THEN <<Len(written) + 1, p - writePos>>
                     ELSE buffer[p]]
  BY DEF WriteRecord
<1>6. ASSUME NEW p \in Position, p \in writePos .. writePos + n - 1
      PROVE  Len(written) + 1 \in 0 .. MaxRecords /\ p - writePos \in 0 .. BufferSize
  <2>1. Len(written) \in Nat
    BY <1>1, LenProperties DEF RingTypes
  <2>2. p \in 0 .. BufferSize - 1 /\ writePos \in 0 .. BufferSize - 1
    BY <1>1 DEF RingTypes, Position
  <2> QED BY <1>6, <2>1, <2>2, SizeAssumption
<1>7. buffer' \in [Position -> (0 .. MaxRecords) \X (0 .. BufferSize)]
  <2>1. ASSUME NEW p \in Position
        PROVE  (IF p \in writePos .. writePos + n - 1
                THEN <<Len(written) + 1, p - writePos>>
                ELSE buffer[p]) \in (0 .. MaxRecords) \X (0 .. BufferSize)
    BY <1>1, <1>6 DEF RingTypes
  <2> QED BY <1>5, <2>1
<1>8. /\ \A p \in Position : p \in writePos .. writePos + n - 1 =>
                buffer'[p] = <<Len(written) + 1, p - writePos>>
      /\ \A p \in Position : p \notin writePos .. writePos + n - 1 =>
                buffer'[p] = buffer[p]
  BY <1>5
<1> QED BY <1>4, <1>7, <1>8 DEF Appended

\* Merging a span changes no record's kind, place or size.
LEMMA MergeFacts ==
  ASSUME IInv, MergeSpan
  PROVE  /\ written' \in Seq(Record)
         /\ Len(written') = Len(written)
         /\ \A i \in 1 .. Len(written) :
                /\ written'[i].kind = written[i].kind
                /\ written'[i].pos = written[i].pos
                /\ written'[i].size = written[i].size
                /\ i # spanRecord => written'[i] = written[i]
<1> DEFINE r == [written[spanRecord] EXCEPT !.spans = @ + 1]
<1>1. RingTypes
  BY DEF IInv, TypeOK
<1>2. spanRecord \in 1 .. Len(written)
  BY <1>1 DEF RingTypes, MergeSpan
<1>3. written[spanRecord] \in Record
  BY <1>1, <1>2, ElementOfSeq DEF RingTypes
<1>4. /\ r \in Record
      /\ r.kind = written[spanRecord].kind
      /\ r.pos = written[spanRecord].pos
      /\ r.size = written[spanRecord].size
  BY <1>3 DEF Record
<1>5. written' = [written EXCEPT ![spanRecord] = r]
  BY DEF MergeSpan
<1>6. /\ written' \in Seq(Record)
      /\ Len(written') = Len(written)
      /\ \A j \in 1 .. Len(written) :
             written'[j] = IF j = spanRecord THEN r ELSE written[j]
  BY <1>1, <1>2, <1>4, <1>5, ExceptSeq, SMTT(40) DEF RingTypes
<1> QED BY <1>4, <1>6
-----------------------------------------------------------------------------
(* Types *)

LEMMA BufferIsNonempty == BufferSize \in Nat \ {0} /\ 0 \in Position
<1>1. "flush" \in RecordKind
  BY DEF RecordKind
<1>2. Reserved["flush"] \in Nat /\ Reserved["flush"] < BufferSize
  BY <1>1, SizeAssumption
<1> QED BY <1>2, SizeAssumption DEF Position

\* What Wrap writes
LEMMA WrapFacts ==
  ASSUME IInv, Wrap
  PROVE  /\ Appended("null", 1)
         /\ writePos \in Position /\ writePos \in Nat
         /\ Len(written) + 2 <= MaxRecords /\ Len(written) \in Nat
         /\ RecordOf(call) \in RecordKind
<1> USE BufferIsNonempty
<1>1. RingTypes /\ CallIsBounded
  BY DEF IInv, TypeOK
<1>2. Where = "wrap" /\ WriteRecord("null", 1)
  BY DEF Wrap, Where
<1>3. Len(written) \in Nat /\ writePos \in 0 .. BufferSize - 1
  BY <1>1, LenProperties DEF RingTypes, Position
<1>4. Len(written) + 2 <= MaxRecords /\ RecordOf(call) \in RecordKind
  BY <1>1, <1>2 DEF CallIsBounded
<1>5. Len(written) + 1 <= MaxRecords /\ 1 \in 1 .. BufferSize /\ writePos + 1 <= BufferSize
  BY <1>3, <1>4, SizeAssumption
<1>6. Appended("null", 1)
  BY <1>2, <1>5, WriteFacts
<1> QED BY <1>1, <1>3, <1>4, <1>6 DEF Position

\* What a call writes
LEMMA CallFacts ==
  ASSUME IInv, WriteCall, NEW k, k = RecordOf(call), NEW n, n = Written[k]
  PROVE  /\ Appended(k, n)
         /\ k \in RecordKind /\ n \in 1 .. BufferSize
         /\ n <= Reserved[k] /\ Reserved[k] \in Nat
         /\ writePos \in Nat /\ writePos + n \in Position
         /\ writePos + Reserved[k] <= BufferSize - 1
         /\ Len(written) + 1 <= MaxRecords /\ Len(written) \in Nat
<1> USE BufferIsNonempty
<1>1. RingTypes /\ CallIsBounded
  BY DEF IInv, TypeOK
<1>2. Where = "space" /\ WriteRecord(k, n)
  BY DEF WriteCall, Where
<1>3. Len(written) \in Nat /\ writePos \in 0 .. BufferSize - 1
  BY <1>1, LenProperties DEF RingTypes, Position
<1>4. Len(written) + 1 <= MaxRecords /\ k \in RecordKind
      /\ writePos + Reserved[k] <= BufferSize - 1
  BY <1>1, <1>2 DEF CallIsBounded
<1>5. n \in Nat /\ Reserved[k] \in Nat /\ 0 < n /\ n <= Reserved[k] /\ Reserved[k] < BufferSize
  BY <1>4, SizeAssumption
<1>6. n \in 1 .. BufferSize /\ writePos + n \in 0 .. BufferSize - 1
      /\ writePos + n <= BufferSize
  BY <1>3, <1>4, <1>5
<1>7. Appended(k, n)
  BY <1>2, <1>4, <1>6, WriteFacts
<1> QED BY <1>3, <1>4, <1>5, <1>6, <1>7 DEF Position

\* A record the worker reads is one that was written where it reads.
LEMMA HandleFacts ==
  ASSUME IInv, HandleRecord, wpc' # "lost"
  PROVE  LET n == buffer[readPos][1] IN
         /\ n \in 1 .. Len(written) /\ written[n] \in Record
         /\ readPos = written[n].pos
         /\ readPos' = End(written[n]) /\ readPos' \in Position
         /\ deferred' = DeferredAfter(written[n].kind)
         /\ completed' = IF written[n].kind = "execute" THEN completed + 1
                                                        ELSE completed
         /\ handled' = Append(handled, n)
         /\ wpc = "loop" /\ wpc' = "commit" /\ atoRead # atoWrite
         /\ UNCHANGED <<buffer, eeVars, atoRead, notified, requests, shutdown,
                        written, published, lapped>>
<1> DEFINE n == buffer[readPos][1]
<1>1. RingTypes /\ WordsAreOfRecords /\ RecordsFit
  BY DEF IInv, TypeOK
<1>2. n # 0 /\ buffer[readPos][2] = 0
  BY DEF HandleRecord
<1>3. /\ readPos' = IF written[n].kind = "null" THEN 0 ELSE readPos + written[n].size
      /\ deferred' = DeferredAfter(written[n].kind)
      /\ completed' = IF written[n].kind = "execute" THEN completed + 1
                                                     ELSE completed
      /\ handled' = Append(handled, n)
      /\ wpc = "loop" /\ wpc' = "commit" /\ atoRead # atoWrite
      /\ UNCHANGED <<buffer, eeVars, atoRead, notified, requests, shutdown,
                     written, published, lapped>>
  BY <1>2 DEF HandleRecord
<1>4. n \in 0 .. MaxRecords /\ readPos \in Position /\ readPos \in Int
  BY <1>1, SMTT(40) DEF RingTypes, Position
<1>5. n <= Len(written) /\ written[n].pos + 0 = readPos
  BY <1>1, <1>2, <1>4 DEF WordsAreOfRecords
<1>6. n \in 1 .. Len(written) /\ written[n] \in Record
  <2>1. Len(written) \in Nat
    BY <1>1, LenProperties DEF RingTypes
  <2>2. n \in 1 .. Len(written)
    BY <1>2, <1>4, <1>5, <2>1, SizeAssumption
  <2> QED BY <1>1, <2>2, ElementOfSeq DEF RingTypes
<1>7. readPos = written[n].pos
  BY <1>5, <1>6 DEF Record, Position
<1>8. readPos' = End(written[n])
  BY <1>3, <1>7 DEF End
<1>9. readPos' \in Position
  <2>1. CASE written[n].kind = "null"
    BY <1>8, <2>1, BufferIsNonempty DEF End
  <2>2. CASE written[n].kind # "null"
    <3>1. readPos' = written[n].pos + written[n].size
      BY <1>8, <2>2 DEF End
    <3>2. written[n].pos + written[n].size <= BufferSize - 1
      BY <1>1, <1>6, <2>2 DEF RecordsFit
    <3>3. written[n].pos \in 0 .. BufferSize - 1 /\ written[n].size \in 1 .. BufferSize
      BY <1>6 DEF Record, Position
    <3> QED BY <3>1, <3>2, <3>3, BufferIsNonempty DEF Position
  <2> QED BY <2>1, <2>2
<1> QED BY <1>3, <1>6, <1>7, <1>8, <1>9

\* Every step keeps the types of the control state.
LEMMA ControlStep ==
  ASSUME IInv, [Next]_vars
  PROVE  ControlTypes'
<1> USE DEF ControlTypes, EEControl
<1> ControlTypes /\ CallIsBounded
  BY DEF IInv, TypeOK
<1>1. ASSUME NEW c \in Call, Begin(c)
      PROVE  ControlTypes'
  BY <1>1 DEF Begin, RecordOf, workerVars
<1>2. CASE KickStart
  BY <1>2 DEF KickStart, Goto, workerVars
<1>3. CASE MergeSpan
  BY <1>3 DEF MergeSpan, Goto, workerVars
<1>4. CASE SeparateSpan
  BY <1>4 DEF SeparateSpan, Goto, workerVars
<1>5. CASE CapturePressure
  BY <1>5 DEF CapturePressure, Goto, workerVars
<1>6. CASE PublishPendingVifBatch
  BY <1>6 DEF PublishPendingVifBatch, AfterPublish, CommitWritePos, KickThen, Goto, workerVars
<1>7. CASE RequestGpuVuPath1Flush
  BY <1>7 DEF RequestGpuVuPath1Flush, KickThen, workerVars
<1>8. CASE ReserveSpace
  BY <1>8 DEF ReserveSpace, Goto, RecordOf, workerVars
<1>9. CASE WaitOnSize
  BY <1>9 DEF WaitOnSize, Fits, Needed, CommitWritePos, KickThen, workerVars
<1>10. CASE Wrap
  BY <1>10 DEF Wrap, Fits, WriteRecord, CommitWritePos, Goto, workerVars
<1>11. CASE WriteCall
  BY <1>11 DEF WriteCall, Fits, WriteRecord, CommitWritePos, KickThen, Goto, workerVars
<1>12. ASSUME NEW early \in BOOLEAN, SpaceWakeup(early)
      PROVE  ControlTypes'
  BY <1>12 DEF SpaceWakeup, Goto, workerVars
<1>13. ASSUME NEW early \in BOOLEAN, BoundWakeup(early)
      PROVE  ControlTypes'
  BY <1>13 DEF BoundWakeup, Goto, workerVars
<1>14. CASE WaitForEmpty
  BY <1>14 DEF WaitForEmpty, Goto, workerVars
<1>15. CASE Rebuild
  BY <1>15 DEF Rebuild, Reset, Goto
<1>16. CASE BoundGpuVuExecutionLatency
  BY <1>16 DEF BoundGpuVuExecutionLatency, Goto, KickThen, workerVars
<1>17. CASE StopWorker
  BY <1>17 DEF StopWorker, KickThen, workerVars
<1>18. CASE Join
  BY <1>18 DEF Join, Goto
<1>19. CASE Open
  BY <1>19 DEF Open, Reset, Goto
<1>20. CASE WaitForWork
  <2>1. wpc' \in {"exit", "loop"} /\ notified' = FALSE
    BY <1>20 DEF WaitForWork
  <2>2. UNCHANGED <<pendingBatch, shutdown, lapped, requests, epc, then, call>>
    BY <1>20 DEF WaitForWork, eeVars
  <2>3. wpc' \in {"wait", "loop", "commit", "quiet", "exit", "dead", "lost"}
    BY <2>1
  <2>4. notified' \in BOOLEAN
    BY <2>1
  <2> QED BY <2>2, <2>3, <2>4
<1>21. CASE HandleRecord
  BY <1>21 DEF HandleRecord, DeferredAfter, eeVars
<1>22. CASE CommitReadPos
  BY <1>22 DEF CommitReadPos, eeVars
<1>23. CASE PublishQuiescence
  BY <1>23 DEF PublishQuiescence, eeVars
<1>24. CASE ServeRequests
  BY <1>24 DEF ServeRequests, eeVars
<1>25. CASE Exit
  BY <1>25 DEF Exit, eeVars
<1>26. CASE UNCHANGED vars
  BY <1>26 DEF vars, eeVars, workerVars
<1> QED
  BY <1>1, <1>2, <1>3, <1>4, <1>5, <1>6, <1>7, <1>8, <1>9, <1>10, <1>11, <1>12, <1>13, <1>14, <1>15, <1>16, <1>17, <1>18, <1>19, <1>20, <1>21, <1>22, <1>23, <1>24, <1>25, <1>26 DEF Next, EE, Worker

\* Every step keeps the types of the counters; the journal stays bounded.
LEMMA CounterStep ==
  ASSUME IInv, [Next]_vars
  PROVE  CounterTypes'
<1> USE SizeAssumption DEF CounterTypes
<1> CounterTypes /\ RingTypes
  BY DEF IInv, TypeOK
<1>1. ASSUME NEW c \in Call, Begin(c)
      PROVE  CounterTypes'
  BY <1>1 DEF Begin, RecordOf, workerVars
<1>2. CASE KickStart
  BY <1>2 DEF KickStart, Goto, workerVars
<1>3. CASE MergeSpan
  BY <1>3 DEF MergeSpan, Goto, workerVars
<1>4. CASE SeparateSpan
  BY <1>4 DEF SeparateSpan, Goto, workerVars
<1>5. CASE CapturePressure
  BY <1>5 DEF CapturePressure, Goto, workerVars
<1>6. CASE PublishPendingVifBatch
  BY <1>6 DEF PublishPendingVifBatch, AfterPublish, CommitWritePos, KickThen, Goto, workerVars
<1>7. CASE RequestGpuVuPath1Flush
  BY <1>7 DEF RequestGpuVuPath1Flush, KickThen, workerVars
<1>8. CASE ReserveSpace
  BY <1>8 DEF ReserveSpace, Goto, RecordOf, workerVars
<1>9. CASE WaitOnSize
  BY <1>9 DEF WaitOnSize, CommitWritePos, KickThen, workerVars, RingTypes, Position
<1>10. CASE Wrap
  BY <1>10 DEF Wrap, Fits, WriteRecord, CommitWritePos, Goto, workerVars
<1>11. CASE WriteCall
  BY <1>11 DEF WriteCall, Fits, WriteRecord, CommitWritePos, KickThen, Goto, workerVars
<1>12. ASSUME NEW early \in BOOLEAN, SpaceWakeup(early)
      PROVE  CounterTypes'
  BY <1>12 DEF SpaceWakeup, Goto, workerVars
<1>13. ASSUME NEW early \in BOOLEAN, BoundWakeup(early)
      PROVE  CounterTypes'
  BY <1>13 DEF BoundWakeup, Goto, workerVars
<1>14. CASE WaitForEmpty
  BY <1>14 DEF WaitForEmpty, Goto, workerVars
<1>15. CASE Rebuild
  BY <1>15 DEF Rebuild, Reset, Goto
<1>16. CASE BoundGpuVuExecutionLatency
  BY <1>16 DEF BoundGpuVuExecutionLatency, Goto, KickThen, workerVars
<1>17. CASE StopWorker
  BY <1>17 DEF StopWorker, KickThen, workerVars
<1>18. CASE Join
  BY <1>18 DEF Join, Goto
<1>19. CASE Open
  BY <1>19 DEF Open, Reset, Goto
<1>20. CASE WaitForWork
  BY <1>20 DEF WaitForWork, eeVars
<1>21. CASE HandleRecord
  BY <1>21, SMTT(40) DEF HandleRecord, DeferredAfter, eeVars
<1>22. CASE CommitReadPos
  BY <1>22 DEF CommitReadPos, eeVars
<1>23. CASE PublishQuiescence
  BY <1>23 DEF PublishQuiescence, eeVars
<1>24. CASE ServeRequests
  BY <1>24 DEF ServeRequests, eeVars
<1>25. CASE Exit
  BY <1>25 DEF Exit, eeVars
<1>26. CASE UNCHANGED vars
  BY <1>26 DEF vars, eeVars, workerVars
<1> QED
  BY <1>1, <1>2, <1>3, <1>4, <1>5, <1>6, <1>7, <1>8, <1>9, <1>10, <1>11, <1>12, <1>13, <1>14, <1>15, <1>16, <1>17, <1>18, <1>19, <1>20, <1>21, <1>22, <1>23, <1>24, <1>25, <1>26 DEF Next, EE, Worker

\* Every step keeps the types of the ring.
LEMMA RingStep ==
  ASSUME IInv, [Next]_vars
  PROVE  RingTypes'
<1> USE SizeAssumption DEF RingTypes
<1> RingTypes /\ CallIsBounded
  BY DEF IInv, TypeOK
<1>1. ASSUME NEW c \in Call, Begin(c)
      PROVE  RingTypes'
  BY <1>1 DEF Begin, RecordOf, workerVars
<1>2. CASE KickStart
  BY <1>2 DEF KickStart, Goto, workerVars
<1>3. CASE MergeSpan
  BY <1>3, MergeFacts DEF MergeSpan, workerVars
<1>4. CASE SeparateSpan
  BY <1>4 DEF SeparateSpan, Goto, workerVars
<1>5. CASE CapturePressure
  BY <1>5 DEF CapturePressure, Goto, workerVars
<1>6. CASE PublishPendingVifBatch
  BY <1>6, SMTT(40) DEF PublishPendingVifBatch, AfterPublish, CommitWritePos, KickThen, Goto, workerVars
<1>7. CASE RequestGpuVuPath1Flush
  BY <1>7 DEF RequestGpuVuPath1Flush, KickThen, workerVars
<1>8. CASE ReserveSpace
  BY <1>8 DEF ReserveSpace, Goto, RecordOf, workerVars
<1>9. CASE WaitOnSize
  <2>1. UNCHANGED <<buffer, written, handled, writePos, atoRead, readPos>>
    BY <1>9 DEF WaitOnSize, workerVars
  <2>2. \/ spanRecord' = 0 /\ atoWrite' = writePos /\ published' = Len(written')
        \/ UNCHANGED <<spanRecord, atoWrite, published>>
    BY <1>9 DEF WaitOnSize, CommitWritePos
  <2>3. published' \in 0 .. Len(written') /\ spanRecord' \in 0 .. Len(written')
        /\ atoWrite' \in Position
    BY <2>1, <2>2, LenProperties, SMTT(40)
  <2> QED BY <2>1, <2>3
<1>10. CASE Wrap
  <2>1. /\ written' \in Seq(Record) /\ Len(written') = Len(written) + 1
        /\ buffer' \in [Position -> (0 .. MaxRecords) \X (0 .. BufferSize)]
    BY <1>10, WrapFacts DEF Appended
  <2>2. UNCHANGED <<handled, atoRead, readPos>> /\ writePos' = 0 /\ atoWrite' = 0
        /\ spanRecord' = 0 /\ published' = Len(written')
    BY <1>10 DEF Wrap, CommitWritePos, workerVars
  <2>3. Len(written) \in Nat /\ Len(written) + 2 <= MaxRecords
    BY <1>10, WrapFacts
  <2>4. published' \in 0 .. Len(written') /\ spanRecord' \in 0 .. Len(written')
        /\ Len(written') <= MaxRecords
    BY <2>1, <2>2, <2>3
  <2> QED BY <2>1, <2>2, <2>4, BufferIsNonempty
<1>11. CASE WriteCall
  <2> DEFINE k == RecordOf(call)
  <2>1. /\ written' \in Seq(Record) /\ Len(written') = Len(written) + 1
        /\ buffer' \in [Position -> (0 .. MaxRecords) \X (0 .. BufferSize)]
    BY <1>11, CallFacts DEF Appended
  <2>2. UNCHANGED <<handled, atoRead, readPos>> /\ writePos' = writePos + Written[k]
    BY <1>11 DEF WriteCall, workerVars
  <2>3. writePos' \in Position
    BY <1>11, <2>2, CallFacts
  <2>4. \/ spanRecord' = Len(written') /\ UNCHANGED <<atoWrite, published>>
        \/ spanRecord' = 0 /\ atoWrite' = writePos' /\ published' = Len(written')
    BY <1>11 DEF WriteCall, CommitWritePos
  <2>5. Len(written) \in Nat /\ Len(written) + 1 <= MaxRecords
    BY <1>11, CallFacts
  <2> HIDE DEF k
  <2>6. published' \in 0 .. Len(written') /\ spanRecord' \in 0 .. Len(written')
        /\ Len(written') <= MaxRecords /\ atoWrite' \in Position
    <3>1. CASE spanRecord' = Len(written') /\ UNCHANGED <<atoWrite, published>>
      BY <2>1, <2>5, <3>1
    <3>2. CASE spanRecord' = 0 /\ atoWrite' = writePos' /\ published' = Len(written')
      BY <2>1, <2>3, <2>5, <3>2
    <3> QED BY <2>4, <3>1, <3>2
  <2> QED BY <2>1, <2>2, <2>3, <2>6
<1>12. ASSUME NEW early \in BOOLEAN, SpaceWakeup(early)
      PROVE  RingTypes'
  BY <1>12 DEF SpaceWakeup, Goto, workerVars
<1>13. ASSUME NEW early \in BOOLEAN, BoundWakeup(early)
      PROVE  RingTypes'
  BY <1>13 DEF BoundWakeup, Goto, workerVars
<1>14. CASE WaitForEmpty
  BY <1>14 DEF WaitForEmpty, Goto, workerVars
<1>15. CASE Rebuild
  BY <1>15, BufferIsNonempty, SMTT(40) DEF Rebuild, Reset
<1>16. CASE BoundGpuVuExecutionLatency
  BY <1>16 DEF BoundGpuVuExecutionLatency, Goto, KickThen, workerVars
<1>17. CASE StopWorker
  BY <1>17 DEF StopWorker, KickThen, workerVars
<1>18. CASE Join
  BY <1>18 DEF Join, Goto
<1>19. CASE Open
  BY <1>19, BufferIsNonempty, SMTT(40) DEF Open, Reset
<1>20. CASE WaitForWork
  BY <1>20 DEF WaitForWork, eeVars
<1>21. CASE HandleRecord
  <2>1. CASE wpc' = "lost"
    BY <1>21, <2>1 DEF HandleRecord, eeVars
  <2>2. CASE wpc' # "lost"
    <3> DEFINE n == buffer[readPos][1]
    <3>1. /\ n \in 1 .. Len(written) /\ readPos' \in Position
          /\ handled' = Append(handled, n)
          /\ UNCHANGED <<buffer, eeVars, atoRead, written, published>>
      BY <1>21, <2>2, HandleFacts
    <3>2. n \in 1 .. MaxRecords
      BY <3>1
    <3>3. handled' \in Seq(1 .. MaxRecords)
      BY <3>1, <3>2, AppendProperties
    <3> QED BY <3>1, <3>3 DEF eeVars
  <2> QED BY <2>1, <2>2
<1>22. CASE CommitReadPos
  BY <1>22 DEF CommitReadPos, eeVars
<1>23. CASE PublishQuiescence
  BY <1>23 DEF PublishQuiescence, eeVars
<1>24. CASE ServeRequests
  BY <1>24 DEF ServeRequests, eeVars
<1>25. CASE Exit
  BY <1>25 DEF Exit, eeVars
<1>26. CASE UNCHANGED vars
  BY <1>26 DEF vars, eeVars, workerVars
<1> QED
  BY <1>1, <1>2, <1>3, <1>4, <1>5, <1>6, <1>7, <1>8, <1>9, <1>10, <1>11, <1>12, <1>13, <1>14, <1>15, <1>16, <1>17, <1>18, <1>19, <1>20, <1>21, <1>22, <1>23, <1>24, <1>25, <1>26 DEF Next, EE, Worker

\* Every step keeps the types.
LEMMA TypeStep ==
  ASSUME IInv, [Next]_vars
  PROVE  TypeOK'
BY ControlStep, CounterStep, RingStep DEF TypeOK
-----------------------------------------------------------------------------
(* Where the EE and the worker are *)

\* Every step keeps CallIsBounded.
LEMMA CallStep ==
  ASSUME IInv, [Next]_vars
  PROVE  CallIsBounded'
<1> USE DEF CallIsBounded, Where
<1> ControlTypes /\ CallIsBounded
  BY DEF IInv, TypeOK
<1>1. ASSUME NEW c \in Call, Begin(c)
      PROVE  CallIsBounded'
  BY <1>1 DEF Begin, Call, RecordOf, RecordKind
<1>2. CASE KickStart
  BY <1>2 DEF KickStart, Goto, workerVars
<1>3. CASE MergeSpan
  <2>1. Len(written') = Len(written)
    BY <1>3, MergeFacts
  <2> QED BY <1>3, <2>1 DEF MergeSpan, Goto
<1>4. CASE SeparateSpan
  BY <1>4 DEF SeparateSpan, Goto, RecordOf, RecordKind
<1>5. CASE CapturePressure
  BY <1>5 DEF CapturePressure, Goto, workerVars
<1>6. CASE PublishPendingVifBatch
  BY <1>6 DEF PublishPendingVifBatch, AfterPublish, CommitWritePos, KickThen, Goto, workerVars
<1>7. CASE RequestGpuVuPath1Flush
  BY <1>7 DEF RequestGpuVuPath1Flush, KickThen, workerVars
<1>8. CASE ReserveSpace
  <2>1. Len(written) \in Nat /\ writePos \in Nat /\ Len(written) + 1 <= MaxRecords
    BY <1>8, LenProperties, SizeAssumption DEF IInv, TypeOK, RingTypes, Position, ReserveSpace
  <2>2. RecordOf(call) \in RecordKind /\ Len(written) + 2 <= MaxRecords
    BY <1>8 DEF ReserveSpace
  <2>3. then' = "idle" /\ UNCHANGED <<call, written, writePos>>
    BY <1>8 DEF ReserveSpace, Goto
  <2>4. CASE writePos + Reserved[RecordOf(call)] > BufferSize - 1
    <3>1. epc' = "wrap"
      BY <1>8, <2>4 DEF ReserveSpace, Goto
    <3> QED BY <2>2, <2>3, <2>4, <3>1
  <2>5. CASE ~(writePos + Reserved[RecordOf(call)] > BufferSize - 1)
    <3>1. epc' = "space"
      BY <1>8, <2>5 DEF ReserveSpace, Goto
    <3>2. Reserved[RecordOf(call)] \in Nat
      BY <2>2, SizeAssumption
    <3>3. writePos + Reserved[RecordOf(call)] <= BufferSize - 1
      BY <2>1, <2>5, <3>2, SizeAssumption
    <3> QED BY <2>1, <2>2, <2>3, <3>1, <3>3
  <2> QED BY <2>4, <2>5
<1>9. CASE WaitOnSize
  BY <1>9 DEF WaitOnSize, CommitWritePos, KickThen
<1>10. CASE Wrap
  <2>1. Len(written') = Len(written) + 1 /\ Len(written) + 2 <= MaxRecords
        /\ Len(written) \in Nat /\ RecordOf(call) \in RecordKind
    BY <1>10, WrapFacts DEF Appended
  <2>2. Reserved[RecordOf(call)] \in Nat /\ Reserved[RecordOf(call)] < BufferSize
    BY <2>1, SizeAssumption
  <2>3. 0 + Reserved[RecordOf(call)] <= BufferSize - 1 /\ Len(written') + 1 <= MaxRecords
    BY <2>1, <2>2, SizeAssumption
  <2>4. epc' = "space" /\ then' = "idle" /\ call' = call /\ writePos' = 0
    BY <1>10 DEF Wrap, Goto
  <2> QED BY <2>1, <2>3, <2>4
<1>11. CASE WriteCall
  <2>1. \/ epc' = "idle" /\ then' = "idle"
        \/ epc' = "kick" /\ then' \in {"empty", "idle"}
    BY <1>11 DEF WriteCall, Goto, KickThen
  <2> QED BY <2>1
<1>12. ASSUME NEW early \in BOOLEAN, SpaceWakeup(early)
      PROVE  CallIsBounded'
  BY <1>12 DEF SpaceWakeup, Goto, workerVars
<1>13. ASSUME NEW early \in BOOLEAN, BoundWakeup(early)
      PROVE  CallIsBounded'
  BY <1>13 DEF BoundWakeup, Goto, workerVars
<1>14. CASE WaitForEmpty
  BY <1>14 DEF WaitForEmpty, Goto, workerVars
<1>15. CASE Rebuild
  BY <1>15 DEF Rebuild, Goto
<1>16. CASE BoundGpuVuExecutionLatency
  BY <1>16 DEF BoundGpuVuExecutionLatency, Goto, KickThen, workerVars
<1>17. CASE StopWorker
  BY <1>17 DEF StopWorker, KickThen, workerVars
<1>18. CASE Join
  BY <1>18 DEF Join, Goto
<1>19. CASE Open
  BY <1>19 DEF Open, Goto
<1>20. CASE WaitForWork
  BY <1>20 DEF WaitForWork, eeVars
<1>21. CASE HandleRecord
  BY <1>21 DEF HandleRecord, eeVars
<1>22. CASE CommitReadPos
  BY <1>22 DEF CommitReadPos, eeVars
<1>23. CASE PublishQuiescence
  BY <1>23 DEF PublishQuiescence, eeVars
<1>24. CASE ServeRequests
  BY <1>24 DEF ServeRequests, eeVars
<1>25. CASE Exit
  BY <1>25 DEF Exit, eeVars
<1>26. CASE UNCHANGED vars
  BY <1>26 DEF vars, eeVars, workerVars
<1> QED
  BY <1>1, <1>2, <1>3, <1>4, <1>5, <1>6, <1>7, <1>8, <1>9, <1>10, <1>11, <1>12, <1>13, <1>14, <1>15, <1>16, <1>17, <1>18, <1>19, <1>20, <1>21, <1>22, <1>23, <1>24, <1>25, <1>26 DEF Next, EE, Worker

\* Every step keeps BatchIsPrivate.
LEMMA BatchStep ==
  ASSUME IInv, [Next]_vars
  PROVE  BatchIsPrivate'
<1> USE DEF BatchIsPrivate
<1> RingTypes /\ ControlTypes /\ BatchIsPrivate /\ WorkerIsParked
  BY DEF IInv, TypeOK
<1>1. ASSUME NEW c \in Call, Begin(c)
      PROVE  BatchIsPrivate'
  BY <1>1 DEF Begin, RecordOf, workerVars
<1>2. CASE KickStart
  BY <1>2 DEF KickStart, Goto, workerVars
<1>3. CASE MergeSpan
  <2>1. Len(written') = Len(written)
    BY <1>3, MergeFacts
  <2> QED BY <1>3, <2>1 DEF MergeSpan
<1>4. CASE SeparateSpan
  BY <1>4 DEF SeparateSpan, Goto, workerVars
<1>5. CASE CapturePressure
  BY <1>5 DEF CapturePressure, Goto, workerVars
<1>6. CASE PublishPendingVifBatch
  BY <1>6 DEF PublishPendingVifBatch, CommitWritePos
<1>7. CASE RequestGpuVuPath1Flush
  BY <1>7 DEF RequestGpuVuPath1Flush, KickThen, workerVars
<1>8. CASE ReserveSpace
  BY <1>8 DEF ReserveSpace, Goto, RecordOf, workerVars
<1>9. CASE WaitOnSize
  BY <1>9 DEF WaitOnSize, CommitWritePos
<1>10. CASE Wrap
  BY <1>10 DEF Wrap, CommitWritePos
<1>11. CASE WriteCall
  <2>1. \/ pendingBatch' = TRUE /\ spanRecord' = Len(written') /\ UNCHANGED published
        \/ spanRecord' = 0 /\ published' = Len(written')
    BY <1>11 DEF WriteCall, CommitWritePos
  <2>2. Len(written') = Len(written) + 1 /\ Len(written) \in Nat
    BY <1>11, CallFacts DEF Appended
  <2>3. published \in 0 .. Len(written)
    BY DEF RingTypes
  <2> QED BY <2>1, <2>2, <2>3
<1>12. ASSUME NEW early \in BOOLEAN, SpaceWakeup(early)
      PROVE  BatchIsPrivate'
  BY <1>12 DEF SpaceWakeup, Goto, workerVars
<1>13. ASSUME NEW early \in BOOLEAN, BoundWakeup(early)
      PROVE  BatchIsPrivate'
  BY <1>13 DEF BoundWakeup, Goto, workerVars
<1>14. CASE WaitForEmpty
  BY <1>14 DEF WaitForEmpty, Goto, workerVars
<1>15. CASE Rebuild
  BY <1>15 DEF Rebuild, Reset, WorkerIsParked, Where
<1>16. CASE BoundGpuVuExecutionLatency
  BY <1>16 DEF BoundGpuVuExecutionLatency, Goto, KickThen, workerVars
<1>17. CASE StopWorker
  BY <1>17 DEF StopWorker, KickThen, workerVars
<1>18. CASE Join
  BY <1>18 DEF Join, Goto
<1>19. CASE Open
  BY <1>19 DEF Open, Reset, WorkerIsParked, Where
<1>20. CASE WaitForWork
  BY <1>20 DEF WaitForWork, eeVars
<1>21. CASE HandleRecord
  BY <1>21 DEF HandleRecord, eeVars
<1>22. CASE CommitReadPos
  BY <1>22 DEF CommitReadPos, eeVars
<1>23. CASE PublishQuiescence
  BY <1>23 DEF PublishQuiescence, eeVars
<1>24. CASE ServeRequests
  BY <1>24 DEF ServeRequests, eeVars
<1>25. CASE Exit
  BY <1>25 DEF Exit, eeVars
<1>26. CASE UNCHANGED vars
  BY <1>26 DEF vars, eeVars, workerVars
<1> QED
  BY <1>1, <1>2, <1>3, <1>4, <1>5, <1>6, <1>7, <1>8, <1>9, <1>10, <1>11, <1>12, <1>13, <1>14, <1>15, <1>16, <1>17, <1>18, <1>19, <1>20, <1>21, <1>22, <1>23, <1>24, <1>25, <1>26 DEF Next, EE, Worker

\* Every step keeps WorkerIsParked.
LEMMA ParkedStep ==
  ASSUME IInv, [Next]_vars
  PROVE  WorkerIsParked'
<1> USE DEF WorkerIsParked, Where, CallIsBounded
<1> ControlTypes /\ CallIsBounded /\ BatchIsPrivate /\ WorkerIsParked
  BY DEF IInv, TypeOK
<1>1. ASSUME NEW c \in Call, Begin(c)
      PROVE  WorkerIsParked'
  BY <1>1 DEF Begin, RecordOf, workerVars
<1>2. CASE KickStart
  BY <1>2 DEF KickStart, Goto, workerVars
<1>3. CASE MergeSpan
  <2>1. epc = "capture" /\ epc' = "idle" /\ then' = "idle"
        /\ UNCHANGED <<wpc, shutdown, handled>>
    BY <1>3 DEF MergeSpan, Goto, workerVars
  <2> QED BY <2>1
<1>4. CASE SeparateSpan
  BY <1>4 DEF SeparateSpan, Goto, workerVars
<1>5. CASE CapturePressure
  BY <1>5 DEF CapturePressure, Goto, workerVars
<1>6. CASE PublishPendingVifBatch
  BY <1>6 DEF PublishPendingVifBatch, AfterPublish, CommitWritePos, KickThen, Goto, workerVars
<1>7. CASE RequestGpuVuPath1Flush
  BY <1>7 DEF RequestGpuVuPath1Flush, KickThen, workerVars
<1>8. CASE ReserveSpace
  BY <1>8 DEF ReserveSpace, Goto, RecordOf, workerVars
<1>9. CASE WaitOnSize
  <2>1. /\ epc \in {"wrap", "space"} /\ epc' = "kick"
        /\ then' \in {"wrap", "space", "sleepWrap", "sleepSpace"}
        /\ UNCHANGED <<wpc, shutdown, handled>>
    BY <1>9 DEF WaitOnSize, KickThen, workerVars
  <2> QED BY <2>1
<1>10. CASE Wrap
  <2>1. epc = "wrap" /\ epc' = "space" /\ UNCHANGED <<wpc, shutdown, handled>>
    BY <1>10 DEF Wrap, Goto, workerVars
  <2> QED BY <2>1
<1>11. CASE WriteCall
  <2>1. epc = "space" /\ UNCHANGED <<wpc, shutdown, handled>>
    BY <1>11 DEF WriteCall, workerVars
  <2>2. \/ epc' = "idle"
        \/ epc' = "kick" /\ then' = "idle"
        \/ /\ epc' = "kick" /\ then' = "empty" /\ RecordOf(call) = "flush"
           /\ pendingBatch' = FALSE /\ published' = Len(written')
    BY <1>11 DEF WriteCall, Goto, KickThen, CommitWritePos
  <2>3. /\ Len(written') = Len(written) + 1 /\ Len(written) \in Nat
        /\ written'[Len(written) + 1].kind = RecordOf(call)
    BY <1>11, CallFacts DEF Appended
  <2> QED BY <2>1, <2>2, <2>3
<1>12. ASSUME NEW early \in BOOLEAN, SpaceWakeup(early)
      PROVE  WorkerIsParked'
  BY <1>12 DEF SpaceWakeup, Goto, workerVars
<1>13. ASSUME NEW early \in BOOLEAN, BoundWakeup(early)
      PROVE  WorkerIsParked'
  BY <1>13 DEF BoundWakeup, Goto, workerVars
<1>14. CASE WaitForEmpty
  BY <1>14 DEF WaitForEmpty, Goto, workerVars
<1>15. CASE Rebuild
  BY <1>15 DEF Rebuild, Reset, Goto
<1>16. CASE BoundGpuVuExecutionLatency
  BY <1>16 DEF BoundGpuVuExecutionLatency, Goto, KickThen, workerVars
<1>17. CASE StopWorker
  BY <1>17 DEF StopWorker, KickThen, workerVars
<1>18. CASE Join
  BY <1>18 DEF Join, Goto
<1>19. CASE Open
  BY <1>19 DEF Open, Reset, Goto
<1>20. CASE WaitForWork
  BY <1>20 DEF WaitForWork, eeVars
<1>21. CASE HandleRecord
  <2>1. wpc = "loop" /\ wpc' \in {"commit", "lost"}
        /\ UNCHANGED <<eeVars, written, published, notified, shutdown>>
    BY <1>21 DEF HandleRecord
  <2>2. ASSUME wpc' = "commit" PROVE Len(handled') > 0
    <3>1. handled' = Append(handled, buffer[readPos][1])
          /\ buffer[readPos][1] \in 1 .. Len(written)
      BY <1>21, <2>2, HandleFacts
    <3>2. handled \in Seq(1 .. MaxRecords) /\ Len(written) <= MaxRecords
      BY DEF IInv, TypeOK, RingTypes
    <3>3. Len(written) \in Nat /\ Len(handled) \in Nat
      BY LenProperties DEF IInv, TypeOK, RingTypes
    <3>4. buffer[readPos][1] \in 1 .. MaxRecords
      BY <3>1, <3>2, <3>3, SizeAssumption
    <3>5. Len(handled') = Len(handled) + 1
      BY <3>1, <3>2, <3>4, AppendProperties
    <3> QED BY <3>3, <3>5
  <2> QED BY <2>1, <2>2 DEF eeVars
<1>22. CASE CommitReadPos
  BY <1>22 DEF CommitReadPos, eeVars
<1>23. CASE PublishQuiescence
  BY <1>23 DEF PublishQuiescence, eeVars
<1>24. CASE ServeRequests
  BY <1>24 DEF ServeRequests, eeVars
<1>25. CASE Exit
  BY <1>25 DEF Exit, eeVars
<1>26. CASE UNCHANGED vars
  BY <1>26 DEF vars, eeVars, workerVars
<1> QED
  BY <1>1, <1>2, <1>3, <1>4, <1>5, <1>6, <1>7, <1>8, <1>9, <1>10, <1>11, <1>12, <1>13, <1>14, <1>15, <1>16, <1>17, <1>18, <1>19, <1>20, <1>21, <1>22, <1>23, <1>24, <1>25, <1>26 DEF Next, EE, Worker
-----------------------------------------------------------------------------
(* The steps, as the ring sees them *)

SamePlaces ==
    /\ Len(written') = Len(written)
    /\ \A i \in 1 .. Len(written) : /\ written'[i].kind = written[i].kind
                                    /\ written'[i].pos = written[i].pos
                                    /\ written'[i].size = written[i].size

\* No record is written, read or retired; the batch may be published.
Idles ==
    /\ SamePlaces
    /\ UNCHANGED <<buffer, handled, writePos, atoRead, readPos, lapped>>
    /\ Retired' = Retired
    /\ \/ UNCHANGED <<published, atoWrite>>
       \/ published' = Len(written) /\ atoWrite' = writePos
    /\ completed' = completed /\ (enqueued' = enqueued \/ completed > enqueued)

\* Reset(), after which no record is unread
Resets ==
    /\ UNCHANGED <<buffer, written, published, handled, lapped, enqueued, completed>>
    /\ atoWrite' = 0 /\ writePos' = 0 /\ atoRead' = 0 /\ readPos' = 0
    /\ published = Len(written) /\ Retired' = Len(handled)
    /\ ~lapped => Len(handled) = Len(written)

LEMMA StepShapes ==
  ASSUME IInv, [Next]_vars
  PROVE  Idles \/ Wrap \/ WriteCall \/ Resets \/ HandleRecord \/ CommitReadPos
<1> USE DEF Idles, SamePlaces, Retired
<1>1. ASSUME NEW c \in Call, Begin(c)
      PROVE  Idles
  BY <1>1 DEF Begin, workerVars
<1>2. CASE KickStart
  BY <1>2 DEF KickStart, workerVars
<1>3. CASE MergeSpan
  <2>1. SamePlaces
    BY <1>3, MergeFacts
  <2> QED BY <1>3, <2>1 DEF MergeSpan, workerVars
<1>4. CASE SeparateSpan \/ CapturePressure \/ RequestGpuVuPath1Flush \/ ReserveSpace
  BY <1>4 DEF SeparateSpan, CapturePressure, RequestGpuVuPath1Flush, ReserveSpace,
              workerVars
<1>5. CASE PublishPendingVifBatch
  BY <1>5 DEF PublishPendingVifBatch, CommitWritePos, workerVars
<1>6. CASE WaitOnSize
  BY <1>6 DEF WaitOnSize, CommitWritePos, workerVars
<1>7. ASSUME NEW early \in BOOLEAN, SpaceWakeup(early) \/ BoundWakeup(early)
      PROVE  Idles
  BY <1>7 DEF SpaceWakeup, BoundWakeup, workerVars
<1>8. CASE WaitForEmpty \/ StopWorker
  BY <1>8 DEF WaitForEmpty, StopWorker, workerVars
<1>9. CASE BoundGpuVuExecutionLatency
  BY <1>9 DEF BoundGpuVuExecutionLatency, workerVars
<1>10. CASE Join
  BY <1>10 DEF Join
<1>11. CASE Rebuild \/ Open
  <2>1. /\ UNCHANGED <<buffer, written, published, handled, lapped, enqueued,
                       completed>>
        /\ atoWrite' = 0 /\ writePos' = 0 /\ atoRead' = 0 /\ readPos' = 0
    BY <1>11 DEF Rebuild, Open, Reset
  <2>2. Where \in {"reset", "closed"} /\ wpc \in {"wait", "dead"} /\ wpc' = "wait"
    BY <1>11 DEF Rebuild, Open, Where, IInv, WorkerIsParked
  <2>3. published = Len(written)
    BY <2>2 DEF IInv, WorkerIsParked
  <2>4. ~lapped => Len(handled) = Len(written)
    BY <2>2 DEF IInv, RingIsSound, WaitIsAnswered
  <2>5. Retired' = Len(handled)
    <3>1. Len(handled) \in Nat
      BY LenProperties DEF IInv, TypeOK, RingTypes
    <3> QED BY <2>1, <2>2, <3>1
  <2> QED BY <2>1, <2>3, <2>4, <2>5 DEF Resets
<1>12. CASE WaitForWork \/ PublishQuiescence \/ ServeRequests \/ Exit
  BY <1>12 DEF WaitForWork, PublishQuiescence, ServeRequests, Exit, eeVars
<1>13. CASE UNCHANGED vars
  BY <1>13 DEF vars, eeVars, workerVars
<1> HIDE DEF Idles, SamePlaces, Retired
<1> QED
  BY <1>1, <1>2, <1>3, <1>4, <1>5, <1>6, <1>7, <1>8, <1>9, <1>10, <1>11, <1>12,
     <1>13 DEF Next, EE, Worker

\* A record's place, as numbers
LEMMA RecordFacts ==
  ASSUME IInv
  PROVE  /\ Len(written) \in Nat /\ Len(handled) \in Nat /\ Retired \in Nat
         /\ published \in Nat /\ published <= Len(written)
         /\ writePos \in Nat /\ atoRead \in Nat /\ readPos \in Nat /\ atoWrite \in Nat
         /\ Retired <= Len(handled) /\ Len(handled) <= Retired + 1
         /\ (wpc # "commit" => Retired = Len(handled))
         /\ \A i \in 1 .. Len(written) :
                written[i].pos \in Nat /\ written[i].size \in Nat /\ written[i].size > 0
         /\ \A i \in 1 .. Len(written) + 1 : Start(i) \in Nat
<1>1. RingTypes /\ WorkerIsParked
  BY DEF IInv, TypeOK
<1>2. Len(written) \in Nat /\ Len(handled) \in Nat
  BY <1>1, LenProperties DEF RingTypes
<1>3. /\ Retired \in Nat /\ Retired <= Len(handled) /\ Len(handled) <= Retired + 1
      /\ (wpc # "commit" => Retired = Len(handled))
  <2>1. CASE wpc = "commit"
    BY <1>1, <1>2, <2>1 DEF Retired, WorkerIsParked
  <2>2. CASE wpc # "commit"
    BY <1>1, <1>2, <2>2 DEF Retired
  <2> QED BY <2>1, <2>2
<1>4. /\ published \in Nat /\ published <= Len(written)
      /\ writePos \in Nat /\ atoRead \in Nat /\ readPos \in Nat /\ atoWrite \in Nat
  BY <1>1, <1>2, SizeAssumption DEF RingTypes, Position
<1>5. ASSUME NEW i \in 1 .. Len(written)
      PROVE  written[i].pos \in Nat /\ written[i].size \in Nat /\ written[i].size > 0
  <2>1. written[i] \in Record
    BY <1>1, ElementOfSeq DEF RingTypes
  <2> QED BY <2>1, SizeAssumption DEF Record, Position
<1>6. ASSUME NEW i \in 1 .. Len(written) + 1
      PROVE  Start(i) \in Nat
  BY <1>2, <1>4, <1>5 DEF Start
<1> QED BY <1>2, <1>3, <1>4, <1>5, <1>6

\* As long as no lap was overrun, the worker is at most at the published end.
LEMMA SoundFacts ==
  ASSUME IInv, ~lapped
  PROVE  /\ RecordsFollow /\ RecordsAreOrdered /\ WaitIsAnswered
         /\ Len(handled) <= published
         /\ \A i \in 1 .. Len(handled) : handled[i] = i
         /\ \A i \in Retired + 1 .. Len(written) : \A k \in 0 .. written[i].size - 1 :
                buffer[written[i].pos + k] = <<i, k>>
BY DEF IInv, RingIsSound, HandledInOrder, RecordsIntact

\* If the reader stands at the published end, nothing published is unread.
LEMMA EqualIsEmpty ==
  ASSUME IInv, ~lapped, atoRead = atoWrite
  PROVE  Retired >= published
<1> SUFFICES ASSUME Retired < published
             PROVE  FALSE
  BY RecordFacts
<1> DEFINE i == Retired + 1
           j == published + 1
<1>1. i \in Retired + 1 .. Len(written) /\ i \in 1 .. Len(written)
      /\ j \in i + 1 .. Len(written) + 1
  BY RecordFacts
<1>2. Start(i) = atoRead /\ Start(j) = atoRead
  BY SoundFacts DEF RecordsFollow
<1>3. InOrder(i, j)
  BY <1>1, SoundFacts DEF RecordsAreOrdered
<1>4. Start(i) = written[i].pos
  BY <1>1 DEF Start
<1>5. written[i].pos \in Nat /\ written[i].size \in Nat /\ written[i].size > 0
  BY <1>1, RecordFacts
<1> HIDE DEF i, j
<1>6. written[i].pos + written[i].size <= Start(j)
  BY <1>2, <1>3 DEF InOrder
<1> QED BY <1>2, <1>4, <1>5, <1>6

\* The worker reads the record it should: the next one, whole and published.
LEMMA NextIsRead ==
  ASSUME IInv, ~lapped, HandleRecord, NEW n, n = Len(handled) + 1
  PROVE  /\ n <= published /\ n \in 1 .. Len(written) /\ Retired = Len(handled)
         /\ wpc = "loop" /\ wpc' = "commit"
         /\ handled' = Append(handled, n) /\ Len(handled') = n
         /\ \A i \in 1 .. n : handled'[i] = i
         /\ readPos' = End(written[n])
         /\ deferred' = DeferredAfter(written[n].kind)
         /\ completed' = IF written[n].kind = "execute" THEN completed + 1
                                                        ELSE completed
         /\ Retired' = Retired
<1>1. wpc = "loop" /\ atoRead # atoWrite
  BY DEF HandleRecord
<1>2. Retired = Len(handled) /\ Len(handled) \in Nat
  BY <1>1, RecordFacts
<1>3. n <= published
  <2>1. ASSUME Len(handled) = published
        PROVE  FALSE
    BY <1>1, <1>2, <2>1, SoundFacts DEF RecordsFollow
  <2> QED BY <1>2, <2>1, SoundFacts, RecordFacts
<1>4. n \in 1 .. Len(written) /\ n \in Retired + 1 .. Len(written)
  BY <1>2, <1>3, RecordFacts
<1>5. readPos = written[n].pos
  BY <1>4, SoundFacts DEF RecordsFollow, Start
<1>6. buffer[readPos] = <<n, 0>>
  <2>1. 0 \in 0 .. written[n].size - 1 /\ written[n].pos + 0 = written[n].pos
    BY <1>4, RecordFacts
  <2> QED BY <1>4, <1>5, <2>1, SoundFacts
<1>7. buffer[readPos][1] = n /\ n # 0 /\ buffer[readPos][2] = 0
  BY <1>4, <1>6, RecordFacts
<1>8. wpc' = "commit"
  BY <1>7 DEF HandleRecord
<1>9. /\ handled' = Append(handled, n)
      /\ readPos' = End(written[n])
      /\ deferred' = DeferredAfter(written[n].kind)
      /\ completed' = IF written[n].kind = "execute" THEN completed + 1
                                                     ELSE completed
  BY <1>7, <1>8, HandleFacts
<1>10. /\ Len(handled') = n
       /\ \A i \in 1 .. n : handled'[i] = i
  <2>1. handled \in Seq(1 .. MaxRecords) /\ Len(written) <= MaxRecords
    BY DEF IInv, TypeOK, RingTypes
  <2>2. n \in 1 .. MaxRecords
    BY <1>4, <2>1, RecordFacts, SizeAssumption
  <2>3. /\ Len(handled') = Len(handled) + 1
        /\ \A i \in 1 .. Len(handled) : handled'[i] = handled[i]
        /\ handled'[Len(handled) + 1] = n
    BY <1>9, <2>1, <2>2, AppendProperties
  <2> QED BY <1>2, <2>3, SoundFacts
<1>11. Retired' = Retired
  BY <1>2, <1>8, <1>10 DEF Retired
<1> QED BY <1>1, <1>2, <1>3, <1>4, <1>8, <1>9, <1>10, <1>11

-----------------------------------------------------------------------------
(* Where the words and the records are *)

\* A new record leaves the words of the others alone and owns its own.
LEMMA AppendedWords ==
  ASSUME IInv, NEW k, NEW n \in Nat, Appended(k, n)
  PROVE  WordsAreOfRecords'
<1> SUFFICES ASSUME NEW p \in Position, buffer'[p][1] # 0
             PROVE  /\ buffer'[p][1] <= Len(written')
                    /\ written'[buffer'[p][1]].pos + buffer'[p][2] = p
                    /\ buffer'[p][2] < written'[buffer'[p][1]].size
  BY DEF WordsAreOfRecords
<1>1. p \in Nat /\ writePos \in Nat /\ Len(written) \in Nat
  BY RecordFacts, SizeAssumption DEF Position
<1>2. CASE p \in writePos .. writePos + n - 1
  <2>1. buffer'[p] = <<Len(written) + 1, p - writePos>>
    BY <1>2 DEF Appended
  <2>2. buffer'[p][1] = Len(written) + 1 /\ buffer'[p][2] = p - writePos
    BY <2>1
  <2>3. /\ Len(written') = Len(written) + 1
        /\ written'[Len(written) + 1].pos = writePos
        /\ written'[Len(written) + 1].size = n
    BY DEF Appended
  <2> QED BY <1>1, <1>2, <2>2, <2>3
<1>3. CASE p \notin writePos .. writePos + n - 1
  <2>1. buffer'[p] = buffer[p]
    BY <1>3 DEF Appended
  <2>2. buffer[p][1] \in Nat /\ buffer[p][1] <= Len(written)
        /\ written[buffer[p][1]].pos + buffer[p][2] = p
        /\ buffer[p][2] < written[buffer[p][1]].size
    BY <2>1, SMTT(40) DEF IInv, TypeOK, RingTypes, WordsAreOfRecords
  <2>3. buffer[p][1] \in 1 .. Len(written)
    BY <1>1, <2>1, <2>2
  <2>4. written'[buffer[p][1]] = written[buffer[p][1]] /\ Len(written') = Len(written) + 1
    BY <2>3 DEF Appended
  <2> QED BY <1>1, <2>1, <2>2, <2>4
<1> QED BY <1>2, <1>3

\* Every step keeps WordsAreOfRecords.
LEMMA WordsStep ==
  ASSUME IInv, [Next]_vars
  PROVE  WordsAreOfRecords'
<1>1. CASE Idles
  <2> SUFFICES ASSUME NEW p \in Position, buffer'[p][1] # 0
               PROVE  /\ buffer'[p][1] <= Len(written')
                      /\ written'[buffer'[p][1]].pos + buffer'[p][2] = p
                      /\ buffer'[p][2] < written'[buffer'[p][1]].size
    BY DEF WordsAreOfRecords
  <2>1. buffer' = buffer /\ SamePlaces
    BY <1>1 DEF Idles
  <2>2. buffer[p][1] \in 0 .. MaxRecords /\ buffer[p][1] <= Len(written)
        /\ written[buffer[p][1]].pos + buffer[p][2] = p
        /\ buffer[p][2] < written[buffer[p][1]].size
    BY <2>1 DEF IInv, TypeOK, RingTypes, WordsAreOfRecords
  <2>3. buffer[p][1] \in 1 .. Len(written)
    BY <2>1, <2>2, RecordFacts, SizeAssumption
  <2> QED BY <2>1, <2>2, <2>3 DEF SamePlaces
<1>2. CASE Wrap
  BY <1>2, WrapFacts, AppendedWords
<1>3. CASE WriteCall
  <2>1. Appended(RecordOf(call), Written[RecordOf(call)])
        /\ Written[RecordOf(call)] \in Nat
    BY <1>3, CallFacts, SizeAssumption
  <2> QED BY <2>1, AppendedWords
<1>4. CASE Resets \/ HandleRecord \/ CommitReadPos
  <2>1. UNCHANGED <<buffer, written>>
    BY <1>4 DEF Resets, HandleRecord, CommitReadPos
  <2> QED BY <2>1 DEF IInv, WordsAreOfRecords
<1> QED BY <1>1, <1>2, <1>3, <1>4, StepShapes

\* Every step keeps RecordsFit: ReserveSpace() leaves a word for NULL.
LEMMA FitStep ==
  ASSUME IInv, [Next]_vars
  PROVE  RecordsFit'
<1>0. RecordsFit /\ Len(written) \in Nat
  BY RecordFacts DEF IInv
<1>1. CASE Idles
  BY <1>0, <1>1 DEF Idles, SamePlaces, RecordsFit
<1>2. CASE Wrap
  <2>1. /\ Len(written') = Len(written) + 1
        /\ \A i \in 1 .. Len(written) : written'[i] = written[i]
        /\ written'[Len(written) + 1].kind = "null"
        /\ written'[Len(written) + 1].pos = writePos
        /\ written'[Len(written) + 1].size = 1
    BY <1>2, WrapFacts DEF Appended
  <2>2. writePos + 1 <= BufferSize
    BY <1>2, WrapFacts, SizeAssumption DEF Position
  <2> QED BY <1>0, <2>1, <2>2 DEF RecordsFit
<1>3. CASE WriteCall
  <2> DEFINE k == RecordOf(call)
             n == Written[k]
  <2>1. /\ Len(written') = Len(written) + 1
        /\ \A i \in 1 .. Len(written) : written'[i] = written[i]
        /\ written'[Len(written) + 1].pos = writePos
        /\ written'[Len(written) + 1].size = n
    BY <1>3, CallFacts DEF Appended
  <2>2. writePos + n <= BufferSize - 1 /\ writePos + n <= BufferSize
    BY <1>3, CallFacts, SizeAssumption DEF Position
  <2> HIDE DEF n
  <2> QED BY <1>0, <2>1, <2>2 DEF RecordsFit
<1>4. CASE Resets \/ HandleRecord \/ CommitReadPos
  BY <1>0, <1>4 DEF Resets, HandleRecord, CommitReadPos, RecordsFit
<1> QED BY <1>1, <1>2, <1>3, <1>4, StepShapes

\* A new record begins at the write position; no other beginning moves.
LEMMA AppendedStarts ==
  ASSUME IInv, NEW k, NEW n \in Nat, Appended(k, n)
  PROVE  /\ \A i \in 1 .. Len(written) + 1 : Start(i)' = Start(i)
         /\ \A j : j = Len(written) + 2 => Start(j)' = writePos'
<1>1. /\ Len(written') = Len(written) + 1
      /\ \A i \in 1 .. Len(written) : written'[i] = written[i]
      /\ written'[Len(written) + 1].pos = writePos
  BY DEF Appended
<1>2. Len(written) \in Nat
  BY RecordFacts
<1> QED BY <1>1, <1>2 DEF Start

\* A record is followed by the next one, and the positions stand at records.
LEMMA FollowStep ==
  ASSUME IInv, [Next]_vars, ~lapped, ~lapped'
  PROVE  RecordsFollow'
<1> USE RecordFacts
<1>0. RecordsFollow /\ Len(handled) <= published
  BY SoundFacts
<1>1. CASE Idles
  <2>1. \A i \in 1 .. Len(written) + 1 : Start(i)' = Start(i)
    BY <1>1 DEF Idles, SamePlaces, Start
  <2>2. \A i \in 1 .. Len(written) : End(written'[i]) = End(written[i])
    BY <1>1 DEF Idles, SamePlaces, End
  <2>3. atoWrite' = Start(published + 1)'
    <3>1. CASE UNCHANGED <<published, atoWrite>>
      BY <1>0, <1>1, <2>1, <3>1 DEF RecordsFollow, Idles, SamePlaces, Start
    <3>2. CASE published' = Len(written) /\ atoWrite' = writePos
      BY <1>1, <3>2 DEF Idles, SamePlaces, Start
    <3> QED BY <1>1, <3>1, <3>2 DEF Idles
  <2>4. atoRead' = Start(Retired + 1)' /\ readPos' = Start(Len(handled) + 1)'
    <3>1. UNCHANGED <<atoRead, readPos, handled, writePos>> /\ Retired' = Retired
          /\ Len(written') = Len(written)
      BY <1>1 DEF Idles, SamePlaces
    <3>2. Retired + 1 \in 1 .. Len(written) + 1 /\ Len(handled) + 1 \in 1 .. Len(written) + 1
      BY <1>0
    <3> QED BY <1>0, <2>1, <3>1, <3>2 DEF RecordsFollow, Start
  <2>5. ASSUME NEW i \in (Retired + 1)' .. Len(written)'
        PROVE  End(written[i])' = Start(i + 1)'
    <3>1. i \in Retired + 1 .. Len(written) /\ i + 1 \in 1 .. Len(written) + 1
      BY <1>1 DEF Idles, SamePlaces
    <3>2. End(written[i]) = Start(i + 1)
      BY <1>0, <3>1 DEF RecordsFollow
    <3> QED BY <2>1, <2>2, <3>1, <3>2
  <2> QED BY <2>3, <2>4, <2>5 DEF RecordsFollow
<1>2. ASSUME NEW k, NEW n \in Nat, Appended(k, n), UNCHANGED <<atoRead, readPos, handled>>,
             Retired' = Retired,
             writePos' = IF k = "null" THEN 0 ELSE writePos + n,
             \/ published' = Len(written') /\ atoWrite' = writePos'
             \/ UNCHANGED <<published, atoWrite>>
      PROVE  RecordsFollow'
  <2>1. /\ \A i \in 1 .. Len(written) + 1 : Start(i)' = Start(i)
        /\ \A j : j = Len(written) + 2 => Start(j)' = writePos'
    BY <1>2, AppendedStarts
  <2>2. /\ Len(written') = Len(written) + 1
        /\ \A i \in 1 .. Len(written) : written'[i] = written[i]
        /\ written'[Len(written) + 1].kind = k
        /\ written'[Len(written) + 1].pos = writePos
        /\ written'[Len(written) + 1].size = n
    BY <1>2 DEF Appended
  <2>3. atoWrite' = Start(published + 1)'
    <3>1. CASE published' = Len(written') /\ atoWrite' = writePos'
      BY <2>2, <3>1 DEF Start
    <3>2. CASE UNCHANGED <<published, atoWrite>>
      BY <1>0, <2>1, <2>2, <3>2, SMTT(40) DEF RecordsFollow, Start
    <3> QED BY <1>2, <3>1, <3>2
  <2>4. atoRead' = Start(Retired + 1)' /\ readPos' = Start(Len(handled) + 1)'
    BY <1>0, <1>2, <2>1, <2>2, SMTT(40) DEF RecordsFollow, Start
  <2>5. ASSUME NEW i \in (Retired + 1)' .. Len(written)'
        PROVE  End(written[i])' = Start(i + 1)'
    <3>1. CASE i = Len(written) + 1
      <4>1. End(written'[i]) = writePos'
        BY <1>2, <2>2, <3>1 DEF End
      <4> QED BY <2>1, <3>1, <4>1
    <3>2. CASE i # Len(written) + 1
      <4>1. i \in Retired + 1 .. Len(written) /\ i + 1 \in 1 .. Len(written) + 1
        BY <1>2, <2>2, <3>2, SMTT(40)
      <4>2. End(written[i]) = Start(i + 1) /\ written'[i] = written[i]
        BY <1>0, <2>2, <4>1 DEF RecordsFollow
      <4> QED BY <2>1, <4>1, <4>2
    <3> QED BY <3>1, <3>2
  <2> QED BY <2>3, <2>4, <2>5 DEF RecordsFollow
<1>3. CASE Wrap
  <2>1. Appended("null", 1)
    BY <1>3, WrapFacts
  <2>2. /\ UNCHANGED <<atoRead, readPos, handled, wpc>> /\ writePos' = 0
        /\ published' = Len(written') /\ atoWrite' = writePos'
    BY <1>3 DEF Wrap, CommitWritePos, workerVars
  <2>3. Retired' = Retired
    BY <2>2 DEF Retired
  <2> QED BY <1>2, <2>1, <2>2, <2>3
<1>4. CASE WriteCall
  <2> DEFINE k == RecordOf(call)
             n == Written[k]
  <2>1. Appended(k, n) /\ n \in Nat /\ k # "null"
    BY <1>4, CallFacts, SizeAssumption DEF RecordKind
  <2>2. /\ UNCHANGED <<atoRead, readPos, handled, wpc>> /\ writePos' = writePos + n
        /\ \/ published' = Len(written') /\ atoWrite' = writePos'
           \/ UNCHANGED <<published, atoWrite>>
    BY <1>4 DEF WriteCall, CommitWritePos, workerVars
  <2>3. Retired' = Retired
    BY <2>2 DEF Retired
  <2> HIDE DEF k, n
  <2> QED BY <1>2, <2>1, <2>2, <2>3
<1>5. CASE Resets
  <2>1. Retired' = Len(written) /\ Len(handled') = Len(written) /\ published' = Len(written)
        /\ Len(written') = Len(written)
    BY <1>5 DEF Resets
  <2>2. atoWrite' = 0 /\ writePos' = 0 /\ atoRead' = 0 /\ readPos' = 0
    BY <1>5 DEF Resets
  <2>3. Start(Len(written) + 1)' = 0
    BY <2>1, <2>2 DEF Start
  <2>4. /\ atoRead' = Start(Retired + 1)' /\ readPos' = Start(Len(handled) + 1)'
        /\ atoWrite' = Start(published + 1)'
    BY <2>1, <2>2, <2>3
  <2>5. (Retired + 1 .. Len(written))' = {}
    BY <2>1
  <2> QED BY <2>4, <2>5 DEF RecordsFollow
<1>6. CASE HandleRecord
  <2> DEFINE n == Len(handled) + 1
  <2>1. /\ n \in 1 .. Len(written) /\ Retired = Len(handled) /\ Retired' = Retired
        /\ Len(handled') = n /\ readPos' = End(written[n])
    BY <1>6, NextIsRead
  <2>2. UNCHANGED <<written, published, atoRead, atoWrite, writePos>>
    BY <1>6 DEF HandleRecord, eeVars
  <2>3. End(written[n]) = Start(n + 1)
    <3>1. n \in Retired + 1 .. Len(written)
      BY <2>1
    <3> HIDE DEF n
    <3> QED BY <1>0, <3>1 DEF RecordsFollow
  <2> HIDE DEF n
  <2> QED BY <1>0, <2>1, <2>2, <2>3 DEF RecordsFollow, Start
<1>7. CASE CommitReadPos
  <2>1. /\ UNCHANGED <<written, published, atoWrite, writePos, readPos, handled>>
        /\ atoRead' = readPos /\ wpc = "commit" /\ wpc' = "loop"
    BY <1>7 DEF CommitReadPos, eeVars
  <2>2. Retired' = Len(handled) /\ Len(handled) = Retired + 1
    BY <2>1 DEF Retired
  <2>3. atoRead' = Start(Retired + 1)' /\ readPos' = Start(Len(handled) + 1)'
        /\ atoWrite' = Start(published + 1)'
    BY <1>0, <2>1, <2>2 DEF RecordsFollow, Start
  <2>4. ASSUME NEW i \in (Retired + 1 .. Len(written))'
        PROVE  End(written[i])' = Start(i + 1)'
    <3>1. i \in Retired + 1 .. Len(written)
      BY <2>1, <2>2
    <3>2. End(written[i]) = Start(i + 1)
      BY <1>0, <3>1 DEF RecordsFollow
    <3> QED BY <2>1, <3>2 DEF Start, End
  <2> QED BY <2>3, <2>4 DEF RecordsFollow
<1> QED BY <1>1, <1>3, <1>4, <1>5, <1>6, <1>7, StepShapes

-----------------------------------------------------------------------------
(* The order of the unread records *)

\* What is needed of room in front of the reader: a writer behind it stays
\* behind it, and never wraps from there.
RoomFor(k, n) ==
    /\ k # "null" => (writePos < atoRead => writePos + n < atoRead)
    /\ k = "null" => atoRead <= writePos /\ 0 < atoRead

LEMMA WrapRoom ==
  ASSUME IInv, Wrap, ~lapped'
  PROVE  RoomFor("null", 1)
<1>1. ~(atoRead = 0) /\ ~(atoRead > writePos)
  BY DEF Wrap
<1> QED BY <1>1, RecordFacts DEF RoomFor

LEMMA CallRoom ==
  ASSUME IInv, WriteCall, NEW k, k = RecordOf(call), NEW n, n = Written[k]
  PROVE  RoomFor(k, n)
<1>1. Fits(Reserved[k])
  BY DEF WriteCall
<1>2. n \in Nat /\ Reserved[k] \in Nat /\ n <= Reserved[k] /\ k # "null"
  BY CallFacts, SizeAssumption DEF RecordKind
<1>3. atoRead <= writePos \/ atoRead > writePos + Reserved[k] + Margin
  BY <1>1 DEF Fits
<1>4. writePos \in Nat /\ atoRead \in Nat /\ Margin \in Nat
  BY RecordFacts, SizeAssumption
<1> QED BY <1>2, <1>3, <1>4 DEF RoomFor

\* A record that fits comes after all unread ones.
LEMMA AppendedInOrder ==
  ASSUME IInv, ~lapped, NEW k, NEW n \in Nat, Appended(k, n), RoomFor(k, n),
         writePos' = IF k = "null" THEN 0 ELSE writePos + n,
         atoRead' = atoRead, Retired' = Retired, n > 0
  PROVE  RecordsAreOrdered'
<1> /\ Len(written) \in Nat /\ Len(handled) \in Nat /\ Retired \in Nat
    /\ writePos \in Nat /\ atoRead \in Nat /\ Retired <= Len(written)
  BY RecordFacts, SoundFacts
<1>1. /\ \A i \in 1 .. Len(written) + 1 : Start(i)' = Start(i)
      /\ \A j : j = Len(written) + 2 => Start(j)' = writePos'
  BY AppendedStarts
<1>2. /\ Len(written') = Len(written) + 1
      /\ \A i \in 1 .. Len(written) : written'[i] = written[i]
      /\ written'[Len(written) + 1].kind = k
      /\ written'[Len(written) + 1].pos = writePos
      /\ written'[Len(written) + 1].size = n
  BY DEF Appended
<1> SUFFICES ASSUME NEW i \in Retired + 1 .. Len(written) + 1,
                    NEW j \in i + 1 .. Len(written) + 2
             PROVE  InOrder(i, j)'
  BY <1>2 DEF RecordsAreOrdered
<1>3. CASE i <= Len(written) /\ j <= Len(written) + 1
  <2>1. InOrder(i, j)
    BY <1>3, SoundFacts DEF RecordsAreOrdered
  <2>2. written'[i] = written[i] /\ Start(i)' = Start(i) /\ Start(j)' = Start(j)
    BY <1>1, <1>2, <1>3
  <2> QED BY <2>1, <2>2 DEF InOrder
<1>4. CASE i <= Len(written) /\ j = Len(written) + 2
  <2> DEFINE m == Len(written) + 1
  <2>1. InOrder(i, m)
    <3>1. i \in Retired + 1 .. Len(written) /\ m \in i + 1 .. Len(written) + 1
      BY <1>4
    <3> QED BY <3>1, SoundFacts DEF RecordsAreOrdered
  <2>2. Start(m) = writePos
    BY DEF Start
  <2>3. written'[i] = written[i] /\ Start(i)' = Start(i) /\ Start(j)' = writePos'
    BY <1>1, <1>2, <1>4
  <2>4. written[i].pos \in Nat /\ written[i].size \in Nat /\ Start(i) \in Nat
    <3>1. i \in 1 .. Len(written) /\ i \in 1 .. Len(written) + 1
      BY <1>4
    <3> QED BY <3>1, RecordFacts
  <2> HIDE DEF m
  <2>5. CASE k = "null"
    BY <2>1, <2>2, <2>3, <2>4, <2>5 DEF InOrder, RoomFor
  <2>6. CASE k # "null"
    BY <2>1, <2>2, <2>3, <2>4, <2>6, SMTT(40) DEF InOrder, RoomFor
  <2> QED BY <2>5, <2>6
<1>5. CASE i = Len(written) + 1 /\ j = Len(written) + 2
  <2>1. /\ Start(i)' = writePos /\ Start(j)' = writePos'
        /\ written'[i].pos = writePos /\ written'[i].size = n /\ written'[i].kind = k
    <3>1. Start(i) = writePos
      BY <1>5 DEF Start
    <3> QED BY <1>1, <1>2, <1>5, <3>1
  <2>2. CASE k = "null"
    BY <2>1, <2>2 DEF InOrder, RoomFor
  <2>3. CASE k # "null"
    BY <2>1, <2>3 DEF InOrder, RoomFor
  <2> QED BY <2>2, <2>3
<1>6. \/ i <= Len(written) /\ j <= Len(written) + 1
      \/ i <= Len(written) /\ j = Len(written) + 2
      \/ i = Len(written) + 1 /\ j = Len(written) + 2
  OBVIOUS
<1> QED BY <1>3, <1>4, <1>5, <1>6

\* When the reader moves on, no unread record changes sides, unless the
\* reader starts a new lap: then all were behind it.
LEMMA CommitInOrder ==
  ASSUME IInv, ~lapped, CommitReadPos
  PROVE  RecordsAreOrdered'
<1> /\ Len(written) \in Nat /\ Len(handled) \in Nat /\ Retired \in Nat
    /\ writePos \in Nat /\ atoRead \in Nat /\ Retired <= Len(written)
  BY RecordFacts, SoundFacts
<1> DEFINE r == Retired + 1
<1>1. /\ UNCHANGED <<written, writePos, readPos, handled>>
      /\ atoRead' = readPos /\ wpc = "commit" /\ wpc' = "loop"
  BY DEF CommitReadPos, eeVars
<1>2. Retired' = Len(handled) /\ Len(handled) = r
  BY <1>1 DEF Retired
<1>3. r \in 1 .. Len(written) /\ r \in Retired + 1 .. Len(written)
  BY <1>2, SoundFacts, RecordFacts
<1>4. Start(r) = atoRead /\ Start(r) = written[r].pos /\ atoRead' = End(written[r])
  BY <1>1, <1>2, <1>3, SoundFacts DEF RecordsFollow, Start
<1>5. \A m \in r + 1 .. Len(written) + 1 : InOrder(r, m)
  BY <1>3, SoundFacts DEF RecordsAreOrdered
<1>6. \A m : Start(m)' = Start(m)
  BY <1>1 DEF Start
<1>7. written[r].pos \in Nat /\ written[r].size \in Nat /\ written[r].size > 0
  BY <1>3, RecordFacts
<1> SUFFICES ASSUME NEW i \in r + 1 .. Len(written), NEW j \in i + 1 .. Len(written) + 1
             PROVE  InOrder(i, j)'
  BY <1>1, <1>2 DEF RecordsAreOrdered
<1>8. i \in Retired + 1 .. Len(written)
  BY <1>3
<1>9. InOrder(i, j)
  BY <1>8, SoundFacts DEF RecordsAreOrdered
<1>10. Start(i) \in Nat /\ Start(j) \in Nat
  <2>1. i \in 1 .. Len(written) + 1 /\ j \in 1 .. Len(written) + 1
    BY <1>3
  <2> QED BY <2>1, RecordFacts
<1>11. InOrder(r, i) /\ InOrder(r, j)
  BY <1>3, <1>5
<1> HIDE DEF r
<1>12. CASE written[r].kind = "null"
  <2>1. Start(i) < atoRead /\ Start(j) < atoRead /\ atoRead' = 0
    BY <1>4, <1>11, <1>12 DEF InOrder, End
  <2> QED BY <1>1, <1>6, <1>9, <1>10, <2>1 DEF InOrder
<1>13. CASE written[r].kind # "null"
  <2>1. atoRead' = written[r].pos + written[r].size
    BY <1>4, <1>13 DEF End
  <2>2. (Start(i) < atoRead <=> Start(i) < atoRead') /\ (Start(j) < atoRead <=> Start(j) < atoRead')
    BY <1>4, <1>7, <1>10, <1>11, <2>1, SMTT(40) DEF InOrder
  <2> QED BY <1>1, <1>6, <1>9, <1>10, <2>1, <2>2 DEF InOrder
<1> QED BY <1>12, <1>13

LEMMA OrderStep ==
  ASSUME IInv, [Next]_vars, ~lapped, ~lapped'
  PROVE  RecordsAreOrdered'
<1>1. CASE Idles \/ HandleRecord
  <2>1. SamePlaces /\ UNCHANGED <<atoRead, writePos>> /\ Retired' = Retired
    BY <1>1, NextIsRead DEF Idles, HandleRecord, eeVars, SamePlaces
  <2>2. \A i \in 1 .. Len(written) + 1 : Start(i)' = Start(i)
    BY <2>1, RecordFacts DEF SamePlaces, Start
  <2> SUFFICES ASSUME NEW i \in Retired + 1 .. Len(written),
                      NEW j \in i + 1 .. Len(written) + 1
               PROVE  InOrder(i, j)'
    BY <2>1 DEF RecordsAreOrdered, SamePlaces
  <2>3. InOrder(i, j) /\ i \in 1 .. Len(written) /\ j \in 1 .. Len(written) + 1
    BY SoundFacts, RecordFacts DEF RecordsAreOrdered
  <2> QED BY <2>1, <2>2, <2>3 DEF InOrder, SamePlaces
<1>2. CASE Wrap
  <2>1. UNCHANGED <<atoRead, handled, wpc>> /\ writePos' = 0
    BY <1>2 DEF Wrap, workerVars
  <2>2. Retired' = Retired
    BY <2>1 DEF Retired
  <2> QED BY <1>2, <2>1, <2>2, WrapFacts, WrapRoom, AppendedInOrder
<1>3. CASE WriteCall
  <2> DEFINE k == RecordOf(call)
             n == Written[k]
  <2>1. Appended(k, n) /\ n \in Nat /\ n > 0 /\ k # "null"
    BY <1>3, CallFacts, SizeAssumption DEF RecordKind
  <2>2. UNCHANGED <<atoRead, handled, wpc>> /\ writePos' = writePos + n
    BY <1>3 DEF WriteCall, workerVars
  <2>3. Retired' = Retired
    BY <2>2 DEF Retired
  <2>4. RoomFor(k, n)
    BY <1>3, CallRoom
  <2> HIDE DEF k, n
  <2> QED BY <2>1, <2>2, <2>3, <2>4, AppendedInOrder
<1>4. CASE Resets
  <2>1. Retired' = Len(written) /\ Len(written') = Len(written)
    BY <1>4 DEF Resets
  <2> QED BY <2>1, RecordFacts DEF RecordsAreOrdered
<1>5. CASE CommitReadPos
  BY <1>5, CommitInOrder
<1> QED BY <1>1, <1>2, <1>3, <1>4, <1>5, StepShapes

-----------------------------------------------------------------------------
(* Nothing unread is overwritten *)

LEMMA AppendedIntact ==
  ASSUME IInv, ~lapped, NEW k, NEW n \in Nat, Appended(k, n), RoomFor(k, n),
         Retired' = Retired, writePos + n <= BufferSize, k = "null" => n = 1
  PROVE  RecordsIntact'
<1> /\ Len(written) \in Nat /\ Len(handled) \in Nat /\ Retired \in Nat
    /\ writePos \in Nat /\ atoRead \in Nat /\ Retired <= Len(written)
  BY RecordFacts, SoundFacts
<1>1. /\ Len(written') = Len(written) + 1
      /\ \A i \in 1 .. Len(written) : written'[i] = written[i]
      /\ written'[Len(written) + 1].pos = writePos
      /\ written'[Len(written) + 1].size = n
  BY DEF Appended
<1> SUFFICES ASSUME NEW i \in Retired + 1 .. Len(written) + 1,
                    NEW d \in 0 .. written'[i].size - 1
             PROVE  buffer'[written'[i].pos + d] = <<i, d>>
  BY <1>1 DEF RecordsIntact
<1>2. CASE i = Len(written) + 1
  <2>1. d \in 0 .. n - 1 /\ written'[i].pos + d = writePos + d
    BY <1>1, <1>2
  <2>2. writePos + d \in Position /\ writePos + d \in writePos .. writePos + n - 1
        /\ writePos + d - writePos = d
    BY <2>1, SizeAssumption DEF Position
  <2>3. ASSUME NEW p, p = writePos + d
        PROVE  buffer'[p] = <<Len(written) + 1, p - writePos>>
    BY <2>2, <2>3 DEF Appended
  <2> QED BY <1>2, <2>1, <2>2, <2>3
<1>3. CASE i # Len(written) + 1
  <2> DEFINE m == Len(written) + 1
             q == written[i].pos
             z == written[i].size
             p == q + d
  <2>1. i \in Retired + 1 .. Len(written) /\ i \in 1 .. Len(written) /\ m \in i + 1 .. Len(written) + 1
    BY <1>3
  <2>2. written'[i] = written[i] /\ d \in 0 .. z - 1
    BY <1>1, <2>1
  <2>3. buffer[p] = <<i, d>>
    BY <2>1, <2>2, SoundFacts
  <2>4. InOrder(i, m) /\ Start(i) = q /\ Start(m) = writePos
    BY <2>1, SoundFacts DEF RecordsAreOrdered, Start
  <2>5. q \in Nat /\ z \in Nat /\ d \in Nat /\ d < z
    BY <2>1, <2>2, RecordFacts, SMTT(40)
  <2>6. BufferSize \in Nat /\ q + z <= BufferSize
    BY <2>1, SizeAssumption DEF IInv, RecordsFit
  <2>7. q + z <= writePos \/ (writePos + n < atoRead /\ atoRead <= q)
    <3> HIDE DEF m
    <3> QED BY <2>4, <2>5 DEF InOrder, RoomFor
  <2> HIDE DEF q, z
  <2>8. p \in Position
    BY <2>5, <2>6 DEF Position
  <2>9. p \notin writePos .. writePos + n - 1
    BY <2>5, <2>7
  <2>10. buffer'[p] = buffer[p]
    BY <2>8, <2>9 DEF Appended
  <2> USE DEF q
  <2> QED BY <2>2, <2>3, <2>10
<1> QED BY <1>2, <1>3

\* Every step keeps RecordsIntact.
LEMMA IntactStep ==
  ASSUME IInv, [Next]_vars, ~lapped, ~lapped'
  PROVE  RecordsIntact'
<1> /\ Len(written) \in Nat /\ Len(handled) \in Nat /\ Retired \in Nat
    /\ writePos \in Nat /\ atoRead \in Nat /\ Retired <= Len(written)
  BY RecordFacts, SoundFacts
<1>1. CASE Idles \/ HandleRecord
  <2>1. SamePlaces /\ buffer' = buffer /\ Retired' = Retired
    BY <1>1, NextIsRead DEF Idles, HandleRecord, SamePlaces
  <2> SUFFICES ASSUME NEW i \in Retired + 1 .. Len(written),
                      NEW d \in 0 .. written'[i].size - 1
               PROVE  buffer'[written'[i].pos + d] = <<i, d>>
    BY <2>1 DEF RecordsIntact, SamePlaces
  <2>2. written'[i].pos = written[i].pos /\ written'[i].size = written[i].size
    BY <2>1 DEF SamePlaces
  <2>3. buffer[written[i].pos + d] = <<i, d>>
    BY <2>2, SoundFacts
  <2> QED BY <2>1, <2>2, <2>3
<1>2. CASE Wrap
  <2>1. UNCHANGED <<handled, wpc>>
    BY <1>2 DEF Wrap, workerVars
  <2>2. Retired' = Retired
    BY <2>1 DEF Retired
  <2>3. writePos + 1 <= BufferSize /\ Appended("null", 1) /\ RoomFor("null", 1)
    BY <1>2, WrapFacts, WrapRoom, SizeAssumption DEF Position
  <2> QED BY <2>2, <2>3, AppendedIntact
<1>3. CASE WriteCall
  <2> DEFINE k == RecordOf(call)
             n == Written[k]
  <2>1. Appended(k, n) /\ n \in 1 .. BufferSize /\ k \in RecordKind
        /\ writePos + n \in Position
    BY <1>3, CallFacts
  <2> HIDE DEF n
  <2>5. n \in Nat /\ k # "null" /\ writePos + n <= BufferSize
    BY <2>1, SizeAssumption, SMTT(40) DEF RecordKind, Position
  <2> USE DEF n
  <2>2. UNCHANGED <<handled, wpc>>
    BY <1>3 DEF WriteCall, workerVars
  <2>3. Retired' = Retired
    BY <2>2 DEF Retired
  <2>4. RoomFor(k, n)
    BY <1>3, CallRoom
  <2> HIDE DEF k, n
  <2> QED BY <2>1, <2>3, <2>4, <2>5, AppendedIntact
<1>4. CASE Resets
  <2>1. Retired' = Len(written) /\ Len(written') = Len(written)
    BY <1>4 DEF Resets
  <2> QED BY <2>1 DEF RecordsIntact
<1>5. CASE CommitReadPos
  <2>1. UNCHANGED <<buffer, written, handled>> /\ wpc = "commit" /\ wpc' = "loop"
    BY <1>5 DEF CommitReadPos
  <2>2. Retired' = Retired + 1
    BY <2>1 DEF Retired
  <2> SUFFICES ASSUME NEW i \in Retired' + 1 .. Len(written'),
                      NEW d \in 0 .. written'[i].size - 1
               PROVE  buffer'[written'[i].pos + d] = <<i, d>>
    BY DEF RecordsIntact
  <2>3. i \in Retired + 1 .. Len(written)
    BY <2>1, <2>2
  <2> QED BY <2>1, <2>3, SoundFacts
<1> QED BY <1>1, <1>2, <1>3, <1>4, <1>5, StepShapes

-----------------------------------------------------------------------------
(* What the worker has done *)

\* Every step keeps HandledInOrder.
LEMMA HandledStep ==
  ASSUME IInv, [Next]_vars, ~lapped, ~lapped'
  PROVE  HandledInOrder'
<1>1. /\ \A i \in 1 .. Len(handled) : handled[i] = i
      /\ Len(handled) <= published /\ wpc # "lost"
      /\ Len(handled) \in Nat /\ published \in Nat /\ published <= Len(written)
  BY RecordFacts DEF IInv, HandledInOrder
<1>2. wpc' # "lost" \/ HandleRecord
  BY <1>1 DEF Next, EE, Worker, vars, workerVars, Begin, KickStart, MergeSpan,
     SeparateSpan, CapturePressure, PublishPendingVifBatch, RequestGpuVuPath1Flush,
     ReserveSpace, WaitOnSize, Wrap, WriteCall, SpaceWakeup, BoundWakeup,
     WaitForEmpty, Rebuild, BoundGpuVuExecutionLatency, StopWorker, Join, Open,
     WaitForWork, CommitReadPos, PublishQuiescence, ServeRequests, Exit
<1>3. CASE HandleRecord
  <2> DEFINE n == Len(handled) + 1
  <2>1. /\ n <= published /\ wpc' = "commit" /\ Len(handled') = n
        /\ \A i \in 1 .. n : handled'[i] = i
    BY <1>3, NextIsRead
  <2>2. published' = published
    BY <1>3 DEF HandleRecord
  <2> HIDE DEF n
  <2> QED BY <2>1, <2>2 DEF HandledInOrder
<1>4. CASE ~HandleRecord
  <2>1. handled' = handled
    BY <1>4, StepShapes DEF Idles, Resets, Wrap, WriteCall, CommitReadPos, workerVars
  <2>2. published' = published \/ published' = Len(written) \/ published' = Len(written) + 1
    <3>1. CASE Wrap
      BY <3>1, WrapFacts DEF Wrap, CommitWritePos, Appended
    <3>2. CASE WriteCall
      <4>1. published' = published \/ published' = Len(written')
        BY <3>2 DEF WriteCall, CommitWritePos
      <4> QED BY <3>2, <4>1, CallFacts DEF Appended
    <3>3. CASE Idles \/ Resets \/ CommitReadPos
      BY <3>3 DEF Idles, Resets, CommitReadPos
    <3> QED BY <1>4, <3>1, <3>2, <3>3, StepShapes
  <2>3. Len(handled') <= published'
    BY <1>1, <2>1, <2>2, RecordFacts
  <2> QED BY <1>1, <1>2, <1>4, <2>1, <2>3 DEF HandledInOrder
<1> QED BY <1>3, <1>4

\* Every step keeps WaitIsAnswered.
LEMMA AnsweredStep ==
  ASSUME IInv, ~lapped, ~lapped', [Next]_vars
  PROVE  WaitIsAnswered'
<1> USE DEF WaitIsAnswered, Where, Retired
<1> CallIsBounded /\ WorkerIsParked /\ WaitIsAnswered
  BY SoundFacts DEF IInv
<1>1. ASSUME NEW c \in Call, Begin(c)
      PROVE  WaitIsAnswered'
  BY <1>1 DEF Begin, workerVars
<1>2. CASE KickStart
  BY <1>2 DEF KickStart, Goto, workerVars, CallIsBounded
<1>3. CASE MergeSpan
  <2>1. epc' = "idle"
    BY <1>3 DEF MergeSpan, Goto
  <2> QED BY <2>1
<1>4. CASE SeparateSpan
  BY <1>4 DEF SeparateSpan, Goto, workerVars
<1>5. CASE CapturePressure
  BY <1>5 DEF CapturePressure, Goto, workerVars
<1>6. CASE PublishPendingVifBatch
  BY <1>6 DEF PublishPendingVifBatch, AfterPublish, CommitWritePos, KickThen, Goto, workerVars
<1>7. CASE RequestGpuVuPath1Flush
  BY <1>7 DEF RequestGpuVuPath1Flush, KickThen, workerVars
<1>8. CASE ReserveSpace
  BY <1>8 DEF ReserveSpace, Goto, workerVars
<1>9. CASE WaitOnSize
  <2>1. /\ epc' = "kick" /\ epc \in {"wrap", "space"}
        /\ then' \in {"wrap", "space", "sleepWrap", "sleepSpace"}
    BY <1>9 DEF WaitOnSize, KickThen
  <2> QED BY <2>1
<1>10. CASE Wrap
  <2>1. epc' = "space"
    BY <1>10 DEF Wrap, Goto
  <2> QED BY <2>1
<1>11. CASE WriteCall
  <2>1. \/ epc' = "idle"
        \/ epc' = "kick" /\ then' \in {"idle", "empty"}
    BY <1>11 DEF WriteCall, Goto, KickThen
  <2>2. Len(written') = Len(written) + 1 /\ UNCHANGED handled
    BY <1>11, CallFacts DEF Appended, WriteCall, workerVars
  <2>3. Len(handled') # Len(written')
    BY <2>2, SoundFacts, RecordFacts
  <2> QED BY <2>1, <2>3
<1>12. ASSUME NEW early \in BOOLEAN, SpaceWakeup(early)
      PROVE  WaitIsAnswered'
  BY <1>12 DEF SpaceWakeup, Goto, workerVars
<1>13. ASSUME NEW early \in BOOLEAN, BoundWakeup(early)
      PROVE  WaitIsAnswered'
  BY <1>13 DEF BoundWakeup, Goto, workerVars
<1>14. CASE WaitForEmpty
  <2>1. /\ epc = "empty" /\ wpc = "wait" /\ ~notified
        /\ epc' \in {"idle", "reset", "stop"}
        /\ UNCHANGED <<handled, written, deferred>>
    BY <1>14 DEF WaitForEmpty, Goto, workerVars
  <2>2. ~(Retired < published)
    BY <2>1
  <2>3. published = Len(written)
    BY <2>1 DEF WorkerIsParked
  <2>4. Len(handled) = Len(written)
    <3> HIDE DEF Retired
    <3> QED BY <2>1, <2>2, <2>3, SoundFacts, RecordFacts
  <2>5. deferred = 0
    BY <2>1, <2>4
  <2> QED BY <2>1, <2>4, <2>5
<1>15. CASE Rebuild
  BY <1>15 DEF Rebuild, Goto
<1>16. CASE BoundGpuVuExecutionLatency
  BY <1>16 DEF BoundGpuVuExecutionLatency, Goto, KickThen, workerVars
<1>17. CASE StopWorker
  BY <1>17 DEF StopWorker, KickThen, workerVars
<1>18. CASE Join
  BY <1>18 DEF Join, Goto
<1>19. CASE Open
  BY <1>19 DEF Open, Goto
<1>20. CASE WaitForWork
  BY <1>20 DEF WaitForWork, eeVars
<1>21. CASE HandleRecord
  <2> DEFINE n == Len(handled) + 1
  <2>1. /\ wpc = "loop" /\ wpc' = "commit" /\ n <= published /\ n \in 1 .. Len(written)
        /\ Len(handled') = n /\ deferred' = DeferredAfter(written[n].kind)
        /\ Len(handled) \in Nat
    BY <1>21, NextIsRead, RecordFacts
  <2>2. UNCHANGED <<eeVars, written, notified>>
    BY <1>21 DEF HandleRecord
  <2>3. Where = "empty" /\ n = Len(written) => deferred' = 0
    BY <2>1 DEF WorkerIsParked, DeferredAfter
  <2>4. Len(handled) # Len(written)
    BY <2>1
  <2> HIDE DEF n
  <2> QED BY <2>1, <2>2, <2>3, <2>4 DEF eeVars
<1>22. CASE CommitReadPos
  BY <1>22 DEF CommitReadPos, eeVars
<1>23. CASE PublishQuiescence
  <2>1. /\ wpc = "loop" /\ wpc' = "quiet" /\ atoRead = atoWrite
        /\ UNCHANGED <<eeVars, handled, written, published, deferred, notified>>
    BY <1>23 DEF PublishQuiescence
  <2>2. Retired >= published /\ Retired' = Retired
    BY <2>1, EqualIsEmpty
  <2>3. ~(Retired' < published')
    <3> HIDE DEF Retired
    <3> QED BY <2>1, <2>2, RecordFacts
  <2> QED BY <2>1, <2>3 DEF eeVars
<1>24. CASE ServeRequests
  BY <1>24 DEF ServeRequests, eeVars
<1>25. CASE Exit
  BY <1>25 DEF Exit, eeVars
<1>26. CASE UNCHANGED vars
  BY <1>26 DEF vars, eeVars, workerVars
<1> QED
  BY <1>1, <1>2, <1>3, <1>4, <1>5, <1>6, <1>7, <1>8, <1>9, <1>10, <1>11, <1>12, <1>13, <1>14, <1>15, <1>16, <1>17, <1>18, <1>19, <1>20, <1>21, <1>22, <1>23, <1>24, <1>25, <1>26 DEF Next, EE, Worker

-----------------------------------------------------------------------------
(* The executions the worker has not handled *)

Unhandled == {i \in Len(handled) + 1 .. Len(written) : written[i].kind = "execute"}

LEMMA UnhandledIsFinite ==
  ASSUME IInv
  PROVE  IsFiniteSet(Unhandled) /\ Cardinality(Unhandled) \in Nat
<1>1. IsFiniteSet(Len(handled) + 1 .. Len(written))
  BY RecordFacts, FS_Interval
<1>2. Unhandled \subseteq Len(handled) + 1 .. Len(written)
  BY DEF Unhandled
<1>3. IsFiniteSet(Unhandled)
  BY <1>1, <1>2, FS_Subset
<1> QED BY <1>3, FS_CardinalityType

\* Every step keeps OutstandingIsHonest.
LEMMA OutstandingStep ==
  ASSUME IInv, [Next]_vars, ~lapped, ~lapped'
  PROVE  OutstandingIsHonest'
<1>1. /\ enqueued - completed = Cardinality(Unhandled)
      /\ enqueued \in Nat /\ completed \in Nat
      /\ Len(handled) \in Nat /\ Len(written) \in Nat /\ Len(handled) <= Len(written)
  BY SoundFacts, RecordFacts DEF IInv, OutstandingIsHonest, Unhandled, TypeOK, CounterTypes
<1>2. IsFiniteSet(Unhandled) /\ Cardinality(Unhandled) \in Nat
  BY UnhandledIsFinite
<1> SUFFICES enqueued' - completed' = Cardinality(Unhandled')
  BY DEF OutstandingIsHonest, Unhandled
<1>3. CASE Idles
  <2>1. enqueued' = enqueued /\ completed' = completed
    BY <1>1, <1>2, <1>3 DEF Idles
  <2>2. Unhandled' = Unhandled
    BY <1>1, <1>3 DEF Idles, SamePlaces, Unhandled
  <2> QED BY <1>1, <2>1, <2>2
<1>4. CASE Resets \/ CommitReadPos
  <2>1. UNCHANGED <<enqueued, completed, handled, written>>
    BY <1>4 DEF Resets, CommitReadPos, eeVars
  <2>2. Unhandled' = Unhandled
    BY <2>1 DEF Unhandled
  <2> QED BY <1>1, <2>1, <2>2
<1>5. ASSUME NEW k, NEW n, Appended(k, n), UNCHANGED <<handled, completed>>,
             enqueued' = IF k = "execute" THEN enqueued + 1 ELSE enqueued
      PROVE  enqueued' - completed' = Cardinality(Unhandled')
  <2> DEFINE m == Len(written) + 1
  <2>1. /\ Len(written') = m
        /\ \A i \in 1 .. Len(written) : written'[i] = written[i]
        /\ written'[m].kind = k
    BY <1>5 DEF Appended
  <2>2. m \notin Unhandled
    BY <1>1 DEF Unhandled
  <2>3. CASE k = "execute"
    <3>1. Unhandled' = Unhandled \union {m}
      BY <1>1, <1>5, <2>1, <2>3 DEF Unhandled
    <3>2. Cardinality(Unhandled') = Cardinality(Unhandled) + 1
      BY <1>2, <2>2, <3>1, FS_AddElement
    <3> QED BY <1>1, <1>2, <1>5, <2>3, <3>2
  <2>4. CASE k # "execute"
    <3>1. Unhandled' = Unhandled
      BY <1>1, <1>5, <2>1, <2>4 DEF Unhandled
    <3> QED BY <1>1, <1>5, <2>4, <3>1
  <2> QED BY <2>3, <2>4
<1>6. CASE Wrap
  <2>1. Appended("null", 1)
    BY <1>6, WrapFacts
  <2>2. UNCHANGED <<handled, completed, enqueued>>
    BY <1>6 DEF Wrap, workerVars
  <2> QED BY <1>5, <2>1, <2>2
<1>7. CASE WriteCall
  <2> DEFINE k == RecordOf(call)
             n == Written[k]
  <2>1. Appended(k, n)
    BY <1>7, CallFacts
  <2>2. /\ UNCHANGED <<handled, completed>>
        /\ enqueued' = IF k = "execute" THEN enqueued + 1 ELSE enqueued
    BY <1>7 DEF WriteCall, workerVars
  <2> HIDE DEF k, n
  <2> QED BY <1>5, <2>1, <2>2
<1>8. CASE HandleRecord
  <2> DEFINE n == Len(handled) + 1
  <2>1. /\ Len(handled') = n /\ n \in 1 .. Len(written)
        /\ completed' = IF written[n].kind = "execute" THEN completed + 1 ELSE completed
    BY <1>8, NextIsRead
  <2>2. UNCHANGED <<written, enqueued>>
    BY <1>8 DEF HandleRecord, eeVars
  <2>3. CASE written[n].kind = "execute"
    <3>1. Unhandled' = Unhandled \ {n} /\ n \in Unhandled
      BY <1>1, <2>1, <2>2, <2>3 DEF Unhandled
    <3>2. Cardinality(Unhandled') = Cardinality(Unhandled) - 1
      BY <1>2, <3>1, FS_RemoveElement
    <3>3. completed' = completed + 1
      BY <2>1, <2>3
    <3> QED BY <1>1, <1>2, <2>2, <3>2, <3>3
  <2>4. CASE written[n].kind # "execute"
    <3>1. Unhandled' = Unhandled
      BY <1>1, <2>1, <2>2, <2>4 DEF Unhandled
    <3>2. completed' = completed
      BY <2>1, <2>4
    <3> QED BY <1>1, <2>2, <3>1, <3>2
  <2> QED BY <2>3, <2>4
<1> QED BY <1>3, <1>4, <1>6, <1>7, <1>8, StepShapes

-----------------------------------------------------------------------------
(* The theorems *)

LEMMA InitIInv == Init => IInv
<1> SUFFICES ASSUME Init
             PROVE  IInv
  OBVIOUS
<1> USE SizeAssumption, BufferIsNonempty DEF Init
<1>1. Len(written) = 0 /\ Len(handled) = 0 /\ Retired = 0
  BY EmptySeq DEF Retired
<1>2. RingTypes
  <2>1. written \in Seq(Record) /\ handled \in Seq(1 .. MaxRecords)
    BY EmptySeq
  <2> QED BY <1>1, <2>1 DEF RingTypes
<1>3. ControlTypes
  BY DEF ControlTypes, EEControl
<1>4. CounterTypes
  BY DEF CounterTypes
<1>5. CallIsBounded /\ BatchIsPrivate /\ WorkerIsParked
  BY <1>1 DEF CallIsBounded, BatchIsPrivate, WorkerIsParked, Where
<1>6. WordsAreOfRecords /\ RecordsFit
  BY <1>1 DEF WordsAreOfRecords, RecordsFit
<1>7. RecordsFollow
  BY <1>1 DEF RecordsFollow, Start
<1>8. RecordsAreOrdered
  BY <1>1 DEF RecordsAreOrdered
<1>9. WaitIsAnswered
  BY <1>1 DEF WaitIsAnswered, Where
<1>10. RecordsIntact /\ HandledInOrder
  BY <1>1 DEF RecordsIntact, HandledInOrder
<1>11. OutstandingIsHonest
  <2>1. {i \in Len(handled) + 1 .. Len(written) : written[i].kind = "execute"} = {}
    BY <1>1
  <2>2. enqueued - completed = 0
    OBVIOUS
  <2> QED BY <2>1, <2>2, FS_EmptySet DEF OutstandingIsHonest
<1> QED
  BY <1>2, <1>3, <1>4, <1>5, <1>6, <1>7, <1>8, <1>9, <1>10, <1>11
     DEF IInv, TypeOK, RingIsSound

LEMMA StepIInv ==
  ASSUME IInv, [Next]_vars
  PROVE  IInv'
<1>1. ~lapped' => ~lapped
  BY StepShapes DEF Idles, Resets, Wrap, WriteCall, HandleRecord, CommitReadPos
<1>2. RingIsSound'
  BY <1>1, FollowStep, OrderStep, AnsweredStep DEF RingIsSound
<1>3. RecordsIntact'
  BY <1>1, IntactStep DEF RecordsIntact
<1>4. HandledInOrder'
  BY <1>1, HandledStep DEF HandledInOrder
<1>5. OutstandingIsHonest'
  BY <1>1, OutstandingStep DEF OutstandingIsHonest
<1> QED
  BY <1>2, <1>3, <1>4, <1>5, TypeStep, CallStep, BatchStep, ParkedStep, WordsStep,
     FitStep DEF IInv

\* The inductive invariant holds in every reachable state of the ring.
THEOREM RingInvariant == Spec => []IInv
BY InitIInv, StepIInv, PTL DEF Spec

\* Every variable keeps its type; in particular m_write_pos stays inside the
\* buffer, as ReserveSpace() asserts, and the deferred journal inside its limit.
THEOREM TypeCorrect == Spec => []TypeOK
<1>1. IInv => TypeOK
  BY DEF IInv
<1> QED BY <1>1, RingInvariant, PTL

\* WaitOnSize(), ReserveSpace() and CommitReadPos() together never let the EE
\* overwrite a word of an unread record, unless it wrapped onto an unread lap.
THEOREM RecordsStayIntact == Spec => []RecordsIntact
<1>1. IInv => RecordsIntact
  BY DEF IInv
<1> QED BY <1>1, RingInvariant, PTL

\* The worker handles the records in the order they were written, each once
\* and none that is still private, and never loses its place.
THEOREM RecordsHandledInOrder == Spec => []HandledInOrder
<1>1. IInv => HandledInOrder
  BY DEF IInv
<1> QED BY <1>1, RingInvariant, PTL

\* m_execute_jobs_enqueued - m_execute_jobs_completed is the number of
\* executions the worker has not handled.
THEOREM OutstandingStaysHonest == Spec => []OutstandingIsHonest
<1>1. IInv => OutstandingIsHonest
  BY DEF IInv
<1> QED BY <1>1, RingInvariant, PTL

\* A published record is never changed: VifUnpack() merges a span only into a
\* record that CommitWritePos() has not published.
THEOREM PublishedStaysFrozen == Spec => PublishedIsFrozen
<1>1. ASSUME IInv, [Next]_vars
      PROVE  \A i \in 1 .. published : written'[i] = written[i]
  <2>1. published \in Nat /\ published <= Len(written) /\ Len(written) \in Nat
    BY <1>1, RecordFacts
  <2>2. CASE MergeSpan
    <3>1. spanRecord > published
      BY <1>1, <2>2 DEF MergeSpan, IInv, BatchIsPrivate, TypeOK, RingTypes
    <3>2. \A i \in 1 .. Len(written) : i # spanRecord => written'[i] = written[i]
      BY <1>1, <2>2, MergeFacts
    <3>3. spanRecord \in Nat
      BY <1>1, <2>1 DEF IInv, TypeOK, RingTypes
    <3> QED BY <2>1, <3>1, <3>2, <3>3
  <2>3. CASE Wrap
    BY <1>1, <2>1, <2>3, WrapFacts DEF Appended
  <2>4. CASE WriteCall
    BY <1>1, <2>1, <2>4, CallFacts DEF Appended
  <2>5. MergeSpan \/ Wrap \/ WriteCall \/ written' = written
    BY <1>1 DEF Next, EE, Worker, vars, Begin, KickStart, SeparateSpan,
       CapturePressure, PublishPendingVifBatch, RequestGpuVuPath1Flush, ReserveSpace,
       WaitOnSize, SpaceWakeup, BoundWakeup, WaitForEmpty, Rebuild,
       BoundGpuVuExecutionLatency, StopWorker, Join, Open, WaitForWork, HandleRecord,
       CommitReadPos, PublishQuiescence, ServeRequests, Exit
  <2> QED BY <2>2, <2>3, <2>4, <2>5
<1> QED BY <1>1, RingInvariant, PTL DEF Spec, PublishedIsFrozen

\* When WaitVU() returns, every record was handled, no deferred UNPACK is
\* left, the four positions agree and the worker sleeps: what Reset() needs.
THEOREM WaitVUStaysBarrier == Spec => WaitVUIsBarrier
<1>1. ASSUME IInv, [Next]_vars, epc = "empty", epc' # "empty", ~lapped
      PROVE  /\ Len(handled) = Len(written) /\ deferred = 0
             /\ atoRead = atoWrite /\ readPos = atoRead /\ ~pendingBatch
             /\ wpc = "wait"
  <2>1. WaitForEmpty
    BY <1>1 DEF Next, EE, Worker, vars, eeVars, Begin, KickStart, MergeSpan,
       SeparateSpan, CapturePressure, PublishPendingVifBatch, RequestGpuVuPath1Flush,
       ReserveSpace, WaitOnSize, Wrap, WriteCall, SpaceWakeup, BoundWakeup, Rebuild,
       BoundGpuVuExecutionLatency, StopWorker, Join, Open, WaitForWork, HandleRecord,
       CommitReadPos, PublishQuiescence, ServeRequests, Exit
  <2>2. wpc = "wait" /\ ~notified
    BY <2>1 DEF WaitForEmpty
  <2>3. ~pendingBatch /\ published = Len(written)
    BY <1>1 DEF IInv, WorkerIsParked, Where
  <2>4. ~(Retired < published)
    BY <1>1, <2>2, SoundFacts DEF WaitIsAnswered
  <2>5. Len(handled) = Len(written) /\ Retired = Len(handled)
    BY <1>1, <2>2, <2>3, <2>4, SoundFacts, RecordFacts
  <2>6. deferred = 0
    BY <1>1, <2>5, SoundFacts DEF WaitIsAnswered, Where
  <2>7. atoRead = atoWrite /\ readPos = atoRead
    BY <1>1, <2>3, <2>5, SoundFacts DEF RecordsFollow
  <2> QED BY <2>2, <2>3, <2>5, <2>6, <2>7
<1>2. ASSUME IInv, [Next]_vars
      PROVE  (epc = "empty" /\ epc' # "empty" /\ ~lapped) =>
                /\ Len(handled) = Len(written) /\ deferred = 0
                /\ atoRead = atoWrite /\ readPos = atoRead /\ ~pendingBatch
                /\ wpc = "wait"
  BY <1>1, <1>2
<1> QED BY <1>2, RingInvariant, PTL DEF Spec, WaitVUIsBarrier

\* The safety net of WaitOnSize() is what keeps a wrap out of the lap in front:
\* if no reservation exceeds it by more than two words, the only wrap onto
\* unread words is the one onto a reader still at position 0.
THEOREM MarginSuffices ==
  ASSUME \A k \in RecordKind : Reserved[k] <= Margin + 2
  PROVE  Spec => [][lapped' # lapped => Wrap /\ atoRead = 0]_vars
<1>1. ASSUME IInv, [Next]_vars, lapped' # lapped
      PROVE  Wrap /\ atoRead = 0
  <2>1. Wrap
    BY <1>1, StepShapes DEF Idles, Resets, WriteCall, HandleRecord, CommitReadPos
  <2>2. lapped' = (lapped \/ atoRead = 0 \/ atoRead > writePos)
    BY <2>1 DEF Wrap
  <2>3. atoRead = 0 \/ atoRead > writePos
    BY <1>1, <2>2 DEF IInv, TypeOK, ControlTypes
  <2>4. RecordOf(call) \in RecordKind
        /\ writePos + Reserved[RecordOf(call)] > BufferSize - 1
    BY <1>1, <2>1, WrapFacts DEF IInv, CallIsBounded, Where, Wrap
  <2>5. atoRead <= writePos \/ atoRead > writePos + 1 + Margin
    BY <2>1 DEF Wrap, Fits
  <2> DEFINE r == Reserved[RecordOf(call)]
  <2>6. r \in Nat /\ r <= Margin + 2 /\ Margin \in Nat /\ BufferSize \in Nat
    BY <2>4, SizeAssumption
  <2>7. writePos \in Nat /\ atoRead \in Nat /\ atoRead <= BufferSize - 1
    BY <1>1, RecordFacts, SizeAssumption DEF IInv, TypeOK, RingTypes, Position
  <2> HIDE DEF r
  <2>8. writePos + r > BufferSize - 1
    BY <2>4 DEF r
  <2>9. ~(atoRead > writePos)
    BY <2>5, <2>6, <2>7, <2>8
  <2> QED BY <2>1, <2>3, <2>9
<1>2. ASSUME IInv, [Next]_vars
      PROVE  lapped' # lapped => Wrap /\ atoRead = 0
  BY <1>1, <1>2
<1> QED BY <1>2, RingInvariant, PTL DEF Spec
=============================================================================
