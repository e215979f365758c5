--------------------------- MODULE WorkSemaProofs ---------------------------
(***************************************************************************)
(* Proofs about WorkSema, for every set of jobs and every flag word.       *)
(*                                                                         *)
(* The safety invariants are proved together, strengthened by what links   *)
(* the worker's program counter to the sign of the word (PcAndWord), by    *)
(* the window in which a RUNNING_0 word read as "nothing new" is still     *)
(* true (DrainedWindow), and by what the history variable owed holds while *)
(* the wake-up of WaitForEmpty() is under way (OwedWindow).                *)
(***************************************************************************)
EXTENDS WorkSema, TLAPS

\* The worker's position fixes the sign of the word.
PcAndWord ==
    /\ wpc \in {"run", "drained", "checkPost", "ack"} => state >= 0
    /\ wpc \in {"killPost", "dead"} <=> state < -2
    /\ wpc \in {"killPost", "dead"} => state < -Flag
    /\ state = -2 => wpc \in {"spinPost", "spin"}

\* A worker that found its queue empty and whose word still counts nothing
\* has no announced job waiting.
DrainedWindow ==
    (wpc = "drained" /\ state \in {0, Flag}) =>
        \A j \in queue : npc[j] = "queued"

\* While the waiter's wake-up is under way the jobs it waits for are done, or
\* the worker is dead.
OwedWindow ==
    /\ \A j \in owed : npc[j] # "queued"
    /\ wpc \in {"checkPost", "sleepPost", "spinPost"} => owed = {}
    /\ (emptySema > 0 \/ epc = "load") => owed = {} \/ wpc = "dead"

IInv ==
    /\ TypeOK
    /\ PcAndWord
    /\ WakeupIsUnique
    /\ EmptyWakeupIsUnique
    /\ IdleMeansDrained
    /\ DrainedWindow
    /\ OwedWindow
    /\ EmptyIsTrue

\* What every step below starts from.
USE DEF STATE_SPINNING, STATE_SLEEPING, STATE_RUNNING_0, STATE_DEAD

\* The initial word, queue and counters satisfy the invariant.
LEMMA InitIInv == Init => IInv
  BY FlagAssumption
  DEF Init, IInv, TypeOK, PcAndWord, WakeupIsUnique, Asleep,
      EmptyWakeupIsUnique, EmptyOwed, IdleMeansDrained, DrainedWindow,
      OwedWindow, EmptyIsTrue

\* The producers' three steps keep the invariant.
LEMMA ProducerStep ==
  ASSUME IInv, NEW j \in Job, Producer(j)
  PROVE  IInv'
<1> USE FlagAssumption DEF IInv
<1>1. CASE Enqueue(j)
  <2>1. TypeOK'
    BY <1>1 DEF Enqueue, TypeOK
  <2>2. PcAndWord' /\ EmptyWakeupIsUnique' /\ EmptyIsTrue'
    BY <1>1 DEF Enqueue, PcAndWord, EmptyWakeupIsUnique, EmptyOwed, EmptyIsTrue
  <2>3. WakeupIsUnique'
    BY <1>1 DEF Enqueue, TypeOK, WakeupIsUnique, Asleep
  <2>4. IdleMeansDrained' /\ DrainedWindow'
    BY <1>1 DEF Enqueue, TypeOK, IdleMeansDrained, DrainedWindow
  <2>5. OwedWindow'
    BY <1>1 DEF Enqueue, TypeOK, OwedWindow
  <2> QED BY <2>1, <2>2, <2>3, <2>4, <2>5
<1>2. CASE NotifyOfWork(j)
  <2>1. state' = state + 2 /\ state' \in -2 * Flag .. 2 * Flag - 1
    BY <1>2 DEF NotifyOfWork, NotifyRoom, LowBits, TypeOK
  <2>2. TypeOK'
    BY <1>2, <2>1 DEF NotifyOfWork, TypeOK
  <2>3. PcAndWord'
    BY <1>2, <2>1 DEF NotifyOfWork, NotifyRoom, LowBits, TypeOK, PcAndWord
  <2>4. WakeupIsUnique'
    <3>1. CASE state = -1
      BY <1>2, <2>1, <3>1 DEF NotifyOfWork, TypeOK, WakeupIsUnique, Asleep
    <3>2. CASE state # -1
      <4>1. state' # -1
        BY <1>2, <2>1, <3>2 DEF NotifyOfWork, NotifyRoom, LowBits, TypeOK, PcAndWord
      <4>2. npc'[j] = "idle" /\ \A k \in Job : k # j => npc'[k] = npc[k]
        BY <1>2, <3>2 DEF NotifyOfWork, TypeOK
      <4>3. npc[j] # "post"
        BY <1>2 DEF NotifyOfWork
      <4> QED BY <1>2, <3>2, <4>1, <4>2, <4>3
              DEF NotifyOfWork, TypeOK, WakeupIsUnique, Asleep
    <3> QED BY <3>1, <3>2
  <2>5. EmptyWakeupIsUnique' /\ EmptyIsTrue'
    BY <1>2, <2>1 DEF NotifyOfWork, NotifyRoom, LowBits, TypeOK,
                      EmptyWakeupIsUnique, EmptyOwed, EmptyIsTrue
  <2>6. state' \notin {-2, -1}
    BY <1>2, <2>1 DEF NotifyOfWork, NotifyRoom, LowBits, TypeOK, PcAndWord
  <2>7. IdleMeansDrained'
    BY <2>6 DEF IdleMeansDrained
  <2>8. DrainedWindow'
    <3>1. wpc = "drained" => state' \notin {0, Flag}
      BY <1>2, <2>1 DEF NotifyOfWork, NotifyRoom, LowBits, TypeOK, PcAndWord
    <3> QED BY <1>2, <3>1 DEF NotifyOfWork, DrainedWindow
  <2>9. OwedWindow'
    BY <1>2 DEF NotifyOfWork, TypeOK, OwedWindow
  <2> QED BY <2>2, <2>3, <2>4, <2>5, <2>7, <2>8, <2>9
<1>3. CASE NotifyPost(j)
  <2>1. TypeOK'
    BY <1>3 DEF NotifyPost, TypeOK
  <2>2. PcAndWord' /\ EmptyWakeupIsUnique' /\ EmptyIsTrue'
    BY <1>3 DEF NotifyPost, PcAndWord, EmptyWakeupIsUnique, EmptyOwed, EmptyIsTrue
  <2>3. WakeupIsUnique'
    BY <1>3 DEF NotifyPost, TypeOK, WakeupIsUnique, Asleep
  <2>4. IdleMeansDrained' /\ DrainedWindow' /\ OwedWindow'
    BY <1>3 DEF NotifyPost, TypeOK, IdleMeansDrained, DrainedWindow, OwedWindow
  <2> QED BY <2>1, <2>2, <2>3, <2>4
<1> QED BY <1>1, <1>2, <1>3 DEF Producer

\* The worker's steps keep the invariant.
LEMMA WorkerStep ==
  ASSUME IInv, Worker
  PROVE  IInv'
<1> USE FlagAssumption DEF IInv
<1>1. ASSUME NEW j \in Job, Process(j)
      PROVE  IInv'
  <2>1. TypeOK' /\ PcAndWord'
    BY <1>1 DEF Process, TypeOK, PcAndWord
  <2>2. WakeupIsUnique' /\ EmptyWakeupIsUnique'
    BY <1>1 DEF Process, WakeupIsUnique, Asleep, EmptyWakeupIsUnique, EmptyOwed
  <2>3. IdleMeansDrained' /\ DrainedWindow'
    BY <1>1 DEF Process, IdleMeansDrained, DrainedWindow
  <2>4. OwedWindow' /\ EmptyIsTrue'
    BY <1>1 DEF Process, OwedWindow, EmptyIsTrue
  <2> QED BY <2>1, <2>2, <2>3, <2>4
<1>2. CASE SeeQueueEmpty
  <2>1. TypeOK' /\ PcAndWord'
    BY <1>2 DEF SeeQueueEmpty, TypeOK, PcAndWord, WakeupIsUnique, Asleep
  <2>2. WakeupIsUnique'
    BY <1>2 DEF SeeQueueEmpty, TypeOK, PcAndWord, WakeupIsUnique, Asleep
  <2>3. EmptyWakeupIsUnique'
    BY <1>2 DEF SeeQueueEmpty, TypeOK, PcAndWord, WakeupIsUnique, Asleep,
                EmptyWakeupIsUnique, EmptyOwed
  <2>4. IdleMeansDrained' /\ DrainedWindow'
    BY <1>2 DEF SeeQueueEmpty, TypeOK, PcAndWord, IdleMeansDrained, DrainedWindow
  <2>5. OwedWindow' /\ EmptyIsTrue'
    BY <1>2 DEF SeeQueueEmpty, TypeOK, PcAndWord, DrainedWindow, IdleMeansDrained,
                OwedWindow, EmptyIsTrue, EmptyWakeupIsUnique, EmptyOwed
  <2> QED BY <2>1, <2>2, <2>3, <2>4, <2>5
<1>3. CASE CheckForWork
  <2>1. TypeOK' /\ PcAndWord'
    BY <1>3 DEF CheckForWork, TypeOK, PcAndWord, WakeupIsUnique, Asleep, WaitingEmpty, FlagPart, LowBits, IsReadyForSleep
  <2>2. WakeupIsUnique'
    BY <1>3 DEF CheckForWork, TypeOK, PcAndWord, WakeupIsUnique, Asleep, WaitingEmpty, FlagPart, LowBits, IsReadyForSleep
  <2>3. EmptyWakeupIsUnique'
    BY <1>3 DEF CheckForWork, TypeOK, PcAndWord, WakeupIsUnique, Asleep,
                EmptyWakeupIsUnique, EmptyOwed, WaitingEmpty, FlagPart, LowBits, IsReadyForSleep
  <2>4. IdleMeansDrained' /\ DrainedWindow'
    BY <1>3 DEF CheckForWork, TypeOK, PcAndWord, IdleMeansDrained, DrainedWindow, WaitingEmpty, FlagPart, LowBits, IsReadyForSleep
  <2>5. OwedWindow' /\ EmptyIsTrue'
    BY <1>3 DEF CheckForWork, TypeOK, PcAndWord, DrainedWindow, IdleMeansDrained,
                OwedWindow, EmptyIsTrue, EmptyWakeupIsUnique, EmptyOwed, WaitingEmpty, FlagPart, LowBits, IsReadyForSleep
  <2> QED BY <2>1, <2>2, <2>3, <2>4, <2>5
<1>4. CASE WaitForWork
  <2>1. TypeOK' /\ PcAndWord'
    BY <1>4 DEF WaitForWork, TypeOK, PcAndWord, WakeupIsUnique, Asleep, WaitingEmpty, FlagPart, LowBits, IsReadyForSleep, NextStateWaitForWork
  <2>2. WakeupIsUnique'
    BY <1>4 DEF WaitForWork, TypeOK, PcAndWord, WakeupIsUnique, Asleep, WaitingEmpty, FlagPart, LowBits, IsReadyForSleep, NextStateWaitForWork
  <2>3. EmptyWakeupIsUnique'
    BY <1>4 DEF WaitForWork, TypeOK, PcAndWord, WakeupIsUnique, Asleep,
                EmptyWakeupIsUnique, EmptyOwed, WaitingEmpty, FlagPart, LowBits, IsReadyForSleep, NextStateWaitForWork
  <2>4. IdleMeansDrained' /\ DrainedWindow'
    BY <1>4 DEF WaitForWork, TypeOK, PcAndWord, IdleMeansDrained, DrainedWindow, WaitingEmpty, FlagPart, LowBits, IsReadyForSleep, NextStateWaitForWork
  <2>5. OwedWindow' /\ EmptyIsTrue'
    BY <1>4 DEF WaitForWork, TypeOK, PcAndWord, DrainedWindow, IdleMeansDrained,
                OwedWindow, EmptyIsTrue, EmptyWakeupIsUnique, EmptyOwed, WaitingEmpty, FlagPart, LowBits, IsReadyForSleep, NextStateWaitForWork
  <2> QED BY <2>1, <2>2, <2>3, <2>4, <2>5
<1>5. CASE WaitForWorkWithSpin
  <2>1. TypeOK' /\ PcAndWord'
    BY <1>5 DEF WaitForWorkWithSpin, TypeOK, PcAndWord, WakeupIsUnique, Asleep, WaitingEmpty, FlagPart, LowBits, IsReadyForSleep
  <2>2. WakeupIsUnique'
    BY <1>5 DEF WaitForWorkWithSpin, TypeOK, PcAndWord, WakeupIsUnique, Asleep, WaitingEmpty, FlagPart, LowBits, IsReadyForSleep
  <2>3. EmptyWakeupIsUnique'
    BY <1>5 DEF WaitForWorkWithSpin, TypeOK, PcAndWord, WakeupIsUnique, Asleep,
                EmptyWakeupIsUnique, EmptyOwed, WaitingEmpty, FlagPart, LowBits, IsReadyForSleep
  <2>4. IdleMeansDrained' /\ DrainedWindow'
    BY <1>5 DEF WaitForWorkWithSpin, TypeOK, PcAndWord, IdleMeansDrained, DrainedWindow, WaitingEmpty, FlagPart, LowBits, IsReadyForSleep
  <2>5. OwedWindow' /\ EmptyIsTrue'
    BY <1>5 DEF WaitForWorkWithSpin, TypeOK, PcAndWord, DrainedWindow, IdleMeansDrained,
                OwedWindow, EmptyIsTrue, EmptyWakeupIsUnique, EmptyOwed, WaitingEmpty, FlagPart, LowBits, IsReadyForSleep
  <2> QED BY <2>1, <2>2, <2>3, <2>4, <2>5
<1>6. CASE PostEmpty
  <2>1. TypeOK' /\ PcAndWord'
    BY <1>6 DEF PostEmpty, TypeOK, PcAndWord, WakeupIsUnique, Asleep
  <2>2. WakeupIsUnique'
    BY <1>6 DEF PostEmpty, TypeOK, PcAndWord, WakeupIsUnique, Asleep
  <2>3. EmptyWakeupIsUnique'
    BY <1>6 DEF PostEmpty, TypeOK, PcAndWord, WakeupIsUnique, Asleep,
                EmptyWakeupIsUnique, EmptyOwed
  <2>4. IdleMeansDrained' /\ DrainedWindow'
    BY <1>6 DEF PostEmpty, TypeOK, PcAndWord, IdleMeansDrained, DrainedWindow
  <2>5. OwedWindow' /\ EmptyIsTrue'
    BY <1>6 DEF PostEmpty, TypeOK, PcAndWord, DrainedWindow, IdleMeansDrained,
                OwedWindow, EmptyIsTrue, EmptyWakeupIsUnique, EmptyOwed
  <2> QED BY <2>1, <2>2, <2>3, <2>4, <2>5
<1>7. CASE SpinSeesWork
  <2>1. TypeOK' /\ PcAndWord'
    BY <1>7 DEF SpinSeesWork, TypeOK, PcAndWord, WakeupIsUnique, Asleep
  <2>2. WakeupIsUnique'
    BY <1>7 DEF SpinSeesWork, TypeOK, PcAndWord, WakeupIsUnique, Asleep
  <2>3. EmptyWakeupIsUnique'
    BY <1>7 DEF SpinSeesWork, TypeOK, PcAndWord, WakeupIsUnique, Asleep,
                EmptyWakeupIsUnique, EmptyOwed
  <2>4. IdleMeansDrained' /\ DrainedWindow'
    BY <1>7 DEF SpinSeesWork, TypeOK, PcAndWord, IdleMeansDrained, DrainedWindow
  <2>5. OwedWindow' /\ EmptyIsTrue'
    BY <1>7 DEF SpinSeesWork, TypeOK, PcAndWord, DrainedWindow, IdleMeansDrained,
                OwedWindow, EmptyIsTrue, EmptyWakeupIsUnique, EmptyOwed
  <2> QED BY <2>1, <2>2, <2>3, <2>4, <2>5
<1>8. CASE SpinTimeout
  <2>1. TypeOK' /\ PcAndWord'
    BY <1>8 DEF SpinTimeout, TypeOK, PcAndWord, WakeupIsUnique, Asleep
  <2>2. WakeupIsUnique'
    BY <1>8 DEF SpinTimeout, TypeOK, PcAndWord, WakeupIsUnique, Asleep
  <2>3. EmptyWakeupIsUnique'
    BY <1>8 DEF SpinTimeout, TypeOK, PcAndWord, WakeupIsUnique, Asleep,
                EmptyWakeupIsUnique, EmptyOwed
  <2>4. IdleMeansDrained' /\ DrainedWindow'
    BY <1>8 DEF SpinTimeout, TypeOK, PcAndWord, IdleMeansDrained, DrainedWindow
  <2>5. OwedWindow' /\ EmptyIsTrue'
    BY <1>8 DEF SpinTimeout, TypeOK, PcAndWord, DrainedWindow, IdleMeansDrained,
                OwedWindow, EmptyIsTrue, EmptyWakeupIsUnique, EmptyOwed
  <2> QED BY <2>1, <2>2, <2>3, <2>4, <2>5
<1>9. CASE SleepWait
  <2>1. TypeOK' /\ PcAndWord'
    BY <1>9 DEF SleepWait, TypeOK, PcAndWord, WakeupIsUnique, Asleep
  <2>2. WakeupIsUnique'
    BY <1>9 DEF SleepWait, TypeOK, PcAndWord, WakeupIsUnique, Asleep
  <2>3. EmptyWakeupIsUnique'
    BY <1>9 DEF SleepWait, TypeOK, PcAndWord, WakeupIsUnique, Asleep,
                EmptyWakeupIsUnique, EmptyOwed
  <2>4. IdleMeansDrained' /\ DrainedWindow'
    BY <1>9 DEF SleepWait, TypeOK, PcAndWord, IdleMeansDrained, DrainedWindow
  <2>5. OwedWindow' /\ EmptyIsTrue'
    BY <1>9 DEF SleepWait, TypeOK, PcAndWord, DrainedWindow, IdleMeansDrained,
                OwedWindow, EmptyIsTrue, EmptyWakeupIsUnique, EmptyOwed
  <2> QED BY <2>1, <2>2, <2>3, <2>4, <2>5
<1>10. CASE Acknowledge
  <2>1. TypeOK' /\ PcAndWord'
    BY <1>10 DEF Acknowledge, TypeOK, PcAndWord, WakeupIsUnique, Asleep, WaitingEmpty, FlagPart
  <2>2. WakeupIsUnique'
    BY <1>10 DEF Acknowledge, TypeOK, PcAndWord, WakeupIsUnique, Asleep, WaitingEmpty, FlagPart
  <2>3. EmptyWakeupIsUnique'
    BY <1>10 DEF Acknowledge, TypeOK, PcAndWord, WakeupIsUnique, Asleep,
                EmptyWakeupIsUnique, EmptyOwed, WaitingEmpty, FlagPart
  <2>4. IdleMeansDrained' /\ DrainedWindow'
    BY <1>10 DEF Acknowledge, TypeOK, PcAndWord, IdleMeansDrained, DrainedWindow, WaitingEmpty, FlagPart
  <2>5. OwedWindow' /\ EmptyIsTrue'
    BY <1>10 DEF Acknowledge, TypeOK, PcAndWord, DrainedWindow, IdleMeansDrained,
                OwedWindow, EmptyIsTrue, EmptyWakeupIsUnique, EmptyOwed, WaitingEmpty, FlagPart
  <2> QED BY <2>1, <2>2, <2>3, <2>4, <2>5
<1>11. CASE Kill
  <2>1. TypeOK' /\ PcAndWord'
    BY <1>11 DEF Kill, TypeOK, PcAndWord, WakeupIsUnique, Asleep, WaitingEmpty
  <2>2. WakeupIsUnique'
    BY <1>11 DEF Kill, TypeOK, PcAndWord, WakeupIsUnique, Asleep, WaitingEmpty
  <2>3. EmptyWakeupIsUnique'
    BY <1>11 DEF Kill, TypeOK, PcAndWord, WakeupIsUnique, Asleep,
                EmptyWakeupIsUnique, EmptyOwed, WaitingEmpty
  <2>4. IdleMeansDrained' /\ DrainedWindow'
    BY <1>11 DEF Kill, TypeOK, PcAndWord, IdleMeansDrained, DrainedWindow, WaitingEmpty
  <2>5. OwedWindow' /\ EmptyIsTrue'
    BY <1>11 DEF Kill, TypeOK, PcAndWord, DrainedWindow, IdleMeansDrained,
                OwedWindow, EmptyIsTrue, EmptyWakeupIsUnique, EmptyOwed, WaitingEmpty
  <2> QED BY <2>1, <2>2, <2>3, <2>4, <2>5
<1>12. CASE Reset
  <2>1. TypeOK' /\ PcAndWord'
    BY <1>12 DEF Reset, TypeOK, PcAndWord, WakeupIsUnique, Asleep
  <2>2. WakeupIsUnique'
    BY <1>12 DEF Reset, TypeOK, PcAndWord, WakeupIsUnique, Asleep
  <2>3. EmptyWakeupIsUnique'
    BY <1>12 DEF Reset, TypeOK, PcAndWord, WakeupIsUnique, Asleep,
                EmptyWakeupIsUnique, EmptyOwed
  <2>4. IdleMeansDrained' /\ DrainedWindow'
    BY <1>12 DEF Reset, TypeOK, PcAndWord, IdleMeansDrained, DrainedWindow
  <2>5. OwedWindow' /\ EmptyIsTrue'
    BY <1>12 DEF Reset, TypeOK, PcAndWord, DrainedWindow, IdleMeansDrained,
                OwedWindow, EmptyIsTrue, EmptyWakeupIsUnique, EmptyOwed
  <2> QED BY <2>1, <2>2, <2>3, <2>4, <2>5
<1> QED BY <1>1, <1>2, <1>3, <1>4, <1>5, <1>6, <1>7, <1>8, <1>9, <1>10, <1>11, <1>12 DEF Worker

\* The steps of the thread in WaitForEmpty() keep the invariant.
LEMMA WaiterStep ==
  ASSUME IInv, Waiter
  PROVE  IInv'
<1> USE FlagAssumption DEF IInv
<1>1. CASE WaitForEmptyCall
  <2>1. TypeOK' /\ PcAndWord'
    BY <1>1 DEF WaitForEmptyCall, TypeOK, PcAndWord, WakeupIsUnique, Asleep
  <2>2. WakeupIsUnique'
    BY <1>1 DEF WaitForEmptyCall, TypeOK, PcAndWord, WakeupIsUnique, Asleep
  <2>3. EmptyWakeupIsUnique'
    BY <1>1 DEF WaitForEmptyCall, TypeOK, PcAndWord, WakeupIsUnique, Asleep,
                EmptyWakeupIsUnique, EmptyOwed
  <2>4. IdleMeansDrained' /\ DrainedWindow'
    BY <1>1 DEF WaitForEmptyCall, TypeOK, PcAndWord, IdleMeansDrained, DrainedWindow
  <2>5. OwedWindow' /\ EmptyIsTrue'
    BY <1>1 DEF WaitForEmptyCall, TypeOK, PcAndWord, DrainedWindow, IdleMeansDrained,
                OwedWindow, EmptyIsTrue, EmptyWakeupIsUnique, EmptyOwed
  <2> QED BY <2>1, <2>2, <2>3, <2>4, <2>5
<1>2. CASE WaitForEmptyCheck
  <2>1. TypeOK' /\ PcAndWord'
    BY <1>2 DEF WaitForEmptyCheck, TypeOK, PcAndWord, WakeupIsUnique, Asleep, WaitingEmpty, FlagPart, Return, IsDead
  <2>2. WakeupIsUnique'
    BY <1>2 DEF WaitForEmptyCheck, TypeOK, PcAndWord, WakeupIsUnique, Asleep, WaitingEmpty, FlagPart, Return, IsDead
  <2>3. EmptyWakeupIsUnique'
    BY <1>2 DEF WaitForEmptyCheck, TypeOK, PcAndWord, WakeupIsUnique, Asleep,
                EmptyWakeupIsUnique, EmptyOwed, WaitingEmpty, FlagPart, Return, IsDead
  <2>4. IdleMeansDrained' /\ DrainedWindow'
    BY <1>2 DEF WaitForEmptyCheck, TypeOK, PcAndWord, IdleMeansDrained, DrainedWindow, WaitingEmpty, FlagPart, Return, IsDead
  <2>5. OwedWindow' /\ EmptyIsTrue'
    BY <1>2 DEF WaitForEmptyCheck, TypeOK, PcAndWord, DrainedWindow, IdleMeansDrained,
                OwedWindow, EmptyIsTrue, EmptyWakeupIsUnique, EmptyOwed, WaitingEmpty, FlagPart, Return, IsDead
  <2> QED BY <2>1, <2>2, <2>3, <2>4, <2>5
<1>3. CASE WaitForEmptySleep
  <2>1. TypeOK' /\ PcAndWord'
    BY <1>3 DEF WaitForEmptySleep, TypeOK, PcAndWord, WakeupIsUnique, Asleep
  <2>2. WakeupIsUnique'
    BY <1>3 DEF WaitForEmptySleep, TypeOK, PcAndWord, WakeupIsUnique, Asleep
  <2>3. EmptyWakeupIsUnique'
    BY <1>3 DEF WaitForEmptySleep, TypeOK, PcAndWord, WakeupIsUnique, Asleep,
                EmptyWakeupIsUnique, EmptyOwed
  <2>4. IdleMeansDrained' /\ DrainedWindow'
    BY <1>3 DEF WaitForEmptySleep, TypeOK, PcAndWord, IdleMeansDrained, DrainedWindow
  <2>5. OwedWindow' /\ EmptyIsTrue'
    BY <1>3 DEF WaitForEmptySleep, TypeOK, PcAndWord, DrainedWindow, IdleMeansDrained,
                OwedWindow, EmptyIsTrue, EmptyWakeupIsUnique, EmptyOwed
  <2> QED BY <2>1, <2>2, <2>3, <2>4, <2>5
<1>4. CASE WaitForEmptyReturn
  <2>1. TypeOK' /\ PcAndWord'
    BY <1>4 DEF WaitForEmptyReturn, TypeOK, PcAndWord, WakeupIsUnique, Asleep, Return, IsDead
  <2>2. WakeupIsUnique'
    BY <1>4 DEF WaitForEmptyReturn, TypeOK, PcAndWord, WakeupIsUnique, Asleep, Return, IsDead
  <2>3. EmptyWakeupIsUnique'
    BY <1>4 DEF WaitForEmptyReturn, TypeOK, PcAndWord, WakeupIsUnique, Asleep,
                EmptyWakeupIsUnique, EmptyOwed, Return, IsDead
  <2>4. IdleMeansDrained' /\ DrainedWindow'
    BY <1>4 DEF WaitForEmptyReturn, TypeOK, PcAndWord, IdleMeansDrained, DrainedWindow, Return, IsDead
  <2>5. OwedWindow' /\ EmptyIsTrue'
    BY <1>4 DEF WaitForEmptyReturn, TypeOK, PcAndWord, DrainedWindow, IdleMeansDrained,
                OwedWindow, EmptyIsTrue, EmptyWakeupIsUnique, EmptyOwed, Return, IsDead
  <2> QED BY <2>1, <2>2, <2>3, <2>4, <2>5
<1> QED BY <1>1, <1>2, <1>3, <1>4 DEF Waiter

\* The strengthened invariant is inductive.
LEMMA NextIInv == IInv /\ [Next]_vars => IInv'
<1> SUFFICES ASSUME IInv, [Next]_vars PROVE IInv'
  OBVIOUS
<1>1. CASE \E j \in Job : Producer(j)
  BY <1>1, ProducerStep
<1>2. CASE Worker
  BY <1>2, WorkerStep
<1>3. CASE Waiter
  BY <1>3, WaiterStep
<1>4. CASE UNCHANGED vars
  BY <1>4
  DEF vars, IInv, TypeOK, PcAndWord, WakeupIsUnique, Asleep,
      EmptyWakeupIsUnique, EmptyOwed, IdleMeansDrained, DrainedWindow,
      OwedWindow, EmptyIsTrue
<1> QED BY <1>1, <1>2, <1>3, <1>4 DEF Next

\* The strengthened invariant holds in every reachable state.
THEOREM Invariance == Spec => []IInv
  BY InitIInv, NextIInv, PTL DEF Spec

\* m_state never leaves its word and every counter its type.
THEOREM TypeCorrect == Spec => []TypeOK
  BY Invariance, PTL DEF IInv

\* The worker's wake-up is never lost and never doubled: no token outlives the
\* sleep it ends.
THEOREM WakeupNeverLost == Spec => []WakeupIsUnique
  BY Invariance, PTL DEF IInv

\* The same for the thread sleeping in WaitForEmpty().
THEOREM EmptyWakeupNeverLost == Spec => []EmptyWakeupIsUnique
  BY Invariance, PTL DEF IInv

\* A SLEEPING or SPINNING word certifies that announced work is done.
THEOREM IdleWordIsHonest == Spec => []IdleMeansDrained
  BY Invariance, PTL DEF IInv

\* WaitForEmpty() returns true only with everything announced before it done.
THEOREM WaitForEmptyIsCorrect == Spec => []EmptyIsTrue
  BY Invariance, PTL DEF IInv
=============================================================================
