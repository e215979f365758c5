------------------------- MODULE VuInterruptsProofs -------------------------
(***************************************************************************)
(* The interrupt hand-off is exact for every word size, any number of      *)
(* programs and any A+D writes.                                            *)
(*                                                                         *)
(* LABEL: a merged word acts like its two parts one after the other.       *)
(* SIGNAL: a write that was not reported as double finds the flag clear    *)
(* and, because only the worker sets it, the EE away from gsSignal.        *)
(* vu1Finish(): after WaitVU() the worker is idle, so the EE's one copy of *)
(* the flags holds all of them.                                            *)
(***************************************************************************)
EXTENDS VuInterrupts, TLAPS

\* Where the EE is decides which flag it has in hand.
InHand ==
    /\ epc = "signal" => "signal" \in interrupts
    /\ epc = "label" => "label" \in interrupts
    /\ epc = "finished" => then = "finished"
    /\ wpc # "idle" => jobs > 0

\* Between its look at the flag and its own flag, an unreported SIGNAL is alone.
SignalIsAlone ==
    /\ wpc \in {"signalStore", "signalRaise"} /\ ~doubled => "signal" \notin flags
    /\ wpc = "signalRaise" => gsSignal = word
    /\ queued => csrSignal

\* Every FINISH is taken, waiting, or reported as double.
FinishIsAccounted ==
    finishes.met = finishes.taken + finishes.reported
                   + (IF "finish" \in flags THEN 1 ELSE 0)

\* From WaitVU() to the return of vu1Finish() the worker is idle.
WorkerIsQuiet ==
    then = "finished" /\ epc \notin {"idle", "wait"} =>
        /\ jobs = 0
        /\ epc \in {"handle", "signal"} => flags \subseteq interrupts
        /\ epc = "label" => flags \subseteq interrupts \ {"label"}
        /\ epc = "finished" => flags = {}

IInv ==
    /\ TypeOK
    /\ InHand
    /\ LabelIsNeverLost
    /\ SignalIsAlone
    /\ SignalIsExact
    /\ FinishIsAccounted
    /\ WorkerIsQuiet

\* Gif_HandlerAD_MTVU() coalesces: the merged LABEL acts like the two LABELs in
\* their order.
LEMMA MergeIsSequential ==
  ASSUME NEW id, NEW a, NEW b
  PROVE  Apply(id, Merge(a, b)) = Apply(Apply(id, a), b)
BY DEF Apply, Merge

\* Nothing waits before the first program.
LEMMA InitIInv == Init => IInv
<1> SUFFICES ASSUME Init PROVE IInv
  OBVIOUS
<1>1. FlagTypes
  BY Zenon DEF Init, FlagTypes
<1>2. TypeOK
  BY <1>1 DEF Init, TypeOK, Word, NoWord, Flag
<1>3. InHand /\ SignalIsAlone /\ FinishIsAccounted /\ WorkerIsQuiet
  BY DEF Init, InHand, SignalIsAlone, FinishIsAccounted, WorkerIsQuiet
<1>4. LabelIsNeverLost /\ SignalIsExact
  BY DEF Init, LabelIsNeverLost, SignalIsExact, Apply, NoWord
<1> QED BY <1>2, <1>3, <1>4 DEF IInv

\* The Boolean variables keep their type.
LEMMA FlagTypesStep ==
  ASSUME IInv, [Next]_vars
  PROVE  FlagTypes'
<1> USE InterruptAssumption DEF IInv, TypeOK, FlagTypes
<1>1. ASSUME NEW reg \in {"signal", "finish", "label"}, NEW w \in Words, Meet(reg, w)
      PROVE  FlagTypes'
  BY <1>1, Zenon DEF Meet, guestVars, pollVars
<1>2. CASE CheckSignal
  BY <1>2, Zenon DEF CheckSignal, guestVars, pollVars
<1>3. CASE StoreSignal
  BY <1>3, Zenon DEF StoreSignal, guestVars, history, pollVars
<1>4. CASE RaiseSignal
  BY <1>4, Zenon DEF RaiseSignal, guestVars, pollVars
<1>5. CASE RaiseFinish
  BY <1>5, Zenon DEF RaiseFinish, guestVars, pollVars
<1>6. CASE JoinLabel
  BY <1>6, Zenon DEF JoinLabel, guestVars, pollVars
<1>7. CASE RaiseLabel
  BY <1>7, Zenon DEF RaiseLabel, guestVars, history, pollVars
<1>8. ASSUME NEW dt \in BOOLEAN, EndProgram(dt)
      PROVE  FlagTypes'
  BY <1>8, Zenon DEF EndProgram, guestVars, history, pollVars
<1>9. CASE Commit
  BY <1>9, Zenon DEF Commit, guestVars, history, pollVars
<1>10. ASSUME NEW next \in {"enqueue", "finished", "idle"}, Call(next)
      PROVE  FlagTypes'
  BY <1>10, Zenon DEF Call, EEStays, history, workerVars
<1>11. CASE WaitVU
  BY <1>11, Zenon DEF WaitVU, EEStays, guestVars, history, workerVars
<1>12. CASE LoadInterrupts
  BY <1>12, Zenon DEF LoadInterrupts, EEStays, guestVars, history, workerVars
<1>13. CASE LoadSignal
  BY <1>13, Zenon DEF LoadSignal, EEStays, guestVars, history, workerVars
<1>14. CASE ClearSignal
  BY <1>14, Zenon DEF ClearSignal, EEStays, workerVars
<1>15. CASE TakeFinish
  BY <1>15, Zenon DEF TakeFinish, EEStays, guestVars, workerVars
<1>16. CASE ClearLabel
  BY <1>16, Zenon DEF ClearLabel, EEStays, guestVars, history, workerVars
<1>17. CASE TakeLabel
  BY <1>17, Zenon DEF TakeLabel, history, workerVars
<1>18. ASSUME NEW bit \in {"E", "T"}, TakeEnd(bit)
      PROVE  FlagTypes'
  BY <1>18, Zenon DEF TakeEnd, EEStays, history, workerVars
<1>19. CASE Return
  BY <1>19, Zenon DEF Return, guestVars
<1>20. CASE Finished
  BY <1>20, Zenon DEF Finished, EEStays, guestVars, history, workerVars
<1>21. CASE ClearCsrSignal
  BY <1>21, Zenon DEF ClearCsrSignal, EEStays, history, pollVars, workerVars
<1>22. CASE UNCHANGED vars
  BY <1>22 DEF vars, workerVars, pollVars, guestVars, history
<1> QED
  BY <1>1, <1>2, <1>3, <1>4, <1>5, <1>6, <1>7, <1>8, <1>9, <1>10, <1>11, <1>12, <1>13, <1>14, <1>15, <1>16, <1>17, <1>18, <1>19, <1>20, <1>21, <1>22 DEF Next, Worker, EE

\* Every step keeps the types.
LEMMA TypeStep ==
  ASSUME IInv, [Next]_vars
  PROVE  TypeOK'
<1> USE InterruptAssumption DEF IInv, TypeOK, InHand, Flag, Word, NoWord, Apply, Merge
<1> FlagTypes'
  BY FlagTypesStep
<1>1. ASSUME NEW reg \in {"signal", "finish", "label"}, NEW w \in Words, Meet(reg, w)
      PROVE  TypeOK'
  BY <1>1 DEF Meet, guestVars, pollVars
<1>2. CASE CheckSignal
  BY <1>2 DEF CheckSignal, guestVars, pollVars
<1>3. CASE StoreSignal
  BY <1>3 DEF StoreSignal, guestVars, history, pollVars
<1>4. CASE RaiseSignal
  BY <1>4 DEF RaiseSignal, guestVars, pollVars
<1>5. CASE RaiseFinish
  BY <1>5 DEF RaiseFinish, guestVars, pollVars
<1>6. CASE JoinLabel
  BY <1>6 DEF JoinLabel, guestVars, pollVars
<1>7. CASE RaiseLabel
  BY <1>7 DEF RaiseLabel, guestVars, history, pollVars
<1>8. ASSUME NEW dt \in BOOLEAN, EndProgram(dt)
      PROVE  TypeOK'
  BY <1>8 DEF EndProgram, guestVars, history, pollVars
<1>9. CASE Commit
  BY <1>9 DEF Commit, guestVars, history, pollVars
<1>10. ASSUME NEW next \in {"enqueue", "finished", "idle"}, Call(next)
      PROVE  TypeOK'
  BY <1>10 DEF Call, EEStays, history, workerVars
<1>11. CASE WaitVU
  BY <1>11 DEF WaitVU, EEStays, guestVars, history, workerVars
<1>12. CASE LoadInterrupts
  BY <1>12 DEF LoadInterrupts, EEStays, guestVars, history, workerVars
<1>13. CASE LoadSignal
  BY <1>13 DEF LoadSignal, EEStays, guestVars, history, workerVars
<1>14. CASE ClearSignal
  BY <1>14 DEF ClearSignal, EEStays, workerVars
<1>15. CASE TakeFinish
  BY <1>15 DEF TakeFinish, EEStays, guestVars, workerVars
<1>16. CASE ClearLabel
  BY <1>16 DEF ClearLabel, EEStays, guestVars, history, workerVars
<1>17. CASE TakeLabel
  BY <1>17 DEF TakeLabel, history, workerVars
<1>18. ASSUME NEW bit \in {"E", "T"}, TakeEnd(bit)
      PROVE  TypeOK'
  BY <1>18 DEF TakeEnd, EEStays, history, workerVars
<1>19. CASE Return
  BY <1>19 DEF Return, guestVars
<1>20. CASE Finished
  BY <1>20 DEF Finished, EEStays, guestVars, history, workerVars
<1>21. CASE ClearCsrSignal
  BY <1>21 DEF ClearCsrSignal, EEStays, history, pollVars, workerVars
<1>22. CASE UNCHANGED vars
  BY <1>22 DEF vars, workerVars, pollVars, guestVars, history
<1> QED
  BY <1>1, <1>2, <1>3, <1>4, <1>5, <1>6, <1>7, <1>8, <1>9, <1>10, <1>11, <1>12, <1>13, <1>14, <1>15, <1>16, <1>17, <1>18, <1>19, <1>20, <1>21, <1>22 DEF Next, Worker, EE

\* Every step keeps InHand.
LEMMA InHandStep ==
  ASSUME IInv, [Next]_vars
  PROVE  InHand'
<1> USE InterruptAssumption DEF IInv, TypeOK, InHand
<1>1. ASSUME NEW reg \in {"signal", "finish", "label"}, NEW w \in Words, Meet(reg, w)
      PROVE  InHand'
  BY <1>1 DEF Meet, guestVars, pollVars
<1>2. CASE CheckSignal
  BY <1>2 DEF CheckSignal, guestVars, pollVars
<1>3. CASE StoreSignal
  BY <1>3 DEF StoreSignal, guestVars, history, pollVars
<1>4. CASE RaiseSignal
  BY <1>4 DEF RaiseSignal, guestVars, pollVars
<1>5. CASE RaiseFinish
  BY <1>5 DEF RaiseFinish, guestVars, pollVars
<1>6. CASE JoinLabel
  BY <1>6 DEF JoinLabel, guestVars, pollVars
<1>7. CASE RaiseLabel
  BY <1>7 DEF RaiseLabel, guestVars, history, pollVars
<1>8. ASSUME NEW dt \in BOOLEAN, EndProgram(dt)
      PROVE  InHand'
  BY <1>8 DEF EndProgram, guestVars, history, pollVars
<1>9. CASE Commit
  BY <1>9 DEF Commit, guestVars, history, pollVars
<1>10. ASSUME NEW next \in {"enqueue", "finished", "idle"}, Call(next)
      PROVE  InHand'
  BY <1>10 DEF Call, EEStays, history, workerVars
<1>11. CASE WaitVU
  BY <1>11 DEF WaitVU, EEStays, guestVars, history, workerVars
<1>12. CASE LoadInterrupts
  BY <1>12 DEF LoadInterrupts, EEStays, guestVars, history, workerVars
<1>13. CASE LoadSignal
  BY <1>13 DEF LoadSignal, EEStays, guestVars, history, workerVars
<1>14. CASE ClearSignal
  BY <1>14 DEF ClearSignal, EEStays, workerVars
<1>15. CASE TakeFinish
  BY <1>15 DEF TakeFinish, EEStays, guestVars, workerVars
<1>16. CASE ClearLabel
  BY <1>16 DEF ClearLabel, EEStays, guestVars, history, workerVars
<1>17. CASE TakeLabel
  BY <1>17 DEF TakeLabel, history, workerVars
<1>18. ASSUME NEW bit \in {"E", "T"}, TakeEnd(bit)
      PROVE  InHand'
  BY <1>18 DEF TakeEnd, EEStays, history, workerVars
<1>19. CASE Return
  BY <1>19 DEF Return, guestVars
<1>20. CASE Finished
  BY <1>20 DEF Finished, EEStays, guestVars, history, workerVars
<1>21. CASE ClearCsrSignal
  BY <1>21 DEF ClearCsrSignal, EEStays, history, pollVars, workerVars
<1>22. CASE UNCHANGED vars
  BY <1>22 DEF vars, workerVars, pollVars, guestVars, history
<1> QED
  BY <1>1, <1>2, <1>3, <1>4, <1>5, <1>6, <1>7, <1>8, <1>9, <1>10, <1>11, <1>12, <1>13, <1>14, <1>15, <1>16, <1>17, <1>18, <1>19, <1>20, <1>21, <1>22 DEF Next, Worker, EE

\* No step loses a LABEL.
LEMMA LabelStep ==
  ASSUME IInv, [Next]_vars
  PROVE  LabelIsNeverLost'
<1> USE InterruptAssumption DEF IInv, TypeOK, InHand, LabelIsNeverLost
<1>1. ASSUME NEW reg \in {"signal", "finish", "label"}, NEW w \in Words, Meet(reg, w)
      PROVE  LabelIsNeverLost'
  BY <1>1 DEF Meet, guestVars, pollVars
<1>2. CASE CheckSignal
  BY <1>2 DEF CheckSignal, guestVars, pollVars
<1>3. CASE StoreSignal
  BY <1>3 DEF StoreSignal, guestVars, history, pollVars
<1>4. CASE RaiseSignal
  BY <1>4 DEF RaiseSignal, guestVars, pollVars
<1>5. CASE RaiseFinish
  BY <1>5 DEF RaiseFinish, guestVars, pollVars
<1>6. CASE JoinLabel
  <2>1. Apply(lblId, gsLabel') = Apply(Apply(lblId, gsLabel), word)
    <3>1. CASE gsLabel' = Merge(gsLabel, word)
      BY <3>1, MergeIsSequential
    <3>2. CASE gsLabel = NoWord /\ gsLabel' = word
      BY <3>2 DEF Apply, NoWord
    <3> QED BY <1>6, <3>1, <3>2 DEF JoinLabel
  <2> QED BY <1>6, <2>1 DEF JoinLabel, guestVars
<1>7. CASE RaiseLabel
  BY <1>7 DEF RaiseLabel, guestVars, history, pollVars
<1>8. ASSUME NEW dt \in BOOLEAN, EndProgram(dt)
      PROVE  LabelIsNeverLost'
  BY <1>8 DEF EndProgram, guestVars, history, pollVars
<1>9. CASE Commit
  BY <1>9 DEF Commit, guestVars, history, pollVars
<1>10. ASSUME NEW next \in {"enqueue", "finished", "idle"}, Call(next)
      PROVE  LabelIsNeverLost'
  BY <1>10 DEF Call, EEStays, history, workerVars
<1>11. CASE WaitVU
  BY <1>11 DEF WaitVU, EEStays, guestVars, history, workerVars
<1>12. CASE LoadInterrupts
  BY <1>12 DEF LoadInterrupts, EEStays, guestVars, history, workerVars
<1>13. CASE LoadSignal
  BY <1>13 DEF LoadSignal, EEStays, guestVars, history, workerVars
<1>14. CASE ClearSignal
  BY <1>14 DEF ClearSignal, EEStays, workerVars
<1>15. CASE TakeFinish
  BY <1>15 DEF TakeFinish, EEStays, guestVars, workerVars
<1>16. CASE ClearLabel
  BY <1>16 DEF ClearLabel, EEStays, guestVars, history, workerVars
<1>17. CASE TakeLabel
  BY <1>17 DEF TakeLabel, history, workerVars, Apply, NoWord
<1>18. ASSUME NEW bit \in {"E", "T"}, TakeEnd(bit)
      PROVE  LabelIsNeverLost'
  BY <1>18 DEF TakeEnd, EEStays, history, workerVars
<1>19. CASE Return
  BY <1>19 DEF Return, guestVars
<1>20. CASE Finished
  BY <1>20 DEF Finished, EEStays, guestVars, history, workerVars
<1>21. CASE ClearCsrSignal
  BY <1>21 DEF ClearCsrSignal, EEStays, history, pollVars, workerVars
<1>22. CASE UNCHANGED vars
  BY <1>22 DEF vars, workerVars, pollVars, guestVars, history
<1> QED
  BY <1>1, <1>2, <1>3, <1>4, <1>5, <1>6, <1>7, <1>8, <1>9, <1>10, <1>11, <1>12, <1>13, <1>14, <1>15, <1>16, <1>17, <1>18, <1>19, <1>20, <1>21, <1>22 DEF Next, Worker, EE

\* Every step keeps SignalIsAlone.
LEMMA AloneStep ==
  ASSUME IInv, [Next]_vars
  PROVE  SignalIsAlone'
<1> USE InterruptAssumption DEF IInv, TypeOK, InHand, SignalIsAlone
<1>1. ASSUME NEW reg \in {"signal", "finish", "label"}, NEW w \in Words, Meet(reg, w)
      PROVE  SignalIsAlone'
  BY <1>1 DEF Meet, guestVars, pollVars
<1>2. CASE CheckSignal
  BY <1>2 DEF CheckSignal, guestVars, pollVars
<1>3. CASE StoreSignal
  BY <1>3 DEF StoreSignal, guestVars, history, pollVars
<1>4. CASE RaiseSignal
  BY <1>4 DEF RaiseSignal, guestVars, pollVars
<1>5. CASE RaiseFinish
  BY <1>5 DEF RaiseFinish, guestVars, pollVars
<1>6. CASE JoinLabel
  BY <1>6 DEF JoinLabel, guestVars, pollVars
<1>7. CASE RaiseLabel
  BY <1>7 DEF RaiseLabel, guestVars, history, pollVars
<1>8. ASSUME NEW dt \in BOOLEAN, EndProgram(dt)
      PROVE  SignalIsAlone'
  BY <1>8 DEF EndProgram, guestVars, history, pollVars
<1>9. CASE Commit
  BY <1>9 DEF Commit, guestVars, history, pollVars
<1>10. ASSUME NEW next \in {"enqueue", "finished", "idle"}, Call(next)
      PROVE  SignalIsAlone'
  BY <1>10 DEF Call, EEStays, history, workerVars
<1>11. CASE WaitVU
  BY <1>11 DEF WaitVU, EEStays, guestVars, history, workerVars
<1>12. CASE LoadInterrupts
  BY <1>12 DEF LoadInterrupts, EEStays, guestVars, history, workerVars
<1>13. CASE LoadSignal
  BY <1>13 DEF LoadSignal, EEStays, guestVars, history, workerVars
<1>14. CASE ClearSignal
  BY <1>14 DEF ClearSignal, EEStays, workerVars
<1>15. CASE TakeFinish
  BY <1>15 DEF TakeFinish, EEStays, guestVars, workerVars
<1>16. CASE ClearLabel
  BY <1>16 DEF ClearLabel, EEStays, guestVars, history, workerVars
<1>17. CASE TakeLabel
  BY <1>17 DEF TakeLabel, history, workerVars
<1>18. ASSUME NEW bit \in {"E", "T"}, TakeEnd(bit)
      PROVE  SignalIsAlone'
  BY <1>18 DEF TakeEnd, EEStays, history, workerVars
<1>19. CASE Return
  BY <1>19 DEF Return, guestVars
<1>20. CASE Finished
  BY <1>20 DEF Finished, EEStays, guestVars, history, workerVars
<1>21. CASE ClearCsrSignal
  BY <1>21 DEF ClearCsrSignal, EEStays, history, pollVars, workerVars
<1>22. CASE UNCHANGED vars
  BY <1>22 DEF vars, workerVars, pollVars, guestVars, history
<1> QED
  BY <1>1, <1>2, <1>3, <1>4, <1>5, <1>6, <1>7, <1>8, <1>9, <1>10, <1>11, <1>12, <1>13, <1>14, <1>15, <1>16, <1>17, <1>18, <1>19, <1>20, <1>21, <1>22 DEF Next, Worker, EE

\* No step loses, tears or repeats an unreported SIGNAL.
LEMMA SignalStep ==
  ASSUME IInv, [Next]_vars
  PROVE  SignalIsExact'
<1> USE InterruptAssumption DEF IInv, TypeOK, InHand, SignalIsAlone, SignalIsExact
<1>1. ASSUME NEW reg \in {"signal", "finish", "label"}, NEW w \in Words, Meet(reg, w)
      PROVE  SignalIsExact'
  BY <1>1 DEF Meet, guestVars, pollVars
<1>2. CASE CheckSignal
  BY <1>2 DEF CheckSignal, guestVars, pollVars
<1>3. CASE StoreSignal
  BY <1>3 DEF StoreSignal, guestVars, history, pollVars
<1>4. CASE RaiseSignal
  BY <1>4 DEF RaiseSignal, guestVars, pollVars
<1>5. CASE RaiseFinish
  BY <1>5 DEF RaiseFinish, guestVars, pollVars
<1>6. CASE JoinLabel
  BY <1>6 DEF JoinLabel, guestVars, pollVars
<1>7. CASE RaiseLabel
  BY <1>7 DEF RaiseLabel, guestVars, history, pollVars
<1>8. ASSUME NEW dt \in BOOLEAN, EndProgram(dt)
      PROVE  SignalIsExact'
  BY <1>8 DEF EndProgram, guestVars, history, pollVars
<1>9. CASE Commit
  BY <1>9 DEF Commit, guestVars, history, pollVars
<1>10. ASSUME NEW next \in {"enqueue", "finished", "idle"}, Call(next)
      PROVE  SignalIsExact'
  BY <1>10 DEF Call, EEStays, history, workerVars
<1>11. CASE WaitVU
  BY <1>11 DEF WaitVU, EEStays, guestVars, history, workerVars
<1>12. CASE LoadInterrupts
  BY <1>12 DEF LoadInterrupts, EEStays, guestVars, history, workerVars
<1>13. CASE LoadSignal
  BY <1>13 DEF LoadSignal, EEStays, guestVars, history, workerVars
<1>14. CASE ClearSignal
  BY <1>14 DEF ClearSignal, EEStays, workerVars
<1>15. CASE TakeFinish
  BY <1>15 DEF TakeFinish, EEStays, guestVars, workerVars
<1>16. CASE ClearLabel
  BY <1>16 DEF ClearLabel, EEStays, guestVars, history, workerVars
<1>17. CASE TakeLabel
  BY <1>17 DEF TakeLabel, history, workerVars
<1>18. ASSUME NEW bit \in {"E", "T"}, TakeEnd(bit)
      PROVE  SignalIsExact'
  BY <1>18 DEF TakeEnd, EEStays, history, workerVars
<1>19. CASE Return
  BY <1>19 DEF Return, guestVars
<1>20. CASE Finished
  BY <1>20 DEF Finished, EEStays, guestVars, history, workerVars
<1>21. CASE ClearCsrSignal
  BY <1>21 DEF ClearCsrSignal, EEStays, history, pollVars, workerVars
<1>22. CASE UNCHANGED vars
  BY <1>22 DEF vars, workerVars, pollVars, guestVars, history
<1> QED
  BY <1>1, <1>2, <1>3, <1>4, <1>5, <1>6, <1>7, <1>8, <1>9, <1>10, <1>11, <1>12, <1>13, <1>14, <1>15, <1>16, <1>17, <1>18, <1>19, <1>20, <1>21, <1>22 DEF Next, Worker, EE

\* No step loses a FINISH.
LEMMA FinishStep ==
  ASSUME IInv, [Next]_vars
  PROVE  FinishIsAccounted'
<1> USE InterruptAssumption DEF IInv, TypeOK, InHand, FinishIsAccounted
<1>1. ASSUME NEW reg \in {"signal", "finish", "label"}, NEW w \in Words, Meet(reg, w)
      PROVE  FinishIsAccounted'
  BY <1>1 DEF Meet, guestVars, pollVars
<1>2. CASE CheckSignal
  BY <1>2 DEF CheckSignal, guestVars, pollVars
<1>3. CASE StoreSignal
  BY <1>3 DEF StoreSignal, guestVars, history, pollVars
<1>4. CASE RaiseSignal
  BY <1>4 DEF RaiseSignal, guestVars, pollVars
<1>5. CASE RaiseFinish
  BY <1>5 DEF RaiseFinish, guestVars, pollVars
<1>6. CASE JoinLabel
  BY <1>6 DEF JoinLabel, guestVars, pollVars
<1>7. CASE RaiseLabel
  BY <1>7 DEF RaiseLabel, guestVars, history, pollVars
<1>8. ASSUME NEW dt \in BOOLEAN, EndProgram(dt)
      PROVE  FinishIsAccounted'
  BY <1>8 DEF EndProgram, guestVars, history, pollVars
<1>9. CASE Commit
  BY <1>9 DEF Commit, guestVars, history, pollVars
<1>10. ASSUME NEW next \in {"enqueue", "finished", "idle"}, Call(next)
      PROVE  FinishIsAccounted'
  BY <1>10 DEF Call, EEStays, history, workerVars
<1>11. CASE WaitVU
  BY <1>11 DEF WaitVU, EEStays, guestVars, history, workerVars
<1>12. CASE LoadInterrupts
  BY <1>12 DEF LoadInterrupts, EEStays, guestVars, history, workerVars
<1>13. CASE LoadSignal
  BY <1>13 DEF LoadSignal, EEStays, guestVars, history, workerVars
<1>14. CASE ClearSignal
  BY <1>14 DEF ClearSignal, EEStays, workerVars
<1>15. CASE TakeFinish
  BY <1>15 DEF TakeFinish, EEStays, guestVars, workerVars
<1>16. CASE ClearLabel
  BY <1>16 DEF ClearLabel, EEStays, guestVars, history, workerVars
<1>17. CASE TakeLabel
  BY <1>17 DEF TakeLabel, history, workerVars
<1>18. ASSUME NEW bit \in {"E", "T"}, TakeEnd(bit)
      PROVE  FinishIsAccounted'
  BY <1>18 DEF TakeEnd, EEStays, history, workerVars
<1>19. CASE Return
  BY <1>19 DEF Return, guestVars
<1>20. CASE Finished
  BY <1>20 DEF Finished, EEStays, guestVars, history, workerVars
<1>21. CASE ClearCsrSignal
  BY <1>21 DEF ClearCsrSignal, EEStays, history, pollVars, workerVars
<1>22. CASE UNCHANGED vars
  BY <1>22 DEF vars, workerVars, pollVars, guestVars, history
<1> QED
  BY <1>1, <1>2, <1>3, <1>4, <1>5, <1>6, <1>7, <1>8, <1>9, <1>10, <1>11, <1>12, <1>13, <1>14, <1>15, <1>16, <1>17, <1>18, <1>19, <1>20, <1>21, <1>22 DEF Next, Worker, EE

\* After WaitVU() every flag is in the EE's copy.
LEMMA QuietStep ==
  ASSUME IInv, [Next]_vars
  PROVE  WorkerIsQuiet'
<1> USE InterruptAssumption DEF IInv, TypeOK, InHand, WorkerIsQuiet
<1>1. ASSUME NEW reg \in {"signal", "finish", "label"}, NEW w \in Words, Meet(reg, w)
      PROVE  WorkerIsQuiet'
  BY <1>1 DEF Meet, guestVars, pollVars
<1>2. CASE CheckSignal
  BY <1>2 DEF CheckSignal, guestVars, pollVars
<1>3. CASE StoreSignal
  BY <1>3 DEF StoreSignal, guestVars, history, pollVars
<1>4. CASE RaiseSignal
  BY <1>4 DEF RaiseSignal, guestVars, pollVars
<1>5. CASE RaiseFinish
  BY <1>5 DEF RaiseFinish, guestVars, pollVars
<1>6. CASE JoinLabel
  BY <1>6 DEF JoinLabel, guestVars, pollVars
<1>7. CASE RaiseLabel
  BY <1>7 DEF RaiseLabel, guestVars, history, pollVars
<1>8. ASSUME NEW dt \in BOOLEAN, EndProgram(dt)
      PROVE  WorkerIsQuiet'
  BY <1>8 DEF EndProgram, guestVars, history, pollVars
<1>9. CASE Commit
  BY <1>9 DEF Commit, guestVars, history, pollVars
<1>10. ASSUME NEW next \in {"enqueue", "finished", "idle"}, Call(next)
      PROVE  WorkerIsQuiet'
  BY <1>10 DEF Call, EEStays, history, workerVars
<1>11. CASE WaitVU
  BY <1>11 DEF WaitVU, EEStays, guestVars, history, workerVars
<1>12. CASE LoadInterrupts
  BY <1>12 DEF LoadInterrupts, EEStays, guestVars, history, workerVars
<1>13. CASE LoadSignal
  BY <1>13 DEF LoadSignal, EEStays, guestVars, history, workerVars
<1>14. CASE ClearSignal
  BY <1>14 DEF ClearSignal, EEStays, workerVars
<1>15. CASE TakeFinish
  BY <1>15 DEF TakeFinish, EEStays, guestVars, workerVars
<1>16. CASE ClearLabel
  BY <1>16 DEF ClearLabel, EEStays, guestVars, history, workerVars
<1>17. CASE TakeLabel
  BY <1>17 DEF TakeLabel, history, workerVars
<1>18. ASSUME NEW bit \in {"E", "T"}, TakeEnd(bit)
      PROVE  WorkerIsQuiet'
  BY <1>18 DEF TakeEnd, EEStays, history, workerVars
<1>19. CASE Return
  BY <1>19 DEF Return, guestVars
<1>20. CASE Finished
  BY <1>20 DEF Finished, EEStays, guestVars, history, workerVars
<1>21. CASE ClearCsrSignal
  BY <1>21 DEF ClearCsrSignal, EEStays, history, pollVars, workerVars
<1>22. CASE UNCHANGED vars
  BY <1>22 DEF vars, workerVars, pollVars, guestVars, history
<1> QED
  BY <1>1, <1>2, <1>3, <1>4, <1>5, <1>6, <1>7, <1>8, <1>9, <1>10, <1>11, <1>12, <1>13, <1>14, <1>15, <1>16, <1>17, <1>18, <1>19, <1>20, <1>21, <1>22 DEF Next, Worker, EE

\* The inductive invariant holds in every behaviour of the hand-off.
THEOREM Inductive == Spec => []IInv
<1>1. IInv /\ [Next]_vars => IInv'
  BY TypeStep, InHandStep, LabelStep, AloneStep, SignalStep, FinishStep, QuietStep
     DEF IInv
<1> QED BY InitIInv, <1>1, PTL DEF Spec

\* mtvuInterrupts, gsSignal and gsLabel keep their types, and the EE's copy of
\* the flags never names one that is gone.
THEOREM TypeCorrect == Spec => []TypeOK
<1>1. IInv => TypeOK
  BY DEF IInv
<1> QED BY Inductive, <1>1, PTL

\* No LABEL write of a VU1 program is lost on its way to LBLID.
THEOREM LabelsAreNeverLost == Spec => []LabelIsNeverLost
<1>1. IInv => LabelIsNeverLost
  BY DEF IInv
<1> QED BY Inductive, <1>1, PTL

\* SIGID is what the SIGNAL writes in their order make of it, unless the code
\* reported a double SIGNAL or replaced the queued one.
THEOREM SignalsAreExact == Spec => []SignalIsExact
<1>1. IInv => SignalIsExact
  BY DEF IInv
<1> QED BY Inductive, <1>1, PTL

\* vu1Finish() returns with every interrupt of the finished programs delivered.
THEOREM FinishIsBarrier == Spec => []FinishDelivers
<1>1. IInv => FinishDelivers
  <2> SUFFICES ASSUME IInv, epc = "finished"
               PROVE  /\ flags = {} /\ gsLabel = NoWord /\ lblId = refLabel
                      /\ finishes.met = finishes.taken + finishes.reported
    BY DEF FinishDelivers
  <2>1. flags = {} /\ wpc = "idle"
    BY DEF IInv, InHand, WorkerIsQuiet, TypeOK
  <2>2. gsLabel = NoWord
    BY <2>1 DEF IInv, LabelIsNeverLost
  <2>3. lblId = refLabel
    BY <2>2 DEF IInv, TypeOK, LabelIsNeverLost, Apply, NoWord
  <2>4. finishes.met = finishes.taken + finishes.reported
    BY <2>1 DEF IInv, TypeOK, FinishIsAccounted
  <2> QED BY <2>1, <2>2, <2>3, <2>4
<1> QED BY Inductive, <1>1, PTL
=============================================================================
