------------------------- MODULE ProgressEventProofs -------------------------
(***************************************************************************)
(* No wake-up of SingleWaiterProgressEvent is lost, for any number of      *)
(* waiting threads.                                                        *)
(*                                                                         *)
(* NoLostWakeup is not inductive: it needs that an idle consumer's         *)
(* publications are all visible (the unlock of PublishQuiescence), so that *)
(* a waiter arming afterwards compares with the newest value, and that the *)
(* flags belong to the one thread holding m_waiter_mutex.                  *)
(***************************************************************************)
EXTENDS ProgressEvent, TLAPS

\* A consumer that stopped publishing did so with everything visible.
QuiescenceIsVisible == cpc = "idle" => seenProgress = progress

IInv ==
    /\ TypeOK
    /\ ArmIsOwned
    /\ QuiescenceIsVisible
    /\ NoLostWakeup

\* Nothing is armed and nothing published initially.
LEMMA InitIInv == Init => IInv
<1> SUFFICES ASSUME Init PROVE IInv
  OBVIOUS
<1>1. FlagTypes
  BY Zenon DEF Init, FlagTypes
<1>2. TypeOK
  BY <1>1, BoundsAssumption DEF Init, TypeOK
<1>3. ArmIsOwned /\ QuiescenceIsVisible /\ NoLostWakeup
  BY FreeAssumption DEF Init, ArmIsOwned, Armed, QuiescenceIsVisible, NoLostWakeup
<1> QED BY <1>2, <1>3 DEF IInv

\* The consumer's steps keep the invariant.
LEMMA ConsumerStep ==
  ASSUME IInv, Consumer
  PROVE  IInv'
<1> USE BoundsAssumption, FreeAssumption DEF IInv
<1>1. CASE Resume
  BY <1>1 DEF Resume, TypeOK, FlagTypes, ArmIsOwned, Armed, QuiescenceIsVisible, NoLostWakeup
<1>2. CASE Publish
  BY <1>2 DEF Publish, TypeOK, FlagTypes, ArmIsOwned, Armed, QuiescenceIsVisible, NoLostWakeup
<1>3. CASE NotifyWakes
  <2>0. FlagTypes'
    BY <1>3, Zenon DEF NotifyWakes, WakeWaiter, TypeOK, FlagTypes
  <2>1. TypeOK'
    BY <1>3, <2>0 DEF NotifyWakes, WakeWaiter, TypeOK
  <2>2. ArmIsOwned'
    BY <1>3 DEF NotifyWakes, WakeWaiter, TypeOK, ArmIsOwned, Armed
  <2>3. QuiescenceIsVisible' /\ NoLostWakeup'
    BY <1>3 DEF NotifyWakes, QuiescenceIsVisible, NoLostWakeup
  <2> QED BY <2>1, <2>2, <2>3
<1>4. CASE PublishQuiescence
  <2>0. FlagTypes'
    BY <1>4, Zenon DEF PublishQuiescence, WakeWaiter, TypeOK, FlagTypes
  <2>1. TypeOK'
    BY <1>4, <2>0 DEF PublishQuiescence, WakeWaiter, TypeOK
  <2>2. ArmIsOwned'
    BY <1>4 DEF PublishQuiescence, WakeWaiter, TypeOK, ArmIsOwned, Armed
  <2>3. QuiescenceIsVisible'
    BY <1>4 DEF PublishQuiescence, WakeWaiter, QuiescenceIsVisible
  <2>4. NoLostWakeup'
    BY <1>4 DEF PublishQuiescence, WakeWaiter, TypeOK, ArmIsOwned, Armed, NoLostWakeup
  <2> QED BY <2>1, <2>2, <2>3, <2>4
<1>5. ASSUME NEW hint \in BOOLEAN, NotifyOfProgress(hint)
      PROVE  IInv'
  BY <1>5 DEF NotifyOfProgress, TypeOK, FlagTypes, ArmIsOwned, Armed, QuiescenceIsVisible,
              NoLostWakeup
<1> QED BY <1>1, <1>2, <1>3, <1>4, <1>5 DEF Consumer

\* The waiters' steps keep the invariant.
LEMMA WaiterStep ==
  ASSUME IInv, NEW w \in Waiter, Wait(w)
  PROVE  IInv'
<1> USE BoundsAssumption, FreeAssumption DEF IInv
<1>1. ASSUME NEW v \in seenProgress .. progress, Call(w, v)
      PROVE  IInv'
  <2>1. TypeOK'
    BY <1>1 DEF Call, TypeOK, FlagTypes
  <2>2. ArmIsOwned' /\ QuiescenceIsVisible' /\ NoLostWakeup'
    BY <1>1 DEF Call, TypeOK, ArmIsOwned, Armed, QuiescenceIsVisible, NoLostWakeup
  <2> QED BY <2>1, <2>2
<1>2. CASE LockWaiterMutex(w)
  BY <1>2 DEF LockWaiterMutex, TypeOK, FlagTypes, ArmIsOwned, Armed, QuiescenceIsVisible,
              NoLostWakeup
<1>3. ASSUME NEW v \in seenProgress .. progress, Arm(w, v)
      PROVE  IInv'
  <2>1. waiterMutex = w /\ ~waiting /\ \A u \in Waiter : ~Armed(u)
    BY <1>3 DEF Arm, TypeOK, ArmIsOwned, Armed
  <2>0. FlagTypes'
    BY <1>3, Zenon DEF Arm, TypeOK, FlagTypes
  <2>2. TypeOK'
    BY <1>3, <2>0 DEF Arm, TypeOK
  <2>3. ArmIsOwned'
    BY <1>3, <2>1 DEF Arm, TypeOK, ArmIsOwned, Armed
  <2>4. QuiescenceIsVisible'
    BY <1>3 DEF Arm, QuiescenceIsVisible
  <2>5. NoLostWakeup'
    BY <1>3, <2>1 DEF Arm, TypeOK, Armed, QuiescenceIsVisible, NoLostWakeup
  <2> QED BY <2>2, <2>3, <2>4, <2>5
<1>4. CASE SemaphoreWait(w)
  BY <1>4 DEF SemaphoreWait, TypeOK, FlagTypes, ArmIsOwned, Armed, QuiescenceIsVisible,
              NoLostWakeup
<1>5. CASE Acknowledge(w)
  <2>1. waiterMutex = w /\ \A u \in Waiter : Armed(u) => u = w
    BY <1>5 DEF Acknowledge, TypeOK, ArmIsOwned, Armed
  <2>0. FlagTypes'
    BY <1>5, Zenon DEF Acknowledge, TypeOK, FlagTypes
  <2>2. TypeOK'
    BY <1>5, <2>0 DEF Acknowledge, TypeOK
  <2>3. ArmIsOwned'
    BY <1>5, <2>1 DEF Acknowledge, TypeOK, ArmIsOwned, Armed
  <2>4. QuiescenceIsVisible'
    BY <1>5 DEF Acknowledge, QuiescenceIsVisible
  <2>5. NoLostWakeup'
    BY <1>5, <2>1 DEF Acknowledge, TypeOK, ArmIsOwned, Armed, NoLostWakeup
  <2> QED BY <2>2, <2>3, <2>4, <2>5
<1> QED BY <1>1, <1>2, <1>3, <1>4, <1>5 DEF Wait

\* The strengthened invariant is inductive.
LEMMA NextIInv == IInv /\ [Next]_vars => IInv'
<1> SUFFICES ASSUME IInv, [Next]_vars PROVE IInv'
  OBVIOUS
<1>1. CASE Consumer
  BY <1>1, ConsumerStep
<1>2. CASE \E w \in Waiter : Wait(w)
  BY <1>2, WaiterStep
<1>3. CASE PostUnclaimedToken
  BY <1>3, BoundsAssumption
  DEF PostUnclaimedToken, IInv, TypeOK, FlagTypes, ArmIsOwned, Armed, QuiescenceIsVisible,
      NoLostWakeup
<1>4. CASE Propagate
  BY <1>4
  DEF Propagate, IInv, TypeOK, FlagTypes, ArmIsOwned, Armed, QuiescenceIsVisible, NoLostWakeup
<1>5. CASE UNCHANGED vars
  BY <1>5
  DEF vars, IInv, TypeOK, FlagTypes, ArmIsOwned, Armed, QuiescenceIsVisible, NoLostWakeup
<1> QED BY <1>1, <1>2, <1>3, <1>4, <1>5 DEF Next

\* The strengthened invariant holds in every reachable state.
THEOREM Invariance == Spec => []IInv
  BY InitIInv, NextIInv, PTL DEF Spec

\* Every variable keeps its type, and Wait() never returns without a token.
THEOREM TypeCorrect == Spec => []TypeOK
  BY Invariance, PTL DEF IInv

\* A claim adds one token, and only to an arm without one; the acknowledgement
\* drains the semaphore.
LEMMA TokenStep == IInv /\ TokenPerClaim /\ [Next]_vars => TokenPerClaim'
<1> SUFFICES ASSUME IInv, TokenPerClaim, [Next]_vars
             PROVE  TokenPerClaim'
  OBVIOUS
<1> USE BoundsAssumption DEF IInv, TypeOK, TokenPerClaim
<1>1. CASE Resume \/ Publish \/ (\E hint \in BOOLEAN : NotifyOfProgress(hint))
  BY <1>1 DEF Resume, Publish, NotifyOfProgress
<1>2. CASE NotifyWakes
  BY <1>2 DEF NotifyWakes, WakeWaiter
<1>3. CASE PublishQuiescence
  BY <1>3 DEF PublishQuiescence, WakeWaiter
<1>4. CASE PostUnclaimedToken
  BY <1>4 DEF PostUnclaimedToken
<1>5. CASE Propagate \/ UNCHANGED vars
  BY <1>5 DEF Propagate, vars
<1>6. ASSUME NEW w \in Waiter, NEW v \in seenProgress .. progress,
             Call(w, v) \/ LockWaiterMutex(w)
      PROVE  TokenPerClaim'
  BY <1>6 DEF Call, LockWaiterMutex
<1>7. ASSUME NEW w \in Waiter, NEW v \in seenProgress .. progress, Arm(w, v)
      PROVE  TokenPerClaim'
  <2>1. ~wakeClaimed
    BY <1>7 DEF Arm, ArmIsOwned, Armed
  <2> QED BY <1>7, <2>1 DEF Arm
<1>8. ASSUME NEW w \in Waiter, SemaphoreWait(w)
      PROVE  TokenPerClaim'
  <2>1. \A u \in Waiter : pc[u] = "wait" => u = w
    BY <1>8 DEF SemaphoreWait, ArmIsOwned, Armed
  <2> QED BY <1>8, <2>1 DEF SemaphoreWait
<1>9. ASSUME NEW w \in Waiter, Acknowledge(w)
      PROVE  TokenPerClaim'
  BY <1>9 DEF Acknowledge
<1> QED
  BY <1>1, <1>2, <1>3, <1>4, <1>5, <1>6, <1>7, <1>8, <1>9
  DEF Next, Consumer, Wait

\* Besides stray tokens there is only the token of the claimed arm, and a
\* claimed sleeper finds it.
THEOREM TokensAreClaims == Spec => []TokenPerClaim
<1>1. Init => TokenPerClaim
  BY DEF Init, TokenPerClaim
<1> QED BY Invariance, <1>1, TokenStep, PTL DEF Spec

\* A consumer that stopped publishing leaves nobody asleep on a stale value.
THEOREM WakeupIsNeverLost == Spec => []NoLostWakeup
  BY Invariance, PTL DEF IInv

\* One arm at a time, owned until acknowledged.
THEOREM ArmHasOneOwner == Spec => []ArmIsOwned
  BY Invariance, PTL DEF IInv
=============================================================================
