---------------------------- MODULE ProgressEvent ----------------------------
(***************************************************************************)
(* Threading::SingleWaiterProgressEvent                                    *)
(* (common/SingleWaiterProgressEvent.h): threads wait for one consumer to  *)
(* move a progress word; the consumer pays one relaxed load per item and   *)
(* takes the lock only to wake, or before it stops publishing.             *)
(*                                                                         *)
(* A section under m_mutex is one action.  Relaxed and release accesses    *)
(* outside the lock may be late: seenProgress and seenHint are the oldest  *)
(* values the other side may still read, and a section under m_mutex       *)
(* brings the thread that runs it up to date, as an unlock/lock pair does. *)
(***************************************************************************)
EXTENDS Integers

CONSTANTS
    Waiter,         \* the threads that may call WaitForChange()
    MaxProgress,    \* bound on the publications of one behaviour
    MaxStray        \* bound on PostUnclaimedTokenForValidation() calls

ASSUME BoundsAssumption == MaxProgress \in Nat /\ MaxStray \in Nat
ASSUME FreeAssumption == "free" \notin Waiter  \* no thread has the free mutex's name

VARIABLES
    progress,       \* the progress word as its writer, the consumer, knows it
    seenProgress,   \* oldest value a waiter may still read from it
    waitingHint,    \* m_waiting_hint, last value stored
    seenHint,       \* oldest value the consumer may still read from it
    waiterMutex,    \* the owner of m_waiter_mutex, or "free"
    waiting,        \* m_waiting
    wakeClaimed,    \* m_wake_claimed
    semaphore,      \* tokens of m_semaphore
    cpc,            \* where the consumer is
    pc,             \* pc[w]: where waiter w is
    observed,       \* observed[w]: the argument of its WaitForChange() call
    strays          \* unclaimed tokens posted so far

vars == <<progress, seenProgress, waitingHint, seenHint, waiterMutex, waiting,
          wakeClaimed, semaphore, cpc, pc, observed, strays>>

-----------------------------------------------------------------------------
(* The consumer *)

\* Mutant: the waker forgets to claim, as if any token could end a wait.
WakeWaiterUnclaimed ==
    /\ IF waiting /\ ~wakeClaimed
       THEN /\ waitingHint' = FALSE
            /\ semaphore' = semaphore + 1
            /\ UNCHANGED wakeClaimed
       ELSE UNCHANGED <<wakeClaimed, waitingHint, semaphore>>
    /\ seenProgress' = progress
    /\ seenHint' = waitingHint'

\* Mutant: m_waiting alone decides, so a claimed arm is posted again.
WakeWaiterTwice ==
    /\ IF waiting
       THEN /\ wakeClaimed' = TRUE
            /\ waitingHint' = FALSE
            /\ semaphore' = semaphore + 1
       ELSE UNCHANGED <<wakeClaimed, waitingHint, semaphore>>
    /\ seenProgress' = progress
    /\ seenHint' = waitingHint'

\* WakeWaiter(): the whole section under m_mutex
WakeWaiter ==
    /\ IF waiting /\ ~wakeClaimed
       THEN /\ wakeClaimed' = TRUE
            /\ waitingHint' = FALSE
            /\ semaphore' = semaphore + 1
       ELSE UNCHANGED <<wakeClaimed, waitingHint, semaphore>>
    /\ seenProgress' = progress
    /\ seenHint' = waitingHint'

\* The consumer finds work again.
Resume ==
    /\ cpc = "idle" /\ progress < MaxProgress
    /\ cpc' = "busy"
    /\ UNCHANGED <<progress, seenProgress, waitingHint, seenHint, waiterMutex,
                   waiting, wakeClaimed, semaphore, pc, observed, strays>>

Publish ==
    /\ cpc = "busy" /\ progress < MaxProgress
    /\ progress' = progress + 1
    /\ cpc' = "notify"
    /\ UNCHANGED <<seenProgress, waitingHint, seenHint, waiterMutex, waiting,
                   wakeClaimed, semaphore, pc, observed, strays>>

\* NotifyOfProgress(): a relaxed load, then WakeWaiter() if the hint was seen
NotifyOfProgress(hint) ==
    /\ cpc = "notify" /\ hint \in {seenHint, waitingHint}
    /\ cpc' = IF hint THEN "wake" ELSE "busy"
    /\ UNCHANGED <<progress, seenProgress, waitingHint, seenHint, waiterMutex,
                   waiting, wakeClaimed, semaphore, pc, observed, strays>>

NotifyWakes ==
    /\ cpc = "wake"
    /\ cpc' = "busy"
    /\ WakeWaiter
    /\ UNCHANGED <<progress, waiterMutex, waiting, pc, observed, strays>>

\* Mutant: the lock is skipped when the hint reads false.
PublishQuiescenceByHint ==
    /\ cpc = "busy"
    /\ cpc' = "idle"
    /\ \E hint \in {seenHint, waitingHint} :
          IF hint
          THEN WakeWaiter
          ELSE UNCHANGED <<seenProgress, waitingHint, seenHint, wakeClaimed,
                           semaphore>>
    /\ UNCHANGED <<progress, waiterMutex, waiting, pc, observed, strays>>

PublishQuiescence ==
    /\ cpc = "busy"
    /\ cpc' = "idle"
    /\ WakeWaiter
    /\ UNCHANGED <<progress, waiterMutex, waiting, pc, observed, strays>>

-----------------------------------------------------------------------------
(* The waiters: WaitForChange(observed, read_progress) *)

\* The caller has read the progress word; the value may be an old one.
Call(w, v) ==
    /\ pc[w] = "idle" /\ v \in seenProgress .. progress
    /\ observed' = [observed EXCEPT ![w] = v]
    /\ pc' = [pc EXCEPT ![w] = "call"]
    /\ UNCHANGED <<progress, seenProgress, waitingHint, seenHint, waiterMutex,
                   waiting, wakeClaimed, semaphore, cpc, strays>>

LockWaiterMutex(w) ==
    /\ pc[w] = "call" /\ waiterMutex = "free"
    /\ waiterMutex' = w
    /\ pc' = [pc EXCEPT ![w] = "arm"]
    /\ UNCHANGED <<progress, seenProgress, waitingHint, seenHint, waiting,
                   wakeClaimed, semaphore, cpc, observed, strays>>

\* The recheck under m_mutex; v is what read_progress() returns there, never
\* older than what the same thread has read before.
Arm(w, v) ==
    /\ pc[w] = "arm" /\ v \in seenProgress .. progress /\ v >= observed[w]
    /\ IF v # observed[w]
       THEN /\ pc' = [pc EXCEPT ![w] = "idle"]
            /\ waiterMutex' = "free"
            /\ UNCHANGED <<waiting, wakeClaimed, waitingHint>>
       ELSE /\ pc' = [pc EXCEPT ![w] = "wait"]
            /\ waiting' = TRUE
            /\ wakeClaimed' = FALSE
            /\ waitingHint' = TRUE
            /\ UNCHANGED waiterMutex
    /\ UNCHANGED <<progress, seenProgress, seenHint, semaphore, cpc, observed,
                   strays>>

\* Mutant: an interrupted sem_wait() returns without a token.
SemaphoreWaitInterrupted(w) ==
    /\ pc[w] = "wait"
    /\ semaphore' = semaphore - 1
    /\ pc' = [pc EXCEPT ![w] = "woken"]
    /\ UNCHANGED <<progress, seenProgress, waitingHint, seenHint, waiterMutex,
                   waiting, wakeClaimed, cpc, observed, strays>>

SemaphoreWait(w) ==
    /\ pc[w] = "wait" /\ semaphore > 0
    /\ semaphore' = semaphore - 1
    /\ pc' = [pc EXCEPT ![w] = "woken"]
    /\ UNCHANGED <<progress, seenProgress, waitingHint, seenHint, waiterMutex,
                   waiting, wakeClaimed, cpc, observed, strays>>

\* Mutant: returns on any token and leaves the arm live.
AcknowledgeAnyToken(w) ==
    /\ pc[w] = "woken"
    /\ pc' = [pc EXCEPT ![w] = "idle"]
    /\ waiterMutex' = "free"
    /\ waiting' = (waiting /\ ~wakeClaimed)
    /\ wakeClaimed' = FALSE
    /\ semaphore' = 0
    /\ UNCHANGED <<progress, seenProgress, waitingHint, seenHint, cpc, observed,
                   strays>>

\* The section after Wait(): an unclaimed token goes back to sleep, a claimed
\* one ends the arm and drains the semaphore.
Acknowledge(w) ==
    /\ pc[w] = "woken"
    /\ IF ~wakeClaimed
       THEN /\ pc' = [pc EXCEPT ![w] = "wait"]
            /\ UNCHANGED <<waiterMutex, waiting, wakeClaimed, semaphore>>
       ELSE /\ pc' = [pc EXCEPT ![w] = "idle"]
            /\ waiterMutex' = "free"
            /\ waiting' = FALSE
            /\ wakeClaimed' = FALSE
            /\ semaphore' = 0
    /\ UNCHANGED <<progress, seenProgress, waitingHint, seenHint, cpc, observed,
                   strays>>

-----------------------------------------------------------------------------
(* The environment *)

PostUnclaimedToken ==
    /\ strays < MaxStray
    /\ strays' = strays + 1
    /\ semaphore' = semaphore + 1
    /\ UNCHANGED <<progress, seenProgress, waitingHint, seenHint, waiterMutex,
                   waiting, wakeClaimed, cpc, pc, observed>>

\* The memory system delivers a store; it may take arbitrarily long.
Propagate ==
    /\ \/ seenProgress' \in seenProgress .. progress /\ UNCHANGED seenHint
       \/ seenHint' = waitingHint /\ UNCHANGED seenProgress
    /\ UNCHANGED <<progress, waitingHint, waiterMutex, waiting, wakeClaimed,
                   semaphore, cpc, pc, observed, strays>>

Init ==
    /\ progress = 0 /\ seenProgress = 0
    /\ waitingHint = FALSE /\ seenHint = FALSE
    /\ waiterMutex = "free" /\ waiting = FALSE /\ wakeClaimed = FALSE
    /\ semaphore = 0 /\ cpc = "idle" /\ strays = 0
    /\ pc = [w \in Waiter |-> "idle"] /\ observed = [w \in Waiter |-> 0]

Consumer ==
    \/ Resume \/ Publish \/ NotifyWakes \/ PublishQuiescence
    \/ \E hint \in BOOLEAN : NotifyOfProgress(hint)

Wait(w) ==
    \/ \E v \in seenProgress .. progress : Call(w, v) \/ Arm(w, v)
    \/ LockWaiterMutex(w) \/ SemaphoreWait(w) \/ Acknowledge(w)

Next ==
    \/ Consumer \/ PostUnclaimedToken \/ Propagate
    \/ \E w \in Waiter : Wait(w)

Spec == Init /\ [][Next]_vars

\* The consumer finishes the batch it is in and quiesces; a waiter inside a
\* call moves when it can.  Nothing is assumed of Propagate: the wake-up must
\* not depend on how soon a relaxed store is seen.
Fairness ==
    /\ WF_vars(Publish \/ PublishQuiescence) /\ WF_vars(NotifyWakes)
    /\ WF_vars(\E hint \in BOOLEAN : NotifyOfProgress(hint))
    /\ \A w \in Waiter :
          /\ WF_vars(LockWaiterMutex(w))
          /\ WF_vars(\E v \in seenProgress .. progress : Arm(w, v))
          /\ WF_vars(SemaphoreWait(w)) /\ WF_vars(Acknowledge(w))

LiveSpec == Spec /\ Fairness

-----------------------------------------------------------------------------
(* Properties *)

\* Every variable keeps its type; a Wait() never returns without a token.
FlagTypes == {waitingHint, seenHint, waiting, wakeClaimed} \subseteq BOOLEAN
TypeOK ==
    /\ FlagTypes
    /\ progress \in 0 .. MaxProgress /\ seenProgress \in 0 .. progress
    /\ waiterMutex \in Waiter \union {"free"}
    /\ semaphore \in Nat /\ strays \in 0 .. MaxStray
    /\ cpc \in {"idle", "busy", "notify", "wake"}
    /\ pc \in [Waiter -> {"idle", "call", "arm", "wait", "woken"}]
    /\ observed \in [Waiter -> 0 .. MaxProgress]

Armed(w) == pc[w] \in {"wait", "woken"}

\* One arm at a time, owned until its waiter acknowledges: m_waiting is set
\* exactly while some waiter is between arm and acknowledgement, and the
\* assertion of WaitForChange() holds whenever the next waiter gets to it.
ArmIsOwned ==
    /\ waiting <=> \E w \in Waiter : Armed(w)
    /\ \A w \in Waiter : pc[w] \in {"arm", "wait", "woken"} <=> waiterMutex = w
    /\ wakeClaimed => waiting
    /\ waitingHint <=> (waiting /\ ~wakeClaimed)

\* Tokens are not generations: besides stray ones there is at most the one
\* token of the claimed arm, so no claim leaves a token for a later wait; and
\* a waiter whose wake is claimed finds a token or is past Wait().
TokenPerClaim ==
    /\ semaphore <= strays + (IF wakeClaimed THEN 1 ELSE 0)
    /\ \A w \in Waiter : (pc[w] = "wait" /\ wakeClaimed) => semaphore > 0

\* The lost wake-up: a consumer that has stopped publishing leaves nobody
\* asleep on a value it has already moved past.
NoLostWakeup ==
    \A w \in Waiter :
        (cpc = "idle" /\ Armed(w) /\ observed[w] # progress) => wakeClaimed

\* A waiter asleep on a stale value returns, however late stores are seen.
StaleSleeperReturns ==
    \A w \in Waiter :
        (Armed(w) /\ observed[w] # progress) ~> pc[w] = "idle"
=============================================================================
