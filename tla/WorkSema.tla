------------------------------ MODULE WorkSema ------------------------------
(***************************************************************************)
(* Threading::WorkSema (common/Threading.h, common/Semaphore.cpp): the     *)
(* one-word protocol by which producers wake a worker and by which one     *)
(* thread waits until the worker has drained its queue.                    *)
(*                                                                         *)
(* Each atomic read-modify-write and each kernel-semaphore call is one     *)
(* action.  A load followed by a compare_exchange loop is the single       *)
(* successful exchange: a failed exchange only reloads.  The queue the     *)
(* semaphore guards is a set of jobs; a job stands for one enqueue and the *)
(* NotifyOfWork() call that follows it, possibly of a thread of its own.   *)
(***************************************************************************)
EXTENDS Integers

CONSTANTS
    Job,    \* the units of work producers put in the queue
    Flag    \* STATE_FLAG_WAITING_EMPTY; the code's word is 1 << 30

ASSUME FlagAssumption == Flag \in Nat /\ Flag >= 8

VARIABLES
    state,      \* m_state, a signed word in -2*Flag .. 2*Flag-1
    sema,       \* tokens of m_sema
    emptySema,  \* tokens of m_empty_sema
    queue,      \* the jobs the worker has not processed
    npc,        \* npc[j]: where the producer of job j is
    wpc,        \* where the worker thread is
    epc,        \* where the thread calling WaitForEmpty() is
    ret,        \* what its last call returned
    owed        \* history: jobs announced before that call, not processed yet

vars == <<state, sema, emptySema, queue, npc, wpc, epc, ret, owed>>

STATE_SPINNING == -2
STATE_SLEEPING == -1
STATE_RUNNING_0 == 0
STATE_DEAD == -2 * Flag

\* state & STATE_FLAG_WAITING_EMPTY, as a truth value and as a word.  The bit
\* is also set in the two's complement of SPINNING and SLEEPING.
WaitingEmpty(v) == v >= Flag \/ (v < 0 /\ v >= -Flag)
FlagPart(v) == IF WaitingEmpty(v) THEN Flag ELSE 0

\* state & (STATE_FLAG_WAITING_EMPTY - 1)
LowBits(v) ==
    IF v >= Flag THEN v - Flag
    ELSE IF v >= 0 THEN v
    ELSE IF v >= -Flag THEN v + Flag ELSE v + 2 * Flag

\* Mutant: only the exact word Kill() stored counts as dead.
IsDeadExactly(v) == v = STATE_DEAD

IsDead(v) == v < STATE_SPINNING

\* Mutant: one notification too many counts as none.
IsReadyForSleepOffByOne(v) == LowBits(v) <= 2

IsReadyForSleep(v) == LowBits(v) = STATE_RUNNING_0

\* Mutant: the waiting flag is lost when RUNNING_N becomes RUNNING_0.
NextStateLosesFlag(v) ==
    IF IsReadyForSleep(v) THEN STATE_SLEEPING ELSE STATE_RUNNING_0

\* SLEEPING is all ones, so or-ing the flag into it changes nothing.
NextStateWaitForWork(v) ==
    IF IsReadyForSleep(v) THEN STATE_SLEEPING ELSE STATE_RUNNING_0 + FlagPart(v)

\* Bound NotifyRoom: fewer than Flag/2 notifications between two checks of the
\* worker, so that the count never reaches the flag bit (2^29 in the code).
NotifyRoom(v) ==
    v \in {STATE_SPINNING, STATE_SLEEPING} \/ LowBits(v) + 2 < Flag

-----------------------------------------------------------------------------
(* Producers: enqueue, then NotifyOfWork().                                *)

Enqueue(j) ==
    /\ npc[j] = "idle" /\ j \notin queue
    /\ queue' = queue \union {j}
    /\ npc' = [npc EXCEPT ![j] = "queued"]
    /\ UNCHANGED <<state, sema, emptySema, wpc, epc, ret, owed>>

\* Mutants: Post() for a spinning worker too; no Post() at all.
NotifyPostsToSpinner(j) ==
    /\ npc[j] = "queued" /\ NotifyRoom(state)
    /\ state' = state + 2
    /\ npc' = [npc EXCEPT ![j] =
                  IF state \in {STATE_SLEEPING, STATE_SPINNING} THEN "post" ELSE "idle"]
    /\ UNCHANGED <<sema, emptySema, queue, wpc, epc, ret, owed>>

NotifyNeverPosts(j) ==
    /\ npc[j] = "queued" /\ NotifyRoom(state)
    /\ state' = state + 2
    /\ npc' = [npc EXCEPT ![j] = "idle"]
    /\ UNCHANGED <<sema, emptySema, queue, wpc, epc, ret, owed>>

\* fetch_add(2): the caller posts only if it moved the word off SLEEPING.
NotifyOfWork(j) ==
    /\ npc[j] = "queued" /\ NotifyRoom(state)
    /\ state' = state + 2
    /\ npc' = [npc EXCEPT ![j] =
                  IF state = STATE_SLEEPING THEN "post" ELSE "idle"]
    /\ UNCHANGED <<sema, emptySema, queue, wpc, epc, ret, owed>>

NotifyPost(j) ==
    /\ npc[j] = "post"
    /\ sema' = sema + 1
    /\ npc' = [npc EXCEPT ![j] = "idle"]
    /\ UNCHANGED <<state, emptySema, queue, wpc, epc, ret, owed>>

-----------------------------------------------------------------------------
(* The worker: process everything in the queue, find it empty, then check  *)
(* or wait for work.  "drained" is the gap between the two.                *)

Process(j) ==
    /\ wpc = "run" /\ j \in queue
    /\ queue' = queue \ {j}
    /\ owed' = owed \ {j}
    /\ UNCHANGED <<state, sema, emptySema, npc, wpc, epc, ret>>

SeeQueueEmpty ==
    /\ wpc = "run" /\ queue = {}
    /\ wpc' = "drained"
    /\ UNCHANGED <<state, sema, emptySema, queue, npc, epc, ret, owed>>

CheckForWork ==
    /\ wpc = "drained"
    /\ state' = IF IsReadyForSleep(state) THEN STATE_RUNNING_0
                                          ELSE FlagPart(state)
    /\ wpc' = IF IsReadyForSleep(state) /\ WaitingEmpty(state)
              THEN "checkPost" ELSE "run"
    /\ UNCHANGED <<sema, emptySema, queue, npc, epc, ret, owed>>

WaitForWork ==
    /\ wpc = "drained"
    /\ state' = NextStateWaitForWork(state)
    /\ wpc' = IF ~IsReadyForSleep(state) THEN "run"
              ELSE IF WaitingEmpty(state) THEN "sleepPost" ELSE "sleep"
    /\ UNCHANGED <<sema, emptySema, queue, npc, epc, ret, owed>>

WaitForWorkWithSpin ==
    /\ wpc = "drained"
    /\ state' = IF IsReadyForSleep(state) THEN STATE_SPINNING ELSE state
    /\ wpc' = IF ~IsReadyForSleep(state) THEN "ack"
              ELSE IF WaitingEmpty(state) THEN "spinPost" ELSE "spin"
    /\ UNCHANGED <<sema, emptySema, queue, npc, epc, ret, owed>>

\* m_empty_sema.Post() of CheckForWork, the two waits, and Kill
PostEmpty ==
    /\ wpc \in {"checkPost", "sleepPost", "spinPost", "killPost"}
    /\ emptySema' = emptySema + 1
    /\ wpc' = CASE wpc = "checkPost" -> "run"
                [] wpc = "sleepPost" -> "sleep"
                [] wpc = "spinPost"  -> "spin"
                [] wpc = "killPost"  -> "dead"
    /\ UNCHANGED <<state, sema, queue, npc, epc, ret, owed>>

SpinSeesWork ==
    /\ wpc = "spin" /\ state >= 0
    /\ wpc' = "ack"
    /\ UNCHANGED <<state, sema, emptySema, queue, npc, epc, ret, owed>>

\* waited > SPIN_TIME_NS and the exchange to SLEEPING succeeds
SpinTimeout ==
    /\ wpc = "spin" /\ state < 0
    /\ state' = STATE_SLEEPING
    /\ wpc' = "sleep"
    /\ UNCHANGED <<sema, emptySema, queue, npc, epc, ret, owed>>

SleepWait ==
    /\ wpc = "sleep" /\ sema > 0
    /\ sema' = sema - 1
    /\ wpc' = "ack"
    /\ UNCHANGED <<state, emptySema, queue, npc, epc, ret, owed>>

\* fetch_and(STATE_FLAG_WAITING_EMPTY)
Acknowledge ==
    /\ wpc = "ack"
    /\ state' = FlagPart(state)
    /\ wpc' = "run"
    /\ UNCHANGED <<sema, emptySema, queue, npc, epc, ret, owed>>

\* Mutant: Kill() forgets the thread waiting for empty.
KillWithoutPost ==
    /\ wpc = "run"
    /\ state' = STATE_DEAD
    /\ wpc' = "dead"
    /\ UNCHANGED <<sema, emptySema, queue, npc, epc, ret, owed>>

Kill ==
    /\ wpc = "run"
    /\ state' = STATE_DEAD
    /\ wpc' = IF WaitingEmpty(state) THEN "killPost" ELSE "dead"
    /\ UNCHANGED <<sema, emptySema, queue, npc, epc, ret, owed>>

\* The owners restart a dead worker with an empty queue, and the thread that
\* asks for the restart is the one that calls WaitForEmpty(): none is in flight.
Reset ==
    /\ wpc = "dead" /\ epc = "idle"
    /\ state' = STATE_RUNNING_0
    /\ queue' = {} /\ owed' = {}
    /\ wpc' = "drained"
    /\ UNCHANGED <<sema, emptySema, npc, epc, ret>>

-----------------------------------------------------------------------------
(* WaitForEmpty(); WaitForEmptyWithSpin() makes the same transitions and   *)
(* only delays the exchange.                                               *)

WaitForEmptyCall ==
    /\ epc = "idle"
    /\ epc' = "check"
    /\ ret' = "none"
    /\ owed' = {j \in queue : npc[j] # "queued"}
    /\ UNCHANGED <<state, sema, emptySema, queue, npc, wpc>>

Return(v) == ret' = IF IsDead(v) THEN "dead" ELSE "empty"

\* Mutant: the waiter sets the sign bit instead of bit 30.
WaitForEmptyWrongBit ==
    /\ epc = "check"
    /\ IF state < 0
       THEN /\ Return(state)
            /\ epc' = "idle"
            /\ UNCHANGED state
       ELSE /\ state' = state + 2 * Flag
            /\ epc' = "sleep"
            /\ UNCHANGED ret
    /\ UNCHANGED <<sema, emptySema, queue, npc, wpc, owed>>

WaitForEmptyCheck ==
    /\ epc = "check"
    /\ IF state < 0
       THEN /\ Return(state)
            /\ epc' = "idle"
            /\ UNCHANGED state
       ELSE /\ state' = state + (Flag - FlagPart(state))
            /\ epc' = "sleep"
            /\ UNCHANGED ret
    /\ UNCHANGED <<sema, emptySema, queue, npc, wpc, owed>>

WaitForEmptySleep ==
    /\ epc = "sleep" /\ emptySema > 0
    /\ emptySema' = emptySema - 1
    /\ epc' = "load"
    /\ UNCHANGED <<state, sema, queue, npc, wpc, ret, owed>>

WaitForEmptyReturn ==
    /\ epc = "load"
    /\ Return(state)
    /\ epc' = "idle"
    /\ UNCHANGED <<state, sema, emptySema, queue, npc, wpc, owed>>

-----------------------------------------------------------------------------
Init ==
    /\ state = STATE_RUNNING_0 /\ sema = 0 /\ emptySema = 0
    /\ queue = {} /\ npc = [j \in Job |-> "idle"]
    /\ wpc = "drained" /\ epc = "idle" /\ ret = "none" /\ owed = {}

Producer(j) == Enqueue(j) \/ NotifyOfWork(j) \/ NotifyPost(j)

Worker ==
    \/ \E j \in Job : Process(j)
    \/ SeeQueueEmpty \/ CheckForWork \/ WaitForWork \/ WaitForWorkWithSpin
    \/ PostEmpty \/ SpinSeesWork \/ SpinTimeout \/ SleepWait \/ Acknowledge
    \/ Kill \/ Reset

Waiter ==
    WaitForEmptyCall \/ WaitForEmptyCheck \/ WaitForEmptySleep
        \/ WaitForEmptyReturn

Next == (\E j \in Job : Producer(j)) \/ Worker \/ Waiter

Spec == Init /\ [][Next]_vars

\* Every thread that can take its next step inside a call eventually does; the
\* worker waits for work whenever it finds its queue empty, and processes
\* queued jobs in order.  Nobody is obliged to enqueue, to kill or to reset.
Fairness ==
    /\ \A j \in Job : /\ WF_vars(NotifyOfWork(j)) /\ WF_vars(NotifyPost(j))
                      /\ WF_vars(Process(j))
    /\ WF_vars(SeeQueueEmpty) /\ WF_vars(WaitForWork \/ WaitForWorkWithSpin)
    /\ WF_vars(PostEmpty) /\ WF_vars(SpinSeesWork) /\ WF_vars(SpinTimeout)
    /\ WF_vars(SleepWait) /\ WF_vars(Acknowledge)
    /\ WF_vars(WaitForEmptyCheck) /\ WF_vars(WaitForEmptySleep)
    /\ WF_vars(WaitForEmptyReturn)

LiveSpec == Spec /\ Fairness

-----------------------------------------------------------------------------
(* Properties *)

\* Every variable keeps its type; m_state stays inside its signed word.
TypeOK ==
    /\ state \in -2 * Flag .. 2 * Flag - 1
    /\ sema \in Nat /\ emptySema \in Nat
    /\ queue \in SUBSET Job /\ owed \in SUBSET queue
    /\ npc \in [Job -> {"idle", "queued", "post"}]
    /\ wpc \in {"run", "drained", "checkPost", "sleepPost", "spinPost",
                "killPost", "spin", "sleep", "ack", "dead"}
    /\ epc \in {"idle", "check", "sleep", "load"}
    /\ ret \in {"none", "empty", "dead"}

\* The wake-up of a sleeping worker is in exactly one place: the word still
\* says SLEEPING, or one producer owes the Post(), or the token is in m_sema;
\* a worker that is not asleep has none of the three outstanding, so no later
\* Wait() returns on a stale token ("runs one notification ahead forever").
Asleep == wpc \in {"sleepPost", "sleep"}
WakeupIsUnique ==
    /\ state = STATE_SLEEPING =>
          Asleep /\ sema = 0 /\ \A j \in Job : npc[j] # "post"
    /\ \A j \in Job : npc[j] = "post" =>
          /\ Asleep /\ sema = 0
          /\ \A k \in Job : npc[k] = "post" => k = j
    /\ sema > 0 => Asleep /\ sema = 1
    /\ Asleep => \/ state = STATE_SLEEPING \/ sema = 1
                 \/ \E j \in Job : npc[j] = "post"

\* The same for the thread in WaitForEmpty(): it sleeps on m_empty_sema exactly
\* while its wake-up is the flag in the word, a Post() the worker is about to
\* make, or the token; a second flag is never set (the "Multiple threads"
\* assertion) and no token survives the call.
EmptyOwed ==
    \/ state >= Flag
    \/ wpc \in {"checkPost", "sleepPost", "spinPost", "killPost"}
EmptyWakeupIsUnique ==
    /\ ~(state >= Flag /\ wpc \in {"checkPost", "sleepPost", "spinPost", "killPost"})
    /\ EmptyOwed => epc = "sleep" /\ emptySema = 0
    /\ emptySema > 0 => epc = "sleep" /\ emptySema = 1
    /\ epc = "sleep" => EmptyOwed \/ emptySema = 1

\* A word that says the worker is idle (SLEEPING or SPINNING) means every job
\* whose producer has notified is processed: the negative-state shortcut of
\* WaitForEmpty() and its users rests on this.
IdleMeansDrained ==
    state \in {STATE_SPINNING, STATE_SLEEPING} =>
        \A j \in queue : npc[j] = "queued"

\* WaitForEmpty() returns true only after every job announced before the call
\* was processed.
EmptyIsTrue == ret = "empty" => owed = {}

\* An announced job is eventually processed, unless the worker is killed.
WorkIsProcessed ==
    \A j \in Job :
        (j \in queue /\ npc[j] = "idle") ~> (j \notin queue \/ IsDead(state))

\* Once no more work arrives, a thread in WaitForEmpty() returns, a killed
\* worker included.
NoMoreWork == <>[][\A j \in Job : ~Enqueue(j)]_vars
WaitForEmptyReturns == NoMoreWork => (epc # "idle" ~> epc = "idle")
=============================================================================
