--------------------------- MODULE GsMailboxProofs ---------------------------
(***************************************************************************)
(* The safety of the GS mailbox, for every ring size, frame queue, run     *)
(* length, set of calls and number of calls.                               *)
(*                                                                         *)
(* WakeInv: an armed flag and its token are one unit that only its waiter  *)
(* makes and takes; a VSync that counted a frame is the only call that     *)
(* listens for one; and the worker is in its main loop, or has answered,   *)
(* exactly when the life of the mailbox says so.                           *)
(* TypeInv: what a thread is about to take is there, and the number of an  *)
(* execution is one that was dispatched.                                   *)
(* FrameInv: packets are written where there is room and passed whole, so  *)
(* the VSyncs between the positions are those counted and not retired.     *)
(* StreamInv: the run that may grow is the last command and unclaimed, the *)
(* executions not shown are, in order, those of the completions and of     *)
(* MTVU's pending run, and as many PATH1 points are unread.                *)
(***************************************************************************)
EXTENDS GsMailbox, FiniteSetTheorems, SequenceTheorems, WellFoundedInduction, TLAPS

-----------------------------------------------------------------------------
(* The inductive invariant *)

WakeTypes ==
    /\ signalEnabled \in BOOLEAN /\ listener \in BOOLEAN /\ drainWaiter \in BOOLEAN
    /\ open \in BOOLEAN /\ waitFrame \in BOOLEAN
    /\ ringSema \in Nat /\ vsyncSema \in Nat /\ drainSema \in Nat /\ doneSema \in Nat

\* The three pairs of a flag and a semaphore
SignalIsOwned ==
    Owed(signalEnabled, ringSema) = (IF epc \in {"stallKick", "ringWait"} THEN 1 ELSE 0)
ListenerIsOwned ==
    Owed(listener, vsyncSema) = (IF waitFrame /\ epc # "listen" THEN 1 ELSE 0)
DrainIsOwned ==
    Owed(drainWaiter, drainSema) =
        (IF epc \in {"look", "disarm", "drainWait"} THEN 1 ELSE 0)

\* Only a VSync listens for a frame, from counting its own to its last wait.
CallIsRight ==
    /\ waitFrame => /\ call = "vsync" /\ VsyncQueueSize > 0
                    /\ epc \in {"listen", "write", "vsyncKick", "bound", "boundWait",
                                "vsyncWait"}
    /\ epc \in {"count", "listen"} => call = "vsync"
    /\ epc = "listen" => waitFrame
    /\ epc \in {"openKick", "openWait"} => call = "open"

\* Where the worker is while the mailbox opens, runs, closes and ends
MainLoop == {"sleep", "awake", "head", "hole", "again", "unwait", "take", "framePost",
             "advance", "signal", "signalVsync", "pass", "idlePost"}
Outside == {"entry", "entryWait", "dead"}
Closes == {"closeKick", "closeWait"}
Opens == {"openKick", "openWait"}
Down == {"closed", "joinKick", "join"}

LifeIsOrderly ==
    /\ epc \notin Closes \union Opens \union Down \union {"dead"} =>
           open /\ gpc \in MainLoop /\ doneSema = 0
    /\ epc \in Closes =>
           /\ ~open
           /\ \/ gpc \in MainLoop \union {"closing", "closed"} /\ doneSema = 0
              \/ gpc \in Outside /\ doneSema = 1
    /\ epc \in Opens =>
           \/ open /\ gpc \in Outside \union {"opening"} /\ doneSema = 0
           \/ open /\ gpc \in MainLoop /\ doneSema = 1
           \/ ~open /\ gpc \in Outside /\ doneSema = 1
    /\ epc \in Down => ~open /\ gpc \in Outside /\ doneSema = 0
    /\ epc = "dead" => ~open /\ gpc = "dead" /\ doneSema = 0

WakeInv ==
    /\ WakeTypes
    /\ SignalIsOwned
    /\ ListenerIsOwned
    /\ DrainIsOwned
    /\ CallIsRight
    /\ LifeIsOrderly

\* Executions are counted once: those that are private, published, begun
Executing ==
    \/ vpc = "commit"
    \/ vpc \in {"push", "wake", "notify", "drain"} /\ vthen = "commit"
JobsAreCounted ==
    /\ batch + jobs <= dispatched /\ dispatched <= made /\ made <= MaxCalls
    /\ Executing => jobs > 0

\* What a thread is about to take is there.
WorkIsThere ==
    /\ vpc = "push" => outbox # <<>>
    /\ gpc \in {"take", "unwait"} => completions # <<>>

TypeInv == TypeOK /\ JobsAreCounted /\ WorkIsThere

\* The EE writes where it has seen room.
RoomIsLeft == epc \in {"count", "listen", "write"} => FreeRoom > SizeOf(call)

\* A VSync and its snapshot are published and passed as one.
PacketsAreWhole ==
    \A p \in Unpassed : ring[p] = "vsync" =>
        /\ Distance(p) + VSyncSize < Distance(write)
        /\ \A i \in 1 .. VSyncSize : ring[Step(p, i)] = "payload"

WorkerIsAtCommand ==
    /\ gpc \in {"hole", "again", "unwait", "take"} => read # write /\ ring[read] = "path1"
    /\ gpc = "framePost" => read # write /\ ring[read] = "vsync"
    /\ gpc = "advance" => read # write

EmptyAtRest ==
    epc \in {"hardwareReset", "clearOpen", "dead"} \union Closes \union Opens \union Down
        => read = write

FrameInv ==
    RoomIsLeft /\ PacketsAreWhole /\ WorkerIsAtCommand /\ EmptyAtRest /\ FramesAreExact
USE DEF ringVars, signalVars, frameVars, drainVars, lifeVars, vuVars, feedVars,
        showVars, eeVars

\* A step of the EE keeps every wake-up with its wait.
LEMMA EEKeepsWakes == ASSUME WakeInv, EE PROVE WakeInv'
<1> USE MailboxAssumption DEF WakeInv, WakeTypes, SignalIsOwned, ListenerIsOwned, DrainIsOwned,
            CallIsRight, LifeIsOrderly, Owed, MainLoop, Outside, Closes, Opens, Down
<1>1. CASE PublishPendingVifBatch
  BY <1>1 DEF PublishPendingVifBatch, Goto
<1>2. CASE RequestGpuVuPath1Flush
  BY <1>2 DEF RequestGpuVuPath1Flush, Goto
<1>3. CASE QueueMtvuPath1Reservation
  BY <1>3 DEF QueueMtvuPath1Reservation, Goto
<1>4. CASE GenericStall
  BY <1>4 DEF GenericStall, Goto
<1>5. CASE ArmStall
  BY <1>5 DEF ArmStall, Goto
<1>6. CASE Spin
  BY <1>6 DEF Spin, Goto
<1>7. CASE EnableSignal
  BY <1>7 DEF EnableSignal, Goto
<1>8. CASE SetEvent
  BY <1>8 DEF SetEvent, Goto
<1>9. CASE RingWait
  BY <1>9 DEF RingWait, Goto
<1>10. CASE WriteCommand
  BY <1>10 DEF WriteCommand, Goto
<1>11. CASE KickStart
  BY <1>11 DEF KickStart, Goto
<1>12. CASE CountFrame
  BY <1>12 DEF CountFrame, Goto
<1>13. CASE Listen
  <2>1. waitFrame /\ epc' = "write" /\ call' = call
    BY <1>13 DEF Listen, Goto
  <2>2. listener' \in BOOLEAN /\ listener' /\ waitFrame' = waitFrame
    BY <1>13, <2>1, Zenon DEF Listen, Goto
  <2>3. vsyncSema = 0 /\ ~listener
    BY <1>13, <2>1 DEF Listen, Goto
  <2>4. WakeTypes' /\ SignalIsOwned' /\ DrainIsOwned' /\ LifeIsOrderly'
    BY <1>13, <2>1, <2>2 DEF Listen
  <2>5. ListenerIsOwned'
    <3>1. vsyncSema' = 0 /\ waitFrame'
      BY <1>13, <2>1, <2>2, <2>3 DEF Listen
    <3> QED
      BY <2>1, <2>2, <3>1
  <2>6. CallIsRight'
    BY <1>13, <2>1, <2>2 DEF Listen
  <2> QED
    BY <2>4, <2>5, <2>6
<1>14. CASE BoundGpuVuExecutionLatency
  BY <1>14 DEF BoundGpuVuExecutionLatency, Goto
<1>15. CASE VsyncWait
  BY <1>15 DEF VsyncWait, Goto
<1>16. CASE WaitForEmpty
  BY <1>16 DEF WaitForEmpty, Goto
<1>17. CASE CheckDrained
  BY <1>17 DEF CheckDrained, Goto
<1>18. CASE ArmDrainWaiter
  BY <1>18 DEF ArmDrainWaiter, Goto
<1>19. CASE LookAtWaiting
  BY <1>19 DEF LookAtWaiting, Goto
<1>20. CASE DisarmDrainWaiter
  <2>1. drainWaiter' \in BOOLEAN
    BY <1>20, Zenon DEF DisarmDrainWaiter, Goto
  <2>2. CASE drainWaiter
    BY <1>20, <2>1, <2>2 DEF DisarmDrainWaiter, Goto
  <2>3. CASE ~drainWaiter
    BY <1>20, <2>1, <2>3 DEF DisarmDrainWaiter, Goto
  <2> QED
    BY <2>2, <2>3
<1>21. CASE DrainWait
  BY <1>21 DEF DrainWait, Goto
<1>22. CASE HardwareReset
  <2>1. ~waitFrame /\ ~waitFrame' /\ vsyncSema = 0 /\ epc' = "room" /\ call' = call
    BY <1>22 DEF HardwareReset, Goto
  <2>2. listener' \in BOOLEAN /\ ~listener' /\ waitFrame' \in BOOLEAN
    BY <1>22, Zenon DEF HardwareReset, Goto
  <2> QED
    BY <1>22, <2>1, <2>2 DEF HardwareReset, Goto
<1>23. CASE ClearOpen
  BY <1>23 DEF ClearOpen, Goto
<1>24. CASE DoneWait
  BY <1>24 DEF DoneWait, Goto
<1>25. CASE Join
  BY <1>25 DEF Join, Goto
<1>26. CASE ShutdownClosed
  BY <1>26 DEF ShutdownClosed, Goto
<1>27. CASE StartThread
  <2>1. /\ ~waitFrame /\ ~waitFrame' /\ epc' = "closed" /\ call' = "none"
        /\ drainSema = 0 /\ ~open /\ doneSema = 0
    BY <1>27 DEF StartThread, Goto
  <2>2. drainWaiter' \in BOOLEAN /\ ~drainWaiter' /\ waitFrame' \in BOOLEAN
    BY <1>27, Zenon DEF StartThread, Goto
  <2> QED
    BY <1>27, <2>1, <2>2 DEF StartThread, Goto
<1>28. CASE WaitForOpen
  BY <1>28 DEF WaitForOpen, Goto
<1>29. ASSUME NEW c \in Call, Begin(c) PROVE WakeInv'
  BY <1>29 DEF Begin, Goto, Call
<1> QED
  BY <1>1, <1>2, <1>3, <1>4, <1>5, <1>6, <1>7, <1>8, <1>9, <1>10, <1>11, <1>12, <1>13, <1>14, <1>15, <1>16, <1>17, <1>18, <1>19, <1>20, <1>21, <1>22, <1>23, <1>24, <1>25, <1>26, <1>27, <1>28, <1>29 DEF EE, EEContinues

\* So does a step of the worker, which answers them.
LEMMA GSKeepsWakes == ASSUME WakeInv, GS PROVE WakeInv'
<1> USE MailboxAssumption DEF WakeInv, WakeTypes, SignalIsOwned, ListenerIsOwned, DrainIsOwned,
            CallIsRight, LifeIsOrderly, Owed, MainLoop, Outside, Closes, Opens, Down
<1>1. CASE EntryLoop
  BY <1>1 DEF EntryLoop, GsStays
<1>2. CASE WaitForWork
  BY <1>2 DEF WaitForWork, GsStays
<1>3. CASE Awake
  BY <1>3 DEF Awake, GsStays
<1>4. CASE HandleCommand
  BY <1>4 DEF HandleCommand, GsStays
<1>5. CASE FramePost
  <2>1. listener' \in BOOLEAN
    BY <1>5, Zenon DEF FramePost, GsStays, PostListener
  <2>2. CASE listener
    BY <1>5, <2>1, <2>2 DEF FramePost, GsStays, PostListener
  <2>3. CASE ~listener
    BY <1>5, <2>1, <2>3 DEF FramePost, GsStays, PostListener
  <2> QED
    BY <2>2, <2>3
<1>6. CASE IdlePost
  <2>1. listener' \in BOOLEAN
    BY <1>6, Zenon DEF IdlePost, GsStays, PostListener
  <2>2. CASE listener
    BY <1>6, <2>1, <2>2 DEF IdlePost, GsStays, PostListener
  <2>3. CASE ~listener
    BY <1>6, <2>1, <2>3 DEF IdlePost, GsStays, PostListener
  <2> QED
    BY <2>2, <2>3
<1>7. CASE PeekCompletion
  BY <1>7 DEF PeekCompletion, GsStays
<1>8. CASE AnnounceHole
  BY <1>8 DEF AnnounceHole, GsStays
<1>9. CASE PeekAgain
  BY <1>9 DEF PeekAgain, GsStays
<1>10. CASE WithdrawHole
  BY <1>10 DEF WithdrawHole, GsStays
<1>11. CASE ConsumePath1
  BY <1>11 DEF ConsumePath1, GsStays
<1>12. CASE Advance
  BY <1>12 DEF Advance, GsStays
<1>13. CASE CountDown
  BY <1>13 DEF CountDown, GsStays
<1>14. CASE EndOfRing
  BY <1>14 DEF EndOfRing, GsStays
<1>15. CASE EndOfPass
  <2>1. signalEnabled' \in BOOLEAN
    BY <1>15, Zenon DEF EndOfPass, GsStays
  <2>2. CASE signalEnabled
    BY <1>15, <2>1, <2>2 DEF EndOfPass, GsStays
  <2>3. CASE ~signalEnabled
    BY <1>15, <2>1, <2>3 DEF EndOfPass, GsStays
  <2> QED
    BY <2>2, <2>3
<1>16. CASE Closing
  BY <1>16 DEF Closing, GsStays
<1>17. CASE AcknowledgeClose
  BY <1>17 DEF AcknowledgeClose, GsStays
<1>18. ASSUME NEW ok \in BOOLEAN, OpenGs(ok) PROVE WakeInv'
  BY <1>18 DEF OpenGs, GsStays, Call
<1> QED
  BY <1>1, <1>2, <1>3, <1>4, <1>5, <1>6, <1>7, <1>8, <1>9, <1>10, <1>11, <1>12, <1>13, <1>14, <1>15, <1>16, <1>17, <1>18 DEF GS

\* So does a step of MTVU, which claims the drain waiter.
LEMMA MTVUKeepsWakes == ASSUME WakeInv, MTVU PROVE WakeInv'
<1> USE MailboxAssumption DEF WakeInv, WakeTypes, SignalIsOwned, ListenerIsOwned, DrainIsOwned,
            CallIsRight, LifeIsOrderly, Owed, MainLoop, Outside, Closes, Opens, Down
<1>1. CASE VuWaitForWork
  BY <1>1 DEF VuWaitForWork, VuStays
<1>2. CASE ExecuteCpu
  BY <1>2 DEF ExecuteCpu, VuStays
<1>3. CASE WaitForBuffer
  BY <1>3 DEF WaitForBuffer, VuStays
<1>4. CASE CommitExecution
  BY <1>4 DEF CommitExecution, VuStays
<1>5. CASE SeeRingEmpty
  BY <1>5 DEF SeeRingEmpty, VuStays
<1>6. CASE ServeRequests
  BY <1>6 DEF ServeRequests, VuStays
<1>7. CASE Push
  BY <1>7 DEF Push, VuStays
<1>8. CASE PushFull
  BY <1>8 DEF PushFull, VuStays
<1>9. CASE ClaimGsWaiter
  BY <1>9 DEF ClaimGsWaiter, VuStays
<1>10. CASE NotifyGs
  BY <1>10 DEF NotifyGs, VuStays
<1>11. CASE ClaimDrainWaiter
  <2>1. drainWaiter' \in BOOLEAN
    BY <1>11, Zenon DEF ClaimDrainWaiter, VuStays
  <2>2. CASE drainWaiter
    BY <1>11, <2>1, <2>2 DEF ClaimDrainWaiter, VuStays
  <2>3. CASE ~drainWaiter
    BY <1>11, <2>1, <2>3 DEF ClaimDrainWaiter, VuStays
  <2> QED
    BY <2>2, <2>3
<1>12. ASSUME NEW o \in Output, ExecuteDirect(o) PROVE WakeInv'
  BY <1>12 DEF ExecuteDirect, VuStays, Call
<1> QED
  BY <1>1, <1>2, <1>3, <1>4, <1>5, <1>6, <1>7, <1>8, <1>9, <1>10, <1>11, <1>12 DEF MTVU

LEMMA InitWakes == ASSUME Init PROVE WakeInv
<1>1. {signalEnabled, listener, drainWaiter, open, waitFrame} \subseteq BOOLEAN
  BY Zenon DEF Init
<1> QED
  BY <1>1 DEF Init, WakeInv, WakeTypes, SignalIsOwned, ListenerIsOwned, DrainIsOwned,
              CallIsRight, LifeIsOrderly, Owed, MainLoop, Outside, Closes, Opens, Down

\* The wake-ups, the calls and the life of the mailbox fit together in every
\* state of the mailbox.
THEOREM WakeInvariant == Spec => []WakeInv
<1>1. Init => WakeInv
  BY InitWakes
<1>2. WakeInv /\ [Next]_vars => WakeInv'
  <2> SUFFICES ASSUME WakeInv, [Next]_vars PROVE WakeInv'
    OBVIOUS
  <2>1. CASE Next
    BY <2>1, EEKeepsWakes, GSKeepsWakes, MTVUKeepsWakes DEF Next
  <2>2. CASE UNCHANGED vars
    BY <2>2 DEF vars, WakeInv, WakeTypes, SignalIsOwned, ListenerIsOwned,
                DrainIsOwned, CallIsRight, LifeIsOrderly, Owed, MainLoop, Outside,
                Closes, Opens, Down
  <2> QED
    BY <2>1, <2>2
<1> QED
  BY <1>1, <1>2, PTL DEF Spec

\* Each wake-up of the mailbox belongs to one wait of the EE: an armed flag
\* and the token that answers it are never both there, and no call, however it
\* interleaves with the worker and MTVU, leaves one behind for a later call.
THEOREM WakeupsStayOwned == Spec => []WakeupsAreOwned
<1>1. WakeInv => WakeupsAreOwned
  BY DEF WakeInv, WakeTypes, SignalIsOwned, ListenerIsOwned, DrainIsOwned,
         LifeIsOrderly, WakeupsAreOwned, MainLoop, Outside, Closes, Opens, Down
<1> QED
  BY <1>1, WakeInvariant, PTL
-----------------------------------------------------------------------------
(* Sequences of points and of completions *)

PointRecord == [id : 1 .. MaxCalls, output : Output]
CompletionRecord == [points : Points \ {<<>>}, submit : BOOLEAN]

\* A bounded set of positions that is not empty has a last one.
LEMMA LastExists ==
    ASSUME NEW n \in Nat, NEW D, D \subseteq 1 .. n, D # {}
    PROVE  \E i \in D : \A j \in D : j <= i
<1> DEFINE T == {n - i : i \in D}
<1>1. T \subseteq Nat /\ T # {}
  <2>1. \A i \in D : n - i \in Nat
    OBVIOUS
  <2>2. PICK i \in D : TRUE
    OBVIOUS
  <2>3. n - i \in T
    BY <2>2
  <2> QED
    BY <2>1, <2>3
<1>2. PICK x \in T : \A y \in T : ~(<<y, x>> \in OpToRel(<, Nat))
  BY <1>1, NatLessThanWellFounded, WFMin
<1>3. \A y \in T : x <= y
  <2> TAKE y \in T
  <2>1. x \in Nat /\ y \in Nat
    BY <1>1, <1>2
  <2>2. ~(<<y, x>> \in OpToRel(<, Nat))
    BY <1>2
  <2> HIDE DEF T
  <2>3. ~(y < x)
    BY <2>1, <2>2 DEF OpToRel
  <2> QED
    BY <2>1, <2>3
<1>4. PICK i \in D : x = n - i
  BY <1>2
<1>5. \A j \in D : j <= i
  <2> TAKE j \in D
  <2>1. n - j \in T
    OBVIOUS
  <2>2. n - i <= n - j
    BY <2>1, <1>3, <1>4
  <2> QED
    BY <2>2
<1> QED
  BY <1>4, <1>5

LEMMA LastDrawIsInRun ==
    ASSUME NEW run \in Points PROVE LastDraw(run) \in 0 .. Len(run)
<1> DEFINE draws == {i \in DOMAIN run : run[i].output \in {"draw", "generated"}}
<1>1. Len(run) \in Nat /\ DOMAIN run = 1 .. Len(run)
  BY DEF Points
<1>2. CASE draws = {}
  BY <1>1, <1>2 DEF LastDraw
<1>3. CASE draws # {}
  <2>1. draws \subseteq 1 .. Len(run)
    BY <1>1
  <2>2. \E i \in draws : \A j \in draws : j <= i
    BY <1>1, <1>3, <2>1, LastExists
  <2>3. LastDraw(run) = CHOOSE i \in draws : \A j \in draws : j <= i
    BY <1>3 DEF LastDraw
  <2>4. LastDraw(run) \in draws
    BY <2>2, <2>3
  <2> QED
    BY <1>1, <2>1, <2>4
<1> QED
  BY <1>2, <1>3

LEMMA PartIsPoints ==
    ASSUME NEW run \in Points, NEW m \in Nat, NEW n \in Nat, 1 <= m, n <= Len(run)
    PROVE  /\ SubSeq(run, m, n) \in Points
           /\ Len(SubSeq(run, m, n)) = IF m <= n THEN n - m + 1 ELSE 0
<1>1. \A i \in m .. n : run[i] \in PointRecord
  <2>1. run \in Seq(PointRecord)
    BY DEF Points, PointRecord
  <2>2. \A i \in m .. n : i \in 1 .. Len(run)
    BY <2>1
  <2> QED
    BY <2>1, <2>2, ElementOfSeq
<1> QED
  BY <1>1, SubSeqProperties DEF Points, PointRecord

LEMMA OneCompletion ==
    ASSUME NEW run \in Points, run # <<>>, NEW b \in BOOLEAN
    PROVE  <<Completion(run, b)>> \in Completions
BY DEF Completion, Completions

\* A flush publishes completions that carry at least one execution each.
LEMMA FlushedIsTyped ==
    ASSUME NEW run \in Points PROVE Flushed(run) \in Completions
<1> DEFINE k == LastDraw(run)
           front == SubSeq(run, 1, k)
           rest == SubSeq(run, k + 1, Len(run))
           generated == \E i \in 1 .. k : run[i].output = "generated"
           A == IF k = 0 THEN <<>> ELSE <<Completion(front, generated)>>
           B == IF rest = <<>> THEN <<>> ELSE <<Completion(rest, FALSE)>>
<1>1. k \in 0 .. Len(run) /\ Len(run) \in Nat
  <2>1. Len(run) \in Nat
    BY DEF Points
  <2> QED
    BY <2>1, LastDrawIsInRun
<1>2. front \in Points /\ Len(front) = k
  BY <1>1, PartIsPoints
<1>3. rest \in Points
  BY <1>1, PartIsPoints
<1>4. <<>> \in Completions
  BY DEF Completions
<1>5. A \in Completions
  <2>1. generated \in BOOLEAN
    BY Zenon
  <2>2. k # 0 => front # <<>>
    BY <1>2
  <2> HIDE DEF front, k, generated
  <2> QED
    BY <1>2, <1>4, <2>1, <2>2, OneCompletion
<1>6. B \in Completions
  <2> HIDE DEF rest
  <2> QED
    BY <1>3, <1>4, OneCompletion
<1>7. Flushed(run) = A \o B
  BY Zenon DEF Flushed
<1> HIDE DEF A, B
<1> QED
  BY <1>5, <1>6, <1>7, ConcatProperties DEF Completions

\* So does the publication of a prefix, and it leaves a run.
LEMMA PrefixIsTyped ==
    ASSUME NEW run \in Points, Len(run) > 0
    PROVE  Prefix(run) \in Points /\ Suffix(run) \in Points
<1>1. Len(run) \in Nat
  BY DEF Points
<1> DEFINE init == SubSeq(run, 1, Len(run) - 1)
<1>2. init \in Points /\ Len(init) = Len(run) - 1
  <2>1. Len(run) - 1 \in Nat /\ 1 \in Nat
    BY <1>1
  <2>2. Len(init) = IF 1 <= Len(run) - 1 THEN Len(run) - 1 - 1 + 1 ELSE 0
    BY <1>1, <2>1, PartIsPoints
  <2>3. init \in Points
    BY <1>1, <2>1, PartIsPoints
  <2> HIDE DEF init
  <2> QED
    <3> DEFINE l == Len(run)
    <3>1. l \in Nat /\ l > 0
      BY <1>1
    <3>2. Len(init) = IF 1 <= l - 1 THEN l - 1 - 1 + 1 ELSE 0
      BY <2>2
    <3> HIDE DEF l
    <3>3. Len(init) = l - 1
      BY <3>1, <3>2
    <3> QED
      BY <2>3, <3>3 DEF l
<1>3. LastDraw(init) \in 0 .. Len(run) - 1
  BY <1>2, LastDrawIsInRun
<1>4. Prefix(run) \in Points /\ Len(Prefix(run)) = LastDraw(init)
  BY <1>1, <1>3, PartIsPoints DEF Prefix
<1>5. Suffix(run) \in Points
  BY <1>1, <1>3, <1>4, PartIsPoints DEF Suffix
<1> QED
  BY <1>4, <1>5

-----------------------------------------------------------------------------
(* Types *)

RunRecord == [count : 0 .. MaxRun, open : BOOLEAN]

LEMMA StepIsPosition ==
    ASSUME NEW p \in Position, NEW n \in Nat PROVE Step(p, n) \in Position
BY MailboxAssumption DEF Position, Step

LEMMA SizeIsPositive == ASSUME NEW c PROVE SizeOf(c) \in Nat /\ SizeOf(c) > 0
BY MailboxAssumption DEF SizeOf

LEMMA ClosedRunIsTyped ==
    ASSUME RingTypes, CloseOpenMtvuReservationRun
    PROVE  runs' \in [Position -> RunRecord] /\ openRun' \in 0 .. RingSize
<1> USE MailboxAssumption
<1>1. openRun' \in 0 .. RingSize
  BY DEF CloseOpenMtvuReservationRun
<1>2. CASE openRun = RingSize
  BY <1>1, <1>2 DEF RingTypes, CloseOpenMtvuReservationRun, RunRecord
<1>3. CASE openRun # RingSize
  <2>1. runs \in [Position -> RunRecord]
    BY DEF RingTypes, RunRecord
  <2>2. openRun \in Position
    BY <1>3 DEF RingTypes, Position
  <2>3. [runs[openRun] EXCEPT !.open = FALSE] \in RunRecord
    BY <2>1, <2>2 DEF RunRecord
  <2>4. runs' = [runs EXCEPT ![openRun] = [runs[openRun] EXCEPT !.open = FALSE]]
    BY <1>3 DEF CloseOpenMtvuReservationRun
  <2> QED
    BY <1>1, <2>1, <2>3, <2>4
<1> QED
  BY <1>2, <1>3


\* The MTVUGSPacket case takes at least one execution of the oldest completion
\* and at most what is left of the run, and leaves neither empty handed.
LEMMA ConsumedIsTyped ==
    ASSUME TypeInv, ConsumePath1
    PROVE  /\ runs' \in [Position -> RunRecord] /\ remaining' \in 0 .. MaxRun
           /\ completions' \in Completions /\ Len(completions') <= Len(completions)
           /\ consumed' \in Nat
<1> DEFINE c == Head(completions)
           left == IF remaining > 0 THEN remaining
                   ELSE IF runs[read].count = 0 THEN 1 ELSE runs[read].count
           n == IF Len(c.points) < left THEN Len(c.points) ELSE left
<1> USE MailboxAssumption
<1>1. completions \in Seq(CompletionRecord) /\ completions # <<>>
  BY DEF ConsumePath1, TypeInv, TypeOK, QueueTypes, WorkIsThere, Completions,
         CompletionRecord
<1>2. c \in CompletionRecord /\ Len(completions) \in Nat /\ Len(completions) > 0
  BY <1>1
<1>3. c.points \in Points /\ c.points # <<>>
  BY <1>2 DEF CompletionRecord
<1>4. Len(c.points) \in Nat /\ Len(c.points) > 0
  BY <1>3 DEF Points
<1>5. runs \in [Position -> RunRecord] /\ read \in Position
  BY DEF TypeInv, TypeOK, RingTypes, RunRecord
<1>6. runs[read].count \in 0 .. MaxRun
  BY <1>5 DEF RunRecord
<1>7. left \in 1 .. MaxRun
  BY <1>6 DEF TypeInv, TypeOK, RingTypes
<1> HIDE DEF left, c
<1>8. n \in 1 .. Len(c.points) /\ left - n \in 0 .. MaxRun
  BY <1>4, <1>7
<1> HIDE DEF n
<1>9. runs' \in [Position -> RunRecord]
  <2>1. NoRun \in RunRecord
    BY DEF NoRun, RunRecord
  <2>2. runs' = IF remaining > 0 THEN runs ELSE [runs EXCEPT ![read] = NoRun]
    BY DEF ConsumePath1
  <2> QED
    BY <1>5, <2>1, <2>2
<1>10. remaining' \in 0 .. MaxRun
  <2>1. remaining' = left - n
    BY DEF ConsumePath1, left, n, c
  <2> QED
    BY <1>8, <2>1
<1>11. consumed' \in Nat
  <2>1. consumed' = c.points[n].id
    BY DEF ConsumePath1, left, n, c
  <2>2. c.points[n] \in PointRecord
    BY <1>3, <1>8, ElementOfSeq DEF Points, PointRecord
  <2> QED
    BY <2>1, <2>2 DEF PointRecord
<1>12. completions' \in Completions /\ Len(completions') <= Len(completions)
  <2>1. CASE n = Len(c.points)
    <3>1. completions' = Tail(completions)
      BY <2>1 DEF ConsumePath1, left, n, c
    <3> QED
      BY <1>1, <1>2, <3>1, HeadTailProperties DEF Completions, CompletionRecord
  <2>2. CASE n # Len(c.points)
    <3> DEFINE kept == SubSeq(c.points, n + 1, Len(c.points))
    <3>1. kept \in Points /\ Len(kept) = Len(c.points) - n
      BY <1>3, <1>4, <1>8, <2>2, PartIsPoints
    <3>2. kept # <<>>
      <4> HIDE DEF kept
      <4>1. Len(kept) > 0
        BY <1>4, <1>8, <2>2, <3>1
      <4> QED
        BY <4>1
    <3>3. completions' = [completions EXCEPT ![1].points = SubSeq(@, n + 1, Len(@))]
      BY <2>2 DEF ConsumePath1, left, n, c
    <3>4. completions' = [completions EXCEPT ![1] = [c EXCEPT !.points = kept]]
      <4>1. Head(completions) = completions[1] /\ 1 \in DOMAIN completions
        BY <1>1, <1>2
      <4> QED
        BY <3>3, <4>1 DEF c
    <3> HIDE DEF kept
    <3>5. [c EXCEPT !.points = kept] \in CompletionRecord
      BY <1>2, <3>1, <3>2 DEF CompletionRecord
    <3>6. completions' \in Seq(CompletionRecord) /\ Len(completions') = Len(completions)
      BY <1>1, <1>2, <3>4, <3>5, ExceptSeq
    <3> QED
      BY <1>2, <3>6 DEF Completions, CompletionRecord
  <2> QED
    BY <2>1, <2>2
<1> QED
  BY <1>9, <1>10, <1>11, <1>12

\* The positions, the runs and the countdown keep their types.
LEMMA RingStaysTyped ==
    ASSUME TypeInv, Next PROVE RingTypes'
<1> USE MailboxAssumption DEF TypeInv, TypeOK, RingTypes
<1>1. CASE PublishPendingVifBatch \/ GenericStall \/ Spin \/ EnableSignal
          \/ SetEvent \/ RingWait \/ KickStart \/ CountFrame \/ Listen
          \/ BoundGpuVuExecutionLatency
  BY <1>1 DEF PublishPendingVifBatch, GenericStall, Spin, EnableSignal, SetEvent,
    RingWait, KickStart, CountFrame, Listen, BoundGpuVuExecutionLatency, Goto
<1>2. CASE VsyncWait \/ WaitForEmpty \/ CheckDrained \/ ArmDrainWaiter
          \/ LookAtWaiting \/ DisarmDrainWaiter \/ DrainWait \/ ClearOpen
          \/ DoneWait \/ Join
  BY <1>2 DEF VsyncWait, WaitForEmpty, CheckDrained, ArmDrainWaiter,
    LookAtWaiting, DisarmDrainWaiter, DrainWait, ClearOpen, DoneWait, Join, Goto
<1>3. CASE ShutdownClosed \/ WaitForOpen
  BY <1>3 DEF ShutdownClosed, WaitForOpen, Goto
<1>4. CASE RequestGpuVuPath1Flush
  <2>1. CASE epc = "request" /\ call = "vsync"
    BY <1>4, <2>1, ClosedRunIsTyped DEF RequestGpuVuPath1Flush, RunRecord
  <2>2. CASE ~(epc = "request" /\ call = "vsync")
    BY <1>4, <2>2 DEF RequestGpuVuPath1Flush
  <2> QED
    BY <2>1, <2>2
<1>5. CASE QueueMtvuPath1Reservation
  <2>1. CASE CanExtend
    <3>1. runs \in [Position -> RunRecord] /\ openRun \in Position
      BY <2>1 DEF CanExtend, RunRecord, Position
    <3>2. [runs[openRun] EXCEPT !.count = @ + 1] \in RunRecord
      BY <2>1, <3>1 DEF CanExtend, RunRecord
    <3>3. runs' = [runs EXCEPT ![openRun] = [runs[openRun] EXCEPT !.count = @ + 1]]
      BY <1>5, <2>1 DEF QueueMtvuPath1Reservation
    <3>4. runs' \in [Position -> RunRecord]
      BY <3>1, <3>2, <3>3
    <3> QED
      BY <1>5, <2>1, <3>4 DEF QueueMtvuPath1Reservation, RunRecord
  <2>2. CASE ~CanExtend
    BY <1>5, <2>2 DEF QueueMtvuPath1Reservation
  <2> QED
    BY <2>1, <2>2
<1>6. CASE ArmStall
  <2>1. FreeRoom \in Int
    BY DEF FreeRoom, Position
  <2>2. SizeOf(call) \in Nat
    BY SizeIsPositive
  <2>3. StallWords \in Int
    BY <2>1, <2>2 DEF StallWords
  <2> QED
    BY <1>6, <2>3 DEF ArmStall
<1>7. CASE WriteCommand
  <2>1. write' \in Position
    BY <1>7, SizeIsPositive, StepIsPosition DEF WriteCommand
  <2>2. ring' \in [Position -> {"gs", "vsync", "path1", "payload"}]
    BY <1>7 DEF WriteCommand
  <2>3. runs' \in [Position -> RunRecord] /\ openRun' \in 0 .. RingSize
    <3>1. [count |-> 1, open |-> TRUE] \in RunRecord
      BY DEF RunRecord
    <3>2. runs \in [Position -> RunRecord] /\ write \in 0 .. RingSize
      BY DEF RunRecord, Position
    <3>3. \/ /\ runs' = [runs EXCEPT ![write] = [count |-> 1, open |-> TRUE]]
             /\ openRun' = write
          \/ runs' = runs /\ openRun' = openRun
      BY <1>7 DEF WriteCommand
    <3> QED
      BY <3>1, <3>2, <3>3
  <2> QED
    BY <1>7, <2>1, <2>2, <2>3 DEF WriteCommand, RunRecord
<1>8. CASE HardwareReset
  BY <1>8, ClosedRunIsTyped DEF HardwareReset, RunRecord
<1>9. CASE StartThread
  BY <1>9 DEF StartThread, Position, NoRun
<1>10. ASSUME NEW c \in Call, Begin(c) PROVE RingTypes'
  <2>1. CASE c \in {"gs", "freeze"}
    BY <1>10, <2>1, ClosedRunIsTyped DEF Begin, RunRecord
  <2>2. CASE c \notin {"gs", "freeze"}
    BY <1>10, <2>2 DEF Begin
  <2> QED
    BY <2>1, <2>2
<1>11. CASE EntryLoop \/ WaitForWork \/ Awake \/ HandleCommand \/ FramePost
          \/ IdlePost \/ PeekCompletion \/ AnnounceHole \/ PeekAgain
          \/ WithdrawHole
  BY <1>11 DEF EntryLoop, WaitForWork, Awake, HandleCommand, FramePost, IdlePost,
    PeekCompletion, AnnounceHole, PeekAgain, WithdrawHole, GsStays, PostListener
<1>12. CASE EndOfRing \/ AcknowledgeClose
  BY <1>12 DEF EndOfRing, AcknowledgeClose, GsStays
<1>13. CASE ConsumePath1
  BY <1>13, ConsumedIsTyped DEF ConsumePath1, RunRecord
<1>14. CASE Advance
  <2>1. read' \in Position
    BY <1>14, SizeIsPositive, StepIsPosition DEF Advance
  <2> QED
    BY <1>14, <2>1 DEF Advance
<1>15. CASE CountDown
  <2>1. Consumed \in Int
    BY DEF Consumed
  <2>2. signalPosition' \in Int
    BY <1>15, <2>1 DEF CountDown
  <2> QED
    BY <1>15, <2>2 DEF CountDown
<1>16. CASE EndOfPass
  BY <1>16 DEF EndOfPass, GsStays
<1>17. CASE Closing
  BY <1>17 DEF Closing, GsStays
<1>18. ASSUME NEW ok \in BOOLEAN, OpenGs(ok) PROVE RingTypes'
  BY <1>18 DEF OpenGs, GsStays
<1>19. CASE VuWaitForWork \/ ExecuteCpu \/ WaitForBuffer \/ CommitExecution
          \/ SeeRingEmpty \/ ServeRequests \/ Push \/ PushFull \/ ClaimGsWaiter
          \/ NotifyGs
  BY <1>19 DEF VuWaitForWork, ExecuteCpu, WaitForBuffer, CommitExecution,
    SeeRingEmpty, ServeRequests, Push, PushFull, ClaimGsWaiter, NotifyGs, VuStays
<1>20. CASE ClaimDrainWaiter
  BY <1>20 DEF ClaimDrainWaiter, VuStays
<1>21. ASSUME NEW o \in Output, ExecuteDirect(o) PROVE RingTypes'
  BY <1>21 DEF ExecuteDirect, VuStays
<1> QED
  BY <1>1, <1>2, <1>3, <1>4, <1>5, <1>6, <1>7, <1>8, <1>9, <1>10, <1>11,
     <1>12, <1>13, <1>14, <1>15, <1>16, <1>17, <1>18, <1>19, <1>20, <1>21
     DEF Next, EE, EEContinues, GS, MTVU
LEMMA NothingIsTyped == <<>> \in Completions /\ <<>> \in Points
BY DEF Completions, Points

\* The execution MTVU completes next is one of those dispatched.
LEMMA PointIsTyped ==
    ASSUME TypeInv, jobs > 0, NEW out \in Output PROVE Point(out) \in PointRecord
BY MailboxAssumption DEF TypeInv, TypeOK, CountTypes, JobsAreCounted, Point, PointRecord

LEMMA FlagsStayTyped ==
    ASSUME TypeInv, WakeInv', Next PROVE FlagTypes'
<1> USE DEF TypeInv, TypeOK, FlagTypes, WakeInv, WakeTypes
<1>1. CASE PublishPendingVifBatch \/ QueueMtvuPath1Reservation \/ GenericStall
          \/ ArmStall
  BY <1>1, Zenon DEF PublishPendingVifBatch, QueueMtvuPath1Reservation,
    GenericStall, ArmStall, Goto
<1>2. CASE Spin \/ EnableSignal \/ SetEvent \/ RingWait
  BY <1>2, Zenon DEF Spin, EnableSignal, SetEvent, RingWait, Goto
<1>3. CASE WriteCommand \/ KickStart \/ CountFrame \/ Listen
  BY <1>3, Zenon DEF WriteCommand, KickStart, CountFrame, Listen, Goto
<1>4. CASE VsyncWait \/ WaitForEmpty \/ CheckDrained \/ ArmDrainWaiter
  BY <1>4, Zenon DEF VsyncWait, WaitForEmpty, CheckDrained, ArmDrainWaiter, Goto
<1>5. CASE DisarmDrainWaiter \/ DrainWait \/ HardwareReset \/ ClearOpen
  BY <1>5, Zenon DEF DisarmDrainWaiter, DrainWait, HardwareReset, ClearOpen, Goto
<1>6. CASE DoneWait \/ Join \/ ShutdownClosed \/ WaitForOpen
  BY <1>6, Zenon DEF DoneWait, Join, ShutdownClosed, WaitForOpen, Goto
<1>7. CASE RequestGpuVuPath1Flush
  BY <1>7, Zenon DEF RequestGpuVuPath1Flush, Goto
<1>8. CASE BoundGpuVuExecutionLatency
  BY <1>8, SMTT(40) DEF BoundGpuVuExecutionLatency, Goto
<1>9. CASE LookAtWaiting
  <2>1. missed' \in BOOLEAN
    BY <1>9, Zenon DEF LookAtWaiting
  <2> QED
    BY <1>9, <2>1, SMTT(40) DEF LookAtWaiting, Goto
<1>10. CASE StartThread
  BY <1>10, Zenon DEF StartThread, Goto
<1>11. ASSUME NEW c \in Call, Begin(c) PROVE FlagTypes'
  BY <1>11, ZenonT(60) DEF Begin, Call
<1>12. CASE EntryLoop \/ WaitForWork \/ Awake \/ HandleCommand
  BY <1>12, Zenon DEF EntryLoop, WaitForWork, Awake, HandleCommand, GsStays
<1>13. CASE FramePost \/ IdlePost \/ PeekCompletion \/ AnnounceHole
  BY <1>13, Zenon DEF FramePost, IdlePost, PeekCompletion, AnnounceHole, GsStays,
    PostListener
<1>14. CASE PeekAgain \/ WithdrawHole \/ Advance \/ CountDown
  BY <1>14, Zenon DEF PeekAgain, WithdrawHole, Advance, CountDown, GsStays
<1>15. CASE EndOfRing \/ EndOfPass \/ Closing \/ AcknowledgeClose
  BY <1>15, Zenon DEF EndOfRing, EndOfPass, Closing, AcknowledgeClose, GsStays
<1>16. CASE ConsumePath1
  <2>1. unsubmitted' \in BOOLEAN
    <3> DEFINE U(c, n) == unsubmitted' = IF n = Len(c.points) /\ c.submit THEN FALSE
                              ELSE \/ unsubmitted
                                   \/ {i \in 1 .. n : c.points[i].output = "generated"} # {}
    <3>1. \E c, n : U(c, n)
      BY <1>16, Zenon DEF ConsumePath1
    <3>2. PICK c, n : U(c, n)
      BY <3>1, Zenon
    <3> QED
      BY <3>2, Zenon
  <2> QED
    BY <1>16, <2>1, ZenonT(60) DEF ConsumePath1, GsStays
<1>17. ASSUME NEW ok \in BOOLEAN, OpenGs(ok) PROVE FlagTypes'
  BY <1>17, Zenon DEF OpenGs, GsStays
<1>18. CASE VuWaitForWork \/ ExecuteCpu \/ WaitForBuffer \/ CommitExecution
  BY <1>18, Zenon DEF VuWaitForWork, ExecuteCpu, WaitForBuffer, CommitExecution,
    VuStays
<1>19. CASE SeeRingEmpty \/ Push \/ PushFull \/ ClaimGsWaiter
  BY <1>19, Zenon DEF SeeRingEmpty, Push, PushFull, ClaimGsWaiter, VuStays
<1>20. CASE NotifyGs \/ ClaimDrainWaiter
  BY <1>20, Zenon DEF NotifyGs, ClaimDrainWaiter, VuStays
<1>21. CASE ServeRequests
  BY <1>21, ZenonT(60) DEF ServeRequests, VuStays
<1>22. ASSUME NEW o \in Output, ExecuteDirect(o) PROVE FlagTypes'
  BY <1>22, Zenon DEF ExecuteDirect, VuStays
<1> QED
  BY <1>1, <1>2, <1>3, <1>4, <1>5, <1>6, <1>7, <1>8, <1>9, <1>10, <1>11,
     <1>12, <1>13, <1>14, <1>15, <1>16, <1>17, <1>18, <1>19, <1>20, <1>21, <1>22
     DEF Next, EE, EEContinues, GS, MTVU

LEMMA CountsStayTyped ==
    ASSUME TypeInv, WakeInv', Next PROVE CountTypes'
<1> USE DEF TypeInv, TypeOK, CountTypes, WakeInv, WakeTypes
<1>1. CASE RequestGpuVuPath1Flush \/ QueueMtvuPath1Reservation \/ GenericStall
          \/ ArmStall \/ Spin \/ EnableSignal \/ SetEvent \/ RingWait
          \/ WriteCommand \/ KickStart
  BY <1>1 DEF RequestGpuVuPath1Flush, QueueMtvuPath1Reservation, GenericStall,
    ArmStall, Spin, EnableSignal, SetEvent, RingWait, WriteCommand, KickStart,
    Goto
<1>2. CASE Listen \/ BoundGpuVuExecutionLatency \/ VsyncWait \/ WaitForEmpty
          \/ CheckDrained \/ ArmDrainWaiter \/ LookAtWaiting \/ DisarmDrainWaiter
          \/ DrainWait \/ ClearOpen
  BY <1>2 DEF Listen, BoundGpuVuExecutionLatency, VsyncWait, WaitForEmpty,
    CheckDrained, ArmDrainWaiter, LookAtWaiting, DisarmDrainWaiter, DrainWait,
    ClearOpen, Goto
<1>3. CASE DoneWait \/ Join \/ ShutdownClosed \/ StartThread \/ WaitForOpen
  BY <1>3 DEF DoneWait, Join, ShutdownClosed, StartThread, WaitForOpen, Goto
<1>4. CASE PublishPendingVifBatch
  BY <1>4 DEF PublishPendingVifBatch, Goto
<1>5. CASE CountFrame
  BY <1>5 DEF CountFrame, Goto
<1>6. CASE HardwareReset
  BY <1>6 DEF HardwareReset, Goto
<1>7. ASSUME NEW c \in Call, Begin(c) PROVE CountTypes'
  BY <1>7 DEF Begin, Call
<1>8. CASE EntryLoop \/ WaitForWork \/ Awake \/ FramePost \/ IdlePost
          \/ PeekCompletion \/ AnnounceHole \/ PeekAgain \/ WithdrawHole
          \/ Advance
  BY <1>8 DEF EntryLoop, WaitForWork, Awake, FramePost, IdlePost, PeekCompletion,
    AnnounceHole, PeekAgain, WithdrawHole, Advance, GsStays, PostListener
<1>9. CASE CountDown \/ EndOfRing \/ EndOfPass \/ Closing \/ AcknowledgeClose
  BY <1>9 DEF CountDown, EndOfRing, EndOfPass, Closing, AcknowledgeClose, GsStays
<1>10. CASE HandleCommand
  BY <1>10 DEF HandleCommand, GsStays
<1>11. CASE ConsumePath1
  <2>1. consumed' \in Nat
    BY <1>11, ConsumedIsTyped
  <2>2. UNCHANGED <<ringSema, vsyncSema, drainSema, doneSema, batch, jobs, made,
                    dispatched, frames>>
    BY <1>11 DEF ConsumePath1, GsStays
  <2> QED
    BY <2>1, <2>2
<1>12. ASSUME NEW ok \in BOOLEAN, OpenGs(ok) PROVE CountTypes'
  BY <1>12 DEF OpenGs, GsStays
<1>13. CASE VuWaitForWork \/ ExecuteCpu \/ WaitForBuffer \/ SeeRingEmpty
          \/ ServeRequests \/ Push \/ PushFull \/ ClaimGsWaiter \/ NotifyGs
          \/ ClaimDrainWaiter
  BY <1>13 DEF VuWaitForWork, ExecuteCpu, WaitForBuffer, SeeRingEmpty,
    ServeRequests, Push, PushFull, ClaimGsWaiter, NotifyGs, ClaimDrainWaiter,
    VuStays
<1>14. CASE CommitExecution
  BY <1>14 DEF CommitExecution, JobsAreCounted, Executing
<1>15. ASSUME NEW o \in Output, ExecuteDirect(o) PROVE CountTypes'
  BY <1>15 DEF ExecuteDirect, VuStays
<1> QED
  BY <1>1, <1>2, <1>3, <1>4, <1>5, <1>6, <1>7, <1>8, <1>9, <1>10, <1>11,
     <1>12, <1>13, <1>14, <1>15
     DEF Next, EE, EEContinues, GS, MTVU

LEMMA ControlStaysTyped ==
    ASSUME TypeInv, Next PROVE ControlTypes'
<1> USE DEF TypeInv, TypeOK, ControlTypes, EEControl, GSControl, VUControl, Call,
            Publish
<1>1. CASE PublishPendingVifBatch \/ RequestGpuVuPath1Flush
          \/ QueueMtvuPath1Reservation \/ GenericStall \/ ArmStall
  BY <1>1 DEF PublishPendingVifBatch, RequestGpuVuPath1Flush,
    QueueMtvuPath1Reservation, GenericStall, ArmStall, Goto
<1>2. CASE Spin \/ EnableSignal \/ RingWait \/ KickStart \/ CountFrame
  BY <1>2 DEF Spin, EnableSignal, RingWait, KickStart, CountFrame, Goto
<1>3. CASE Listen \/ VsyncWait \/ WaitForEmpty \/ ArmDrainWaiter \/ LookAtWaiting
  BY <1>3 DEF Listen, VsyncWait, WaitForEmpty, ArmDrainWaiter, LookAtWaiting,
    Goto
<1>4. CASE DisarmDrainWaiter \/ DrainWait \/ HardwareReset \/ ClearOpen
          \/ DoneWait
  BY <1>4 DEF DisarmDrainWaiter, DrainWait, HardwareReset, ClearOpen, DoneWait,
    Goto
<1>5. CASE Join \/ ShutdownClosed \/ StartThread \/ WaitForOpen
  BY <1>5 DEF Join, ShutdownClosed, StartThread, WaitForOpen, Goto
<1>6. CASE SetEvent
  BY <1>6 DEF SetEvent, Goto
<1>7. CASE WriteCommand
  BY <1>7 DEF WriteCommand, Goto
<1>8. CASE BoundGpuVuExecutionLatency
  BY <1>8 DEF BoundGpuVuExecutionLatency, Goto
<1>9. CASE CheckDrained
  BY <1>9 DEF CheckDrained, Goto
<1>10. ASSUME NEW c \in Call, Begin(c) PROVE ControlTypes'
  BY <1>10 DEF Begin, Call
<1>11. CASE EntryLoop \/ WaitForWork \/ Awake \/ HandleCommand \/ FramePost
  BY <1>11 DEF EntryLoop, WaitForWork, Awake, HandleCommand, FramePost, GsStays,
    PostListener
<1>12. CASE IdlePost \/ PeekCompletion \/ AnnounceHole \/ PeekAgain
          \/ WithdrawHole
  BY <1>12 DEF IdlePost, PeekCompletion, AnnounceHole, PeekAgain, WithdrawHole,
    GsStays, PostListener
<1>13. CASE Advance \/ CountDown \/ EndOfRing \/ EndOfPass \/ Closing
  BY <1>13 DEF Advance, CountDown, EndOfRing, EndOfPass, Closing, GsStays
<1>14. CASE AcknowledgeClose
  BY <1>14 DEF AcknowledgeClose, GsStays
<1>15. CASE ConsumePath1
  BY <1>15 DEF ConsumePath1, GsStays
<1>16. ASSUME NEW ok \in BOOLEAN, OpenGs(ok) PROVE ControlTypes'
  BY <1>16 DEF OpenGs, GsStays
<1>17. CASE VuWaitForWork \/ WaitForBuffer \/ CommitExecution \/ SeeRingEmpty
          \/ Push
  BY <1>17 DEF VuWaitForWork, WaitForBuffer, CommitExecution, SeeRingEmpty, Push,
    VuStays
<1>18. CASE PushFull \/ ClaimGsWaiter \/ NotifyGs
  BY <1>18 DEF PushFull, ClaimGsWaiter, NotifyGs, VuStays
<1>19. CASE ExecuteCpu
  BY <1>19 DEF ExecuteCpu, VuStays
<1>20. CASE ServeRequests
  BY <1>20 DEF ServeRequests, VuStays
<1>21. CASE ClaimDrainWaiter
  BY <1>21 DEF ClaimDrainWaiter, VuStays
<1>22. ASSUME NEW o \in Output, ExecuteDirect(o) PROVE ControlTypes'
  <2>1. vpc' \in {"push", "commit"} /\ vthen' = "commit"
    BY <1>22, Zenon DEF ExecuteDirect
  <2> QED
    BY <1>22, <2>1 DEF ExecuteDirect, VuStays
<1> QED
  BY <1>1, <1>2, <1>3, <1>4, <1>5, <1>6, <1>7, <1>8, <1>9, <1>10, <1>11,
     <1>12, <1>13, <1>14, <1>15, <1>16, <1>17, <1>18, <1>19, <1>20, <1>21, <1>22
     DEF Next, EE, EEContinues, GS, MTVU

LEMMA JobsStayCounted ==
    ASSUME TypeInv, Next PROVE JobsAreCounted'
<1> USE MailboxAssumption DEF TypeInv, TypeOK, CountTypes, JobsAreCounted, Executing,
            Publish
<1>1. CASE RequestGpuVuPath1Flush \/ QueueMtvuPath1Reservation \/ GenericStall
          \/ ArmStall \/ Spin \/ EnableSignal \/ SetEvent \/ RingWait
          \/ WriteCommand \/ KickStart
  BY <1>1 DEF RequestGpuVuPath1Flush, QueueMtvuPath1Reservation, GenericStall,
    ArmStall, Spin, EnableSignal, SetEvent, RingWait, WriteCommand, KickStart,
    Goto
<1>2. CASE CountFrame \/ Listen \/ BoundGpuVuExecutionLatency \/ VsyncWait
          \/ WaitForEmpty \/ CheckDrained \/ ArmDrainWaiter \/ LookAtWaiting
          \/ DisarmDrainWaiter \/ DrainWait
  BY <1>2 DEF CountFrame, Listen, BoundGpuVuExecutionLatency, VsyncWait,
    WaitForEmpty, CheckDrained, ArmDrainWaiter, LookAtWaiting, DisarmDrainWaiter,
    DrainWait, Goto
<1>3. CASE HardwareReset \/ ClearOpen \/ DoneWait \/ Join \/ ShutdownClosed
          \/ StartThread \/ WaitForOpen
  BY <1>3 DEF HardwareReset, ClearOpen, DoneWait, Join, ShutdownClosed,
    StartThread, WaitForOpen, Goto
<1>4. CASE PublishPendingVifBatch
  BY <1>4 DEF PublishPendingVifBatch, Goto
<1>5. ASSUME NEW c \in Call, Begin(c) PROVE JobsAreCounted'
  BY <1>5 DEF Begin, Call
<1>6. CASE EntryLoop \/ WaitForWork \/ Awake \/ HandleCommand \/ FramePost
          \/ IdlePost \/ PeekCompletion \/ AnnounceHole \/ PeekAgain
          \/ WithdrawHole
  BY <1>6 DEF EntryLoop, WaitForWork, Awake, HandleCommand, FramePost, IdlePost,
    PeekCompletion, AnnounceHole, PeekAgain, WithdrawHole, GsStays, PostListener
<1>7. CASE ConsumePath1 \/ Advance \/ CountDown \/ EndOfRing \/ EndOfPass
          \/ Closing \/ AcknowledgeClose
  BY <1>7 DEF ConsumePath1, Advance, CountDown, EndOfRing, EndOfPass, Closing,
    AcknowledgeClose, GsStays
<1>8. ASSUME NEW ok \in BOOLEAN, OpenGs(ok) PROVE JobsAreCounted'
  BY <1>8 DEF OpenGs, GsStays
<1>9. CASE VuWaitForWork \/ WaitForBuffer
  BY <1>9 DEF VuWaitForWork, WaitForBuffer, VuStays
<1>10. CASE ExecuteCpu
  BY <1>10 DEF ExecuteCpu, VuStays
<1>11. CASE CommitExecution
  BY <1>11 DEF CommitExecution, VuStays
<1>12. CASE SeeRingEmpty
  BY <1>12 DEF SeeRingEmpty, VuStays
<1>13. CASE ServeRequests
  BY <1>13 DEF ServeRequests, VuStays
<1>14. CASE Push
  BY <1>14 DEF Push, VuStays
<1>15. CASE PushFull
  BY <1>15 DEF PushFull, VuStays
<1>16. CASE ClaimGsWaiter
  BY <1>16 DEF ClaimGsWaiter, VuStays
<1>17. CASE NotifyGs
  BY <1>17 DEF NotifyGs, VuStays
<1>18. CASE ClaimDrainWaiter
  BY <1>18 DEF ClaimDrainWaiter, VuStays
<1>19. ASSUME NEW o \in Output, ExecuteDirect(o) PROVE JobsAreCounted'
  BY <1>19 DEF ExecuteDirect, VuStays
<1> QED
  BY <1>1, <1>2, <1>3, <1>4, <1>5, <1>6, <1>7, <1>8, <1>9, <1>10, <1>11,
     <1>12, <1>13, <1>14, <1>15, <1>16, <1>17, <1>18, <1>19
     DEF Next, EE, EEContinues, GS, MTVU

LEMMA WorkStaysThere ==
    ASSUME TypeInv, Next PROVE WorkIsThere'
<1> USE DEF TypeInv, TypeOK, QueueTypes, ControlTypes, WorkIsThere, Publish
<1>1. CASE PublishPendingVifBatch \/ RequestGpuVuPath1Flush
          \/ QueueMtvuPath1Reservation \/ GenericStall \/ ArmStall \/ Spin
          \/ EnableSignal \/ SetEvent \/ RingWait \/ WriteCommand
  BY <1>1 DEF PublishPendingVifBatch, RequestGpuVuPath1Flush,
    QueueMtvuPath1Reservation, GenericStall, ArmStall, Spin, EnableSignal,
    SetEvent, RingWait, WriteCommand, Goto
<1>2. CASE KickStart \/ CountFrame \/ Listen \/ BoundGpuVuExecutionLatency
          \/ VsyncWait \/ WaitForEmpty \/ CheckDrained \/ ArmDrainWaiter
          \/ LookAtWaiting \/ DisarmDrainWaiter
  BY <1>2 DEF KickStart, CountFrame, Listen, BoundGpuVuExecutionLatency,
    VsyncWait, WaitForEmpty, CheckDrained, ArmDrainWaiter, LookAtWaiting,
    DisarmDrainWaiter, Goto
<1>3. CASE DrainWait \/ HardwareReset \/ ClearOpen \/ DoneWait \/ Join
          \/ ShutdownClosed \/ WaitForOpen
  BY <1>3 DEF DrainWait, HardwareReset, ClearOpen, DoneWait, Join,
    ShutdownClosed, WaitForOpen, Goto
<1>4. CASE StartThread
  BY <1>4 DEF StartThread, Goto
<1>5. ASSUME NEW c \in Call, Begin(c) PROVE WorkIsThere'
  BY <1>5 DEF Begin, Call
<1>6. CASE EntryLoop \/ WaitForWork \/ Awake \/ HandleCommand \/ FramePost
          \/ IdlePost \/ AnnounceHole \/ Advance \/ CountDown \/ EndOfRing
  BY <1>6 DEF EntryLoop, WaitForWork, Awake, HandleCommand, FramePost, IdlePost,
    AnnounceHole, Advance, CountDown, EndOfRing, GsStays, PostListener
<1>7. CASE EndOfPass \/ AcknowledgeClose
  BY <1>7 DEF EndOfPass, AcknowledgeClose, GsStays
<1>8. CASE PeekCompletion
  BY <1>8 DEF PeekCompletion, GsStays
<1>9. CASE PeekAgain
  BY <1>9 DEF PeekAgain, GsStays
<1>10. CASE WithdrawHole
  BY <1>10 DEF WithdrawHole, GsStays
<1>11. CASE ConsumePath1
  BY <1>11 DEF ConsumePath1, GsStays
<1>12. CASE Closing
  BY <1>12 DEF Closing, GsStays
<1>13. ASSUME NEW ok \in BOOLEAN, OpenGs(ok) PROVE WorkIsThere'
  BY <1>13 DEF OpenGs, GsStays
<1>14. CASE VuWaitForWork \/ WaitForBuffer \/ CommitExecution \/ SeeRingEmpty
          \/ ClaimGsWaiter \/ NotifyGs
  BY <1>14 DEF VuWaitForWork, WaitForBuffer, CommitExecution, SeeRingEmpty,
    ClaimGsWaiter, NotifyGs, VuStays
<1>15. CASE ExecuteCpu
  BY <1>15 DEF ExecuteCpu, VuStays
<1>16. CASE ServeRequests
  BY <1>16 DEF ServeRequests, VuStays
<1>17. CASE Push
  BY <1>17 DEF Push, VuStays
<1>18. CASE PushFull
  BY <1>18 DEF PushFull, VuStays
<1>19. CASE ClaimDrainWaiter
  BY <1>19 DEF ClaimDrainWaiter, VuStays
<1>20. ASSUME NEW o \in Output, ExecuteDirect(o) PROVE WorkIsThere'
  BY <1>20 DEF ExecuteDirect, VuStays
<1> QED
  BY <1>1, <1>2, <1>3, <1>4, <1>5, <1>6, <1>7, <1>8, <1>9, <1>10, <1>11,
     <1>12, <1>13, <1>14, <1>15, <1>16, <1>17, <1>18, <1>19, <1>20
     DEF Next, EE, EEContinues, GS, MTVU

LEMMA QueuesStayTyped ==
    ASSUME TypeInv, Next PROVE QueueTypes'
<1> USE MailboxAssumption DEF TypeInv, TypeOK, QueueTypes
<1>1. CASE PublishPendingVifBatch \/ RequestGpuVuPath1Flush
          \/ QueueMtvuPath1Reservation \/ GenericStall \/ ArmStall \/ Spin
          \/ EnableSignal \/ SetEvent \/ RingWait \/ WriteCommand
  BY <1>1 DEF PublishPendingVifBatch, RequestGpuVuPath1Flush,
    QueueMtvuPath1Reservation, GenericStall, ArmStall, Spin, EnableSignal,
    SetEvent, RingWait, WriteCommand, Goto
<1>2. CASE KickStart \/ CountFrame \/ Listen \/ BoundGpuVuExecutionLatency
          \/ VsyncWait \/ WaitForEmpty \/ CheckDrained \/ ArmDrainWaiter
          \/ LookAtWaiting \/ DisarmDrainWaiter
  BY <1>2 DEF KickStart, CountFrame, Listen, BoundGpuVuExecutionLatency,
    VsyncWait, WaitForEmpty, CheckDrained, ArmDrainWaiter, LookAtWaiting,
    DisarmDrainWaiter, Goto
<1>3. CASE DrainWait \/ HardwareReset \/ ClearOpen \/ DoneWait \/ Join
          \/ ShutdownClosed \/ WaitForOpen
  BY <1>3 DEF DrainWait, HardwareReset, ClearOpen, DoneWait, Join,
    ShutdownClosed, WaitForOpen, Goto
<1>4. CASE StartThread
  BY <1>4 DEF StartThread, Completions, Points
<1>5. ASSUME NEW c \in Call, Begin(c) PROVE QueueTypes'
  BY <1>5 DEF Begin, Call
<1>6. CASE EntryLoop \/ WaitForWork \/ Awake \/ HandleCommand \/ FramePost
          \/ IdlePost \/ PeekCompletion \/ AnnounceHole \/ PeekAgain
          \/ WithdrawHole
  BY <1>6 DEF EntryLoop, WaitForWork, Awake, HandleCommand, FramePost, IdlePost,
    PeekCompletion, AnnounceHole, PeekAgain, WithdrawHole, GsStays, PostListener
<1>7. CASE Advance \/ CountDown \/ EndOfRing \/ EndOfPass \/ AcknowledgeClose
  BY <1>7 DEF Advance, CountDown, EndOfRing, EndOfPass, AcknowledgeClose, GsStays
<1>8. CASE ConsumePath1
  <2>1. Len(completions) \in Nat /\ Len(completions') \in Nat
    BY <1>8, ConsumedIsTyped DEF Completions
  <2>2. completions' \in Completions /\ Len(completions') <= Len(completions)
    BY <1>8, ConsumedIsTyped
  <2>3. pending' = pending /\ outbox' = outbox
    BY <1>8 DEF ConsumePath1, GsStays
  <2> QED
    BY <2>1, <2>2, <2>3
<1>9. CASE Closing
  BY <1>9 DEF Closing, GsStays, Completions
<1>10. ASSUME NEW ok \in BOOLEAN, OpenGs(ok) PROVE QueueTypes'
  BY <1>10 DEF OpenGs, GsStays
<1>11. CASE VuWaitForWork \/ WaitForBuffer \/ CommitExecution \/ SeeRingEmpty
          \/ PushFull \/ ClaimGsWaiter \/ NotifyGs \/ ClaimDrainWaiter
  BY <1>11 DEF VuWaitForWork, WaitForBuffer, CommitExecution, SeeRingEmpty,
    PushFull, ClaimGsWaiter, NotifyGs, ClaimDrainWaiter, VuStays
<1>12. CASE ExecuteCpu
  <2>1. Point("cpu") \in PointRecord
    BY <1>12, PointIsTyped DEF ExecuteCpu, Output
  <2>2. <<Point("cpu")>> \in Points /\ <<Point("cpu")>> # <<>>
    BY <2>1 DEF Points, PointRecord
  <2>3. Completion(<<Point("cpu")>>, FALSE) \in CompletionRecord
    BY <2>2 DEF Completion, CompletionRecord
  <2>4. Flushed(pending) \in Seq(CompletionRecord)
    BY FlushedIsTyped DEF Completions, CompletionRecord
  <2>5. outbox' = Append(Flushed(pending), Completion(<<Point("cpu")>>, FALSE))
    BY <1>12 DEF ExecuteCpu, Publish
  <2>6. outbox' \in Completions
    BY <2>3, <2>4, <2>5, AppendProperties DEF Completions, CompletionRecord
  <2> QED
    BY <1>12, <2>6 DEF ExecuteCpu, VuStays, Points
<1>13. CASE ServeRequests
  <2>1. <<>> \in Completions /\ <<>> \in Points /\ Flushed(pending) \in Completions
    BY FlushedIsTyped, NothingIsTyped
  <2> QED
    BY <1>13, <2>1 DEF ServeRequests, VuStays, Publish
<1>14. CASE Push
  <2>1. outbox \in Seq(CompletionRecord) /\ outbox # <<>>
    BY <1>14 DEF Push, WorkIsThere, Completions, CompletionRecord
  <2>2. completions \in Seq(CompletionRecord)
    BY DEF Completions, CompletionRecord
  <2>3. Head(outbox) \in CompletionRecord /\ Tail(outbox) \in Seq(CompletionRecord)
    BY <2>1, HeadTailProperties
  <2>4. /\ Append(completions, Head(outbox)) \in Seq(CompletionRecord)
        /\ Len(Append(completions, Head(outbox))) = Len(completions) + 1
    BY <2>2, <2>3, AppendProperties
  <2>5. Len(completions) \in Nat
    BY <2>2
  <2> QED
    BY <1>14, <2>3, <2>4, <2>5 DEF Push, VuStays, Completions, CompletionRecord
<1>15. ASSUME NEW o \in Output, ExecuteDirect(o) PROVE QueueTypes'
  <2> DEFINE run == Append(pending, Point(o))
  <2>1. Point(o) \in PointRecord
    BY <1>15, PointIsTyped DEF ExecuteDirect
  <2>2. run \in Points /\ Len(run) > 0
    BY <2>1, AppendProperties DEF Points, PointRecord
  <2>3. <<>> \in Completions /\ <<>> \in Points /\ Flushed(run) \in Completions
    BY <2>2, FlushedIsTyped, NothingIsTyped
  <2>4. Prefix(run) \in Points /\ Suffix(run) \in Points
    BY <2>2, PrefixIsTyped
  <2>5. Prefix(run) # <<>> => <<Completion(Prefix(run), FALSE)>> \in Completions
    BY <2>4, OneCompletion
  <2>6. \/ pending' = <<>> /\ outbox' = Flushed(run)
        \/ pending' = run /\ outbox' = <<>>
        \/ /\ Prefix(run) # <<>> /\ pending' = Suffix(run)
           /\ outbox' = <<Completion(Prefix(run), FALSE)>>
    BY <1>15 DEF ExecuteDirect, Publish
  <2> HIDE DEF run
  <2>7. pending' \in Points /\ outbox' \in Completions
    BY <2>2, <2>3, <2>4, <2>5, <2>6
  <2> QED
    BY <1>15, <2>7 DEF ExecuteDirect, VuStays
<1> QED
  BY <1>1, <1>2, <1>3, <1>4, <1>5, <1>6, <1>7, <1>8, <1>9, <1>10, <1>11,
     <1>12, <1>13, <1>14, <1>15
     DEF Next, EE, EEContinues, GS, MTVU

LEMMA InitIsTyped == ASSUME Init PROVE TypeInv
<1> USE MailboxAssumption DEF Init
<1>1. RingTypes
  BY DEF RingTypes, Position, NoRun
<1>2. FlagTypes
  BY Zenon DEF FlagTypes
<1>3. CountTypes
  BY DEF CountTypes
<1>4. QueueTypes
  BY DEF QueueTypes, Completions, Points
<1>5. ControlTypes
  BY DEF ControlTypes, EEControl, GSControl, VUControl, Call
<1>6. JobsAreCounted
  BY DEF JobsAreCounted, Executing
<1>7. WorkIsThere
  BY DEF WorkIsThere
<1> QED
  BY <1>1, <1>2, <1>3, <1>4, <1>5, <1>6, <1>7 DEF TypeInv, TypeOK

\* The mailbox has its types in every state, and what a thread takes is there.
THEOREM TypeInvariant == Spec => []TypeInv
<1>1. Init => TypeInv
  BY InitIsTyped
<1>2. TypeInv /\ WakeInv' /\ [Next]_vars => TypeInv'
  <2> SUFFICES ASSUME TypeInv, WakeInv', [Next]_vars PROVE TypeInv'
    OBVIOUS
  <2>1. CASE Next
    BY <2>1, RingStaysTyped, FlagsStayTyped, CountsStayTyped, QueuesStayTyped,
       ControlStaysTyped, JobsStayCounted, WorkStaysThere DEF TypeInv, TypeOK
  <2>2. CASE UNCHANGED vars
    BY <2>2 DEF vars, TypeInv, TypeOK, RingTypes, FlagTypes, CountTypes, QueueTypes,
                ControlTypes, JobsAreCounted, Executing, WorkIsThere
  <2> QED
    BY <2>1, <2>2
<1> QED
  BY <1>1, <1>2, WakeInvariant, PTL DEF Spec

\* Every variable of the mailbox keeps its type: a claimed run never exceeds
\* MaximumMtvuReservationRun, the countdown and both positions stay in range,
\* and MTVU never overfills the completion queue.
THEOREM TypeCorrect == Spec => []TypeOK
<1>1. TypeInv => TypeOK
  BY DEF TypeInv
<1> QED
  BY <1>1, TypeInvariant, PTL
-----------------------------------------------------------------------------
(* The geometry of the ring *)

LEMMA StepIsSum ==
    ASSUME NEW p \in Position, NEW n \in Nat, n < RingSize
    PROVE  Step(p, n) = IF p + n < RingSize THEN p + n ELSE p + n - RingSize
<1> USE MailboxAssumption
<1>1. CASE p + n < RingSize
  BY <1>1 DEF Position, Step
<1>2. CASE p + n >= RingSize
  <2> DEFINE m == p + n - RingSize
  <2>1. m \in 0 .. RingSize - 1 /\ p + n = m + RingSize
    BY <1>2 DEF Position
  <2>2. (m + RingSize) % RingSize = m
    BY <2>1
  <2> QED
    BY <1>2, <2>1, <2>2 DEF Step, Position
<1> QED
  BY <1>1, <1>2 DEF Position

LEMMA DistanceIsTyped ==
    ASSUME RingTypes, NEW p \in Position
    PROVE  /\ Distance(p) \in Position
           /\ (Distance(p) = 0) <=> (p = read)
           /\ \A q \in Position : Distance(p) = Distance(q) => p = q
<1> USE MailboxAssumption DEF RingTypes, Position, Distance
<1>1. Distance(p) \in Position
  BY SMTT(40)
<1>2. (Distance(p) = 0) <=> (p = read)
  OBVIOUS
<1>3. \A q \in Position : Distance(p) = Distance(q) => p = q
  <2> SUFFICES ASSUME NEW q \in Position, Distance(p) = Distance(q) PROVE p = q
    OBVIOUS
  <2> QED
    OBVIOUS
<1> QED
  BY <1>1, <1>2, <1>3

\* The words the EE may write are those the worker has passed.
LEMMA RoomIsDistance ==
    ASSUME RingTypes PROVE FreeRoom = RingSize - Distance(write)
BY MailboxAssumption DEF RingTypes, Position, Distance, FreeRoom

LEMMA StepIsFurther ==
    ASSUME RingTypes, NEW p \in Position, NEW n \in Nat, Distance(p) + n < RingSize
    PROVE  Step(p, n) \in Position /\ Distance(Step(p, n)) = Distance(p) + n
<1>1. n < RingSize /\ p \in Int /\ read \in Int
  BY MailboxAssumption DEF RingTypes, Position, Distance
<1>2. Step(p, n) = IF p + n < RingSize THEN p + n ELSE p + n - RingSize
  BY <1>1, StepIsSum
<1> QED
  BY <1>1, <1>2, MailboxAssumption DEF RingTypes, Position, Distance

\* A packet of n words ahead of the write position takes words of no other.
LEMMA WriteExtends ==
    ASSUME RingTypes, NEW n \in Nat, Distance(write) + n < RingSize, read' = read,
           write' = Step(write, n)
    PROVE  /\ Distance(write)' = Distance(write) + n
           /\ \A p \in Position : Distance(p)' = Distance(p)
           /\ \A p \in Position : p \in Unpassed' =>
                  \/ p \in Unpassed
                  \/ \E i \in 0 .. n - 1 : Distance(p) = Distance(write) + i
<1>1. write \in Position
  BY DEF RingTypes
<1>2. \A p \in Position : Distance(p)' = Distance(p) /\ Distance(p) \in Int
  BY DistanceIsTyped DEF Distance, Position
<1>3. Distance(write)' = Distance(write) + n
  BY <1>1, StepIsFurther DEF Distance
<1>4. ASSUME NEW p \in Position, p \in Unpassed', p \notin Unpassed
      PROVE  \E i \in 0 .. n - 1 : Distance(p) = Distance(write) + i
  <2>1. Distance(p) < Distance(write) + n /\ ~(Distance(p) < Distance(write))
    BY <1>2, <1>3, <1>4 DEF Unpassed
  <2>2. Distance(p) \in Int /\ Distance(write) \in Int
    BY <1>1, <1>2
  <2>3. Distance(p) - Distance(write) \in 0 .. n - 1
    BY <2>1, <2>2
  <2>4. Distance(p) = Distance(write) + (Distance(p) - Distance(write))
    BY <2>2
  <2> QED
    BY <2>3, <2>4
<1> QED
  BY <1>2, <1>3, <1>4

\* Passing n words brings the others n words nearer.
LEMMA ReadPasses ==
    ASSUME RingTypes, NEW n \in Nat, n <= Distance(write), read' = Step(read, n),
           write' = write, NEW p \in Position
    PROVE  Distance(p)' = IF n <= Distance(p) THEN Distance(p) - n
                          ELSE Distance(p) - n + RingSize
<1>1. /\ read \in Int /\ write \in Int /\ p \in Int /\ RingSize \in Int
      /\ 0 <= read /\ read < RingSize /\ 0 <= p /\ p < RingSize
      /\ 0 <= write /\ write < RingSize
  BY MailboxAssumption DEF RingTypes, Position
<1>2. n < RingSize
  BY <1>1 DEF Distance
<1>3. read' = IF read + n < RingSize THEN read + n ELSE read + n - RingSize
  BY <1>2, StepIsSum DEF RingTypes
<1>4. Distance(p)' = IF read' <= p THEN p - read' ELSE p - read' + RingSize
  BY DEF Distance
<1> QED
  BY <1>1, <1>2, <1>3, <1>4 DEF Distance

-----------------------------------------------------------------------------
(* The two steps that move a position *)

\* SendDataPacket() writes where the worker has passed, so it leaves every
\* unpassed word alone and adds one command with its payload.
LEMMA WrittenPacket ==
    ASSUME TypeInv, RoomIsLeft, WriteCommand
    PROVE  /\ Distance(write)' = Distance(write) + SizeOf(call)
           /\ \A p \in Position : Distance(p)' = Distance(p)
           /\ \A p \in Unpassed : p \in Unpassed' /\ ring'[p] = ring[p]
           /\ write \in Unpassed'
           /\ (ring'[write] = "vsync") <=> (call = "vsync")
           /\ \A p \in Unpassed' \ Unpassed : p = write \/ ring'[p] = "payload"
           /\ \A i \in 1 .. SizeOf(call) - 1 : ring'[Step(write, i)] = "payload"
<1> DEFINE n == SizeOf(call)
<1>1. RingTypes /\ write \in Position
  BY DEF TypeInv, TypeOK, RingTypes
<1>2. n \in Nat /\ n > 0
  BY SizeIsPositive
<1>3. Distance(write) \in Nat /\ RingSize \in Nat
  BY <1>1, DistanceIsTyped, MailboxAssumption DEF Position
<1>4. Distance(write) + n < RingSize
  <2>1. RingSize - Distance(write) > n
    BY <1>1, RoomIsDistance DEF RoomIsLeft, WriteCommand
  <2> HIDE DEF n
  <2> QED
    BY <1>2, <1>3, <2>1
<1>5. read' = read /\ write' = Step(write, n)
  BY DEF WriteCommand
<1> DEFINE Word(p) ==
        IF p = write
        THEN CASE call = "exec" -> "path1" [] call = "vsync" -> "vsync" [] OTHER -> "gs"
        ELSE IF \E i \in 1 .. n - 1 : p = Step(write, i) THEN "payload" ELSE ring[p]
<1>6. \A p \in Position : ring'[p] = Word(p)
  BY DEF WriteCommand
<1> HIDE DEF n
<1>7. /\ Distance(write)' = Distance(write) + n
      /\ \A p \in Position : Distance(p)' = Distance(p)
      /\ \A p \in Position : p \in Unpassed' =>
             \/ p \in Unpassed
             \/ \E i \in 0 .. n - 1 : Distance(p) = Distance(write) + i
  BY <1>1, <1>2, <1>4, <1>5, WriteExtends
<1>8. \A i \in 0 .. n - 1 : Step(write, i) \in Position /\
                            Distance(Step(write, i)) = Distance(write) + i
  <2> TAKE i \in 0 .. n - 1
  <2>1. i \in Nat /\ Distance(write) + i < RingSize
    BY <1>2, <1>3, <1>4
  <2> QED
    BY <1>1, <2>1, StepIsFurther
<1>9. \A p \in Position : Distance(p) \in Nat
  BY <1>1, DistanceIsTyped DEF Position
<1>10. ASSUME NEW p \in Unpassed PROVE p \in Unpassed' /\ ring'[p] = ring[p]
  <2>1. p \in Position /\ Distance(p) < Distance(write)
    BY DEF Unpassed
  <2>2. p # write /\ ~\E i \in 1 .. n - 1 : p = Step(write, i)
    BY <1>2, <1>3, <1>8, <1>9, <2>1
  <2>3. ring'[p] = ring[p]
    BY <1>6, <2>1, <2>2
  <2>4. p \in Unpassed'
    BY <1>2, <1>3, <1>7, <1>9, <2>1 DEF Unpassed, Position
  <2> QED
    BY <2>3, <2>4
<1>11. write \in Unpassed'
  BY <1>1, <1>2, <1>3, <1>7 DEF Unpassed, Position
<1>12. (ring'[write] = "vsync") <=> (call = "vsync")
  BY <1>1, <1>6
<1>13. \A i \in 1 .. n - 1 : ring'[Step(write, i)] = "payload"
  <2> TAKE i \in 1 .. n - 1
  <2>1. i \in 0 .. n - 1
    BY <1>2
  <2>2. Step(write, i) \in Position /\ Step(write, i) # write
    BY <1>3, <1>8, <2>1
  <2> QED
    BY <1>6, <2>2
<1>14. ASSUME NEW p \in Unpassed', p \notin Unpassed
       PROVE  p = write \/ ring'[p] = "payload"
  <2>1. p \in Position
    BY DEF Unpassed, Position
  <2>2. PICK i \in 0 .. n - 1 : Distance(p) = Distance(write) + i
    BY <1>7, <1>14, <2>1
  <2>3. p = Step(write, i)
    BY <1>1, <1>8, <2>1, <2>2, DistanceIsTyped
  <2>4. CASE i = 0
    BY <1>1, <1>3, <2>1, <2>2, <2>4, DistanceIsTyped
  <2>5. CASE i # 0
    <3>1. i \in 1 .. n - 1
      BY <1>2, <2>5
    <3> QED
      BY <1>13, <2>3, <3>1
  <2> QED
    BY <2>4, <2>5
<1> QED
  BY <1>7, <1>10, <1>11, <1>12, <1>13, <1>14 DEF n

\* s_read_pos moves over one whole command, so a command that was unpassed is
\* still unpassed, or was the command at the head.
LEMMA PassedPacket ==
    ASSUME TypeInv, PacketsAreWhole, WorkerIsAtCommand, Advance
    PROVE  \E n \in Nat :
           /\ n = SizeOf(ring[read])
           /\ n > 0 /\ n <= Distance(write) /\ Distance(write)' = Distance(write) - n
           /\ \A p \in Position : n <= Distance(p) => Distance(p)' = Distance(p) - n
           /\ \A p \in Position :
                  p \in Unpassed' <=> (p \in Unpassed /\ n <= Distance(p))
           /\ \A p \in Unpassed : ring[p] # "payload" => p = read \/ n <= Distance(p)
<1> DEFINE n == SizeOf(ring[read])
<1>1. RingTypes /\ write \in Position /\ read \in Position
  BY DEF TypeInv, TypeOK, RingTypes
<1>2. n \in Nat /\ n > 0
  BY SizeIsPositive
<1>3. \A p \in Position : Distance(p) \in Nat /\ Distance(p) < RingSize
  BY <1>1, DistanceIsTyped, MailboxAssumption DEF Position
<1>4. Distance(read) = 0 /\ Distance(write) > 0
  BY <1>1, <1>3, DistanceIsTyped DEF Advance, WorkerIsAtCommand
<1>5. read \in Unpassed
  BY <1>1, <1>4 DEF Unpassed
<1>6. n <= Distance(write)
  <2>1. CASE ring[read] = "vsync"
    <3>1. Distance(read) + VSyncSize < Distance(write)
      BY <1>5, <2>1 DEF PacketsAreWhole
    <3> QED
      BY <1>1, <1>3, <1>4, <2>1, <3>1, MailboxAssumption DEF SizeOf
  <2>2. CASE ring[read] # "vsync"
    BY <1>1, <1>3, <1>4, <2>2 DEF SizeOf
  <2> QED
    BY <2>1, <2>2
<1>7. read' = Step(read, n) /\ write' = write
  BY DEF Advance
<1>8. \A p \in Unpassed : ring[p] # "payload" => p = read \/ n <= Distance(p)
  <2> SUFFICES ASSUME NEW p \in Unpassed, ring[p] # "payload", p # read,
                      ~(n <= Distance(p))
               PROVE  FALSE
    OBVIOUS
  <2>1. p \in Position /\ Distance(p) \in Nat /\ Distance(p) > 0
    BY <1>1, <1>3, DistanceIsTyped DEF Unpassed
  <2>2. CASE ring[read] = "vsync"
    <3>1. n = VSyncSize + 1
      BY <2>2 DEF SizeOf
    <3>2. Distance(p) \in 1 .. VSyncSize
      BY <1>2, <2>1, <3>1, MailboxAssumption
    <3>3. ring[Step(read, Distance(p))] = "payload"
      BY <1>5, <2>2, <3>2 DEF PacketsAreWhole
    <3>4. Step(read, Distance(p)) = p
      <4>1. Distance(read) + Distance(p) < RingSize
        BY <1>3, <1>4, <2>1
      <4>2. /\ Step(read, Distance(p)) \in Position
            /\ Distance(Step(read, Distance(p))) = Distance(p)
        BY <1>1, <1>4, <2>1, <4>1, StepIsFurther
      <4> QED
        BY <1>1, <2>1, <4>2, DistanceIsTyped
    <3> QED
      BY <3>3, <3>4
  <2>3. CASE ring[read] # "vsync"
    <3>1. n = 1
      BY <2>3 DEF SizeOf
    <3> QED
      BY <2>1, <3>1
  <2> QED
    BY <2>2, <2>3
<1> HIDE DEF n
<1>9. \A p \in Position : Distance(p)' = IF n <= Distance(p) THEN Distance(p) - n
                                        ELSE Distance(p) - n + RingSize
  BY <1>1, <1>2, <1>6, <1>7, ReadPasses
<1>10. Distance(write)' = Distance(write) - n
  <2>1. Distance(write)' = (IF read' <= write THEN write - read'
                            ELSE write - read' + RingSize)
    BY <1>7 DEF Distance
  <2> QED
    BY <1>1, <1>6, <1>7, <1>9, <2>1 DEF Distance
<1>11. \A p \in Position :
           p \in Unpassed' <=> (p \in Unpassed /\ n <= Distance(p))
  <2> TAKE p \in Position
  <2>1. p \in Unpassed' <=> Distance(p)' < Distance(write)'
    BY DEF Unpassed, Position
  <2>2. p \in Unpassed <=> Distance(p) < Distance(write)
    BY DEF Unpassed
  <2>3. Distance(p) \in Nat /\ Distance(write) \in Nat /\ RingSize \in Nat
    BY <1>1, <1>3, MailboxAssumption
  <2>4. Distance(write) < RingSize
    BY <1>1, <1>3
  <2> QED
    BY <1>2, <1>9, <1>10, <2>1, <2>2, <2>3, <2>4
<1>12. \A p \in Position : n <= Distance(p) => Distance(p)' = Distance(p) - n
  BY <1>9
<1>13. n = SizeOf(ring[read])
  BY DEF n
<1> QED
  BY <1>2, <1>6, <1>8, <1>10, <1>11, <1>12, <1>13

-----------------------------------------------------------------------------
(* The frames in the ring *)

LEMMA SameRing ==
    ASSUME UNCHANGED <<ring, read, write>>
    PROVE  /\ UNCHANGED <<FreeRoom, Unpassed>>
           /\ PacketsAreWhole => PacketsAreWhole'
<1>1. FreeRoom' = FreeRoom /\ Unpassed' = Unpassed
  BY DEF FreeRoom, Unpassed, Distance, Position
<1> QED
  BY <1>1 DEF PacketsAreWhole, Distance, Step

LEMMA RoomIsTyped == ASSUME TypeInv PROVE FreeRoom \in Int
BY MailboxAssumption DEF TypeInv, TypeOK, RingTypes, Position, FreeRoom

LEMMA PrimedRoom ==
    ASSUME RingTypes' PROVE FreeRoom' = RingSize - Distance(write)'
BY MailboxAssumption, SMTT(40) DEF RingTypes, Position, Distance, FreeRoom

\* The worker only makes room, and the EE looks before it goes on.
LEMMA RoomStaysLeft ==
    ASSUME WakeInv, TypeInv, FrameInv, Next PROVE RoomIsLeft'
<1> USE SameRing DEF FrameInv, RoomIsLeft
<1>1. CASE PublishPendingVifBatch \/ RequestGpuVuPath1Flush
          \/ QueueMtvuPath1Reservation \/ ArmStall \/ EnableSignal \/ SetEvent
          \/ KickStart \/ BoundGpuVuExecutionLatency \/ VsyncWait \/ WaitForEmpty
  BY <1>1 DEF PublishPendingVifBatch, RequestGpuVuPath1Flush,
    QueueMtvuPath1Reservation, ArmStall, EnableSignal, SetEvent, KickStart,
    BoundGpuVuExecutionLatency, VsyncWait, WaitForEmpty, Goto
<1>2. CASE CheckDrained \/ ArmDrainWaiter \/ LookAtWaiting \/ DisarmDrainWaiter
          \/ DrainWait \/ ClearOpen \/ DoneWait \/ Join \/ ShutdownClosed
          \/ WaitForOpen
  BY <1>2 DEF CheckDrained, ArmDrainWaiter, LookAtWaiting, DisarmDrainWaiter,
    DrainWait, ClearOpen, DoneWait, Join, ShutdownClosed, WaitForOpen, Goto
<1>3. CASE GenericStall
  <2>1. FreeRoom \in Int /\ SizeOf(call) \in Int
    BY RoomIsTyped, SizeIsPositive
  <2>2. FreeRoom' = FreeRoom /\ (epc' \in {"count", "write"} =>
            FreeRoom > SizeOf(call) /\ call' = call)
    BY <1>3, <2>1 DEF GenericStall, Goto
  <2>3. epc' # "listen"
    BY <1>3 DEF GenericStall, Goto
  <2> QED
    BY <2>2, <2>3
<1>4. CASE Spin
  BY <1>4 DEF Spin, Goto
<1>5. CASE RingWait
  <2>1. FreeRoom \in Int /\ SizeOf(call) \in Int
    BY RoomIsTyped, SizeIsPositive
  <2>2. FreeRoom' = FreeRoom /\ (epc' \in {"count", "write"} =>
            FreeRoom > SizeOf(call) /\ call' = call)
    BY <1>5, <2>1 DEF RingWait, Goto
  <2>3. epc' # "listen"
    BY <1>5 DEF RingWait, Goto
  <2> QED
    BY <2>2, <2>3
<1>6. CASE WriteCommand
  BY <1>6 DEF WriteCommand, Goto
<1>7. CASE CountFrame
  BY <1>7 DEF CountFrame, Goto
<1>8. CASE Listen
  BY <1>8 DEF Listen, Goto
<1>9. CASE HardwareReset
  BY <1>9 DEF HardwareReset, Goto
<1>10. CASE StartThread
  BY <1>10 DEF StartThread, Goto
<1>11. ASSUME NEW c \in Call, Begin(c) PROVE RoomIsLeft'
  BY <1>11 DEF Begin, Call
<1>12. CASE EntryLoop \/ WaitForWork \/ Awake \/ HandleCommand \/ FramePost
          \/ IdlePost \/ PeekCompletion \/ AnnounceHole \/ PeekAgain
          \/ WithdrawHole
  BY <1>12 DEF EntryLoop, WaitForWork, Awake, HandleCommand, FramePost, IdlePost,
    PeekCompletion, AnnounceHole, PeekAgain, WithdrawHole, GsStays, PostListener
<1>13. CASE ConsumePath1 \/ CountDown \/ EndOfRing \/ EndOfPass
          \/ AcknowledgeClose
  BY <1>13 DEF ConsumePath1, CountDown, EndOfRing, EndOfPass, AcknowledgeClose,
    GsStays
<1>14. CASE Advance
  <2>1. PICK n \in Nat : n > 0 /\ Distance(write)' = Distance(write) - n
    BY <1>14, PassedPacket
  <2>2. RingTypes /\ RingTypes'
    BY <1>14, RingStaysTyped DEF Next, GS, TypeInv, TypeOK
  <2>3. FreeRoom = RingSize - Distance(write) /\ FreeRoom' = RingSize - Distance(write)'
    BY <2>2, RoomIsDistance, PrimedRoom
  <2>4. Distance(write) \in Nat /\ RingSize \in Nat /\ SizeOf(call) \in Nat
    <3>1. write \in Position
      BY <2>2 DEF RingTypes
    <3> QED
      BY <2>2, <3>1, DistanceIsTyped, SizeIsPositive, MailboxAssumption DEF Position
  <2>5. FreeRoom > SizeOf(call) => FreeRoom' > SizeOf(call)
    BY <2>1, <2>3, <2>4
  <2> QED
    BY <1>14, <2>5 DEF Advance, GsStays
<1>15. CASE Closing
  BY <1>15 DEF Closing, GsStays, WakeInv, LifeIsOrderly, MainLoop, Outside, Closes, Opens,
           Down
<1>16. ASSUME NEW ok \in BOOLEAN, OpenGs(ok) PROVE RoomIsLeft'
  BY <1>16 DEF OpenGs, GsStays
<1>17. CASE VuWaitForWork \/ ExecuteCpu \/ WaitForBuffer \/ CommitExecution
          \/ SeeRingEmpty \/ ServeRequests \/ Push \/ PushFull \/ ClaimGsWaiter
          \/ NotifyGs
  BY <1>17 DEF VuWaitForWork, ExecuteCpu, WaitForBuffer, CommitExecution,
    SeeRingEmpty, ServeRequests, Push, PushFull, ClaimGsWaiter, NotifyGs, VuStays
<1>18. CASE ClaimDrainWaiter
  BY <1>18 DEF ClaimDrainWaiter, VuStays
<1>19. ASSUME NEW o \in Output, ExecuteDirect(o) PROVE RoomIsLeft'
  BY <1>19 DEF ExecuteDirect, VuStays
<1> QED
  BY <1>1, <1>2, <1>3, <1>4, <1>5, <1>6, <1>7, <1>8, <1>9, <1>10, <1>11,
     <1>12, <1>13, <1>14, <1>15, <1>16, <1>17, <1>18, <1>19
     DEF Next, EE, EEContinues, GS, MTVU

\* A VSync keeps its snapshot behind it until it is passed.
LEMMA PacketsStayWhole ==
    ASSUME WakeInv, TypeInv, FrameInv, Next PROVE PacketsAreWhole'
<1> USE SameRing DEF FrameInv
<1>1. CASE PublishPendingVifBatch \/ RequestGpuVuPath1Flush
          \/ QueueMtvuPath1Reservation \/ GenericStall \/ ArmStall \/ Spin
          \/ EnableSignal \/ SetEvent \/ RingWait \/ KickStart
  BY <1>1 DEF PublishPendingVifBatch, RequestGpuVuPath1Flush,
    QueueMtvuPath1Reservation, GenericStall, ArmStall, Spin, EnableSignal,
    SetEvent, RingWait, KickStart, Goto
<1>2. CASE CountFrame \/ Listen \/ BoundGpuVuExecutionLatency \/ VsyncWait
          \/ WaitForEmpty \/ CheckDrained \/ ArmDrainWaiter \/ LookAtWaiting
          \/ DisarmDrainWaiter \/ DrainWait
  BY <1>2 DEF CountFrame, Listen, BoundGpuVuExecutionLatency, VsyncWait,
    WaitForEmpty, CheckDrained, ArmDrainWaiter, LookAtWaiting, DisarmDrainWaiter,
    DrainWait, Goto
<1>3. CASE ClearOpen \/ DoneWait \/ Join \/ ShutdownClosed \/ WaitForOpen
  BY <1>3 DEF ClearOpen, DoneWait, Join, ShutdownClosed, WaitForOpen, Goto
<1>4. CASE WriteCommand
  <2> SUFFICES ASSUME NEW p \in Unpassed', ring'[p] = "vsync"
               PROVE  /\ Distance(p)' + VSyncSize < Distance(write)'
                      /\ \A i \in 1 .. VSyncSize : ring'[Step(p, i)] = "payload"
    BY DEF PacketsAreWhole, Step
  <2>1. RingTypes /\ write \in Position /\ p \in Position
    BY DEF TypeInv, TypeOK, RingTypes, Unpassed, Position
  <2>2. /\ Distance(write)' = Distance(write) + SizeOf(call)
        /\ Distance(p)' = Distance(p) /\ Distance(p) \in Nat
        /\ Distance(write) \in Nat /\ Distance(write) < RingSize /\ RingSize \in Nat
        /\ SizeOf(call) \in Nat /\ VSyncSize \in Nat
    BY <1>4, <2>1, WrittenPacket, DistanceIsTyped, SizeIsPositive, MailboxAssumption
       DEF Position
  <2>3. CASE p \in Unpassed
    <3>1. /\ Distance(p) + VSyncSize < Distance(write)
          /\ \A i \in 1 .. VSyncSize : ring[Step(p, i)] = "payload"
      BY <1>4, <2>3, WrittenPacket DEF PacketsAreWhole
    <3>2. ASSUME NEW i \in 1 .. VSyncSize PROVE ring'[Step(p, i)] = "payload"
      <4>1. i \in Nat /\ Distance(p) + i < Distance(write)
        BY <2>2, <3>1
      <4>2. Distance(p) + i < RingSize
        BY <2>2, <4>1
      <4>3. Step(p, i) \in Position /\ Distance(Step(p, i)) = Distance(p) + i
        BY <2>1, <4>1, <4>2, StepIsFurther
      <4>4. Step(p, i) \in Unpassed
        BY <4>1, <4>3 DEF Unpassed
      <4> QED
        BY <1>4, <3>1, <4>4, WrittenPacket
    <3>3. Distance(p)' + VSyncSize < Distance(write)'
      BY <2>2, <3>1
    <3> QED
      BY <3>2, <3>3
  <2>4. CASE p \notin Unpassed
    <3>1. p = write
      BY <1>4, <2>4, WrittenPacket
    <3>2. call = "vsync"
      BY <1>4, <3>1, WrittenPacket
    <3>3. SizeOf(call) = VSyncSize + 1
      BY <3>2 DEF SizeOf
    <3>4. \A i \in 1 .. VSyncSize : ring'[Step(p, i)] = "payload"
      BY <1>4, <2>2, <3>1, <3>3, WrittenPacket
    <3>5. Distance(p)' + VSyncSize < Distance(write)'
      BY <2>2, <3>1, <3>3
    <3> QED
      BY <3>4, <3>5
  <2> QED
    BY <2>3, <2>4
<1>5. CASE HardwareReset
  <2>1. read = write /\ UNCHANGED <<ring, read, write>>
    BY <1>5 DEF HardwareReset, EmptyAtRest, WakeInv, LifeIsOrderly, MainLoop, Outside, Closes,
             Opens, Down
  <2> QED
    BY <2>1
<1>6. CASE StartThread
  <2>1. Unpassed' = {}
    BY <1>6, MailboxAssumption DEF StartThread, Unpassed, Distance, Position
  <2> QED
    BY <2>1 DEF PacketsAreWhole
<1>7. ASSUME NEW c \in Call, Begin(c) PROVE PacketsAreWhole'
  BY <1>7 DEF Begin, Call
<1>8. CASE EntryLoop \/ WaitForWork \/ Awake \/ HandleCommand \/ FramePost
          \/ IdlePost \/ PeekCompletion \/ AnnounceHole \/ PeekAgain
          \/ WithdrawHole
  BY <1>8 DEF EntryLoop, WaitForWork, Awake, HandleCommand, FramePost, IdlePost,
    PeekCompletion, AnnounceHole, PeekAgain, WithdrawHole, GsStays, PostListener
<1>9. CASE ConsumePath1 \/ CountDown \/ EndOfRing \/ EndOfPass \/ AcknowledgeClose
  BY <1>9 DEF ConsumePath1, CountDown, EndOfRing, EndOfPass, AcknowledgeClose,
    GsStays
<1>10. CASE Advance
  <2> SUFFICES ASSUME NEW p \in Unpassed', ring'[p] = "vsync"
               PROVE  /\ Distance(p)' + VSyncSize < Distance(write)'
                      /\ \A i \in 1 .. VSyncSize : ring'[Step(p, i)] = "payload"
    BY DEF PacketsAreWhole, Step
  <2>1. RingTypes /\ write \in Position /\ p \in Position /\ ring' = ring
    BY <1>10 DEF TypeInv, TypeOK, RingTypes, Unpassed, Position, Advance
  <2>2. PICK n \in Nat :
           /\ Distance(write)' = Distance(write) - n
           /\ \A q \in Position : n <= Distance(q) => Distance(q)' = Distance(q) - n
           /\ \A q \in Position :
                  q \in Unpassed' <=> (q \in Unpassed /\ n <= Distance(q))
    BY <1>10, PassedPacket
  <2>3. p \in Unpassed /\ n <= Distance(p) /\ Distance(p)' = Distance(p) - n
    BY <2>1, <2>2
  <2>4. /\ Distance(p) + VSyncSize < Distance(write)
        /\ \A i \in 1 .. VSyncSize : ring[Step(p, i)] = "payload"
    BY <2>1, <2>3 DEF PacketsAreWhole
  <2>5. Distance(p) \in Nat /\ Distance(write) \in Nat /\ VSyncSize \in Nat
    BY <2>1, DistanceIsTyped, MailboxAssumption DEF Position
  <2>6. Distance(p)' + VSyncSize < Distance(write)'
    BY <2>2, <2>3, <2>4, <2>5
  <2> QED
    BY <2>1, <2>4, <2>6
<1>11. CASE Closing
  <2>1. read = write /\ UNCHANGED <<ring, read, write>>
    BY <1>11 DEF Closing, EmptyAtRest, WakeInv, LifeIsOrderly, MainLoop, Outside, Closes,
             Opens, Down
  <2> QED
    BY <2>1
<1>12. ASSUME NEW ok \in BOOLEAN, OpenGs(ok) PROVE PacketsAreWhole'
  BY <1>12 DEF OpenGs, GsStays
<1>13. CASE VuWaitForWork \/ ExecuteCpu \/ WaitForBuffer \/ CommitExecution
          \/ SeeRingEmpty \/ ServeRequests \/ Push \/ PushFull \/ ClaimGsWaiter
          \/ NotifyGs
  BY <1>13 DEF VuWaitForWork, ExecuteCpu, WaitForBuffer, CommitExecution,
    SeeRingEmpty, ServeRequests, Push, PushFull, ClaimGsWaiter, NotifyGs, VuStays
<1>14. CASE ClaimDrainWaiter
  BY <1>14 DEF ClaimDrainWaiter, VuStays
<1>15. ASSUME NEW o \in Output, ExecuteDirect(o) PROVE PacketsAreWhole'
  BY <1>15 DEF ExecuteDirect, VuStays
<1> QED
  BY <1>1, <1>2, <1>3, <1>4, <1>5, <1>6, <1>7, <1>8, <1>9, <1>10, <1>11,
     <1>12, <1>13, <1>14, <1>15
     DEF Next, EE, EEContinues, GS, MTVU

\* The command the worker has looked at stays at the head until it advances.
LEMMA WorkerStaysAtCommand ==
    ASSUME WakeInv, TypeInv, FrameInv, Next PROVE WorkerIsAtCommand'
<1> USE DEF FrameInv, WorkerIsAtCommand
<1>1. CASE PublishPendingVifBatch \/ RequestGpuVuPath1Flush
          \/ QueueMtvuPath1Reservation \/ GenericStall \/ ArmStall \/ Spin
          \/ EnableSignal \/ SetEvent \/ RingWait \/ KickStart
  BY <1>1 DEF PublishPendingVifBatch, RequestGpuVuPath1Flush,
    QueueMtvuPath1Reservation, GenericStall, ArmStall, Spin, EnableSignal,
    SetEvent, RingWait, KickStart, Goto
<1>2. CASE CountFrame \/ Listen \/ BoundGpuVuExecutionLatency \/ VsyncWait
          \/ WaitForEmpty \/ CheckDrained \/ ArmDrainWaiter \/ LookAtWaiting
          \/ DisarmDrainWaiter \/ DrainWait
  BY <1>2 DEF CountFrame, Listen, BoundGpuVuExecutionLatency, VsyncWait,
    WaitForEmpty, CheckDrained, ArmDrainWaiter, LookAtWaiting, DisarmDrainWaiter,
    DrainWait, Goto
<1>3. CASE ClearOpen \/ DoneWait \/ Join \/ ShutdownClosed \/ WaitForOpen
  BY <1>3 DEF ClearOpen, DoneWait, Join, ShutdownClosed, WaitForOpen, Goto
<1>4. CASE WriteCommand
  <2>1. ASSUME read # write PROVE read' # write' /\ ring'[read'] = ring[read]
    <3>1. RingTypes /\ RingTypes' /\ read' = read
      BY <1>4, RingStaysTyped DEF WriteCommand, Next, EE, EEContinues, TypeInv, TypeOK
    <3>2. read \in Position /\ write \in Position /\ write' \in Position
      BY <3>1 DEF RingTypes
    <3>3. Distance(read) = 0 /\ Distance(write) \in Nat /\ Distance(write) # 0
      BY <2>1, <3>1, <3>2, DistanceIsTyped DEF Position
    <3>4. read \in Unpassed
      BY <3>2, <3>3 DEF Unpassed
    <3>5. /\ ring'[read] = ring[read] /\ Distance(read)' = Distance(read)
          /\ Distance(write)' = Distance(write) + SizeOf(call)
      <4>1. ring'[read] = ring[read]
        BY <1>4, <3>4, WrittenPacket
      <4>2. Distance(write)' = Distance(write) + SizeOf(call)
        BY <1>4, WrittenPacket
      <4>3. Distance(read)' = Distance(read)
        BY <3>1 DEF Distance
      <4> QED
        BY <4>1, <4>2, <4>3
    <3>6. Distance(write)' # Distance(read)'
      BY <3>3, <3>5, SizeIsPositive
    <3>7. read' # write'
      BY <3>6, <3>1 DEF Distance
    <3> QED
      BY <3>1, <3>5, <3>7
  <2> QED
    BY <1>4, <2>1 DEF WriteCommand
<1>5. CASE HardwareReset
  <2>1. read = write /\ UNCHANGED <<ring, read, write>>
    BY <1>5 DEF HardwareReset, EmptyAtRest
  <2> QED
    BY <1>5, <2>1 DEF HardwareReset
<1>6. CASE StartThread
  BY <1>6 DEF StartThread, Goto
<1>7. ASSUME NEW c \in Call, Begin(c) PROVE WorkerIsAtCommand'
  BY <1>7 DEF Begin, Call
<1>8. CASE EntryLoop \/ WaitForWork \/ Awake \/ FramePost \/ IdlePost
          \/ AnnounceHole \/ PeekAgain \/ WithdrawHole \/ CountDown \/ EndOfRing
  BY <1>8 DEF EntryLoop, WaitForWork, Awake, FramePost, IdlePost, AnnounceHole,
    PeekAgain, WithdrawHole, CountDown, EndOfRing, GsStays, PostListener
<1>9. CASE EndOfPass \/ AcknowledgeClose
  BY <1>9 DEF EndOfPass, AcknowledgeClose, GsStays
<1>10. CASE HandleCommand
  BY <1>10 DEF HandleCommand, GsStays
<1>11. CASE PeekCompletion
  BY <1>11 DEF PeekCompletion, GsStays
<1>12. CASE ConsumePath1
  BY <1>12 DEF ConsumePath1, GsStays
<1>13. CASE Advance
  BY <1>13 DEF Advance, GsStays
<1>14. CASE Closing
  BY <1>14 DEF Closing, GsStays
<1>15. ASSUME NEW ok \in BOOLEAN, OpenGs(ok) PROVE WorkerIsAtCommand'
  BY <1>15 DEF OpenGs, GsStays
<1>16. CASE VuWaitForWork \/ ExecuteCpu \/ WaitForBuffer \/ CommitExecution
          \/ SeeRingEmpty \/ ServeRequests \/ Push \/ PushFull \/ ClaimGsWaiter
          \/ NotifyGs
  BY <1>16 DEF VuWaitForWork, ExecuteCpu, WaitForBuffer, CommitExecution,
    SeeRingEmpty, ServeRequests, Push, PushFull, ClaimGsWaiter, NotifyGs, VuStays
<1>17. CASE ClaimDrainWaiter
  BY <1>17 DEF ClaimDrainWaiter, VuStays
<1>18. ASSUME NEW o \in Output, ExecuteDirect(o) PROVE WorkerIsAtCommand'
  BY <1>18 DEF ExecuteDirect, VuStays
<1> QED
  BY <1>1, <1>2, <1>3, <1>4, <1>5, <1>6, <1>7, <1>8, <1>9, <1>10, <1>11,
     <1>12, <1>13, <1>14, <1>15, <1>16, <1>17, <1>18
     DEF Next, EE, EEContinues, GS, MTVU

\* Nothing is written between the end of WaitGS() and the next open.
LEMMA RestStaysEmpty ==
    ASSUME WakeInv, TypeInv, FrameInv, Next PROVE EmptyAtRest'
<1> USE DEF FrameInv, EmptyAtRest, WakeInv, CallIsRight, Closes, Opens, Down
<1>1. CASE PublishPendingVifBatch \/ RequestGpuVuPath1Flush
          \/ QueueMtvuPath1Reservation \/ GenericStall \/ ArmStall \/ Spin
          \/ EnableSignal \/ RingWait \/ KickStart \/ CountFrame
  BY <1>1 DEF PublishPendingVifBatch, RequestGpuVuPath1Flush,
    QueueMtvuPath1Reservation, GenericStall, ArmStall, Spin, EnableSignal,
    RingWait, KickStart, CountFrame, Goto
<1>2. CASE Listen \/ VsyncWait \/ WaitForEmpty \/ ArmDrainWaiter \/ LookAtWaiting
          \/ DisarmDrainWaiter \/ DrainWait \/ ClearOpen \/ Join \/ ShutdownClosed
  BY <1>2 DEF Listen, VsyncWait, WaitForEmpty, ArmDrainWaiter, LookAtWaiting,
    DisarmDrainWaiter, DrainWait, ClearOpen, Join, ShutdownClosed, Goto
<1>3. CASE WaitForOpen
  BY <1>3 DEF WaitForOpen, Goto
<1>4. CASE SetEvent
  BY <1>4 DEF SetEvent, Goto
<1>5. CASE WriteCommand
  BY <1>5 DEF WriteCommand, Goto
<1>6. CASE BoundGpuVuExecutionLatency
  BY <1>6 DEF BoundGpuVuExecutionLatency, Goto
<1>7. CASE CheckDrained
  BY <1>7 DEF CheckDrained, Goto
<1>8. CASE HardwareReset
  BY <1>8 DEF HardwareReset, Goto
<1>9. CASE DoneWait
  BY <1>9 DEF DoneWait, Goto
<1>10. CASE StartThread
  BY <1>10 DEF StartThread, Goto
<1>11. ASSUME NEW c \in Call, Begin(c) PROVE EmptyAtRest'
  BY <1>11 DEF Begin, Call
<1>12. CASE EntryLoop \/ WaitForWork \/ Awake \/ HandleCommand \/ FramePost
          \/ IdlePost \/ PeekCompletion \/ AnnounceHole \/ PeekAgain
          \/ WithdrawHole
  BY <1>12 DEF EntryLoop, WaitForWork, Awake, HandleCommand, FramePost, IdlePost,
    PeekCompletion, AnnounceHole, PeekAgain, WithdrawHole, GsStays, PostListener
<1>13. CASE ConsumePath1 \/ CountDown \/ EndOfRing \/ EndOfPass
          \/ AcknowledgeClose
  BY <1>13 DEF ConsumePath1, CountDown, EndOfRing, EndOfPass, AcknowledgeClose,
    GsStays
<1>14. CASE Advance
  BY <1>14 DEF Advance, GsStays, WorkerIsAtCommand
<1>15. CASE Closing
  BY <1>15 DEF Closing, GsStays
<1>16. ASSUME NEW ok \in BOOLEAN, OpenGs(ok) PROVE EmptyAtRest'
  BY <1>16 DEF OpenGs, GsStays
<1>17. CASE VuWaitForWork \/ ExecuteCpu \/ WaitForBuffer \/ CommitExecution
          \/ SeeRingEmpty \/ ServeRequests \/ Push \/ PushFull \/ ClaimGsWaiter
          \/ NotifyGs
  BY <1>17 DEF VuWaitForWork, ExecuteCpu, WaitForBuffer, CommitExecution,
    SeeRingEmpty, ServeRequests, Push, PushFull, ClaimGsWaiter, NotifyGs, VuStays
<1>18. CASE ClaimDrainWaiter
  BY <1>18 DEF ClaimDrainWaiter, VuStays
<1>19. ASSUME NEW o \in Output, ExecuteDirect(o) PROVE EmptyAtRest'
  BY <1>19 DEF ExecuteDirect, VuStays
<1> QED
  BY <1>1, <1>2, <1>3, <1>4, <1>5, <1>6, <1>7, <1>8, <1>9, <1>10, <1>11,
     <1>12, <1>13, <1>14, <1>15, <1>16, <1>17, <1>18, <1>19
     DEF Next, EE, EEContinues, GS, MTVU
\* The frame whose packet the EE is about to publish
Announced == IF call = "vsync" /\ epc \in {"listen", "write"} THEN 1 ELSE 0
Retiring == gpc \in {"framePost", "advance"}

LEMMA QueuedIsFinite ==
    IsFiniteSet(QueuedVsyncs) /\ Cardinality(QueuedVsyncs) \in Nat
<1>1. IsFiniteSet(Position)
  BY FS_Interval, MailboxAssumption DEF Position
<1>2. QueuedVsyncs \subseteq Position
  BY DEF QueuedVsyncs, Unpassed
<1>3. IsFiniteSet(QueuedVsyncs)
  BY <1>1, <1>2, FS_Subset
<1> QED
  BY <1>3, FS_CardinalityType

\* A step that moves no position and retires no frame keeps the queued ones.
LEMMA FramesCarry ==
    ASSUME FramesAreExact, UNCHANGED <<ring, read, write, frames>>,
           Retiring' <=> Retiring, Announced' = Announced
    PROVE  FramesAreExact'
<1>1. QueuedVsyncs' = QueuedVsyncs
  BY SameRing DEF QueuedVsyncs, Retiring
<1> QED
  BY <1>1 DEF FramesAreExact, Announced

LEMMA NothingQueued ==
    ASSUME RingTypes, RingTypes'
    PROVE  /\ read = write => QueuedVsyncs = {}
           /\ read' = write' => QueuedVsyncs' = {}
<1>1. ASSUME read = write, NEW p \in Unpassed PROVE FALSE
  BY <1>1, MailboxAssumption DEF RingTypes, Unpassed, Distance, Position
<1>2. ASSUME read' = write', NEW p \in Unpassed' PROVE FALSE
  <2>1. p \in Position /\ Distance(p)' < Distance(write)'
    BY DEF Unpassed, Position
  <2>2. read' \in Position /\ Distance(write)' = read' - read'
    BY <1>2 DEF RingTypes, Distance, Position
  <2>3. Distance(p)' \in Nat
    BY <2>1, <2>2, MailboxAssumption DEF Distance, Position
  <2>4. Distance(write)' = 0
    <3>1. read' \in Int
      BY <2>2, MailboxAssumption DEF Position
    <3>2. \A k \in Int : k - k = 0
      OBVIOUS
    <3> QED
      BY <2>2, <3>1, <3>2, Zenon
  <2> QED
    BY <2>1, <2>3, <2>4
<1> QED
  BY <1>1, <1>2 DEF QueuedVsyncs

\* A VSync is counted once, from before its packet is written until it is retired.
LEMMA FramesStayExact ==
    ASSUME WakeInv, TypeInv, FrameInv, Next PROVE FramesAreExact'
<1> USE FramesCarry DEF FrameInv
<1>1. CASE PublishPendingVifBatch \/ RequestGpuVuPath1Flush
          \/ QueueMtvuPath1Reservation \/ GenericStall \/ ArmStall
  BY <1>1 DEF Announced, Retiring, PublishPendingVifBatch, RequestGpuVuPath1Flush,
    QueueMtvuPath1Reservation, GenericStall, ArmStall, Goto
<1>2. CASE Spin \/ EnableSignal \/ SetEvent \/ RingWait \/ KickStart
  BY <1>2 DEF Announced, Retiring, Spin, EnableSignal, SetEvent, RingWait, KickStart, Goto
<1>3. CASE VsyncWait \/ WaitForEmpty \/ CheckDrained \/ ArmDrainWaiter
          \/ LookAtWaiting
  BY <1>3 DEF Announced, Retiring, VsyncWait, WaitForEmpty, CheckDrained, ArmDrainWaiter,
    LookAtWaiting, Goto
<1>4. CASE DisarmDrainWaiter \/ DrainWait \/ ClearOpen \/ DoneWait \/ Join
  BY <1>4 DEF Announced, Retiring, DisarmDrainWaiter, DrainWait, ClearOpen, DoneWait, Join, Goto
<1>5. CASE ShutdownClosed \/ WaitForOpen
  BY <1>5 DEF Announced, Retiring, ShutdownClosed, WaitForOpen, Goto
<1>6. CASE WriteCommand
  <2> DEFINE V == QueuedVsyncs
  <2>1. Retiring => read # write
    BY DEF Retiring, WorkerIsAtCommand
  <2>2. frames' = frames /\ gpc' = gpc /\ read' = read
    BY <1>6 DEF Announced, Retiring, WriteCommand
  <2>3. write \notin Unpassed
    <3>1. Distance(write) \in Int
      BY DistanceIsTyped DEF TypeInv, TypeOK, RingTypes, Position
    <3> QED
      BY <3>1 DEF Unpassed
  <2>4. ASSUME NEW p PROVE p \in V' <=> (p \in V \/ (p = write /\ call = "vsync"))
    <3>1. CASE p \in Unpassed
      BY <1>6, <2>2, <2>3, <3>1, WrittenPacket DEF QueuedVsyncs
    <3>2. CASE p \notin Unpassed /\ p \in Unpassed'
      <4>1. p \notin V
        BY <3>2 DEF QueuedVsyncs
      <4>2. CASE p = write
        BY <1>6, <2>1, <2>2, <3>2, <4>1, <4>2, WrittenPacket DEF QueuedVsyncs, Retiring
      <4>3. CASE p # write
        BY <1>6, <3>2, <4>1, <4>3, WrittenPacket DEF QueuedVsyncs
      <4> QED
        BY <4>2, <4>3
    <3>3. CASE p \notin Unpassed /\ p \notin Unpassed'
      BY <1>6, <3>3, WrittenPacket DEF QueuedVsyncs
    <3> QED
      BY <3>1, <3>2, <3>3
  <2>5. write \notin V /\ IsFiniteSet(V) /\ Cardinality(V) \in Nat
    BY <2>3, QueuedIsFinite DEF QueuedVsyncs
  <2>6. CASE call = "vsync"
    <3>1. V' = V \union {write}
      BY <2>4, <2>6
    <3>2. Cardinality(V') = Cardinality(V) + 1
      BY <2>5, <3>1, FS_AddElement
    <3>3. Announced = 1 /\ Announced' = 0
      BY <1>6, <2>6 DEF WriteCommand, Goto, Announced
    <3> QED
      BY <2>2, <2>5, <3>2, <3>3 DEF FramesAreExact, Announced
  <2>7. CASE call # "vsync"
    <3>1. V' = V
      BY <2>4, <2>7
    <3>2. Announced = 0 /\ Announced' = 0
      BY <1>6, <2>7 DEF WriteCommand, Goto, Announced
    <3> QED
      BY <2>2, <3>1, <3>2 DEF FramesAreExact, Announced
  <2> QED
    BY <2>6, <2>7
<1>7. CASE CountFrame
  <2>1. QueuedVsyncs' = QueuedVsyncs
    BY <1>7, SameRing DEF CountFrame, QueuedVsyncs
  <2>2. Announced = 0 /\ Announced' = 1 /\ frames' = frames + 1
    BY <1>7 DEF Announced, Retiring, CountFrame, Announced, WakeInv, CallIsRight
  <2>3. Cardinality(QueuedVsyncs) \in Nat
    BY QueuedIsFinite
  <2> QED
    BY <2>1, <2>2, <2>3 DEF FramesAreExact, Announced
<1>8. CASE Listen
  BY <1>8 DEF Announced, Retiring, Listen, Goto
<1>9. CASE BoundGpuVuExecutionLatency
  BY <1>9 DEF Announced, Retiring, BoundGpuVuExecutionLatency, Goto
<1>10. CASE HardwareReset
  <2>1. read = write /\ read' = write'
    BY <1>10 DEF Announced, Retiring, HardwareReset, EmptyAtRest, WakeInv, LifeIsOrderly, MainLoop, Outside, Closes,
             Opens, Down
  <2>2. QueuedVsyncs = {} /\ QueuedVsyncs' = {}
    BY <2>1, NothingQueued, RingStaysTyped DEF TypeInv, TypeOK
  <2>3. Announced = 0 /\ Announced' = 0
    BY <1>10 DEF Announced, Retiring, HardwareReset, Goto, Announced
  <2>4. frames = 0 /\ frames' = 0
    BY <1>10, <2>2, <2>3, FS_EmptySet DEF HardwareReset, FramesAreExact, Announced
  <2> QED
    BY <2>2, <2>3, <2>4, FS_EmptySet DEF FramesAreExact, Announced
<1>11. CASE StartThread
  <2>1. read = write /\ read' = write'
    BY <1>11 DEF Announced, Retiring, StartThread, EmptyAtRest, WakeInv, LifeIsOrderly, MainLoop, Outside, Closes,
             Opens, Down
  <2>2. QueuedVsyncs = {} /\ QueuedVsyncs' = {}
    BY <2>1, NothingQueued, RingStaysTyped DEF TypeInv, TypeOK
  <2>3. Announced = 0 /\ Announced' = 0
    BY <1>11 DEF Announced, Retiring, StartThread, Goto, Announced
  <2>4. frames = 0 /\ frames' = 0
    BY <1>11, <2>2, <2>3, FS_EmptySet DEF StartThread, FramesAreExact, Announced
  <2> QED
    BY <2>2, <2>3, <2>4, FS_EmptySet DEF FramesAreExact, Announced
<1>12. ASSUME NEW c \in Call, Begin(c) PROVE FramesAreExact'
  BY <1>12 DEF Announced, Retiring, Begin, Call
<1>13. CASE EntryLoop \/ WaitForWork \/ Awake \/ IdlePost \/ PeekCompletion
  BY <1>13 DEF Announced, Retiring, EntryLoop, WaitForWork, Awake, IdlePost, PeekCompletion, GsStays,
    PostListener
<1>14. CASE AnnounceHole \/ PeekAgain \/ WithdrawHole \/ CountDown \/ EndOfRing
  BY <1>14 DEF Announced, Retiring, AnnounceHole, PeekAgain, WithdrawHole, CountDown, EndOfRing,
    GsStays
<1>15. CASE EndOfPass \/ AcknowledgeClose
  BY <1>15 DEF Announced, Retiring, EndOfPass, AcknowledgeClose, GsStays
<1>16. CASE HandleCommand
  <2> DEFINE V == QueuedVsyncs
  <2>1. UNCHANGED <<ring, read, write>> /\ Announced' = Announced
    BY <1>16 DEF Announced, Retiring, HandleCommand, GsStays, Announced
  <2>2. IsFiniteSet(V) /\ Cardinality(V) \in Nat
    BY QueuedIsFinite
  <2>3. CASE ring[read] = "vsync"
    <3>1. read \in Unpassed
      BY <1>16, DistanceIsTyped DEF HandleCommand, TypeInv, TypeOK, RingTypes, Unpassed,
                               Position
    <3>2. read \in V /\ V' = V \ {read}
      BY <1>16, <2>1, <2>3, <3>1, SameRing DEF HandleCommand, QueuedVsyncs
    <3>3. Cardinality(V') = Cardinality(V) - 1
      BY <2>2, <3>2, FS_RemoveElement
    <3>4. frames' = frames - 1
      BY <1>16, <2>3 DEF HandleCommand
    <3>5. Announced \in {0, 1}
      BY DEF Announced
    <3> QED
      BY <2>1, <2>2, <3>3, <3>4, <3>5 DEF FramesAreExact, Announced
  <2>4. CASE ring[read] # "vsync"
    <3>1. V' = V
      BY <1>16, <2>1, <2>4, SameRing DEF HandleCommand, QueuedVsyncs
    <3>2. frames' = frames
      BY <1>16, <2>4 DEF HandleCommand
    <3> QED
      BY <2>1, <3>1, <3>2 DEF FramesAreExact, Announced
  <2> QED
    BY <2>3, <2>4
<1>17. CASE FramePost
  BY <1>17 DEF Announced, Retiring, FramePost, GsStays, PostListener
<1>18. CASE ConsumePath1
  <2>1. UNCHANGED <<ring, read, write, frames>> /\ Announced' = Announced
    BY <1>18 DEF Announced, Retiring, ConsumePath1, GsStays, Announced
  <2>2. ring[read] # "vsync"
    BY <1>18 DEF Announced, Retiring, ConsumePath1, WorkerIsAtCommand
  <2>3. QueuedVsyncs' = QueuedVsyncs
    BY <1>18, <2>1, <2>2, SameRing DEF ConsumePath1, QueuedVsyncs
  <2> QED
    BY <2>1, <2>3 DEF FramesAreExact, Announced
<1>19. CASE Advance
  <2>1. PICK n \in Nat :
           /\ n > 0
           /\ \A p \in Position :
                  p \in Unpassed' <=> (p \in Unpassed /\ n <= Distance(p))
           /\ \A p \in Unpassed : ring[p] = "vsync" => p = read \/ n <= Distance(p)
    BY <1>19, PassedPacket
  <2>2. ring' = ring /\ frames' = frames /\ Announced' = Announced
    BY <1>19 DEF Announced, Retiring, Advance, GsStays, Announced
  <2>3. gpc = "advance" /\ gpc' \notin {"framePost", "advance"}
    BY <1>19 DEF Announced, Retiring, Advance
  <2>4. Distance(read) = 0
    BY DistanceIsTyped DEF TypeInv, TypeOK, RingTypes
  <2>5. QueuedVsyncs' = QueuedVsyncs
    <3>1. QueuedVsyncs \subseteq Position /\ QueuedVsyncs' \subseteq Position
      BY DEF QueuedVsyncs, Unpassed, Position
    <3>2. \A p \in Position : p \in QueuedVsyncs' <=> p \in Unpassed' /\ ring[p] = "vsync"
      BY <2>2, <2>3 DEF QueuedVsyncs
    <3>3. \A p \in Position :
             p \in QueuedVsyncs <=> p \in Unpassed /\ ring[p] = "vsync" /\ p # read
      BY <2>3 DEF QueuedVsyncs
    <3>4. \A p \in Position : p \in QueuedVsyncs' <=> p \in QueuedVsyncs
      BY <2>1, <2>4, <3>2, <3>3
    <3> QED
      BY <3>1, <3>4
  <2> QED
    BY <2>2, <2>5 DEF FramesAreExact, Announced
<1>20. CASE Closing
  <2>1. read = write /\ read' = write'
    BY <1>20 DEF Announced, Retiring, Closing, EmptyAtRest, WakeInv, LifeIsOrderly, MainLoop, Outside, Closes,
             Opens, Down
  <2>2. QueuedVsyncs = {} /\ QueuedVsyncs' = {}
    BY <2>1, NothingQueued, RingStaysTyped DEF TypeInv, TypeOK
  <2>3. Announced = 0 /\ Announced' = 0
    BY <1>20 DEF Announced, Retiring, Closing, GsStays, Announced, WakeInv, LifeIsOrderly,
             MainLoop, Outside, Closes, Opens, Down
  <2>4. frames = 0 /\ frames' = 0
    BY <1>20, <2>2, <2>3, FS_EmptySet DEF Closing, FramesAreExact, Announced
  <2> QED
    BY <2>2, <2>3, <2>4, FS_EmptySet DEF FramesAreExact, Announced
<1>21. ASSUME NEW ok \in BOOLEAN, OpenGs(ok) PROVE FramesAreExact'
  BY <1>21 DEF Announced, Retiring, OpenGs, GsStays
<1>22. CASE VuWaitForWork \/ ExecuteCpu \/ WaitForBuffer \/ CommitExecution
          \/ SeeRingEmpty
  BY <1>22 DEF Announced, Retiring, VuWaitForWork, ExecuteCpu, WaitForBuffer, CommitExecution,
    SeeRingEmpty, VuStays
<1>23. CASE ServeRequests \/ Push \/ PushFull \/ ClaimGsWaiter \/ NotifyGs
  BY <1>23 DEF Announced, Retiring, ServeRequests, Push, PushFull, ClaimGsWaiter, NotifyGs, VuStays
<1>24. CASE ClaimDrainWaiter
  BY <1>24 DEF Announced, Retiring, ClaimDrainWaiter, VuStays
<1>25. ASSUME NEW o \in Output, ExecuteDirect(o) PROVE FramesAreExact'
  BY <1>25 DEF Announced, Retiring, ExecuteDirect, VuStays
<1> QED
  BY <1>1, <1>2, <1>3, <1>4, <1>5, <1>6, <1>7, <1>8, <1>9, <1>10, <1>11,
     <1>12, <1>13, <1>14, <1>15, <1>16, <1>17, <1>18, <1>19, <1>20, <1>21, <1>22,
     <1>23, <1>24, <1>25
     DEF Next, EE, EEContinues, GS, MTVU

LEMMA InitIsFramed == ASSUME Init, TypeInv PROVE FrameInv
<1>1. QueuedVsyncs = {} /\ Unpassed = {}
  BY MailboxAssumption DEF Init, QueuedVsyncs, Unpassed, Distance, Position
<1> QED
  BY <1>1, FS_EmptySet DEF Init, FrameInv, RoomIsLeft, PacketsAreWhole,
     WorkerIsAtCommand, EmptyAtRest, FramesAreExact, Closes, Opens, Down

\* The ring holds whole packets, the EE writes where there is room, the worker
\* is at the command it looked at and nothing is queued while the mailbox is
\* closed.
THEOREM FrameInvariant == Spec => []FrameInv
<1>1. Init /\ TypeInv => FrameInv
  BY InitIsFramed
<1>2. FrameInv /\ WakeInv /\ TypeInv /\ [Next]_vars => FrameInv'
  <2> SUFFICES ASSUME FrameInv, WakeInv, TypeInv, [Next]_vars PROVE FrameInv'
    OBVIOUS
  <2>1. CASE Next
    BY <2>1, RoomStaysLeft, PacketsStayWhole, WorkerStaysAtCommand, RestStaysEmpty,
       FramesStayExact DEF FrameInv
  <2>2. CASE UNCHANGED vars
    <3>1. UNCHANGED <<ring, read, write, frames, gpc, epc, call>>
      BY <2>2 DEF vars
    <3>2. RoomIsLeft' /\ PacketsAreWhole' /\ WorkerIsAtCommand' /\ EmptyAtRest'
      BY <3>1, SameRing DEF FrameInv, RoomIsLeft, WorkerIsAtCommand, EmptyAtRest
    <3>3. FramesAreExact'
      BY <3>1, FramesCarry DEF FrameInv, Announced, Retiring
    <3> QED
      BY <3>2, <3>3 DEF FrameInv
  <2> QED
    BY <2>1, <2>2
<1> QED
  BY <1>1, <1>2, WakeInvariant, TypeInvariant, PTL DEF Spec

\* s_queued_frame_count, which paces the EE, is exactly the VSyncs the worker
\* has yet to retire, whatever the ring size, the queue size and the way
\* stalls, resets, closes and restarts interleave; so it never goes negative.
THEOREM FramesStayCounted == Spec => []FramesAreExact
<1>1. FrameInv => FramesAreExact
  BY DEF FrameInv
<1> QED
  BY <1>1, FrameInvariant, PTL

-----------------------------------------------------------------------------
(* Induction, and sequences put together *)

\* Induction up to a number, as a fact about the set where a claim holds
LEMMA Induction ==
    ASSUME NEW N \in Nat, NEW G, 0 \in G, \A n \in 1 .. N : n - 1 \in G => n \in G
    PROVE  \A n \in 0 .. N : n \in G
<1> DEFINE T == {n \in 0 .. N : n \notin G}
<1> SUFFICES ASSUME T # {} PROVE FALSE
  OBVIOUS
<1>1. T \subseteq Nat
  OBVIOUS
<1>2. PICK x \in T : \A y \in T : ~(<<y, x>> \in OpToRel(<, Nat))
  BY <1>1, NatLessThanWellFounded, WFMin
<1>3. x \in 1 .. N /\ x \notin G
  <2>1. x \in 0 .. N /\ x \notin G
    OBVIOUS
  <2> QED BY <2>1
<1>4. x - 1 \in G
  <2> SUFFICES ASSUME x - 1 \notin G PROVE FALSE
    OBVIOUS
  <2>1. x - 1 \in T
    BY <1>3
  <2>2. x - 1 \in Nat /\ x \in Nat /\ x - 1 < x
    BY <1>3
  <2>3. <<x - 1, x>> \in OpToRel(<, Nat)
    BY <2>2 DEF OpToRel
  <2> QED BY <1>2, <2>1, <2>3
<1> QED BY <1>3, <1>4

\* Each prefix is the one before it and the next sequence.
LEMMA JoinedLoop ==
    ASSUME NEW b, NEW N \in Nat
    PROVE  /\ Joined(b, N)[0] = <<>>
           /\ \A n \in 1 .. N : Joined(b, N)[n] = Joined(b, N)[n - 1] \o b[n]
<1> DEFINE Is(f, m) == f = [n \in 0 .. m |-> IF n = 0 THEN <<>> ELSE f[n - 1] \o b[n]]
           G == {m \in 0 .. N : \E f : Is(f, m)}
<1>0. N \in Nat
  OBVIOUS
<1>1. 0 \in G
  <2>1. Is([n \in 0 .. 0 |-> <<>>], 0)
    OBVIOUS
  <2>2. \E f : Is(f, 0)
    BY <2>1
  <2> HIDE DEF Is
  <2> QED BY <1>0, <2>2
<1>2. ASSUME NEW m \in 1 .. N, m - 1 \in G PROVE m \in G
  <2>1. PICK f : Is(f, m - 1)
    BY <1>2
  <2> DEFINE g == [n \in 0 .. m |-> IF n = m THEN f[m - 1] \o b[m] ELSE f[n]]
  <2>2. Is(g, m)
    <3>1. ASSUME NEW n \in 0 .. m
          PROVE  g[n] = IF n = 0 THEN <<>> ELSE g[n - 1] \o b[n]
      <4>1. CASE n = m
        BY <1>0, <4>1
      <4>2. CASE n # m
        <5>1. n \in 0 .. m - 1 /\ g[n] = f[n]
          BY <1>0, <4>2
        <5>2. f[n] = IF n = 0 THEN <<>> ELSE f[n - 1] \o b[n]
          BY <2>1, <5>1
        <5>3. n # 0 => g[n - 1] = f[n - 1]
          BY <1>0, <4>2
        <5> QED BY <5>1, <5>2, <5>3
      <4> QED BY <4>1, <4>2
    <3> QED BY <3>1
  <2>3. \E e : Is(e, m)
    BY <2>2
  <2> HIDE DEF Is
  <2> QED BY <1>0, <2>3
<1>3. \E f : Is(f, N)
  <2> HIDE DEF G
  <2>1. \A m \in 0 .. N : m \in G
    BY <1>0, <1>1, <1>2, Induction
  <2>2. N \in G
    BY <1>0, <2>1
  <2> USE DEF G
  <2> QED BY <2>2
<1>4. Joined(b, N) = CHOOSE f : Is(f, N)
  BY DEF Joined
<1>5. Is(CHOOSE f : Is(f, N), N)
  <2> HIDE DEF Is
  <2> QED BY <1>3, Zenon
<1> DEFINE h == Joined(b, N)
<1>6. h = [n \in 0 .. N |-> IF n = 0 THEN <<>> ELSE h[n - 1] \o b[n]]
  BY <1>4, <1>5, Zenon
<1> HIDE DEF h
<1>7. h[0] = <<>>
  BY <1>0, <1>6
<1>8. ASSUME NEW n \in 1 .. N PROVE h[n] = h[n - 1] \o b[n]
  <2>1. n \in 0 .. N /\ n # 0
    BY <1>0
  <2> QED BY <1>6, <2>1, Zenon
<1> QED BY <1>7, <1>8 DEF h

\* The commands of the stream
StreamCommand == {"gs", "vsync", "path1"}

\* Parts of a stream may be put together in any grouping.
LEMMA Associative ==
    \A u, v, w \in Seq(StreamCommand) : (u \o v) \o w = u \o (v \o w)
<1> DEFINE S == StreamCommand
<1> HIDE DEF S
<1>1. \A u, v, w \in Seq(S) : (u \o v) \o w = u \o (v \o w)
  <2> TAKE u, v, w \in Seq(S)
  <2> QED BY ConcatAssociative
<1> QED BY <1>1 DEF S

\* Commands put together are commands.
LEMMA JoinedIsTyped ==
    ASSUME NEW b, NEW N \in Nat, \A i \in 1 .. N : b[i] \in Seq(StreamCommand)
    PROVE  \A i \in 0 .. N : Joined(b, N)[i] \in Seq(StreamCommand)
<1> DEFINE f == Joined(b, N)
           G == {i \in 0 .. N : f[i] \in Seq(StreamCommand)}
<1>0. f[0] = <<>> /\ \A i \in 1 .. N : f[i] = f[i - 1] \o b[i]
  BY JoinedLoop
<1> HIDE DEF f
<1>1. 0 \in G
  <2>1. <<>> \in Seq(StreamCommand) /\ 0 \in 0 .. N
    OBVIOUS
  <2> QED BY <1>0, <2>1, Zenon
<1>2. ASSUME NEW i \in 1 .. N, i - 1 \in G PROVE i \in G
  <2>1. f[i - 1] \in Seq(StreamCommand) /\ b[i] \in Seq(StreamCommand) /\ f[i] = f[i - 1] \o b[i]
    BY <1>0, <1>2
  <2>2. f[i] \in Seq(StreamCommand)
    BY <2>1, ConcatProperties
  <2> QED BY <2>2
<1>3. \A i \in 0 .. N : i \in G
  <2> HIDE DEF G
  <2> QED BY <1>1, <1>2, Induction
<1> QED BY <1>3 DEF f

\* What is put together up to a place depends on nothing after it.
LEMMA JoinedOfPrefix ==
    ASSUME NEW b, NEW c, NEW N \in Nat, NEW M \in Nat, NEW k \in Nat, k <= N, k <= M,
           \A i \in 1 .. k : b[i] = c[i]
    PROVE  Joined(b, N)[k] = Joined(c, M)[k]
<1> DEFINE f == Joined(b, N)
           g == Joined(c, M)
           G == {i \in 0 .. k : f[i] = g[i]}
<1>0. /\ f[0] = <<>> /\ \A i \in 1 .. N : f[i] = f[i - 1] \o b[i]
      /\ g[0] = <<>> /\ \A i \in 1 .. M : g[i] = g[i - 1] \o c[i]
  BY JoinedLoop
<1> HIDE DEF f, g
<1>1. 0 \in G
  BY <1>0
<1>2. ASSUME NEW i \in 1 .. k, i - 1 \in G PROVE i \in G
  <2>1. f[i - 1] = g[i - 1] /\ b[i] = c[i]
    BY <1>2
  <2>2. i \in 1 .. N /\ i \in 1 .. M /\ i \in 0 .. k
    OBVIOUS
  <2>3. f[i] = f[i - 1] \o b[i] /\ g[i] = g[i - 1] \o c[i]
    BY <1>0, <2>2, Zenon
  <2>4. f[i] = g[i]
    BY <2>1, <2>3, Zenon
  <2> QED BY <2>2, <2>4, Zenon
<1>3. \A i \in 0 .. k : i \in G
  <2> HIDE DEF G
  <2> QED BY <1>1, <1>2, Induction
<1>4. k \in G
  BY <1>3
<1> QED BY <1>4 DEF f, g

\* Empty sequences at the end add nothing.
LEMMA JoinedEnd ==
    ASSUME NEW b, NEW N \in Nat, NEW k \in 0 .. N, \A i \in 1 .. N : b[i] \in Seq(StreamCommand),
           \A i \in k + 1 .. N : b[i] = <<>>
    PROVE  Joined(b, N)[N] = Joined(b, N)[k]
<1> DEFINE f == Joined(b, N)
           G == {i \in 0 .. N - k : f[k + i] = f[k]}
<1>0. /\ \A i \in 1 .. N : f[i] = f[i - 1] \o b[i]
      /\ \A i \in 0 .. N : f[i] \in Seq(StreamCommand)
  BY JoinedLoop, JoinedIsTyped
<1> HIDE DEF f
<1>1. 0 \in G
  OBVIOUS
<1>2. ASSUME NEW i \in 1 .. N - k, i - 1 \in G PROVE i \in G
  <2>1. /\ k + i \in 1 .. N /\ k + i \in k + 1 .. N /\ (k + i) - 1 = k + (i - 1)
        /\ k + (i - 1) \in 0 .. N /\ f[k + (i - 1)] = f[k]
    BY <1>2
  <2>2. f[k + i] = f[k] \o <<>>
    BY <1>0, <2>1
  <2>3. f[k] \o <<>> = f[k]
    BY <1>0, <2>1, ConcatEmptySeq
  <2> QED BY <2>2, <2>3
<1>3. \A i \in 0 .. N - k : i \in G
  <2>1. N - k \in Nat
    OBVIOUS
  <2> HIDE DEF G
  <2> QED BY <1>1, <1>2, <2>1, Induction
<1>4. N - k \in G /\ k + (N - k) = N
  <2>1. N - k \in 0 .. N - k /\ k + (N - k) = N
    OBVIOUS
  <2> QED BY <1>3, <2>1, Zenon
<1> QED BY <1>4 DEF f

\* c is b without the x at its front.
FrontOf(b, c, x, N) ==
    /\ N \in Nat /\ N > 0 /\ x \in Seq(StreamCommand)
    /\ \A i \in 1 .. N : c[i] \in Seq(StreamCommand)
    /\ b[1] = x \o c[1]
    /\ \A i \in 2 .. N : b[i] = c[i]

\* What is taken off the first sequence is taken off the whole.
LEMMA JoinedFront ==
    ASSUME NEW b, NEW c, NEW x, NEW N, FrontOf(b, c, x, N)
    PROVE  Joined(b, N)[N] = x \o Joined(c, N)[N]
<1> USE DEF FrontOf
<1> DEFINE f == Joined(b, N)
           g == Joined(c, N)
           G == {i \in 0 .. N - 1 : f[i + 1] = x \o g[i + 1]}
<1>0. /\ f[0] = <<>> /\ \A i \in 1 .. N : f[i] = f[i - 1] \o b[i]
      /\ g[0] = <<>> /\ \A i \in 1 .. N : g[i] = g[i - 1] \o c[i]
      /\ \A i \in 0 .. N : g[i] \in Seq(StreamCommand)
  BY JoinedLoop, JoinedIsTyped
<1> HIDE DEF f, g
<1>1. 0 \in G
  <2>1. 1 \in 1 .. N /\ 1 - 1 = 0 /\ c[1] \in Seq(StreamCommand)
    OBVIOUS
  <2>2. f[1] = <<>> \o (x \o c[1]) /\ g[1] = <<>> \o c[1]
    BY <1>0, <2>1
  <2>3. x \o c[1] \in Seq(StreamCommand)
    BY <2>1, ConcatProperties
  <2>4. f[1] = x \o c[1] /\ g[1] = c[1]
    BY <2>1, <2>2, <2>3, ConcatEmptySeq
  <2>5. 0 \in 0 .. N - 1 /\ 0 + 1 = 1
    OBVIOUS
  <2>6. f[0 + 1] = x \o g[0 + 1]
    BY <2>4, <2>5, Zenon
  <2> QED BY <2>5, <2>6, Zenon
<1>2. ASSUME NEW i \in 1 .. N - 1, i - 1 \in G PROVE i \in G
  <2>1. /\ f[i] = x \o g[i] /\ i + 1 \in 2 .. N /\ i + 1 \in 1 .. N /\ (i + 1) - 1 = i
        /\ i \in 0 .. N
    <3>1. f[(i - 1) + 1] = x \o g[(i - 1) + 1]
      BY <1>2
    <3>2. (i - 1) + 1 = i
      OBVIOUS
    <3> QED BY <3>1, <3>2
  <2>2. f[i + 1] = (x \o g[i]) \o c[i + 1] /\ g[i + 1] = g[i] \o c[i + 1]
    <3>1. /\ f[i + 1] = f[(i + 1) - 1] \o b[i + 1] /\ g[i + 1] = g[(i + 1) - 1] \o c[i + 1]
          /\ b[i + 1] = c[i + 1]
      BY <1>0, <2>1, Zenon
    <3> QED BY <2>1, <3>1, Zenon
  <2>3. g[i] \in Seq(StreamCommand) /\ c[i + 1] \in Seq(StreamCommand)
    BY <1>0, <2>1, Zenon
  <2>4. (x \o g[i]) \o c[i + 1] = x \o (g[i] \o c[i + 1])
    BY <2>3, Associative, Zenon
  <2>5. f[i + 1] = x \o g[i + 1]
    BY <2>2, <2>4, Zenon
  <2>6. i \in 0 .. N - 1
    OBVIOUS
  <2> QED BY <2>5, <2>6, Zenon
<1>3. \A i \in 0 .. N - 1 : i \in G
  <2>1. N - 1 \in Nat
    OBVIOUS
  <2> HIDE DEF G
  <2> QED BY <1>1, <1>2, <2>1, Induction
<1>4. N - 1 \in G /\ (N - 1) + 1 = N
  <2>1. N - 1 \in 0 .. N - 1 /\ (N - 1) + 1 = N
    OBVIOUS
  <2> QED BY <1>3, <2>1, Zenon
<1> QED BY <1>4 DEF f, g

\* b has k empty sequences in front of those of c.
ShiftOf(b, c, k, N) ==
    /\ N \in Nat /\ k \in 0 .. N /\ \A i \in 1 .. N : b[i] \in Seq(StreamCommand)
    /\ \A i \in 1 .. k : b[i] = <<>>
    /\ \A i \in 1 .. N - k : c[i] = b[k + i]

\* Empty sequences at the front may be left out.
LEMMA JoinedShift ==
    ASSUME NEW b, NEW c, NEW k, NEW N, ShiftOf(b, c, k, N)
    PROVE  Joined(b, N)[N] = Joined(c, N - k)[N - k]
<1> USE DEF ShiftOf
<1> DEFINE M == N - k
           f == Joined(b, N)
           g == Joined(c, M)
           G == {i \in 0 .. M : f[k + i] = g[i]}
<1>m. M \in Nat /\ M = N - k
  OBVIOUS
<1>0. /\ \A i \in 1 .. N : f[i] = f[i - 1] \o b[i]
      /\ g[0] = <<>> /\ \A i \in 1 .. M : g[i] = g[i - 1] \o c[i]
  <2> HIDE DEF M
  <2> QED BY <1>m, JoinedLoop
<1> HIDE DEF f, g, M
<1>1. 0 \in G
  <2>1. Joined(b, k)[k] = Joined(b, k)[0]
    <3>1. k \in Nat /\ 0 \in 0 .. k /\ \A i \in 1 .. k : b[i] \in Seq(StreamCommand)
      OBVIOUS
    <3>2. \A i \in 0 + 1 .. k : b[i] = <<>>
      OBVIOUS
    <3> QED BY <3>1, <3>2, JoinedEnd
  <2>2. Joined(b, k)[0] = <<>>
    <3>1. k \in Nat
      OBVIOUS
    <3> QED BY <3>1, JoinedLoop, Zenon
  <2>3. Joined(b, N)[k] = Joined(b, k)[k]
    BY JoinedOfPrefix
  <2>4. f[k] = <<>>
    BY <2>1, <2>2, <2>3 DEF f
  <2> QED BY <1>m, <1>0, <2>4
<1>2. ASSUME NEW i \in 1 .. M, i - 1 \in G PROVE i \in G
  <2>1. /\ f[k + (i - 1)] = g[i - 1] /\ k + i \in 1 .. N /\ (k + i) - 1 = k + (i - 1)
        /\ c[i] = b[k + i]
    BY <1>m, <1>2
  <2>2. f[k + i] = g[i]
    BY <1>0, <2>1
  <2> QED BY <2>2
<1>3. \A i \in 0 .. M : i \in G
  <2> HIDE DEF G
  <2> QED BY <1>m, <1>1, <1>2, Induction
<1>4. M \in G /\ k + M = N
  BY <1>m, <1>3
<1> QED BY <1>4 DEF f, g, M

-----------------------------------------------------------------------------
(* The commands in the ring *)

\* The EE on its way to a free place in the ring
Writing == {"room", "stallPublish", "stallRequest", "stall", "spin", "enable", "stallKick",
            "ringWait", "count", "listen", "write"}

\* An execution has its reservation when it is kicked; whoever writes another
\* command has closed the open run.
ReservationIsOnItsWay ==
    /\ epc = "reserve" => call = "exec"
    /\ call = "exec" => epc \in {"reserve", "kickVu"} \union (Writing \ {"count", "listen"})
    /\ epc \in Writing => openRun = RingSize

\* A run that is partly shown is at the head.
RemainderIsAtHead == remaining > 0 => read # write /\ ring[read] = "path1" /\ ~Retiring

\* An unclaimed run counts at least the execution that opened it.
Claimed(p) == p = read /\ (remaining > 0 \/ Retiring)
RunsAreCounted ==
    \A p \in Unpassed : ring[p] = "path1" /\ ~Claimed(p) => runs[p].count > 0

\* The run that may still grow is the last command, and nobody has claimed it.
OpenRunIsLast ==
    openRun # RingSize /\ runs[openRun].open =>
        /\ openRun \in Unpassed /\ Distance(openRun) + 1 = Distance(write)
        /\ ring[openRun] = "path1" /\ ~Claimed(openRun)

\* The commands in the ring are those of the runs.
RunInv == ReservationIsOnItsWay /\ RemainderIsAtHead /\ RunsAreCounted /\ OpenRunIsLast

\* An execution stays on its way to its reservation.
LEMMA ReservationStays ==
    ASSUME WakeInv, TypeInv, ReservationIsOnItsWay, Next PROVE ReservationIsOnItsWay'
<1> USE DEF ReservationIsOnItsWay, Writing, WakeInv, CallIsRight
<1>1. CASE PublishPendingVifBatch \/ GenericStall \/ ArmStall \/ Spin
          \/ EnableSignal \/ RingWait \/ KickStart
  BY <1>1 DEF PublishPendingVifBatch, GenericStall, ArmStall, Spin, EnableSignal,
    RingWait, KickStart, Goto
<1>2. CASE RequestGpuVuPath1Flush
  BY <1>2 DEF RequestGpuVuPath1Flush, CloseOpenMtvuReservationRun, Goto
<1>3. CASE QueueMtvuPath1Reservation
  BY <1>3 DEF QueueMtvuPath1Reservation, Goto
<1>4. CASE SetEvent
  BY <1>4 DEF SetEvent, Goto
<1>5. CASE CountFrame \/ Listen
  BY <1>5 DEF CountFrame, Listen, Goto
<1>6. CASE BoundGpuVuExecutionLatency
  BY <1>6 DEF BoundGpuVuExecutionLatency, Goto
<1>7. CASE VsyncWait \/ WaitForEmpty \/ CheckDrained \/ ArmDrainWaiter
          \/ LookAtWaiting \/ DisarmDrainWaiter \/ DrainWait
  BY <1>7 DEF VsyncWait, WaitForEmpty, CheckDrained, ArmDrainWaiter, LookAtWaiting,
    DisarmDrainWaiter, DrainWait, Goto
<1>8. CASE ClearOpen \/ DoneWait \/ Join \/ ShutdownClosed \/ WaitForOpen
  BY <1>8 DEF ClearOpen, DoneWait, Join, ShutdownClosed, WaitForOpen, Goto
<1>9. CASE WriteCommand
  BY <1>9 DEF WriteCommand, Goto
<1>10. CASE HardwareReset
  BY <1>10 DEF HardwareReset, CloseOpenMtvuReservationRun, Goto
<1>11. CASE StartThread
  BY <1>11 DEF StartThread, Goto
<1>12. ASSUME NEW c \in Call, Begin(c) PROVE ReservationIsOnItsWay'
  BY <1>12 DEF Begin, Call, CloseOpenMtvuReservationRun
<1>13. CASE EntryLoop \/ WaitForWork \/ Awake \/ HandleCommand \/ FramePost
          \/ IdlePost \/ PeekCompletion \/ AnnounceHole \/ PeekAgain
          \/ WithdrawHole
  BY <1>13 DEF EntryLoop, WaitForWork, Awake, HandleCommand, FramePost, IdlePost,
    PeekCompletion, AnnounceHole, PeekAgain, WithdrawHole, GsStays, PostListener
<1>14. CASE ConsumePath1 \/ Advance \/ CountDown \/ EndOfRing \/ EndOfPass
          \/ Closing \/ AcknowledgeClose
  BY <1>14 DEF ConsumePath1, Advance, CountDown, EndOfRing, EndOfPass, Closing,
    AcknowledgeClose, GsStays
<1>15. ASSUME NEW ok \in BOOLEAN, OpenGs(ok) PROVE ReservationIsOnItsWay'
  BY <1>15 DEF OpenGs, GsStays
<1>16. CASE CommitExecution
  BY <1>16 DEF CommitExecution
<1>17. CASE VuWaitForWork \/ ExecuteCpu \/ WaitForBuffer \/ SeeRingEmpty
          \/ ServeRequests \/ Push \/ PushFull \/ ClaimGsWaiter \/ NotifyGs
          \/ ClaimDrainWaiter
  BY <1>17 DEF VuWaitForWork, ExecuteCpu, WaitForBuffer, SeeRingEmpty, ServeRequests,
    Push, PushFull, ClaimGsWaiter, NotifyGs, ClaimDrainWaiter, VuStays
<1>18. ASSUME NEW o \in Output, ExecuteDirect(o) PROVE ReservationIsOnItsWay'
  BY <1>18 DEF ExecuteDirect, VuStays
<1> QED
  BY <1>1, <1>2, <1>3, <1>4, <1>5, <1>6, <1>7, <1>8, <1>9, <1>10, <1>11,
     <1>12, <1>13, <1>14, <1>15, <1>16, <1>17, <1>18
     DEF Next, EE, EEContinues, GS, MTVU

\* The steps that leave the commands in the ring as they are
RingStill ==
    /\ UNCHANGED <<ring, read, write, remaining, consumed>> /\ (Retiring' <=> Retiring)
    /\ \A p \in Position : runs'[p].count = runs[p].count
    /\ openRun' = RingSize \/ (openRun' = openRun /\ runs' = runs)
    /\ Issued' = Issued

\* Closing the open run changes no count.
LEMMA ClosingKeepsCounts ==
    ASSUME RingTypes, CloseOpenMtvuReservationRun
    PROVE  (\A p \in Position : runs'[p].count = runs[p].count) /\ openRun' = RingSize
<1>1. CASE openRun = RingSize
  BY <1>1 DEF CloseOpenMtvuReservationRun
<1>2. CASE openRun # RingSize
  <2>1. /\ runs' = [runs EXCEPT ![openRun].open = FALSE] /\ openRun' = RingSize
        /\ runs \in [Position -> [count : 0 .. MaxRun, open : BOOLEAN]]
    BY <1>2 DEF CloseOpenMtvuReservationRun, RingTypes
  <2> QED BY <2>1
<1> QED BY <1>1, <1>2

\* Every step leaves the commands alone or is one of six.
LEMMA RingSteps ==
    ASSUME WakeInv, TypeInv, FrameInv, ReservationIsOnItsWay, Next
    PROVE  \/ RingStill
           \/ QueueMtvuPath1Reservation /\ CanExtend
           \/ WriteCommand \/ HandleCommand \/ ConsumePath1 \/ Advance \/ StartThread
<1>0. RingTypes
  BY DEF TypeInv, TypeOK
<1> USE DEF RingStill, Issued, Retiring
<1>1. CASE PublishPendingVifBatch \/ GenericStall \/ ArmStall \/ Spin
          \/ EnableSignal \/ RingWait \/ KickStart
  <2>1. RingStill
    BY <1>1 DEF PublishPendingVifBatch, GenericStall, ArmStall, Spin, EnableSignal,
      RingWait, KickStart, Goto, ReservationIsOnItsWay, Writing
  <2> QED BY <2>1
<1>2. CASE RequestGpuVuPath1Flush
  <2>1. openRun' = RingSize \/ (openRun' = openRun /\ runs' = runs)
    BY <1>0, <1>2, ClosingKeepsCounts DEF RequestGpuVuPath1Flush
  <2>2. (\A p \in Position : runs'[p].count = runs[p].count)
    BY <1>0, <1>2, ClosingKeepsCounts DEF RequestGpuVuPath1Flush
  <2>3. UNCHANGED <<ring, read, write, remaining, consumed, gpc>> /\ Issued' = Issued
    BY <1>2 DEF RequestGpuVuPath1Flush, Goto, ReservationIsOnItsWay, Writing
  <2>4. RingStill
    BY <2>1, <2>2, <2>3
  <2> QED BY <2>4
<1>3. CASE QueueMtvuPath1Reservation
  <2>1. CASE ~CanExtend
    <3>1. RingStill
      BY <1>3, <2>1 DEF QueueMtvuPath1Reservation, Goto, ReservationIsOnItsWay
    <3> QED BY <3>1
  <2> QED BY <1>3, <2>1
<1>4. CASE SetEvent
  <2>1. RingStill
    BY <1>4 DEF SetEvent, Goto, ReservationIsOnItsWay, Writing
  <2> QED BY <2>1
<1>5. CASE CountFrame \/ Listen
  <2>1. RingStill
    BY <1>5 DEF CountFrame, Listen, Goto, ReservationIsOnItsWay, WakeInv, CallIsRight
  <2> QED BY <2>1
<1>6. CASE BoundGpuVuExecutionLatency
  <2>1. RingStill
    BY <1>6 DEF BoundGpuVuExecutionLatency, Goto, ReservationIsOnItsWay, Writing
  <2> QED BY <2>1
<1>7. CASE VsyncWait \/ WaitForEmpty \/ CheckDrained \/ ArmDrainWaiter
          \/ LookAtWaiting \/ DisarmDrainWaiter \/ DrainWait
  <2>1. RingStill
    BY <1>7 DEF VsyncWait, WaitForEmpty, CheckDrained, ArmDrainWaiter, LookAtWaiting,
      DisarmDrainWaiter, DrainWait, Goto, ReservationIsOnItsWay, Writing
  <2> QED BY <2>1
<1>8. CASE ClearOpen \/ DoneWait \/ Join \/ ShutdownClosed \/ WaitForOpen
  <2>1. RingStill
    BY <1>8 DEF ClearOpen, DoneWait, Join, ShutdownClosed, WaitForOpen, Goto,
      ReservationIsOnItsWay, Writing
  <2> QED BY <2>1
<1>10. CASE HardwareReset
  <2>1. read = write
    BY <1>10 DEF HardwareReset, FrameInv, EmptyAtRest
  <2>2. UNCHANGED <<ring, read, write, remaining, consumed, gpc>> /\ Issued' = Issued
    BY <1>10, <2>1 DEF HardwareReset, Goto, ReservationIsOnItsWay, Writing
  <2>3. RingStill
    BY <1>0, <1>10, <2>2, ClosingKeepsCounts DEF HardwareReset
  <2> QED BY <2>3
<1>12. ASSUME NEW c \in Call, Begin(c) PROVE RingStill
  <2>1. (\A p \in Position : runs'[p].count = runs[p].count)
        /\ (openRun' = RingSize \/ (openRun' = openRun /\ runs' = runs))
    BY <1>0, <1>12, ClosingKeepsCounts DEF Begin
  <2>2. UNCHANGED <<ring, read, write, remaining, consumed, gpc>>
    BY <1>12 DEF Begin
  <2>3. Issued' = Issued
    <3>1. call # "exec" /\ dispatched \in Int
      BY <1>12 DEF Begin, ReservationIsOnItsWay, Writing, TypeInv, TypeOK, CountTypes
    <3> QED BY <1>12, <3>1 DEF Begin
  <2> QED BY <2>1, <2>2, <2>3
<1>13. CASE EntryLoop \/ WaitForWork \/ Awake \/ FramePost
          \/ IdlePost \/ PeekCompletion \/ AnnounceHole \/ PeekAgain
          \/ WithdrawHole
  <2>1. RingStill
    BY <1>13 DEF EntryLoop, WaitForWork, Awake, FramePost, IdlePost,
      PeekCompletion, AnnounceHole, PeekAgain, WithdrawHole, GsStays, PostListener
  <2> QED BY <2>1
<1>14. CASE CountDown \/ EndOfRing \/ EndOfPass \/ AcknowledgeClose
  <2>1. RingStill
    BY <1>14 DEF CountDown, EndOfRing, EndOfPass, AcknowledgeClose, GsStays
  <2> QED BY <2>1
<1>15. ASSUME NEW ok \in BOOLEAN, OpenGs(ok) PROVE RingStill
  BY <1>15 DEF OpenGs, GsStays
<1>16. CASE CommitExecution
  <2>1. RingStill
    BY <1>16 DEF CommitExecution
  <2> QED BY <2>1
<1>17. CASE VuWaitForWork \/ ExecuteCpu \/ WaitForBuffer \/ SeeRingEmpty
          \/ ServeRequests \/ Push \/ PushFull \/ ClaimGsWaiter \/ NotifyGs
          \/ ClaimDrainWaiter
  <2>1. RingStill
    BY <1>17 DEF VuWaitForWork, ExecuteCpu, WaitForBuffer, SeeRingEmpty, ServeRequests,
      Push, PushFull, ClaimGsWaiter, NotifyGs, ClaimDrainWaiter, VuStays
  <2> QED BY <2>1
<1>18. ASSUME NEW o \in Output, ExecuteDirect(o) PROVE RingStill
  BY <1>18 DEF ExecuteDirect, VuStays
<1>19. CASE Closing
  <2>1. read = write
    BY <1>19 DEF Closing, FrameInv, EmptyAtRest, WakeInv, LifeIsOrderly, MainLoop,
      Outside, Closes, Opens, Down
  <2>2. RingStill
    BY <1>19, <2>1 DEF Closing, GsStays
  <2> QED BY <2>2
<1> HIDE DEF RingStill
<1> QED
  BY <1>1, <1>2, <1>3, <1>4, <1>5, <1>6, <1>7, <1>8, <1>10,
     <1>12, <1>13, <1>14, <1>15, <1>16, <1>17, <1>18, <1>19
     DEF Next, EE, EEContinues, GS, MTVU

\* Extending, writing, handling, showing and passing keep each run counted,
\* and the open one last.
LEMMA RunsStay ==
    ASSUME WakeInv, TypeInv, FrameInv, RunInv, Next, TypeInv'
    PROVE  RunInv'
<1>0. /\ RingTypes /\ RingTypes' /\ read \in Position /\ write \in Position
      /\ ReservationIsOnItsWay /\ RemainderIsAtHead /\ RunsAreCounted /\ OpenRunIsLast
  BY DEF TypeInv, TypeOK, RingTypes, RunInv
<1>00. /\ runs \in [Position -> [count : 0 .. MaxRun, open : BOOLEAN]]
       /\ remaining \in Nat /\ remaining' \in Nat /\ MaxRun \in Nat /\ RingSize \in Nat
       /\ RingSize \notin Position /\ openRun \in 0 .. RingSize
  <2>1. MaxRun \in Nat /\ RingSize \in Nat
    BY MailboxAssumption
  <2>2. /\ runs \in [Position -> [count : 0 .. MaxRun, open : BOOLEAN]]
        /\ remaining \in 0 .. MaxRun /\ remaining' \in 0 .. MaxRun
        /\ openRun \in 0 .. RingSize
    BY <1>0 DEF RingTypes
  <2>3. RingSize \notin Position
    BY <2>1 DEF Position
  <2> QED BY <2>1, <2>2, <2>3
<1>000. \A p \in Position : Distance(p) \in Nat /\ (Distance(p) = 0 <=> p = read)
  BY <1>0, DistanceIsTyped DEF Position
<1>01. ReservationIsOnItsWay'
  BY ReservationStays DEF RunInv
<1>1. CASE RingStill
  <2>1. UNCHANGED <<ring, read, write, remaining, Unpassed>> /\ (Retiring' <=> Retiring)
    BY <1>1, SameRing DEF RingStill
  <2>2. \A p : (Claimed(p)' <=> Claimed(p)) /\ Distance(p)' = Distance(p)
    BY <2>1 DEF Claimed, Distance
  <2>3. RemainderIsAtHead'
    BY <1>0, <2>1 DEF RemainderIsAtHead
  <2>4. RunsAreCounted'
    <3>1. \A p \in Unpassed : runs'[p].count = runs[p].count
      BY <1>1 DEF RingStill, Unpassed
    <3> QED BY <1>0, <2>1, <2>2, <3>1 DEF RunsAreCounted
  <2>5. OpenRunIsLast'
    <3>1. CASE openRun' = RingSize
      BY <3>1 DEF OpenRunIsLast
    <3>2. CASE openRun' = openRun /\ runs' = runs
      <4>1. Distance(write)' = Distance(write) /\ Distance(openRun)' = Distance(openRun)
        BY <2>1, <3>2 DEF Distance
      <4>2. Claimed(openRun)' <=> Claimed(openRun)
        BY <2>1, <3>2 DEF Claimed
      <4> QED BY <1>0, <2>1, <3>2, <4>1, <4>2 DEF OpenRunIsLast
    <3> QED BY <1>1, <3>1, <3>2 DEF RingStill
  <2> QED BY <1>01, <2>3, <2>4, <2>5 DEF RunInv
<1>2. CASE QueueMtvuPath1Reservation /\ CanExtend
  <2>1. /\ UNCHANGED <<ring, read, write, remaining, gpc, openRun>>
        /\ runs' = [runs EXCEPT ![openRun].count = @ + 1]
        /\ openRun # RingSize /\ runs[openRun].open
    BY <1>2 DEF QueueMtvuPath1Reservation, CanExtend
  <2>2. /\ openRun \in Unpassed /\ Distance(openRun) + 1 = Distance(write)
        /\ ring[openRun] = "path1" /\ ~Claimed(openRun)
    BY <1>0, <2>1 DEF OpenRunIsLast
  <2>3. openRun \in Position /\ Unpassed' = Unpassed
    BY <2>1, <2>2, SameRing DEF Unpassed
  <2>4. \A p \in Unpassed : runs'[p].count = runs[p].count \/ runs'[p].count > 0
    BY <1>00, <2>1, <2>3 DEF Unpassed
  <2>5. RemainderIsAtHead'
    BY <1>0, <2>1 DEF RemainderIsAtHead, Retiring
  <2>6. RunsAreCounted'
    BY <1>0, <2>1, <2>3, <2>4 DEF RunsAreCounted, Claimed, Retiring
  <2>7. OpenRunIsLast'
    BY <1>0, <2>1, <2>2, <2>3 DEF OpenRunIsLast, Claimed, Retiring, Distance
  <2> QED BY <1>01, <2>5, <2>6, <2>7 DEF RunInv
<1>3. CASE WriteCommand
  <2>1. /\ Distance(write)' = Distance(write) + SizeOf(call)
        /\ \A p \in Position : Distance(p)' = Distance(p)
        /\ \A p \in Unpassed : p \in Unpassed' /\ ring'[p] = ring[p]
        /\ write \in Unpassed'
        /\ \A p \in Unpassed' \ Unpassed : p = write \/ ring'[p] = "payload"
    BY <1>3, WrittenPacket DEF FrameInv
  <2>2. UNCHANGED <<read, remaining, gpc>> /\ openRun = RingSize
    BY <1>0, <1>3 DEF WriteCommand, ReservationIsOnItsWay, Writing
  <2>3. write' # read' /\ Distance(write) \in Nat
    <3>1. Distance(write)' # 0 /\ Distance(write) \in Nat
      BY <1>0, <1>000, <2>1, SizeIsPositive
    <3>2. read' \in Position /\ write' \in Position
      BY <1>0 DEF RingTypes
    <3>3. write' = read' => Distance(write)' = 0
      <4>1. \A a, b \in Int : a = b => (IF a <= b THEN b - a ELSE b - a + RingSize) = 0
        OBVIOUS
      <4>2. read' \in Int /\ write' \in Int
        BY <3>2, MailboxAssumption DEF Position
      <4> QED BY <4>1, <4>2, Zenon DEF Distance
    <3> QED BY <3>1, <3>3
  <2>4. remaining > 0 \/ Retiring => read # write
    BY <1>0 DEF RemainderIsAtHead, Retiring, FrameInv, WorkerIsAtCommand
  <2>5. read # write => read \in Unpassed
    BY <1>0, <1>000 DEF Unpassed
  <2>6. RemainderIsAtHead'
    <3>1. (read # write => ring'[read] = ring[read]) /\ (Retiring' <=> Retiring)
      BY <2>1, <2>2, <2>5 DEF Retiring
    <3> QED BY <1>0, <2>2, <2>3, <3>1 DEF RemainderIsAtHead
  <2>7. RunsAreCounted'
    <3> SUFFICES ASSUME NEW p \in Unpassed', ring'[p] = "path1", ~Claimed(p)'
                 PROVE  runs'[p].count > 0
      BY DEF RunsAreCounted
    <3>1. CASE p \in Unpassed
      <4>1. p # write /\ p \in Position
        BY <1>000, <3>1 DEF Unpassed
      <4>2. runs'[p] = runs[p]
        BY <1>3, <1>00, <4>1 DEF WriteCommand
      <4>3. ring[p] = "path1" /\ ~Claimed(p)
        BY <2>1, <2>2, <3>1 DEF Claimed, Retiring
      <4> QED BY <1>0, <3>1, <4>2, <4>3 DEF RunsAreCounted
    <3>2. CASE p = write
      <4>1. call = "exec"
        BY <1>0, <1>3, <3>2 DEF WriteCommand
      <4>2. runs'[p] = [count |-> 1, open |-> TRUE]
        BY <1>0, <1>00, <1>3, <3>2, <4>1 DEF WriteCommand
      <4> QED BY <4>2
    <3> QED BY <2>1, <3>1, <3>2
  <2>8. OpenRunIsLast'
    <3>1. CASE call = "exec"
      <4>1. openRun' = write /\ SizeOf(call) = 1 /\ ring'[write] = "path1"
        BY <1>0, <1>3, <3>1 DEF WriteCommand, SizeOf
      <4>2. Distance(write)' = Distance(write) + 1
        BY <2>1, <4>1
      <4>3. Distance(openRun)' = Distance(write)
        <5>1. Distance(openRun)' = IF read' <= openRun' THEN openRun' - read'
                                    ELSE openRun' - read' + RingSize
          BY DEF Distance
        <5> QED BY <2>2, <4>1, <5>1 DEF Distance
      <4>4. ~(openRun' = read' /\ (remaining' > 0 \/ Retiring'))
        BY <2>2, <2>4, <4>1 DEF Retiring
      <4> QED BY <2>1, <4>1, <4>2, <4>3, <4>4 DEF OpenRunIsLast, Claimed
    <3>2. CASE call # "exec"
      BY <1>3, <2>2, <3>2 DEF WriteCommand, OpenRunIsLast
    <3> QED BY <3>1, <3>2
  <2> QED BY <1>01, <2>6, <2>7, <2>8 DEF RunInv
<1>4. CASE HandleCommand
  <2>1. UNCHANGED <<ring, read, write, remaining, runs, openRun>> /\ ring[read] # "path1"
    BY <1>4 DEF HandleCommand
  <2>2. Unpassed' = Unpassed /\ \A p : Distance(p)' = Distance(p)
    BY <2>1, SameRing DEF Distance
  <2>3. RemainderIsAtHead'
    BY <1>0, <2>1 DEF RemainderIsAtHead
  <2>4. RunsAreCounted'
    BY <1>0, <2>1, <2>2 DEF RunsAreCounted, Claimed
  <2>5. OpenRunIsLast'
    BY <1>0, <2>1, <2>2 DEF OpenRunIsLast, Claimed, Distance
  <2> QED BY <1>01, <2>3, <2>4, <2>5 DEF RunInv
<1>5. CASE ConsumePath1
  <2>1. /\ UNCHANGED <<ring, read, write, openRun>> /\ gpc = "take"
        /\ runs' = (IF remaining > 0 THEN runs ELSE [runs EXCEPT ![read] = NoRun])
    BY <1>5 DEF ConsumePath1
  <2>2. (remaining' > 0 /\ gpc' = "head") \/ Retiring'
    <3> DEFINE left == IF remaining > 0 THEN remaining
                       ELSE IF runs[read].count = 0 THEN 1 ELSE runs[read].count
               n == IF Len(Head(completions).points) < left
                    THEN Len(Head(completions).points) ELSE left
    <3>1. remaining' = left - n /\ gpc' = IF left = n THEN "advance" ELSE "head"
      BY <1>5, Zenon DEF ConsumePath1
    <3>2. left \in Nat /\ n \in Nat
      <4>1. runs[read].count \in Nat
        BY <1>0, <1>00
      <4>2. left \in Nat
        BY <1>00, <4>1
      <4>3. Len(Head(completions).points) \in Nat
        <5>1. completions \in Seq(CompletionRecord) /\ completions # <<>>
          BY <2>1 DEF TypeInv, TypeOK, QueueTypes, Completions, CompletionRecord, WorkIsThere
        <5>2. Head(completions) \in CompletionRecord
          BY <5>1, HeadTailProperties
        <5> QED BY <5>2 DEF CompletionRecord, Points
      <4> HIDE DEF left
      <4> QED BY <4>2, <4>3
    <3> HIDE DEF left, n
    <3> QED BY <1>00, <3>1, <3>2 DEF Retiring
  <2>3. read # write /\ ring[read] = "path1"
    BY <2>1 DEF FrameInv, WorkerIsAtCommand
  <2>4. Unpassed' = Unpassed /\ \A p : Distance(p)' = Distance(p)
    BY <2>1, SameRing DEF Distance
  <2>5. RemainderIsAtHead'
    <3>1. Retiring' => remaining' = 0
      <4> DEFINE left == IF remaining > 0 THEN remaining
                         ELSE IF runs[read].count = 0 THEN 1 ELSE runs[read].count
                 n == IF Len(Head(completions).points) < left
                      THEN Len(Head(completions).points) ELSE left
      <4>1. remaining' = left - n /\ gpc' = IF left = n THEN "advance" ELSE "head"
        BY <1>5, Zenon DEF ConsumePath1
      <4>2. left \in Int
        BY <1>0, <1>00
      <4> HIDE DEF left, n
      <4> QED BY <4>1, <4>2 DEF Retiring
    <3> QED BY <2>1, <2>2, <2>3, <3>1 DEF RemainderIsAtHead, Retiring
  <2>6. Claimed(read)'
    BY <2>1, <2>2 DEF Claimed
  <2>7. ASSUME NEW p \in Position, p # read
        PROVE  runs'[p] = runs[p] /\ ~Claimed(p) /\ ~Claimed(p)'
    BY <1>00, <2>1, <2>7 DEF Claimed
  <2>8. RunsAreCounted'
    <3> SUFFICES ASSUME NEW p \in Unpassed, ring[p] = "path1", ~Claimed(p)'
                 PROVE  runs'[p].count > 0
      BY <2>1, <2>4 DEF RunsAreCounted
    <3>1. p # read /\ p \in Position
      BY <2>1, <2>6 DEF Unpassed, Claimed
    <3> QED BY <1>0, <2>7, <3>1 DEF RunsAreCounted
  <2>9. OpenRunIsLast'
    <3> SUFFICES ASSUME openRun # RingSize, runs'[openRun].open
                 PROVE  /\ openRun \in Unpassed /\ Distance(openRun) + 1 = Distance(write)
                        /\ ring[openRun] = "path1" /\ ~Claimed(openRun)'
      <4>1. Distance(openRun)' = Distance(openRun) /\ Distance(write)' = Distance(write)
        BY <2>1 DEF Distance
      <4>2. Claimed(openRun)' <=> openRun = read /\ (remaining' > 0 \/ Retiring')
        BY <2>1 DEF Claimed
      <4> QED BY <2>1, <2>4, <4>1, <4>2 DEF OpenRunIsLast, Claimed
    <3>1. openRun \in Position
      BY <1>00 DEF Position
    <3>2. CASE openRun = read
      <4>1. remaining > 0
        BY <1>00, <2>1, <3>1, <3>2 DEF NoRun
      <4>2. Claimed(openRun)
        BY <3>2, <4>1 DEF Claimed
      <4>3. runs[openRun].open
        BY <2>1, <4>1
      <4> QED BY <1>0, <4>2, <4>3 DEF OpenRunIsLast
    <3>3. CASE openRun # read
      <4>1. runs'[openRun] = runs[openRun] /\ ~(openRun = read /\ (remaining' > 0 \/ Retiring'))
        BY <2>7, <3>1, <3>3
      <4>2. ~Claimed(openRun)'
        BY <2>1, <4>1 DEF Claimed
      <4> QED BY <1>0, <4>1, <4>2 DEF OpenRunIsLast
    <3> QED BY <3>2, <3>3
  <2> QED BY <1>01, <2>5, <2>8, <2>9 DEF RunInv
<1>6. CASE Advance
  <2>1. /\ UNCHANGED <<ring, write, runs, openRun, remaining>> /\ gpc = "advance"
        /\ ~Retiring' /\ Retiring
    BY <1>6 DEF Advance, Retiring
  <2>2. remaining = 0
    BY <1>0, <1>00, <2>1 DEF RemainderIsAtHead
  <2>3. \A p : ~Claimed(p)'
    BY <2>1, <2>2 DEF Claimed
  <2>4. PICK n \in Nat :
           /\ n > 0 /\ n <= Distance(write) /\ Distance(write)' = Distance(write) - n
           /\ \A p \in Position : n <= Distance(p) => Distance(p)' = Distance(p) - n
           /\ \A p \in Position :
                  p \in Unpassed' <=> (p \in Unpassed /\ n <= Distance(p))
           /\ \A p \in Unpassed : ring[p] # "payload" => p = read \/ n <= Distance(p)
    BY <1>6, PassedPacket DEF FrameInv
  <2>5. RemainderIsAtHead'
    BY <2>1, <2>2 DEF RemainderIsAtHead
  <2>6. RunsAreCounted'
    <3> SUFFICES ASSUME NEW p \in Unpassed', ring[p] = "path1"
                 PROVE  runs[p].count > 0
      BY <2>1 DEF RunsAreCounted
    <3>1. p \in Position
      BY DEF Unpassed, Position
    <3>2. p \in Unpassed /\ p # read
      BY <1>000, <2>4, <3>1
    <3> QED BY <1>0, <3>2 DEF RunsAreCounted, Claimed
  <2>7. OpenRunIsLast'
    <3> SUFFICES ASSUME openRun # RingSize, runs[openRun].open
                 PROVE  /\ openRun \in Unpassed' /\ Distance(openRun)' + 1 = Distance(write)'
                        /\ ring[openRun] = "path1"
      BY <2>1, <2>3 DEF OpenRunIsLast
    <3>1. /\ openRun \in Unpassed /\ Distance(openRun) + 1 = Distance(write)
          /\ ring[openRun] = "path1" /\ ~Claimed(openRun)
      BY <1>0 DEF OpenRunIsLast
    <3>2. openRun \in Position /\ openRun # read
      BY <2>1, <3>1 DEF Claimed, Unpassed
    <3>3. n <= Distance(openRun) /\ ring[openRun] # "payload"
      BY <2>4, <3>1, <3>2
    <3>4. openRun \in Unpassed'
      BY <2>4, <3>1, <3>2, <3>3
    <3>5. Distance(openRun)' = Distance(openRun) - n
      <4>1. \A p \in Position : n <= Distance(p) => Distance(p)' = Distance(p) - n
        BY <2>4
      <4>2. Distance(openRun)' = IF read' <= openRun THEN openRun - read'
                                  ELSE openRun - read' + RingSize
        BY <2>1 DEF Distance
      <4> QED BY <3>2, <3>3, <4>1, <4>2 DEF Distance
    <3>6. Distance(write)' = Distance(write) - n /\ Distance(openRun) \in Nat
      BY <1>000, <2>4, <3>2
    <3> QED BY <3>1, <3>4, <3>5, <3>6
  <2> QED BY <1>01, <2>5, <2>6, <2>7 DEF RunInv
<1>7. CASE StartThread
  <2>1. read' = 0 /\ write' = 0 /\ openRun' = RingSize /\ remaining' = 0
    BY <1>7 DEF StartThread
  <2>2. Unpassed' = {}
    BY <2>1, MailboxAssumption DEF Unpassed, Distance, Position
  <2> QED BY <1>01, <2>1, <2>2 DEF RunInv, RemainderIsAtHead, RunsAreCounted, OpenRunIsLast
<1> QED
  BY <1>0, <1>1, <1>2, <1>3, <1>4, <1>5, <1>6, <1>7, RingSteps

-----------------------------------------------------------------------------
(* The executions on their way from MTVU to the GS *)

\* g[k] is the execution that ends the k-th completion, when a precedes the
\* first, and the executions of each are numbered one after the other.
Links(g, cs, a) ==
    /\ g \in [0 .. Len(cs) -> Int] /\ g[0] = a
    /\ \A k \in 1 .. Len(cs) :
          /\ g[k] = g[k - 1] + Len(cs[k].points)
          /\ \A i \in 1 .. Len(cs[k].points) : cs[k].points[i].id = g[k - 1] + i
Linked(cs, a, z) == \E g : Links(g, cs, a) /\ g[Len(cs)] = z

\* What is in a queue of completions
LEMMA CompletionsAreRecords ==
    ASSUME NEW cs \in Completions
    PROVE  /\ cs \in Seq(CompletionRecord) /\ Len(cs) \in Nat
           /\ \A k \in 1 .. Len(cs) : /\ cs[k] \in CompletionRecord
                                      /\ cs[k].points \in Points
                                      /\ Len(cs[k].points) \in Nat /\ Len(cs[k].points) > 0
<1>1. cs \in Seq(CompletionRecord) /\ Len(cs) \in Nat
  BY DEF Completions, CompletionRecord
<1>2. ASSUME NEW k \in 1 .. Len(cs)
      PROVE  /\ cs[k] \in CompletionRecord /\ cs[k].points \in Points
             /\ Len(cs[k].points) \in Nat /\ Len(cs[k].points) > 0
  <2>1. cs[k] \in CompletionRecord
    BY <1>1, ElementOfSeq
  <2>2. cs[k].points \in Points /\ cs[k].points # <<>>
    BY <2>1 DEF CompletionRecord
  <2> HIDE DEF CompletionRecord
  <2>3. cs[k].points \in Seq(PointRecord)
    BY <2>2 DEF Points, PointRecord
  <2> QED BY <2>1, <2>2, <2>3, EmptySeq, LenProperties
<1> QED BY <1>1, <1>2

\* A part of a run is a run.
LEMMA RunIsPart ==
    ASSUME NEW run \in Points, NEW k \in 0 .. Len(run)
    PROVE  /\ Len(run) \in Nat
           /\ Len(SubSeq(run, 1, k)) = k
           /\ Len(SubSeq(run, k + 1, Len(run))) = Len(run) - k
           /\ SubSeq(run, 1, k) \in Points /\ SubSeq(run, k + 1, Len(run)) \in Points
           /\ \A i \in 1 .. k : SubSeq(run, 1, k)[i] = run[i]
           /\ \A i \in 1 .. Len(run) - k : SubSeq(run, k + 1, Len(run))[i] = run[k + i]
<1> DEFINE N == Len(run)
           f == SubSeq(run, 1, k)
           r == SubSeq(run, k + 1, N)
<1>1. run \in Seq(PointRecord) /\ N \in Nat /\ k \in Nat
  BY DEF Points, PointRecord
<1>2. /\ f \in Points /\ r \in Points /\ Len(f) = k /\ Len(r) = N - k
  <2>1. 1 \in Nat /\ k + 1 \in Nat /\ 1 <= k + 1 /\ k <= N /\ N <= N
    BY <1>1
  <2>2. f \in Points /\ Len(f) = IF 1 <= k THEN k - 1 + 1 ELSE 0
    BY <1>1, <2>1, PartIsPoints
  <2>3. r \in Points /\ Len(r) = IF k + 1 <= N THEN N - (k + 1) + 1 ELSE 0
    BY <1>1, <2>1, PartIsPoints
  <2> HIDE DEF f, r, N
  <2> QED BY <1>1, <2>1, <2>2, <2>3
<1>3. \A i \in 1 .. k : f[i] = run[i]
  <2>1. CASE k = 0
    BY <2>1
  <2>2. CASE k > 0
    <3>1. \A i \in 1 .. k : run[i] \in PointRecord
      BY <1>1, ElementOfSeq
    <3>2. \A i \in 1 .. k - 1 + 1 : f[i] = run[1 + i - 1]
      BY <1>1, <2>2, <3>1, SubSeqProperties
    <3>3. k - 1 + 1 = k /\ \A i \in Int : 1 + i - 1 = i
      BY <1>1
    <3> HIDE DEF f
    <3> QED BY <3>2, <3>3
  <2> QED BY <1>1, <2>1, <2>2
<1>4. \A i \in 1 .. N - k : r[i] = run[k + i]
  <2>1. CASE k = N
    BY <1>1, <2>1
  <2>2. CASE k < N
    <3>1. \A i \in k + 1 .. N : run[i] \in PointRecord
      BY <1>1, ElementOfSeq
    <3>2. k + 1 \in Nat /\ k + 1 <= N
      BY <1>1, <2>2
    <3>3. \A i \in 1 .. N - (k + 1) + 1 : r[i] = run[k + 1 + i - 1]
      <4> HIDE DEF N
      <4> QED BY <1>1, <3>1, <3>2, SubSeqProperties
    <3>4. N - (k + 1) + 1 = N - k /\ \A i \in Int : k + 1 + i - 1 = k + i
      BY <1>1
    <3> HIDE DEF r, N
    <3> QED BY <3>3, <3>4
  <2> QED BY <1>1, <2>1, <2>2
<1> HIDE DEF f, r, N
<1> QED BY <1>1, <1>2, <1>3, <1>4 DEF f, r, N

\* No completions hold no executions,
LEMMA LinkedNothing ==
    ASSUME NEW a \in Int PROVE \A z : Linked(<<>>, a, z) <=> z = a
<1>1. Linked(<<>>, a, a)
  <2> DEFINE g == [k \in 0 .. 0 |-> a]
  <2>1. Len(<<>>) = 0
    OBVIOUS
  <2>2. Links(g, <<>>, a) /\ g[Len(<<>>)] = a
    BY <2>1 DEF Links
  <2> QED BY <2>2 DEF Linked
<1>2. ASSUME NEW z, Linked(<<>>, a, z) PROVE z = a
  <2>1. PICK g : Links(g, <<>>, a) /\ g[Len(<<>>)] = z
    BY <1>2 DEF Linked
  <2>2. Len(<<>>) = 0
    OBVIOUS
  <2> QED BY <2>1, <2>2 DEF Links
<1> QED BY <1>1, <1>2

\* one holds those of its run,
LEMMA LinkedOne ==
    ASSUME NEW a \in Int, NEW run \in Points, NEW m,
           \A i \in 1 .. Len(run) : run[i].id = a + i
    PROVE  Linked(<<Completion(run, m)>>, a, a + Len(run))
<1> DEFINE e == <<Completion(run, m)>>
           g == [k \in 0 .. 1 |-> IF k = 0 THEN a ELSE a + Len(run)]
<1>1. Len(e) = 1 /\ e[1].points = run /\ Len(run) \in Nat
  BY DEF Completion, Points
<1> HIDE DEF e
<1>2. g \in [0 .. 1 -> Int] /\ g[0] = a /\ g[1] = a + Len(run)
  BY <1>1
<1> HIDE DEF g
<1>3. Links(g, e, a)
  <2> SUFFICES ASSUME NEW k \in 1 .. 1
               PROVE  /\ g[k] = g[k - 1] + Len(e[k].points)
                      /\ \A i \in 1 .. Len(e[k].points) : e[k].points[i].id = g[k - 1] + i
    BY <1>1, <1>2 DEF Links
  <2>1. k = 1 /\ k - 1 = 0
    OBVIOUS
  <2> QED BY <1>1, <1>2, <2>1
<1>4. Linked(e, a, a + Len(run))
  BY <1>1, <1>2, <1>3 DEF Linked
<1> QED BY <1>4 DEF e

\* and two queues those of both.
LEMMA LinkedConcat ==
    ASSUME NEW cs \in Completions, NEW ds \in Completions, NEW a \in Int, NEW m, NEW z,
           Linked(cs, a, m), Linked(ds, m, z)
    PROVE  Linked(cs \o ds, a, z)
<1> DEFINE e == cs \o ds
           M == Len(cs)
           N == Len(ds)
<1>1. /\ M \in Nat /\ N \in Nat /\ Len(e) = M + N
      /\ \A i \in 1 .. M + N : e[i] = IF i <= M THEN cs[i] ELSE ds[i - M]
  BY CompletionsAreRecords, ConcatProperties
<1>2. PICK g : Links(g, cs, a) /\ g[M] = m
  BY DEF Linked
<1>3. PICK h : Links(h, ds, m) /\ h[N] = z
  BY DEF Linked
<1> DEFINE f == [k \in 0 .. M + N |-> IF k <= M THEN g[k] ELSE h[k - M]]
<1>4. /\ g \in [0 .. M -> Int] /\ g[0] = a /\ h \in [0 .. N -> Int] /\ h[0] = m
      /\ \A k \in 1 .. M :
            /\ g[k] = g[k - 1] + Len(cs[k].points)
            /\ \A i \in 1 .. Len(cs[k].points) : cs[k].points[i].id = g[k - 1] + i
      /\ \A k \in 1 .. N :
            /\ h[k] = h[k - 1] + Len(ds[k].points)
            /\ \A i \in 1 .. Len(ds[k].points) : ds[k].points[i].id = h[k - 1] + i
  BY <1>2, <1>3 DEF Links
<1> HIDE DEF e, M, N
<1>5. /\ f \in [0 .. M + N -> Int] /\ f[0] = a /\ f[M + N] = z
      /\ \A k \in 0 .. M : f[k] = g[k]
      /\ \A k \in 0 .. N : f[M + k] = h[k]
  <2>1. \A k \in 0 .. M + N : k > M => k - M \in 0 .. N
    BY <1>1
  <2>2. f \in [0 .. M + N -> Int]
    BY <1>1, <1>4, <2>1
  <2>3. \A k \in 0 .. M : k \in 0 .. M + N
    BY <1>1
  <2>4. \A k \in 0 .. M : f[k] = g[k]
    BY <1>1, <2>3
  <2>5. \A k \in 0 .. N : f[M + k] = h[k]
    <3> TAKE k \in 0 .. N
    <3>1. M + k \in 0 .. M + N /\ (M + k <= M => k = 0) /\ M + k - M = k
      BY <1>1
    <3> QED BY <1>1, <1>2, <1>4, <3>1
  <2>6. 0 \in 0 .. M /\ N \in 0 .. N
    BY <1>1
  <2> HIDE DEF f
  <2>7. f[0] = g[0] /\ f[M + N] = h[N]
    BY <2>4, <2>5, <2>6
  <2> QED BY <1>3, <1>4, <2>2, <2>4, <2>5, <2>7 DEF N
<1> HIDE DEF f
<1>6. ASSUME NEW k \in 1 .. M + N
      PROVE  /\ f[k] = f[k - 1] + Len(e[k].points)
             /\ \A i \in 1 .. Len(e[k].points) : e[k].points[i].id = f[k - 1] + i
  <2>1. CASE k <= M
    <3>1. e[k] = cs[k] /\ k \in 1 .. M /\ k \in 0 .. M /\ k - 1 \in 0 .. M
      BY <1>1, <2>1
    <3>2. f[k] = g[k] /\ f[k - 1] = g[k - 1]
      BY <1>5, <3>1
    <3> QED BY <1>4, <3>1, <3>2
  <2>2. CASE k > M
    <3> DEFINE j == k - M
    <3>1. e[k] = ds[j] /\ j \in 1 .. N /\ j \in 0 .. N /\ j - 1 \in 0 .. N
          /\ k = M + j /\ k - 1 = M + (j - 1)
      BY <1>1, <2>2
    <3> HIDE DEF j
    <3>2. f[M + j] = h[j] /\ f[M + (j - 1)] = h[j - 1]
      BY <1>5, <3>1
    <3>3. f[k] = h[j] /\ f[k - 1] = h[j - 1]
      BY <3>1, <3>2
    <3> QED BY <1>4, <3>1, <3>3
  <2> QED BY <1>1, <2>1, <2>2
<1>7. Links(f, e, a)
  BY <1>1, <1>5, <1>6 DEF Links
<1>8. Linked(e, a, z)
  BY <1>1, <1>5, <1>7 DEF Linked
<1> QED BY <1>8 DEF e

\* The completions behind the first
LEMMA LinkedRest ==
    ASSUME NEW cs \in Completions, cs # <<>>, NEW a \in Int, NEW z, Linked(cs, a, z)
    PROVE  /\ \A i \in 1 .. Len(Head(cs).points) : Head(cs).points[i].id = a + i
           /\ Linked(Tail(cs), a + Len(Head(cs).points), z)
<1> DEFINE M == Len(cs)
           e == Tail(cs)
<1>1. M \in Nat /\ M > 0 /\ Head(cs) = cs[1] /\ Len(e) = M - 1
      /\ \A k \in 1 .. M - 1 : e[k] = cs[k + 1]
  <2>1. cs \in Seq(CompletionRecord) /\ M \in Nat
    BY CompletionsAreRecords
  <2>2. M > 0
    BY <2>1, EmptySeq
  <2> QED BY <2>1, <2>2, HeadTailProperties
<1>2. PICK g : Links(g, cs, a) /\ g[M] = z
  BY DEF Linked
<1>3. /\ g \in [0 .. M -> Int] /\ g[0] = a
      /\ \A k \in 1 .. M :
            /\ g[k] = g[k - 1] + Len(cs[k].points)
            /\ \A i \in 1 .. Len(cs[k].points) : cs[k].points[i].id = g[k - 1] + i
  BY <1>2 DEF Links
<1> HIDE DEF e, M
<1>4. 1 \in 1 .. M /\ 1 - 1 = 0
  BY <1>1
<1>5. /\ g[1] = a + Len(Head(cs).points)
      /\ \A i \in 1 .. Len(Head(cs).points) : Head(cs).points[i].id = a + i
  BY <1>1, <1>3, <1>4
<1> DEFINE h == [k \in 0 .. M - 1 |-> g[k + 1]]
<1>6. /\ h \in [0 .. M - 1 -> Int] /\ h[0] = g[1] /\ h[M - 1] = z
      /\ \A k \in 0 .. M - 1 : h[k] = g[k + 1]
  <2>1. \A k \in 0 .. M - 1 : k + 1 \in 0 .. M
    BY <1>1
  <2>2. 0 \in 0 .. M - 1 /\ M - 1 \in 0 .. M - 1 /\ M - 1 + 1 = M /\ 0 + 1 = 1
    BY <1>1
  <2>3. h \in [0 .. M - 1 -> Int] /\ \A k \in 0 .. M - 1 : h[k] = g[k + 1]
    BY <1>3, <2>1
  <2> HIDE DEF h
  <2> QED BY <1>2, <2>2, <2>3 DEF M
<1> HIDE DEF h
<1>7. ASSUME NEW k \in 1 .. M - 1
      PROVE  /\ h[k] = h[k - 1] + Len(e[k].points)
             /\ \A i \in 1 .. Len(e[k].points) : e[k].points[i].id = h[k - 1] + i
  <2>1. /\ k + 1 \in 1 .. M /\ k \in 0 .. M - 1 /\ k - 1 \in 0 .. M - 1 /\ k + 1 - 1 = k
        /\ k - 1 + 1 = k
    BY <1>1
  <2>2. h[k] = g[k + 1] /\ h[k - 1] = g[k] /\ e[k] = cs[k + 1]
    BY <1>1, <1>6, <2>1
  <2> QED BY <1>3, <2>1, <2>2
<1>8. Links(h, e, g[1])
  BY <1>1, <1>6, <1>7 DEF Links
<1>9. Linked(e, g[1], z)
  BY <1>1, <1>6, <1>8 DEF Linked
<1> QED BY <1>5, <1>9 DEF e

\* The first loses its n first executions.
LEMMA LinkedCut ==
    ASSUME NEW cs \in Completions, cs # <<>>, NEW a \in Int, NEW z, Linked(cs, a, z),
           NEW n \in Nat, n < Len(cs[1].points),
           NEW e, Len(e) = Len(cs), \A k \in 2 .. Len(cs) : e[k] = cs[k],
           e[1].points = SubSeq(cs[1].points, n + 1, Len(cs[1].points))
    PROVE  Linked(e, a + n, z)
<1> DEFINE M == Len(cs)
           p == cs[1].points
           s == SubSeq(p, n + 1, Len(p))
<1>1. M \in Nat /\ M > 0 /\ cs \in Seq(CompletionRecord) /\ 1 \in 1 .. M
  BY CompletionsAreRecords, EmptySeq
<1>2. p \in Points /\ Len(p) \in Nat
  BY <1>1, CompletionsAreRecords
<1>3. Len(s) = Len(p) - n /\ \A i \in 1 .. Len(p) - n : s[i] = p[n + i]
  <2>1. n \in 0 .. Len(p)
    BY <1>2
  <2> HIDE DEF p
  <2> QED BY <1>2, <2>1, RunIsPart
<1>4. Len(e) = M /\ (\A k \in 2 .. M : e[k] = cs[k]) /\ e[1].points = s
  OBVIOUS
<1>5. PICK g : Links(g, cs, a) /\ g[M] = z
  BY DEF Linked
<1>6. /\ g \in [0 .. M -> Int] /\ g[0] = a
      /\ \A k \in 1 .. M :
            /\ g[k] = g[k - 1] + Len(cs[k].points)
            /\ \A i \in 1 .. Len(cs[k].points) : cs[k].points[i].id = g[k - 1] + i
  BY <1>5 DEF Links
<1>7. g[1] = a + Len(p) /\ \A i \in 1 .. Len(p) : p[i].id = a + i
  <2>1. 1 - 1 = 0
    OBVIOUS
  <2> QED BY <1>1, <1>6, <2>1
<1> HIDE DEF s, p, M
<1> DEFINE h == [k \in 0 .. M |-> IF k = 0 THEN a + n ELSE g[k]]
<1>8. h \in [0 .. M -> Int] /\ h[0] = a + n /\ \A k \in 1 .. M : h[k] = g[k]
  BY <1>1, <1>6
<1> HIDE DEF h
<1>9. ASSUME NEW k \in 1 .. M
      PROVE  /\ h[k] = h[k - 1] + Len(e[k].points)
             /\ \A i \in 1 .. Len(e[k].points) : e[k].points[i].id = h[k - 1] + i
  <2>1. CASE k = 1
    <3>1. e[k].points = s /\ h[k] = a + Len(p) /\ h[k - 1] = a + n
      BY <1>1, <1>4, <1>7, <1>8, <2>1
    <3>2. \A i \in 1 .. Len(p) - n : n + i \in 1 .. Len(p)
      BY <1>2
    <3>3. \A i \in 1 .. Len(p) - n : s[i].id = a + (n + i)
      BY <1>3, <1>7, <3>2
    <3>4. a + Len(p) = a + n + (Len(p) - n) /\ \A i \in Int : a + (n + i) = a + n + i
      BY <1>2
    <3>5. h[k] = h[k - 1] + Len(e[k].points)
      BY <1>3, <3>1, <3>4
    <3>6. \A i \in 1 .. Len(e[k].points) : e[k].points[i].id = h[k - 1] + i
      BY <1>3, <3>1, <3>3, <3>4
    <3> QED BY <3>5, <3>6
  <2>2. CASE k # 1
    <3>1. k \in 2 .. M /\ k - 1 \in 1 .. M
      BY <1>1, <2>2
    <3>2. e[k] = cs[k] /\ h[k] = g[k] /\ h[k - 1] = g[k - 1]
      BY <1>4, <1>8, <3>1
    <3> QED BY <1>6, <3>2
  <2> QED BY <2>1, <2>2
<1>10. Links(h, e, a + n)
  BY <1>1, <1>4, <1>8, <1>9 DEF Links
<1>11. h[M] = z
  BY <1>1, <1>5, <1>8 DEF M
<1> QED BY <1>4, <1>10, <1>11 DEF Linked

\* Each completion has an execution.
LEMMA LinkedGrows ==
    ASSUME NEW cs \in Completions, NEW a \in Int, NEW z, Linked(cs, a, z)
    PROVE  z \in Int /\ a <= z /\ (a = z => cs = <<>>)
<1> DEFINE M == Len(cs)
<1>1. /\ M \in Nat /\ cs \in Seq(CompletionRecord)
      /\ \A k \in 1 .. M : Len(cs[k].points) \in Nat /\ Len(cs[k].points) > 0
  BY CompletionsAreRecords
<1>2. PICK g : Links(g, cs, a) /\ g[M] = z
  BY DEF Linked
<1>3. /\ g \in [0 .. M -> Int] /\ g[0] = a
      /\ \A k \in 1 .. M : g[k] = g[k - 1] + Len(cs[k].points)
  BY <1>2 DEF Links
<1>4. M = 0 => cs = <<>>
  BY <1>1, EmptySeq
<1>5. g[M] = z
  BY <1>2
<1> HIDE DEF M
<1> DEFINE G == {k \in 0 .. M : g[k] >= a + k}
<1>6. 0 \in G
  BY <1>1, <1>3
<1>7. ASSUME NEW k \in 1 .. M, k - 1 \in G PROVE k \in G
  <2>1. k \in 0 .. M /\ k - 1 \in 0 .. M
    BY <1>1
  <2>2. g[k] \in Int /\ g[k - 1] \in Int
    BY <1>3, <2>1
  <2>3. g[k - 1] >= a + (k - 1)
    BY <1>7
  <2>4. Len(cs[k].points) \in Nat /\ Len(cs[k].points) > 0 /\ g[k] = g[k - 1] + Len(cs[k].points)
    BY <1>1, <1>3
  <2>5. g[k] >= a + k
    BY <2>2, <2>3, <2>4
  <2> QED BY <2>1, <2>5
<1>8. M \in G
  <2>1. \A k \in 1 .. M : k - 1 \in G => k \in G
    BY <1>7
  <2> HIDE DEF G
  <2>2. \A k \in 0 .. M : k \in G
    BY <1>1, <1>6, <2>1, Induction
  <2> QED BY <1>1, <2>2
<1>9. g[M] \in Int
  BY <1>1, <1>3
<1> QED BY <1>1, <1>4, <1>5, <1>8, <1>9

-----------------------------------------------------------------------------
(* The submission markers, and what MTVU publishes of a run *)

\* Every generated draw of cs, and one shown before it if u, is followed by a
\* marker, or t says that one is to come.
Drawn(run) == \E i \in 1 .. Len(run) : run[i].output = "generated"
Marked(u, cs, t) ==
    /\ u => t \/ \E j \in 1 .. Len(cs) : cs[j].submit
    /\ \A k \in 1 .. Len(cs) :
          Drawn(cs[k].points) => t \/ \E j \in k .. Len(cs) : cs[j].submit

\* Markers, by the same cases
LEMMA MarkedNothing ==
    ASSUME NEW u, NEW t, u => t PROVE Marked(u, <<>>, t)
BY DEF Marked

\* A draw without a marker in the first queue has one in the second.
LEMMA MarkedConcat ==
    ASSUME NEW cs \in Completions, NEW ds \in Completions, NEW u, NEW t, NEW v,
           Marked(u, cs, t), Marked(t, ds, v)
    PROVE  Marked(u, cs \o ds, v)
<1> DEFINE e == cs \o ds
           M == Len(cs)
           N == Len(ds)
<1>1. /\ M \in Nat /\ N \in Nat /\ Len(e) = M + N
      /\ \A i \in 1 .. M + N : e[i] = IF i <= M THEN cs[i] ELSE ds[i - M]
  BY CompletionsAreRecords, ConcatProperties
<1>2. /\ u => t \/ \E j \in 1 .. M : cs[j].submit
      /\ \A k \in 1 .. M :
            Drawn(cs[k].points) => t \/ \E j \in k .. M : cs[j].submit
      /\ t => v \/ \E j \in 1 .. N : ds[j].submit
      /\ \A k \in 1 .. N :
            Drawn(ds[k].points) => v \/ \E j \in k .. N : ds[j].submit
  BY DEF Marked
<1> HIDE DEF e, M, N
<1>3. /\ \A i \in 1 .. M : i \in 1 .. M + N /\ e[i] = cs[i]
      /\ \A i \in 1 .. N : M + i \in 1 .. M + N /\ e[M + i] = ds[i]
  <2>1. \A i \in 1 .. M : i \in 1 .. M + N /\ i <= M
    BY <1>1
  <2>2. \A i \in 1 .. N : M + i \in 1 .. M + N /\ ~(M + i <= M) /\ M + i - M = i
    BY <1>1
  <2> QED BY <1>1, <2>1, <2>2
<1>4. ASSUME NEW k \in 1 .. M + N, k <= M + 1, NEW j \in 1 .. N, ds[j].submit
      PROVE  \E i \in k .. M + N : e[i].submit
  <2>1. M + j \in k .. M + N /\ e[M + j].submit
    BY <1>1, <1>3, <1>4
  <2> QED BY <2>1
<1>5. ASSUME t PROVE v \/ \A k \in 1 .. M + N : k <= M + 1 => \E i \in k .. M + N : e[i].submit
  BY <1>2, <1>4, <1>5
<1>6. u => v \/ \E j \in 1 .. M + N : e[j].submit
  <2>1. ASSUME NEW j \in 1 .. M, cs[j].submit PROVE \E i \in 1 .. M + N : e[i].submit
    BY <1>3, <2>1
  <2>2. CASE t /\ ~v
    <3>1. \E j \in 1 .. N : ds[j].submit
      BY <1>2, <2>2
    <3>2. PICK j \in 1 .. N : ds[j].submit
      BY <3>1
    <3>3. M + j \in 1 .. M + N /\ e[M + j].submit
      BY <1>3, <3>2
    <3> QED BY <3>3
  <2> QED BY <1>2, <2>1, <2>2
<1>7. ASSUME NEW k \in 1 .. M + N, Drawn(e[k].points), ~v
      PROVE  \E j \in k .. M + N : e[j].submit
  <2>1. CASE k <= M
    <3>1. k \in 1 .. M /\ e[k] = cs[k]
      BY <1>1, <2>1
    <3>2. CASE t
      BY <1>1, <1>5, <1>7, <2>1, <3>2
    <3>3. CASE ~t
      <4>1. PICK j \in k .. M : cs[j].submit
        BY <1>2, <1>7, <3>1, <3>3
      <4>2. j \in 1 .. M /\ j \in k .. M + N
        BY <1>1, <3>1
      <4> QED BY <1>3, <4>1, <4>2
    <3> QED BY <3>2, <3>3
  <2>2. CASE k > M
    <3> DEFINE i == k - M
    <3>1. i \in 1 .. N /\ e[k] = ds[i] /\ k = M + i
      BY <1>1, <2>2
    <3> HIDE DEF i
    <3>2. PICK j \in i .. N : ds[j].submit
      BY <1>2, <1>7, <3>1
    <3>3. j \in 1 .. N /\ M + j \in k .. M + N
      BY <1>1, <3>1
    <3> QED BY <1>3, <3>2, <3>3
  <2> QED BY <1>1, <2>1, <2>2
<1>8. Marked(u, e, v)
  BY <1>1, <1>6, <1>7 DEF Marked
<1> QED BY <1>8 DEF e

\* One completion, marked or not
LEMMA MarkedOne ==
    ASSUME NEW run \in Points, NEW m \in BOOLEAN, NEW u, NEW t,
           u => m \/ t, Drawn(run) => m \/ t
    PROVE  Marked(u, <<Completion(run, m)>>, t)
<1> DEFINE e == <<Completion(run, m)>>
<1>1. Len(e) = 1 /\ e[1].points = run /\ e[1].submit = m
  BY DEF Completion
<1> HIDE DEF e
<1>2. u => t \/ \E j \in 1 .. 1 : e[j].submit
  BY <1>1
<1>3. ASSUME NEW k \in 1 .. 1, Drawn(e[k].points)
      PROVE  t \/ \E j \in k .. 1 : e[j].submit
  <2>1. k = 1 /\ 1 \in k .. 1
    OBVIOUS
  <2>2. m \/ t
    BY <1>1, <1>3, <2>1
  <2> QED BY <1>1, <2>1, <2>2
<1>4. Marked(u, e, t)
  BY <1>1, <1>2, <1>3 DEF Marked
<1> QED BY <1>4 DEF e

\* The worker takes the first completion, or a part of it.
LEMMA MarkedRest ==
    ASSUME NEW cs \in Completions, cs # <<>>, NEW u, NEW t, Marked(u, cs, t)
    PROVE  /\ Marked(FALSE, Tail(cs), t)
           /\ ~Head(cs).submit => Marked(u \/ Drawn(Head(cs).points), Tail(cs), t)
<1> DEFINE M == Len(cs)
           e == Tail(cs)
<1>1. M \in Nat /\ M > 0 /\ Head(cs) = cs[1] /\ Len(e) = M - 1
      /\ \A k \in 1 .. M - 1 : e[k] = cs[k + 1]
  <2>1. cs \in Seq(CompletionRecord) /\ M \in Nat
    BY CompletionsAreRecords
  <2>2. M > 0
    BY <2>1, EmptySeq
  <2> QED BY <2>1, <2>2, HeadTailProperties
<1>2. /\ u => t \/ \E j \in 1 .. M : cs[j].submit
      /\ \A k \in 1 .. M :
            Drawn(cs[k].points) => t \/ \E j \in k .. M : cs[j].submit
  BY DEF Marked
<1> HIDE DEF e, M
<1>3. ASSUME NEW j \in 2 .. M, cs[j].submit
      PROVE  j - 1 \in 1 .. M - 1 /\ e[j - 1].submit
  <2>1. j - 1 \in 1 .. M - 1 /\ j - 1 + 1 = j
    BY <1>1
  <2> QED BY <1>1, <1>3, <2>1
<1>4. ASSUME NEW k \in 1 .. M - 1, Drawn(e[k].points), ~t
      PROVE  \E j \in k .. M - 1 : e[j].submit
  <2>1. k + 1 \in 1 .. M /\ e[k] = cs[k + 1]
    BY <1>1
  <2>2. PICK j \in k + 1 .. M : cs[j].submit
    BY <1>2, <1>4, <2>1
  <2>3. j \in 2 .. M /\ j - 1 \in k .. M - 1
    BY <1>1
  <2> QED BY <1>3, <2>2, <2>3
<1>5. Marked(FALSE, e, t)
  BY <1>1, <1>4 DEF Marked
<1>6. ASSUME ~cs[1].submit, u \/ Drawn(cs[1].points), ~t
      PROVE  \E j \in 1 .. M - 1 : e[j].submit
  <2>1. 1 \in 1 .. M
    BY <1>1
  <2>2. PICK j \in 1 .. M : cs[j].submit
    BY <1>2, <1>6, <2>1
  <2>3. j # 1
    BY <1>6, <2>2
  <2>4. j \in 2 .. M
    BY <1>1, <2>3
  <2> QED BY <1>3, <2>2, <2>4
<1>7. ~cs[1].submit => Marked(u \/ Drawn(cs[1].points), e, t)
  BY <1>1, <1>4, <1>6 DEF Marked
<1> QED BY <1>1, <1>5, <1>7 DEF e

\* A completion that is shown in part
LEMMA MarkedCut ==
    ASSUME NEW cs \in Completions, cs # <<>>, NEW u, NEW t, Marked(u, cs, t),
           NEW e, Len(e) = Len(cs), \A k \in 2 .. Len(cs) : e[k] = cs[k],
           e[1].submit = cs[1].submit, Drawn(e[1].points) => Drawn(cs[1].points)
    PROVE  Marked(u \/ Drawn(cs[1].points), e, t)
<1> DEFINE M == Len(cs)
<1>1. M \in Nat /\ M > 0 /\ 1 \in 1 .. M
  BY CompletionsAreRecords, EmptySeq
<1>2. /\ u => t \/ \E j \in 1 .. M : cs[j].submit
      /\ \A k \in 1 .. M :
            Drawn(cs[k].points) => t \/ \E j \in k .. M : cs[j].submit
      /\ Len(e) = M /\ \A k \in 2 .. M : e[k] = cs[k]
  BY DEF Marked
<1> HIDE DEF M
<1>3. \A k \in 1 .. M : /\ e[k].submit = cs[k].submit
                        /\ Drawn(e[k].points) => Drawn(cs[k].points)
  <2> TAKE k \in 1 .. M
  <2>1. k = 1 \/ k \in 2 .. M
    BY <1>1
  <2> QED BY <1>2, <2>1
<1>4. ASSUME u \/ Drawn(cs[1].points), ~t PROVE \E j \in 1 .. M : e[j].submit
  <2>1. PICK j \in 1 .. M : cs[j].submit
    BY <1>1, <1>2, <1>4
  <2> QED BY <1>3, <2>1
<1>5. ASSUME NEW k \in 1 .. M, Drawn(e[k].points), ~t
      PROVE  \E j \in k .. M : e[j].submit
  <2>1. PICK j \in k .. M : cs[j].submit
    BY <1>2, <1>3, <1>5
  <2>2. j \in 1 .. M
    OBVIOUS
  <2> QED BY <1>3, <2>1, <2>2
<1> QED BY <1>2, <1>4, <1>5 DEF Marked

\* No draw is behind the last one.
LEMMA LastDrawIsLast ==
    ASSUME NEW run \in Points, NEW i \in 1 .. Len(run),
           run[i].output \in {"draw", "generated"}
    PROVE  i <= LastDraw(run)
<1> DEFINE draws == {j \in DOMAIN run : run[j].output \in {"draw", "generated"}}
<1>1. Len(run) \in Nat /\ DOMAIN run = 1 .. Len(run)
  BY DEF Points
<1>2. draws # {} /\ draws \subseteq 1 .. Len(run) /\ i \in draws
  BY <1>1
<1>3. \E k \in draws : \A j \in draws : j <= k
  BY <1>1, <1>2, LastExists
<1>4. LastDraw(run) = CHOOSE k \in draws : \A j \in draws : j <= k
  BY <1>2 DEF LastDraw
<1> HIDE DEF draws
<1> QED BY <1>2, <1>3, <1>4

\* The executions of a run follow a.
CountedFrom(run, a) == \A i \in 1 .. Len(run) : run[i].id = a + i

\* What MTVU publishes of a run, and what it keeps, are the run, and every
\* generated draw has its marker or is kept.
Carries(run, cs, rest) ==
    /\ cs \in Completions /\ rest \in Points
    /\ \A a \in Int : CountedFrom(run, a) =>
          \E z \in Int : /\ Linked(cs, a, z) /\ CountedFrom(rest, z)
                         /\ z + Len(rest) = a + Len(run)
    /\ Marked(Drawn(run), cs, Drawn(rest))

\* The executions of a part of a run
LEMMA PartIsCounted ==
    ASSUME NEW run \in Points, NEW a \in Int, CountedFrom(run, a), NEW k \in 0 .. Len(run)
    PROVE  /\ CountedFrom(SubSeq(run, 1, k), a)
           /\ CountedFrom(SubSeq(run, k + 1, Len(run)), a + k)
<1> DEFINE N == Len(run)
           f == SubSeq(run, 1, k)
           r == SubSeq(run, k + 1, N)
<1>1. N \in Nat /\ k \in Nat /\ k <= N
  BY RunIsPart
<1>2. /\ Len(f) = k /\ Len(r) = N - k
      /\ \A i \in 1 .. k : f[i] = run[i]
      /\ \A i \in 1 .. N - k : r[i] = run[k + i]
  BY RunIsPart
<1>3. \A i \in 1 .. N : run[i].id = a + i
  BY DEF CountedFrom
<1> HIDE DEF f, r, N
<1>4. CountedFrom(f, a)
  <2>1. \A i \in 1 .. k : i \in 1 .. N
    BY <1>1
  <2> QED BY <1>2, <1>3, <2>1 DEF CountedFrom
<1>5. CountedFrom(r, a + k)
  <2>1. \A i \in 1 .. N - k : k + i \in 1 .. N /\ a + (k + i) = a + k + i
    BY <1>1
  <2> QED BY <1>2, <1>3, <2>1 DEF CountedFrom
<1> QED BY <1>4, <1>5 DEF f, r, N

\* FlushPendingMtvuDirectRun()
LEMMA FlushCarries ==
    ASSUME NEW run \in Points PROVE Carries(run, Flushed(run), <<>>)
<1> DEFINE N == Len(run)
           k == LastDraw(run)
           front == SubSeq(run, 1, k)
           rest == SubSeq(run, k + 1, N)
           generated == \E i \in 1 .. k : run[i].output = "generated"
           A == IF k = 0 THEN <<>> ELSE <<Completion(front, generated)>>
           B == IF rest = <<>> THEN <<>> ELSE <<Completion(rest, FALSE)>>
<1>1. k \in 0 .. N /\ N \in Nat
  <2>1. N \in Nat
    BY DEF Points
  <2> QED BY <2>1, LastDrawIsInRun
<1>2. Flushed(run) = A \o B
  BY Zenon DEF Flushed
<1>3. /\ Len(front) = k /\ Len(rest) = N - k /\ front \in Points /\ rest \in Points
      /\ \A i \in 1 .. k : front[i] = run[i]
      /\ \A i \in 1 .. N - k : rest[i] = run[k + i]
  BY <1>1, RunIsPart
<1>4. generated \in BOOLEAN
  BY Zenon
<1>5. \A i \in 1 .. N : run[i].output = "generated" => i <= k
  BY LastDrawIsLast
<1>6. (Drawn(run) <=> generated) /\ (Drawn(front) => generated) /\ ~Drawn(rest)
  <2>1. \A i \in 1 .. k : i \in 1 .. N
    BY <1>1
  <2>2. \A i \in 1 .. N : i <= k => i \in 1 .. k
    BY <1>1
  <2>3. Drawn(run) <=> generated
    <3> HIDE DEF k
    <3> QED BY <1>5, <2>1, <2>2 DEF Drawn
  <2>4. Drawn(front) => generated
    <3> HIDE DEF k, front
    <3> QED BY <1>3 DEF Drawn
  <2>5. ~Drawn(rest)
    <3> SUFFICES ASSUME NEW i \in 1 .. N - k, rest[i].output = "generated" PROVE FALSE
      <4> HIDE DEF rest, k
      <4> QED BY <1>3 DEF Drawn
    <3>1. k + i \in 1 .. N /\ ~(k + i <= k)
      BY <1>1
    <3> HIDE DEF rest, k
    <3> QED BY <1>3, <1>5, <3>1
  <2> QED BY <2>3, <2>4, <2>5
<1>7. rest # <<>> \/ k = N
  <2> HIDE DEF rest, k
  <2> QED BY <1>1, <1>3, EmptySeq DEF Points
<1>8. <<>> \in Completions /\ <<>> \in Points /\ ~Drawn(<<>>) /\ Len(<<>>) = 0
  BY NothingIsTyped DEF Drawn
<1>9. A \in Completions /\ B \in Completions
  <2>1. k # 0 => front # <<>>
    BY <1>3
  <2> HIDE DEF front, k, rest, generated
  <2> QED BY <1>3, <1>4, <1>8, <2>1, OneCompletion
<1>10. Flushed(run) \in Completions
  BY FlushedIsTyped
<1>11. Marked(Drawn(run), A, FALSE)
  <2>1. CASE k = 0
    <3>1. ~generated
      BY <2>1
    <3> HIDE DEF generated, k
    <3>2. Marked(Drawn(run), <<>>, FALSE)
      BY <1>6, <3>1, MarkedNothing
    <3> QED BY <2>1, <3>2
  <2>2. CASE k # 0
    <3> HIDE DEF generated, k, front
    <3>1. Marked(Drawn(run), <<Completion(front, generated)>>, FALSE)
      BY <1>3, <1>4, <1>6, MarkedOne
    <3> QED BY <2>2, <3>1
  <2> QED BY <2>1, <2>2
<1>12. Marked(FALSE, B, FALSE)
  <2> HIDE DEF rest
  <2>1. Marked(FALSE, <<>>, FALSE)
    BY MarkedNothing
  <2>2. Marked(FALSE, <<Completion(rest, FALSE)>>, FALSE)
    BY <1>3, <1>6, MarkedOne
  <2> QED BY <2>1, <2>2
<1>13. Marked(Drawn(run), Flushed(run), FALSE)
  <2> HIDE DEF A, B
  <2> QED BY <1>2, <1>9, <1>11, <1>12, MarkedConcat
<1>14. ASSUME NEW a \in Int, CountedFrom(run, a)
       PROVE  Linked(Flushed(run), a, a + N)
  <2>1. CountedFrom(front, a) /\ CountedFrom(rest, a + k)
    BY <1>1, <1>14, PartIsCounted
  <2>2. Linked(A, a, a + k)
    <3>1. CASE k = 0
      <4>1. Linked(<<>>, a, a)
        BY LinkedNothing
      <4> HIDE DEF k, front, generated
      <4>2. a + k = a
        BY <3>1
      <4> QED BY <3>1, <4>1, <4>2
    <3>2. CASE k # 0
      <4> HIDE DEF k, front, generated
      <4>1. Linked(<<Completion(front, generated)>>, a, a + Len(front))
        BY <1>3, <2>1, LinkedOne DEF CountedFrom
      <4> QED BY <1>3, <3>2, <4>1
    <3> QED BY <3>1, <3>2
  <2>3. Linked(B, a + k, a + N)
    <3>0. a + k \in Int /\ a + N = a + k + (N - k)
      BY <1>1
    <3>1. CASE rest = <<>>
      <4>1. Linked(<<>>, a + k, a + k)
        BY <3>0, LinkedNothing
      <4>2. a + k = a + N
        BY <1>7, <3>1
      <4> HIDE DEF k, rest
      <4> QED BY <3>1, <4>1, <4>2
    <3>2. CASE rest # <<>>
      <4> HIDE DEF k, rest
      <4>1. Linked(<<Completion(rest, FALSE)>>, a + k, a + k + Len(rest))
        BY <1>3, <2>1, <3>0, LinkedOne DEF CountedFrom
      <4> QED BY <1>3, <3>0, <3>2, <4>1
    <3> QED BY <3>1, <3>2
  <2> HIDE DEF A, B, k
  <2> QED BY <1>2, <1>9, <2>2, <2>3, LinkedConcat
<1>15. ASSUME NEW a \in Int, CountedFrom(run, a)
       PROVE  \E z \in Int : /\ Linked(Flushed(run), a, z) /\ CountedFrom(<<>>, z)
                             /\ z + Len(<<>>) = a + Len(run)
  <2>1. a + N \in Int /\ a + N + 0 = a + N /\ CountedFrom(<<>>, a + N)
    BY <1>1 DEF CountedFrom
  <2>2. Linked(Flushed(run), a, a + N)
    BY <1>14, <1>15
  <2> QED BY <1>8, <2>1, <2>2
<1>16. Marked(Drawn(run), Flushed(run), Drawn(<<>>))
  BY <1>8, <1>13 DEF Marked
<1> QED BY <1>8, <1>10, <1>15, <1>16 DEF Carries

\* AppendPendingMtvuDirectDraw() that publishes nothing
LEMMA KeepCarries ==
    ASSUME NEW run \in Points PROVE Carries(run, <<>>, run)
<1>1. <<>> \in Completions
  BY NothingIsTyped
<1>2. \A a \in Int : Linked(<<>>, a, a)
  BY LinkedNothing
<1>3. Marked(Drawn(run), <<>>, Drawn(run))
  BY MarkedNothing
<1> QED BY <1>1, <1>2, <1>3 DEF Carries

\* PublishPendingMtvuDirectPrefix(): the draw that has just joined is kept.
LEMMA PrefixCarries ==
    ASSUME NEW run \in Points, Len(run) > 0, run[Len(run)].output = "generated",
           Prefix(run) # <<>>
    PROVE  Carries(run, <<Completion(Prefix(run), FALSE)>>, Suffix(run))
<1> DEFINE N == Len(run)
           init == SubSeq(run, 1, N - 1)
           k == LastDraw(init)
<1>1. N \in Nat /\ N - 1 \in 0 .. N
  BY DEF Points
<1>2. init \in Points /\ Len(init) = N - 1
  BY <1>1, RunIsPart
<1>3. k \in 0 .. N - 1
  BY <1>2, LastDrawIsInRun
<1>4. Prefix(run) = SubSeq(run, 1, k)
  BY DEF Prefix
<1> HIDE DEF k
<1>5. k \in 0 .. N
  BY <1>1, <1>3
<1>6. /\ Prefix(run) \in Points /\ Len(Prefix(run)) = k
      /\ Suffix(run) = SubSeq(run, k + 1, N)
  BY <1>4, <1>5, RunIsPart DEF Suffix
<1>7. /\ Suffix(run) \in Points /\ Len(Suffix(run)) = N - k
      /\ \A i \in 1 .. N - k : Suffix(run)[i] = run[k + i]
  BY <1>5, <1>6, RunIsPart
<1>8. Drawn(Suffix(run))
  <2>1. N - k \in 1 .. N - k /\ k + (N - k) = N
    BY <1>1, <1>3
  <2>2. Suffix(run)[N - k].output = "generated"
    BY <1>7, <2>1
  <2> QED BY <1>7, <2>1, <2>2 DEF Drawn
<1>9. Marked(Drawn(run), <<Completion(Prefix(run), FALSE)>>, Drawn(Suffix(run)))
  BY <1>6, <1>8, MarkedOne
<1>10. ASSUME NEW a \in Int, CountedFrom(run, a)
       PROVE  \E z \in Int : /\ Linked(<<Completion(Prefix(run), FALSE)>>, a, z)
                             /\ CountedFrom(Suffix(run), z)
                             /\ z + Len(Suffix(run)) = a + Len(run)
  <2>1. CountedFrom(Prefix(run), a) /\ CountedFrom(Suffix(run), a + k)
    BY <1>4, <1>5, <1>6, <1>10, PartIsCounted
  <2>2. Linked(<<Completion(Prefix(run), FALSE)>>, a, a + Len(Prefix(run)))
    BY <1>6, <2>1, LinkedOne DEF CountedFrom
  <2>3. a + k \in Int /\ a + k + (N - k) = a + N
    BY <1>1, <1>3
  <2> QED BY <1>6, <1>7, <2>1, <2>2, <2>3
<1>11. <<Completion(Prefix(run), FALSE)>> \in Completions
  BY <1>6, OneCompletion
<1> QED BY <1>7, <1>9, <1>10, <1>11 DEF Carries

\* An execution that joins the pending run
LEMMA JoinsRun ==
    ASSUME NEW run \in Points, NEW p \in PointRecord
    PROVE  /\ Append(run, p) \in Points /\ Len(Append(run, p)) = Len(run) + 1
           /\ Len(run) \in Nat /\ Append(run, p)[Len(run) + 1] = p
           /\ Drawn(run) => Drawn(Append(run, p))
           /\ Drawn(Append(run, p)) => Drawn(run) \/ p.output = "generated"
           /\ \A a \in Int : CountedFrom(run, a) /\ p.id = a + Len(run) + 1 <=>
                                 CountedFrom(Append(run, p), a)
<1> DEFINE N == Len(run)
           e == Append(run, p)
<1>1. run \in Seq(PointRecord) /\ N \in Nat
  BY DEF Points, PointRecord
<1>2. /\ e \in Seq(PointRecord) /\ Len(e) = N + 1
      /\ \A i \in 1 .. N : e[i] = run[i]
      /\ e[N + 1] = p
  <2> HIDE DEF PointRecord
  <2> QED BY <1>1, AppendProperties
<1>3. e \in Points
  BY <1>2 DEF Points, PointRecord
<1> HIDE DEF e, N
<1>4. \A i \in 1 .. N + 1 : i \in 1 .. N \/ i = N + 1
  BY <1>1
<1>5. N + 1 \in 1 .. N + 1 /\ \A i \in 1 .. N : i \in 1 .. N + 1
  BY <1>1
<1>6. /\ Drawn(run) => Drawn(e)
      /\ Drawn(e) => Drawn(run) \/ p.output = "generated"
  <2>1. Drawn(run) <=> \E i \in 1 .. N : run[i].output = "generated"
    BY DEF Drawn, N
  <2>2. Drawn(e) <=> \E i \in 1 .. N + 1 : e[i].output = "generated"
    BY <1>2 DEF Drawn
  <2> QED BY <1>2, <1>4, <1>5, <2>1, <2>2
<1>7. ASSUME NEW a \in Int
      PROVE  CountedFrom(run, a) /\ p.id = a + N + 1 <=> CountedFrom(e, a)
  <2>1. CountedFrom(run, a) <=> \A i \in 1 .. N : run[i].id = a + i
    BY DEF CountedFrom, N
  <2>2. CountedFrom(e, a) <=> \A i \in 1 .. N + 1 : e[i].id = a + i
    BY <1>2 DEF CountedFrom
  <2>3. a + (N + 1) = a + N + 1
    BY <1>1
  <2> QED BY <1>2, <1>4, <1>5, <2>1, <2>2, <2>3
<1> QED BY <1>1, <1>2, <1>3, <1>6, <1>7 DEF e, N

\* CompleteMtvuPath1Packet(): the pending run is flushed before the packet.
LEMMA CpuCarries ==
    ASSUME NEW run \in Points, NEW p \in PointRecord, p.output = "cpu"
    PROVE  Carries(Append(run, p), Append(Flushed(run), Completion(<<p>>, FALSE)), <<>>)
<1> DEFINE e == Append(run, p)
           c == <<Completion(<<p>>, FALSE)>>
           F == Flushed(run)
<1>1. Carries(run, F, <<>>) /\ F \in Completions
  BY FlushCarries, FlushedIsTyped
<1>2. <<p>> \in Points /\ Len(<<p>>) = 1 /\ <<p>>[1] = p /\ <<p>> # <<>>
  BY DEF Points, PointRecord
<1>3. c \in Completions
  BY <1>2, OneCompletion
<1>4. Append(F, Completion(<<p>>, FALSE)) = F \o c
  <2>1. Completion(<<p>>, FALSE) \in CompletionRecord /\ F \in Seq(CompletionRecord)
    BY <1>1, <1>2, CompletionsAreRecords DEF Completion, CompletionRecord
  <2> HIDE DEF CompletionRecord, F
  <2> QED BY <2>1, AppendIsConcat
<1>5. F \o c \in Completions
  <2> HIDE DEF F, c
  <2> QED BY <1>1, <1>3, ConcatProperties DEF Completions
<1>6. ~Drawn(<<>>) /\ ~Drawn(<<p>>) /\ <<>> \in Points /\ Len(<<>>) = 0
  <2>1. ~Drawn(<<>>) /\ Len(<<>>) = 0
    BY DEF Drawn
  <2>2. ~Drawn(<<p>>)
    <3> SUFFICES ASSUME NEW i \in 1 .. 1 PROVE <<p>>[i].output # "generated"
      BY <1>2 DEF Drawn
    <3>1. i = 1
      OBVIOUS
    <3> QED BY <1>2, <3>1
  <2> QED BY <2>1, <2>2, NothingIsTyped
<1>7. Marked(Drawn(run), F \o c, FALSE)
  <2>1. Marked(FALSE, c, FALSE)
    BY <1>2, <1>6, MarkedOne
  <2>2. Marked(Drawn(run), F, FALSE)
    BY <1>1, <1>6 DEF Carries, Marked
  <2> HIDE DEF F, c
  <2> QED BY <1>1, <1>3, <2>1, <2>2, MarkedConcat
<1>8. Drawn(e) => Drawn(run)
  BY JoinsRun
<1>9. Marked(Drawn(e), F \o c, Drawn(<<>>))
  BY <1>6, <1>7, <1>8 DEF Marked
<1>10. ASSUME NEW a \in Int, CountedFrom(e, a)
       PROVE  \E z \in Int : /\ Linked(F \o c, a, z) /\ CountedFrom(<<>>, z)
                             /\ z + Len(<<>>) = a + Len(e)
  <2>1. CountedFrom(run, a) /\ p.id = a + Len(run) + 1 /\ Len(run) \in Nat
        /\ Len(e) = Len(run) + 1
    BY <1>10, JoinsRun
  <2>2. PICK y \in Int : Linked(F, a, y) /\ y + Len(<<>>) = a + Len(run)
    BY <1>1, <2>1 DEF Carries
  <2>3. y = a + Len(run)
    BY <1>6, <2>1, <2>2
  <2>4. \A i \in 1 .. Len(<<p>>) : <<p>>[i].id = y + i
    <3> SUFFICES ASSUME NEW i \in 1 .. 1 PROVE <<p>>[i].id = y + i
      BY <1>2
    <3>1. i = 1
      OBVIOUS
    <3> QED BY <1>2, <2>1, <2>3, <3>1
  <2>5. Linked(c, y, y + 1)
    <3>1. Linked(c, y, y + Len(<<p>>))
      BY <1>2, <2>4, LinkedOne
    <3> QED BY <1>2, <3>1
  <2>6. Linked(F \o c, a, y + 1)
    <3> HIDE DEF F, c
    <3> QED BY <1>1, <1>3, <2>2, <2>5, LinkedConcat
  <2>7. y + 1 \in Int /\ CountedFrom(<<>>, y + 1) /\ y + 1 + Len(<<>>) = a + Len(e)
    BY <1>6, <2>1, <2>3 DEF CountedFrom
  <2> HIDE DEF F, c, e
  <2> QED BY <2>6, <2>7
<1> HIDE DEF e, F, c
<1>11. Carries(e, F \o c, <<>>)
  BY <1>5, <1>6, <1>9, <1>10 DEF Carries
<1> QED BY <1>4, <1>11 DEF e, F, c

-----------------------------------------------------------------------------
(* The chain of executions between the two threads *)

\* MTVU publishes everything before it goes on.
OutboxIsSent == vpc \in {"sleep", "loop", "buffer", "commit", "quiet"} => outbox = <<>>

\* The executions MTVU has handled
Begun == dispatched - batch - jobs + (IF Executing THEN 1 ELSE 0)

\* Those not shown are in the completions and the pending run, in order.
PointsAreLinked ==
    \E z \in Int : /\ Linked(completions \o outbox, consumed, z)
                   /\ CountedFrom(pending, z) /\ z + Len(pending) = Begun
DrawsAreMarked == Marked(unsubmitted, completions \o outbox, Drawn(pending))

\* MTVU's output on its way to the GS
ChainInv == OutboxIsSent /\ PointsAreLinked /\ DrawsAreMarked

\* Publishing a run keeps its executions in order and its draws marked.
LEMMA PublishedChain ==
    ASSUME TypeInv, outbox = <<>>, PointsAreLinked, DrawsAreMarked,
           UNCHANGED <<completions, consumed, unsubmitted>>,
           NEW run \in Points, Carries(run, outbox', pending'),
           \A z \in Int : CountedFrom(pending, z) /\ z + Len(pending) = Begun
                              => CountedFrom(run, z) /\ z + Len(run) = Begun',
           Drawn(pending) => Drawn(run)
    PROVE  PointsAreLinked' /\ DrawsAreMarked'
<1>1. /\ completions \in Completions /\ completions \o <<>> = completions
      /\ consumed \in Int
  <2>1. completions \in Seq(CompletionRecord)
    BY CompletionsAreRecords DEF TypeInv, TypeOK, QueueTypes
  <2>2. completions \o <<>> = completions
    BY <2>1, ConcatEmptySeq
  <2> QED BY <2>2 DEF TypeInv, TypeOK, QueueTypes, CountTypes
<1>2. PICK z \in Int : /\ Linked(completions, consumed, z)
                       /\ CountedFrom(pending, z) /\ z + Len(pending) = Begun
  BY <1>1 DEF PointsAreLinked
<1>3. CountedFrom(run, z) /\ z + Len(run) = Begun'
  BY <1>2
<1>4. PICK y \in Int : /\ Linked(outbox', z, y) /\ CountedFrom(pending', y)
                       /\ y + Len(pending') = z + Len(run)
  BY <1>3 DEF Carries
<1>5. outbox' \in Completions
  BY DEF Carries
<1>6. Linked(completions' \o outbox', consumed', y)
  BY <1>1, <1>2, <1>4, <1>5, LinkedConcat
<1>7. PointsAreLinked'
  BY <1>3, <1>4, <1>6 DEF PointsAreLinked
<1>8. Marked(unsubmitted, completions, Drawn(pending))
  BY <1>1 DEF DrawsAreMarked
<1>9. Marked(Drawn(pending), outbox', Drawn(pending'))
  BY DEF Carries, Marked
<1>10. Marked(unsubmitted, completions \o outbox', Drawn(pending'))
  BY <1>1, <1>5, <1>8, <1>9, MarkedConcat
<1>11. DrawsAreMarked'
  <2>1. Drawn(pending)' <=> Drawn(pending')
    BY DEF Drawn
  <2> QED BY <1>10, <2>1 DEF DrawsAreMarked, Marked
<1> QED BY <1>7, <1>11

\* The steps that leave the chain as it is
PathQuiet ==
    UNCHANGED <<completions, outbox, pending, consumed, unsubmitted>> /\ Begun' = Begun

\* Every step leaves MTVU's output alone or is one of seven.
LEMMA PathSteps ==
    ASSUME WakeInv, TypeInv, Next
    PROVE  \/ PathQuiet
           \/ ExecuteCpu \/ (\E o \in Output : ExecuteDirect(o)) \/ ServeRequests
           \/ Push \/ ConsumePath1 \/ StartThread \/ Closing
<1>0. /\ dispatched \in Int /\ batch \in Int /\ jobs \in Int /\ vthen \in {"sleep", "commit"}
  BY DEF TypeInv, TypeOK, CountTypes, ControlTypes
<1> USE <1>0 DEF PathQuiet, Begun, Executing
<1>1. CASE PublishPendingVifBatch \/ GenericStall \/ ArmStall \/ Spin
          \/ EnableSignal \/ RingWait \/ KickStart
  <2>1. PathQuiet
    BY <1>1 DEF PublishPendingVifBatch, GenericStall, ArmStall, Spin, EnableSignal,
      RingWait, KickStart, Goto
  <2> QED BY <2>1
<1>2. CASE RequestGpuVuPath1Flush \/ QueueMtvuPath1Reservation \/ SetEvent
          \/ CountFrame \/ Listen
  <2>1. PathQuiet
    BY <1>2 DEF RequestGpuVuPath1Flush, QueueMtvuPath1Reservation, SetEvent, CountFrame,
      Listen, Goto
  <2> QED BY <2>1
<1>3. CASE BoundGpuVuExecutionLatency \/ WriteCommand \/ HardwareReset
  <2>1. PathQuiet
    BY <1>3 DEF BoundGpuVuExecutionLatency, WriteCommand, HardwareReset, Goto
  <2> QED BY <2>1
<1>4. CASE VsyncWait \/ WaitForEmpty \/ CheckDrained \/ ArmDrainWaiter
          \/ LookAtWaiting \/ DisarmDrainWaiter \/ DrainWait
  <2>1. PathQuiet
    BY <1>4 DEF VsyncWait, WaitForEmpty, CheckDrained, ArmDrainWaiter, LookAtWaiting,
      DisarmDrainWaiter, DrainWait, Goto
  <2> QED BY <2>1
<1>5. CASE ClearOpen \/ DoneWait \/ Join \/ ShutdownClosed \/ WaitForOpen
  <2>1. PathQuiet
    BY <1>5 DEF ClearOpen, DoneWait, Join, ShutdownClosed, WaitForOpen, Goto
  <2> QED BY <2>1
<1>6. ASSUME NEW c \in Call, Begin(c) PROVE PathQuiet
  BY <1>6 DEF Begin
<1>7. CASE EntryLoop \/ WaitForWork \/ Awake \/ FramePost \/ HandleCommand
          \/ IdlePost \/ PeekCompletion \/ AnnounceHole \/ PeekAgain
          \/ WithdrawHole
  <2>1. PathQuiet
    BY <1>7 DEF EntryLoop, WaitForWork, Awake, FramePost, HandleCommand, IdlePost,
      PeekCompletion, AnnounceHole, PeekAgain, WithdrawHole, GsStays, PostListener
  <2> QED BY <2>1
<1>8. CASE Advance \/ CountDown \/ EndOfRing \/ EndOfPass \/ AcknowledgeClose
  <2>1. PathQuiet
    BY <1>8 DEF Advance, CountDown, EndOfRing, EndOfPass, AcknowledgeClose, GsStays
  <2> QED BY <2>1
<1>9. ASSUME NEW ok \in BOOLEAN, OpenGs(ok) PROVE PathQuiet
  BY <1>9 DEF OpenGs, GsStays
<1>10. CASE CommitExecution
  <2>1. PathQuiet
    BY <1>10 DEF CommitExecution
  <2> QED BY <2>1
<1>11. CASE VuWaitForWork \/ WaitForBuffer \/ SeeRingEmpty \/ PushFull
          \/ ClaimGsWaiter \/ NotifyGs \/ ClaimDrainWaiter
  <2>1. PathQuiet
    BY <1>11 DEF VuWaitForWork, WaitForBuffer, SeeRingEmpty, PushFull, ClaimGsWaiter,
      NotifyGs, ClaimDrainWaiter, VuStays
  <2> QED BY <2>1
<1> HIDE DEF PathQuiet
<1> QED
  BY <1>1, <1>2, <1>3, <1>4, <1>5, <1>6, <1>7, <1>8, <1>9, <1>10, <1>11
     DEF Next, EE, EEContinues, GS, MTVU

\* MTVU goes on when its outbox is empty.
LEMMA OutboxStaysSent ==
    ASSUME WakeInv, TypeInv, OutboxIsSent, Next PROVE OutboxIsSent'
<1>0. vthen \in {"sleep", "commit"} /\ vpc \in VUControl
  BY DEF TypeInv, TypeOK, ControlTypes
<1> USE <1>0 DEF OutboxIsSent
<1>1. CASE EE \/ GS
  <2>1. UNCHANGED <<vpc, outbox>>
    <3>1. CASE EE
      BY <3>1 DEF EE, EEContinues, PublishPendingVifBatch, RequestGpuVuPath1Flush,
        QueueMtvuPath1Reservation, GenericStall, ArmStall, Spin, EnableSignal,
        SetEvent, RingWait, WriteCommand, KickStart, CountFrame, Listen,
        BoundGpuVuExecutionLatency, VsyncWait, WaitForEmpty, CheckDrained,
        ArmDrainWaiter, LookAtWaiting, DisarmDrainWaiter, DrainWait, HardwareReset,
        ClearOpen, DoneWait, Join, Begin, ShutdownClosed, StartThread, WaitForOpen
    <3>2. CASE GS
      BY <3>2 DEF GS, EntryLoop, WaitForWork, Awake, HandleCommand, OpenGs, FramePost,
        IdlePost, PeekCompletion, AnnounceHole, PeekAgain, WithdrawHole, ConsumePath1,
        Advance, CountDown, EndOfRing, EndOfPass, Closing, AcknowledgeClose, GsStays,
        PostListener
    <3> QED BY <1>1, <3>1, <3>2
  <2> QED BY <2>1
<1>2. CASE VuWaitForWork \/ WaitForBuffer \/ CommitExecution \/ SeeRingEmpty
          \/ Push \/ PushFull \/ ClaimGsWaiter \/ NotifyGs \/ ClaimDrainWaiter
  BY <1>2 DEF VuWaitForWork, WaitForBuffer, CommitExecution, SeeRingEmpty, Push,
    PushFull, ClaimGsWaiter, NotifyGs, ClaimDrainWaiter
<1>3. ASSUME NEW cs, NEW pc, Publish(cs, pc) PROVE OutboxIsSent'
  BY <1>3 DEF Publish
<1>4. CASE ExecuteCpu
  <2>1. \E cs, pc : Publish(cs, pc)
    BY <1>4, Zenon DEF ExecuteCpu
  <2> QED BY <1>3, <2>1
<1>5. ASSUME NEW o \in Output, ExecuteDirect(o) PROVE OutboxIsSent'
  <2>1. \E cs, pc : Publish(cs, pc)
    BY <1>5, Zenon DEF ExecuteDirect
  <2> QED BY <1>3, <2>1
<1>6. CASE ServeRequests
  <2>1. \E cs, pc : Publish(cs, pc)
    BY <1>6, Zenon DEF ServeRequests
  <2> QED BY <1>3, <2>1
<1> QED BY <1>1, <1>2, <1>4, <1>5, <1>6 DEF Next, MTVU

\* Taking from the front of two sequences takes from the first.
LEMMA ConcatRest ==
    ASSUME NEW S, NEW s \in Seq(S), NEW t \in Seq(S), s # <<>>
    PROVE  /\ s \o t # <<>> /\ (s \o t)[1] = s[1] /\ Head(s \o t) = s[1] /\ Head(s) = s[1]
           /\ Tail(s \o t) = Tail(s) \o t
<1> DEFINE e == s \o t
           u == Tail(s)
           d == u \o t
           M == Len(s)
           N == Len(t)
<1>1. M \in Nat /\ N \in Nat /\ M > 0
  BY EmptySeq, LenProperties
<1>2. e \in Seq(S) /\ Len(e) = M + N
      /\ \A i \in 1 .. M + N : e[i] = IF i <= M THEN s[i] ELSE t[i - M]
  BY ConcatProperties
<1>3. u \in Seq(S) /\ Len(u) = M - 1 /\ \A i \in 1 .. M - 1 : u[i] = s[i + 1]
  BY HeadTailProperties
<1>4. d \in Seq(S) /\ Len(d) = M - 1 + N
      /\ \A i \in 1 .. M - 1 + N : d[i] = IF i <= M - 1 THEN u[i] ELSE t[i - (M - 1)]
  <2> HIDE DEF u
  <2>1. d \in Seq(S) /\ Len(d) = Len(u) + N
        /\ \A i \in 1 .. Len(u) + N : d[i] = IF i <= Len(u) THEN u[i] ELSE t[i - Len(u)]
    BY <1>3, ConcatProperties
  <2> HIDE DEF d
  <2> QED BY <1>3, <2>1
<1>5. e # <<>> /\ e[1] = s[1]
  <2> HIDE DEF e, M, N
  <2>1. Len(e) # 0 /\ 1 \in 1 .. M + N /\ 1 <= M
    BY <1>1, <1>2
  <2> QED BY <1>2, <2>1, EmptySeq
<1>6. Head(e) = e[1] /\ Head(s) = s[1]
  OBVIOUS
<1>7. Tail(e) \in Seq(S) /\ Len(Tail(e)) = M + N - 1
      /\ \A i \in 1 .. M + N - 1 : Tail(e)[i] = e[i + 1]
  <2> HIDE DEF e
  <2> QED BY <1>2, <1>5, HeadTailProperties
<1> HIDE DEF e, u, d, M, N
<1>8. ASSUME NEW i \in 1 .. M + N - 1 PROVE Tail(e)[i] = d[i]
  <2> DEFINE j == i + 1
  <2>1. /\ j \in 1 .. M + N /\ (j <= M <=> i <= M - 1) /\ j - M = i - (M - 1)
        /\ i \in 1 .. M - 1 + N /\ (i <= M - 1 => i \in 1 .. M - 1)
    BY <1>1
  <2>2. Tail(e)[i] = e[j]
    BY <1>7, Zenon
  <2>3. i <= M - 1 => u[i] = s[j]
    BY <1>3, <2>1
  <2> HIDE DEF j
  <2>4. e[j] = IF j <= M THEN s[j] ELSE t[j - M]
    BY <1>2, <2>1
  <2>5. d[i] = IF i <= M - 1 THEN u[i] ELSE t[i - (M - 1)]
    BY <1>4, <2>1
  <2> QED BY <2>1, <2>2, <2>3, <2>4, <2>5
<1>9. Tail(e) = d
  <2>1. M + N - 1 = M - 1 + N
    BY <1>1
  <2> QED BY <1>4, <1>7, <1>8, <2>1, SeqEqual
<1> QED BY <1>5, <1>6, <1>9 DEF e, d, u

\* When everything is shown, nothing is anywhere.
LEMMA DrainedIsEmpty ==
    ASSUME TypeInv, ChainInv, consumed >= dispatched
    PROVE  /\ completions = <<>> /\ outbox = <<>> /\ pending = <<>> /\ batch = 0 /\ jobs <= 1
           /\ ~unsubmitted /\ consumed = dispatched /\ Begun = dispatched
<1>1. /\ completions \in Completions /\ outbox \in Completions /\ pending \in Points
      /\ consumed \in Int /\ dispatched \in Int /\ batch \in Nat /\ jobs \in Nat
      /\ batch + jobs <= dispatched /\ (Executing => jobs > 0)
  BY DEF TypeInv, TypeOK, QueueTypes, CountTypes, JobsAreCounted
<1> DEFINE e == completions \o outbox
<1>2. e \in Completions
  BY <1>1, ConcatProperties DEF Completions
<1>3. PICK z \in Int : /\ Linked(e, consumed, z)
                       /\ CountedFrom(pending, z) /\ z + Len(pending) = Begun
  BY DEF ChainInv, PointsAreLinked
<1>4. consumed <= z /\ (consumed = z => e = <<>>)
  <2> HIDE DEF e
  <2> QED BY <1>1, <1>2, <1>3, LinkedGrows
<1>5. Begun <= dispatched /\ Begun \in Int /\ Len(pending) \in Nat
  BY <1>1 DEF Begun, Points
<1>6. consumed = z /\ Len(pending) = 0 /\ Begun = dispatched
  <2> HIDE DEF e
  <2> QED BY <1>1, <1>3, <1>4, <1>5
<1>7. batch = 0 /\ jobs <= 1
  BY <1>1, <1>6 DEF Begun
<1>8. pending = <<>>
  BY <1>1, <1>6, EmptySeq DEF Points
<1>9. completions = <<>> /\ outbox = <<>>
  <2>1. e = <<>>
    BY <1>4, <1>6
  <2>2. completions \in Seq(CompletionRecord) /\ outbox \in Seq(CompletionRecord)
    BY <1>1, CompletionsAreRecords
  <2> QED BY <2>1, <2>2, ConcatEqualIffEmpty
<1>10. ~unsubmitted
  <2>1. Marked(unsubmitted, e, Drawn(pending))
    BY DEF ChainInv, DrawsAreMarked
  <2>2. e = <<>> /\ ~Drawn(<<>>) /\ Len(<<>>) = 0
    BY <1>4, <1>6 DEF Drawn
  <2> HIDE DEF e
  <2> QED BY <1>8, <2>1, <2>2 DEF Marked
<1>11. consumed = dispatched
  <2> HIDE DEF e
  <2> QED BY <1>1, <1>3, <1>6
<1> QED BY <1>6, <1>7, <1>8, <1>9, <1>10, <1>11

\* The MTVUGSPacket case: what is left of the run, and how much is shown
Left == IF remaining > 0 THEN remaining
        ELSE IF runs[read].count = 0 THEN 1 ELSE runs[read].count
Shown == IF Len(Head(completions).points) < Left THEN Len(Head(completions).points)
                                                 ELSE Left

\* What ConsumePath1 claims and shows
LEMMA ConsumedRun ==
    ASSUME TypeInv, FrameInv, RunInv, ConsumePath1
    PROVE  /\ Left \in Nat /\ Left > 0 /\ Shown \in Nat /\ Shown > 0 /\ Shown <= Left
           /\ Shown <= Len(Head(completions).points) /\ completions # <<>>
           /\ Left = (IF remaining > 0 THEN remaining ELSE runs[read].count)
           /\ remaining' = Left - Shown
           /\ gpc' = (IF Left = Shown THEN "advance" ELSE "head")
           /\ gpc = "take" /\ read # write /\ ring[read] = "path1"
<1>1. gpc = "take" /\ completions # <<>> /\ read # write /\ ring[read] = "path1"
  BY DEF ConsumePath1, TypeInv, WorkIsThere, FrameInv, WorkerIsAtCommand
<1>2. remaining' = Left - Shown /\ gpc' = IF Left = Shown THEN "advance" ELSE "head"
  BY Zenon DEF ConsumePath1, Left, Shown
<1>3. /\ RingTypes /\ read \in Position /\ write \in Position /\ remaining \in Nat
      /\ runs[read].count \in Nat
  BY DEF TypeInv, TypeOK, RingTypes
<1>4. read \in Unpassed
  <2>1. Distance(read) = 0 /\ Distance(write) # 0 /\ Distance(write) \in Nat
    BY <1>1, <1>3, DistanceIsTyped DEF Position
  <2> QED BY <1>3, <2>1 DEF Unpassed
<1>5. remaining > 0 \/ runs[read].count > 0
  BY <1>1, <1>3, <1>4 DEF RunInv, RunsAreCounted, Claimed, Retiring
<1>6. Left \in Nat /\ Left > 0 /\ Left = (IF remaining > 0 THEN remaining ELSE runs[read].count)
  BY <1>3, <1>5 DEF Left
<1>7. Len(Head(completions).points) \in Nat /\ Len(Head(completions).points) > 0
  <2>1. completions \in Completions
    BY DEF TypeInv, TypeOK, QueueTypes
  <2>2. Len(completions) \in Nat /\ Len(completions) > 0 /\ Head(completions) = completions[1]
    BY <1>1, <2>1, CompletionsAreRecords, EmptySeq
  <2>3. 1 \in 1 .. Len(completions)
    BY <2>2
  <2> QED BY <2>1, <2>2, <2>3, CompletionsAreRecords
<1>8. Shown \in Nat /\ Shown > 0 /\ Shown <= Left /\ Shown <= Len(Head(completions).points)
  BY <1>6, <1>7 DEF Shown
<1> QED BY <1>1, <1>2, <1>6, <1>8

\* The worker shows the next executions, and forgets no draw.
LEMMA ConsumedChain ==
    ASSUME TypeInv, FrameInv, RunInv, ChainInv, ConsumePath1
    PROVE  consumed' = consumed + Shown /\ PointsAreLinked' /\ DrawsAreMarked'
<1> DEFINE c == Head(completions)
           n == Shown
           e == completions \o outbox
           d == completions' \o outbox
           all == n = Len(c.points)
           drawn == {i \in 1 .. n : c.points[i].output = "generated"}
<1>1. n \in Nat /\ n > 0 /\ n <= Len(c.points) /\ completions # <<>>
  BY ConsumedRun
<1>2. /\ UNCHANGED <<outbox, pending, batch, jobs, dispatched, vpc, vthen>>
      /\ completions' = (IF all THEN Tail(completions)
                         ELSE [completions EXCEPT ![1].points = SubSeq(@, n + 1, Len(@))])
      /\ consumed' = c.points[n].id
      /\ unsubmitted' = IF all /\ c.submit THEN FALSE ELSE unsubmitted \/ drawn # {}
  <2>1. UNCHANGED <<outbox, pending, batch, jobs, dispatched, vpc, vthen>>
    BY DEF ConsumePath1, GsStays
  <2>2. /\ completions' = (IF all THEN Tail(completions)
                         ELSE [completions EXCEPT ![1].points = SubSeq(@, n + 1, Len(@))])
        /\ consumed' = c.points[n].id
        /\ unsubmitted' = IF all /\ c.submit THEN FALSE ELSE unsubmitted \/ drawn # {}
    BY Zenon DEF ConsumePath1, Left, Shown
  <2> QED BY <2>1, <2>2
<1>3. /\ completions \in Completions /\ outbox \in Completions /\ consumed \in Int
      /\ completions \in Seq(CompletionRecord) /\ outbox \in Seq(CompletionRecord)
  BY CompletionsAreRecords DEF TypeInv, TypeOK, QueueTypes, CountTypes
<1>4. e \in Completions
  BY <1>3, ConcatProperties DEF Completions
<1>5. /\ e # <<>> /\ e[1] = c /\ Head(e) = c /\ c = completions[1]
      /\ Tail(e) = Tail(completions) \o outbox
  BY <1>1, <1>3, ConcatRest
<1>6. PICK z \in Int : /\ Linked(e, consumed, z)
                       /\ CountedFrom(pending, z) /\ z + Len(pending) = Begun
  BY DEF ChainInv, PointsAreLinked
<1>7. Marked(unsubmitted, e, Drawn(pending))
  BY DEF ChainInv, DrawsAreMarked
<1>8. /\ \A i \in 1 .. Len(c.points) : c.points[i].id = consumed + i
      /\ Linked(Tail(e), consumed + Len(c.points), z)
  <2>1. /\ \A i \in 1 .. Len(Head(e).points) : Head(e).points[i].id = consumed + i
        /\ Linked(Tail(e), consumed + Len(Head(e).points), z)
    <3> HIDE DEF e
    <3> QED BY <1>3, <1>4, <1>5, <1>6, LinkedRest
  <2> HIDE DEF e, c
  <2> QED BY <1>5, <2>1
<1>9. Begun' = Begun
  BY <1>2 DEF Begun, Executing
<1>10. Len(c.points) \in Nat /\ c.points \in Points
  <2>1. 1 \in 1 .. Len(completions)
    BY <1>1, <1>3, EmptySeq
  <2> HIDE DEF c
  <2> QED BY <1>3, <1>5, <2>1, CompletionsAreRecords
<1>11. consumed' = consumed + n
  <2>1. n \in 1 .. Len(c.points)
    BY <1>1, <1>10
  <2> HIDE DEF c, n
  <2> QED BY <1>2, <1>8, <2>1
<1>12. unsubmitted' => unsubmitted \/ Drawn(c.points)
  <2>1. drawn # {} => Drawn(c.points)
    <3>1. \A i \in 1 .. n : i \in 1 .. Len(c.points)
      BY <1>1, <1>10
    <3> HIDE DEF c, n
    <3> QED BY <3>1 DEF Drawn
  <2> HIDE DEF c, n
  <2> QED BY <1>2, <2>1
<1>13. CASE all
  <2>1. d = Tail(e) /\ consumed' = consumed + Len(c.points)
    BY <1>2, <1>5, <1>11, <1>13
  <2>2. Linked(d, consumed', z)
    <3> HIDE DEF d, e, c
    <3> QED BY <1>8, <2>1
  <2>3. Marked(unsubmitted', d, Drawn(pending))
    <3>1. /\ Marked(FALSE, Tail(e), Drawn(pending))
          /\ ~c.submit => Marked(unsubmitted \/ Drawn(c.points), Tail(e), Drawn(pending))
      <4>1. /\ Marked(FALSE, Tail(e), Drawn(pending))
            /\ ~Head(e).submit =>
                  Marked(unsubmitted \/ Drawn(Head(e).points), Tail(e), Drawn(pending))
        <5> HIDE DEF e
        <5> QED BY <1>4, <1>5, <1>7, MarkedRest
      <4> HIDE DEF e, c
      <4> QED BY <1>5, <4>1
    <3>2. c.submit => ~unsubmitted'
      BY <1>2, <1>13
    <3> HIDE DEF d, e, c
    <3> QED BY <1>12, <2>1, <3>1, <3>2 DEF Marked
  <2>4. PointsAreLinked'
    BY <1>2, <1>6, <1>9, <2>2 DEF PointsAreLinked, CountedFrom
  <2>5. DrawsAreMarked'
    <3>1. outbox' = outbox /\ pending' = pending
      BY <1>2
    <3> QED BY <2>3, <3>1, Zenon DEF DrawsAreMarked
  <2> QED BY <1>11, <2>4, <2>5
<1>14. CASE ~all
  <2> DEFINE M == Len(completions)
             N == Len(outbox)
             f == [completions EXCEPT ![1].points = SubSeq(@, n + 1, Len(@))]
             s == SubSeq(c.points, n + 1, Len(c.points))
             x == [c EXCEPT !.points = s]
  <2>1. M \in Nat /\ M > 0 /\ N \in Nat /\ 1 \in 1 .. M
    BY <1>1, <1>3, EmptySeq, LenProperties
  <2>2. n < Len(c.points) /\ n \in 0 .. Len(c.points)
    BY <1>1, <1>10, <1>14
  <2>3. s \in Points /\ Len(s) = Len(c.points) - n
        /\ \A i \in 1 .. Len(c.points) - n : s[i] = c.points[n + i]
    <3> HIDE DEF c, n
    <3> QED BY <1>10, <2>2, RunIsPart
  <2>4. /\ x \in CompletionRecord /\ x.points = s /\ x.submit = c.submit
    <3>1. c \in CompletionRecord
      BY <1>3, <1>5, <2>1, CompletionsAreRecords
    <3>2. s # <<>>
      <4> HIDE DEF s, c, n
      <4> QED BY <1>10, <2>2, <2>3
    <3> HIDE DEF s, c, n
    <3> QED BY <2>3, <3>1, <3>2 DEF CompletionRecord
  <2>5. f = [completions EXCEPT ![1] = x]
    BY <1>5
  <2>6. /\ f \in Seq(CompletionRecord) /\ Len(f) = M /\ f[1] = x
        /\ \A k \in 2 .. M : f[k] = completions[k]
    <3> DEFINE w == [completions EXCEPT ![1] = x]
    <3>1. /\ w \in Seq(CompletionRecord) /\ Len(w) = M
          /\ \A j \in 1 .. M : w[j] = IF j = 1 THEN x ELSE completions[j]
      <4> HIDE DEF x, CompletionRecord
      <4> QED BY <1>3, <2>1, <2>4, ExceptSeq
    <3> HIDE DEF w, x, M, f
    <3>2. w[1] = x /\ \A k \in 2 .. M : w[k] = completions[k]
      <4>1. \A k \in 2 .. M : k \in 1 .. M /\ k # 1
        BY <2>1
      <4> QED BY <2>1, <3>1, <4>1
    <3> QED BY <2>5, <3>1, <3>2 DEF w
  <2>7. completions' = f
    BY <1>2, <1>14
  <2>8. /\ Len(e) = M + N
        /\ \A i \in 1 .. M + N : e[i] = IF i <= M THEN completions[i] ELSE outbox[i - M]
    BY <1>3, ConcatProperties
  <2>9. /\ Len(d) = M + N
        /\ \A i \in 1 .. M + N : d[i] = IF i <= M THEN f[i] ELSE outbox[i - M]
    <3> DEFINE g == f \o outbox
    <3> HIDE DEF f, CompletionRecord
    <3>1. /\ Len(g) = Len(f) + N
          /\ \A i \in 1 .. Len(f) + N : g[i] = IF i <= Len(f) THEN f[i] ELSE outbox[i - Len(f)]
      <4>1. \A a, b \in Seq(CompletionRecord) :
               /\ Len(a \o b) = Len(a) + Len(b)
               /\ \A i \in 1 .. Len(a) + Len(b) :
                     (a \o b)[i] = IF i <= Len(a) THEN a[i] ELSE b[i - Len(a)]
        BY ConcatProperties
      <4> QED BY <1>3, <2>6, <4>1, Zenon
    <3>2. d = g
      BY <2>7
    <3> HIDE DEF d, g
    <3> QED BY <2>6, <3>1, <3>2
  <2> HIDE DEF M, N, f, s, x, e, d, c, n, CompletionRecord
  <2>10. /\ Len(d) = Len(e) /\ d[1] = x /\ \A k \in 2 .. Len(e) : d[k] = e[k]
    <3>1. d[1] = x
      <4>1. 1 \in 1 .. M + N /\ 1 <= M
        BY <2>1
      <4> QED BY <2>6, <2>9, <4>1
    <3>2. ASSUME NEW k \in 2 .. M + N PROVE d[k] = e[k]
      <4>1. k \in 1 .. M + N /\ (k <= M => k \in 2 .. M)
        BY <2>1
      <4> QED BY <2>6, <2>8, <2>9, <4>1
    <3> QED BY <2>8, <2>9, <3>1, <3>2
  <2>11. e # <<>> /\ e[1] = c /\ d[1].points = s /\ d[1].submit = c.submit
    BY <1>5, <2>4, <2>10
  <2>12. Linked(d, consumed + n, z)
    <3>1. d[1].points = SubSeq(e[1].points, n + 1, Len(e[1].points)) /\ n < Len(e[1].points)
          /\ n \in Nat
      BY <1>1, <2>2, <2>11 DEF s
    <3> QED BY <1>3, <1>4, <1>6, <2>10, <2>11, <3>1, LinkedCut
  <2>13. Drawn(s) => Drawn(c.points)
    <3>1. \A i \in 1 .. Len(c.points) - n : n + i \in 1 .. Len(c.points)
      BY <1>1, <1>10
    <3> QED BY <2>3, <3>1 DEF Drawn
  <2>14. Marked(unsubmitted \/ Drawn(c.points), d, Drawn(pending))
    <3>1. d[1].submit = e[1].submit /\ (Drawn(d[1].points) => Drawn(e[1].points))
      BY <2>11, <2>13
    <3>2. Marked(unsubmitted \/ Drawn(e[1].points), d, Drawn(pending))
      BY <1>4, <1>7, <2>10, <2>11, <3>1, MarkedCut
    <3> QED BY <2>11, <3>2
  <2>15. Marked(unsubmitted', d, Drawn(pending))
    BY <1>12, <2>14 DEF Marked
  <2>16. PointsAreLinked'
    BY <1>2, <1>6, <1>9, <1>11, <2>12 DEF PointsAreLinked, CountedFrom, d
  <2>17. DrawsAreMarked'
    <3>1. outbox' = outbox /\ pending' = pending
      BY <1>2
    <3> QED BY <2>15, <3>1, Zenon DEF DrawsAreMarked, d
  <2> QED BY <1>11, <2>16, <2>17 DEF n
<1> QED BY <1>13, <1>14

\* At rest, as the hardware reset, close and restart need, all is shown.
RestIsDrained ==
    epc \in {"hardwareReset", "clearOpen", "dead"} \union Closes \union Opens \union Down
        => consumed = dispatched

\* Nothing is lost, repeated or reordered between MTVU and the GS.
LEMMA ChainStays ==
    ASSUME WakeInv, TypeInv, FrameInv, RunInv, ChainInv, RestIsDrained, Next
    PROVE  ChainInv'
<1>0. /\ dispatched \in Int /\ batch \in Int /\ jobs \in Int /\ pending \in Points
      /\ completions \in Completions /\ outbox \in Completions
      /\ OutboxIsSent /\ PointsAreLinked /\ DrawsAreMarked
  BY DEF TypeInv, TypeOK, CountTypes, QueueTypes, ChainInv
<1>1. OutboxIsSent'
  BY <1>0, OutboxStaysSent
<1>2. CASE PathQuiet
  <2>1. UNCHANGED <<completions, outbox, pending, consumed, unsubmitted>> /\ Begun' = Begun
    BY <1>2 DEF PathQuiet
  <2>2. PointsAreLinked'
    BY <1>0, <2>1 DEF PointsAreLinked
  <2>3. DrawsAreMarked'
    BY <1>0, <2>1, Zenon DEF DrawsAreMarked
  <2> QED BY <1>1, <2>2, <2>3 DEF ChainInv
<1>3. ASSUME vpc \in {"loop", "buffer"}, jobs > 0, NEW o \in Output,
             UNCHANGED <<dispatched, batch, jobs, completions, consumed, unsubmitted>>,
             NEW cs, Publish(cs, "commit"),
             Carries(Append(pending, Point(o)), cs, pending')
      PROVE  PointsAreLinked' /\ DrawsAreMarked'
  <2> DEFINE run == Append(pending, Point(o))
  <2>1. outbox = <<>> /\ outbox' = cs
    BY <1>0, <1>3 DEF OutboxIsSent, Publish
  <2>2. Begun' = Begun + 1 /\ Point(o).id = Begun + 1 /\ Begun \in Int
    <3>1. ~Executing /\ Executing'
      BY <1>3 DEF Executing, Publish
    <3> QED BY <1>0, <1>3, <3>1 DEF Begun, Point
  <2>3. Point(o) \in PointRecord
    BY <1>3, PointIsTyped DEF PointRecord
  <2>4. run \in Points /\ Len(run) = Len(pending) + 1 /\ Len(pending) \in Nat
        /\ (Drawn(pending) => Drawn(run))
    BY <1>0, <2>3, JoinsRun
  <2>5. ASSUME NEW z \in Int, CountedFrom(pending, z), z + Len(pending) = Begun
        PROVE  CountedFrom(run, z) /\ z + Len(run) = Begun'
    <3>1. Point(o).id = z + Len(pending) + 1
      BY <2>2, <2>5
    <3>2. CountedFrom(run, z)
      BY <1>0, <2>3, <2>5, <3>1, JoinsRun
    <3> HIDE DEF run
    <3> QED BY <2>2, <2>4, <2>5, <3>2
  <2>6. Carries(run, outbox', pending')
    BY <1>3, <2>1
  <2> HIDE DEF run
  <2> QED BY <1>0, <1>3, <2>1, <2>4, <2>5, <2>6, PublishedChain
<1>4. CASE ExecuteCpu
  <2>1. /\ vpc \in {"loop", "buffer"} /\ jobs > 0 /\ pending' = <<>>
        /\ UNCHANGED <<dispatched, batch, jobs, completions, consumed, unsubmitted>>
        /\ Publish(Append(Flushed(pending), Completion(<<Point("cpu")>>, FALSE)), "commit")
    BY <1>4 DEF ExecuteCpu, VuStays
  <2>2. "cpu" \in Output /\ Point("cpu") \in PointRecord /\ Point("cpu").output = "cpu"
    BY <2>1, PointIsTyped DEF Output, PointRecord, Point
  <2>3. Carries(Append(pending, Point("cpu")),
                Append(Flushed(pending), Completion(<<Point("cpu")>>, FALSE)), pending')
    BY <1>0, <2>1, <2>2, CpuCarries
  <2>4. PointsAreLinked' /\ DrawsAreMarked'
    BY <1>3, <2>1, <2>2, <2>3
  <2> QED BY <1>1, <2>4 DEF ChainInv
<1>5. ASSUME NEW o \in Output, ExecuteDirect(o) PROVE ChainInv'
  <2> DEFINE run == Append(pending, Point(o))
  <2>1. /\ vpc \in {"loop", "buffer"} /\ jobs > 0
        /\ UNCHANGED <<dispatched, batch, jobs, completions, consumed, unsubmitted>>
    BY <1>5 DEF ExecuteDirect, VuStays
  <2>2. Point(o) \in PointRecord /\ Point(o).output = o
    BY <2>1, PointIsTyped DEF PointRecord, Point
  <2>3. run \in Points /\ Len(run) = Len(pending) + 1 /\ Len(pending) \in Nat
        /\ run[Len(pending) + 1] = Point(o)
    BY <1>0, <2>2, JoinsRun
  <2>4. \/ pending' = <<>> /\ Publish(Flushed(run), "commit")
        \/ pending' = run /\ Publish(<<>>, "commit")
        \/ /\ o = "generated" /\ Prefix(run) # <<>> /\ pending' = Suffix(run)
           /\ Publish(<<Completion(Prefix(run), FALSE)>>, "commit")
    BY <1>5, Zenon DEF ExecuteDirect
  <2>5. \E cs : Publish(cs, "commit") /\ Carries(run, cs, pending')
    <3>1. CASE pending' = <<>> /\ Publish(Flushed(run), "commit")
      <4> HIDE DEF run
      <4>1. Carries(run, Flushed(run), <<>>)
        BY <2>3, FlushCarries
      <4> QED BY <3>1, <4>1
    <3>2. CASE pending' = run /\ Publish(<<>>, "commit")
      <4> HIDE DEF run
      <4>1. Carries(run, <<>>, run)
        BY <2>3, KeepCarries
      <4> QED BY <3>2, <4>1
    <3>3. CASE /\ o = "generated" /\ Prefix(run) # <<>> /\ pending' = Suffix(run)
               /\ Publish(<<Completion(Prefix(run), FALSE)>>, "commit")
      <4> HIDE DEF run
      <4>1. Len(run) > 0 /\ run[Len(run)].output = "generated"
        BY <2>2, <2>3, <3>3
      <4>2. Carries(run, <<Completion(Prefix(run), FALSE)>>, Suffix(run))
        BY <2>3, <3>3, <4>1, PrefixCarries
      <4> QED BY <3>3, <4>2
    <3> HIDE DEF run
    <3> QED BY <2>4, <3>1, <3>2, <3>3
  <2>6. PointsAreLinked' /\ DrawsAreMarked'
    BY <1>3, <2>1, <2>5
  <2> QED BY <1>1, <2>6 DEF ChainInv
<1>6. CASE ServeRequests
  <2>1. /\ outbox = <<>> /\ ~Executing /\ ~Executing'
        /\ UNCHANGED <<dispatched, batch, jobs, completions, consumed, unsubmitted>>
    BY <1>0, <1>6 DEF ServeRequests, VuStays, OutboxIsSent, Executing, Publish
  <2>2. Begun' = Begun
    BY <2>1 DEF Begun
  <2>3. Carries(pending, outbox', pending')
    <3>1. CASE requests
      <4>1. pending' = <<>> /\ outbox' = Flushed(pending)
        BY <1>6, <3>1 DEF ServeRequests, Publish
      <4> QED BY <1>0, <4>1, FlushCarries
    <3>2. CASE ~requests
      <4>1. pending' = pending /\ outbox' = <<>>
        BY <1>6, <3>2 DEF ServeRequests, Publish
      <4> QED BY <1>0, <4>1, KeepCarries
    <3> QED BY <3>1, <3>2
  <2>4. PointsAreLinked' /\ DrawsAreMarked'
    BY <1>0, <2>1, <2>2, <2>3, PublishedChain
  <2> QED BY <1>1, <2>4 DEF ChainInv
<1>7. CASE Push
  <2>1. /\ completions' = Append(completions, Head(outbox)) /\ outbox' = Tail(outbox)
        /\ outbox # <<>>
        /\ UNCHANGED <<dispatched, batch, jobs, pending, consumed, unsubmitted, vthen>>
        /\ vpc = "push" /\ vpc' = "wake"
    BY <1>7 DEF Push, VuStays, TypeInv, WorkIsThere
  <2>2. Begun' = Begun
    BY <2>1 DEF Begun, Executing
  <2>3. completions' \o outbox' = completions \o outbox
    <3> DEFINE S == CompletionRecord
    <3>1. completions \in Seq(S) /\ outbox \in Seq(S)
      BY <1>0, CompletionsAreRecords
    <3> HIDE DEF S
    <3>2. Head(outbox) \in S /\ Tail(outbox) \in Seq(S) /\ <<Head(outbox)>> \in Seq(S)
          /\ outbox = <<Head(outbox)>> \o Tail(outbox)
      <4>1. Head(outbox) \in S /\ Tail(outbox) \in Seq(S) /\ Len(outbox) \in Nat
            /\ Len(outbox) > 0 /\ Len(Tail(outbox)) = Len(outbox) - 1
            /\ \A i \in 1 .. Len(outbox) - 1 : Tail(outbox)[i] = outbox[i + 1]
        BY <2>1, <3>1, HeadTailProperties, EmptySeq
      <4> DEFINE x == <<Head(outbox)>>
                 y == x \o Tail(outbox)
      <4>2. x \in Seq(S) /\ Len(x) = 1 /\ x[1] = outbox[1]
        BY <4>1
      <4> HIDE DEF x
      <4>3. /\ y \in Seq(S) /\ Len(y) = 1 + Len(Tail(outbox))
            /\ \A i \in 1 .. 1 + Len(Tail(outbox)) :
                  y[i] = IF i <= 1 THEN x[i] ELSE Tail(outbox)[i - 1]
        <5>1. \A a, b \in Seq(S) :
                 /\ a \o b \in Seq(S) /\ Len(a \o b) = Len(a) + Len(b)
                 /\ \A i \in 1 .. Len(a) + Len(b) :
                       (a \o b)[i] = IF i <= Len(a) THEN a[i] ELSE b[i - Len(a)]
          BY ConcatProperties
        <5>2. /\ y \in Seq(S) /\ Len(y) = Len(x) + Len(Tail(outbox))
              /\ \A i \in 1 .. Len(x) + Len(Tail(outbox)) :
                    y[i] = IF i <= Len(x) THEN x[i] ELSE Tail(outbox)[i - Len(x)]
          BY <4>1, <4>2, <5>1, Zenon
        <5> HIDE DEF y
        <5> QED BY <4>2, <5>2
      <4> HIDE DEF y
      <4>4. ASSUME NEW i \in 1 .. Len(outbox) PROVE y[i] = outbox[i]
        <5> DEFINE j == i - 1
        <5>1. i \in 1 .. 1 + Len(Tail(outbox)) /\ (i <= 1 => i = 1)
              /\ (~(i <= 1) => j \in 1 .. Len(outbox) - 1) /\ j + 1 = i
          BY <4>1
        <5>2. y[i] = IF i <= 1 THEN x[i] ELSE Tail(outbox)[j]
          BY <4>3, <5>1
        <5> HIDE DEF j
        <5>3. ~(i <= 1) => Tail(outbox)[j] = outbox[i]
          BY <4>1, <5>1
        <5> QED BY <4>2, <5>1, <5>2, <5>3
      <4>5. Len(y) = Len(outbox)
        BY <4>1, <4>3
      <4>6. y = outbox
        BY <3>1, <4>3, <4>4, <4>5, SeqEqual
      <4> QED BY <4>1, <4>2, <4>6 DEF x, y
    <3>3. Append(completions, Head(outbox)) = completions \o <<Head(outbox)>>
      BY <3>1, <3>2, AppendIsConcat
    <3>4. (completions \o <<Head(outbox)>>) \o Tail(outbox)
             = completions \o (<<Head(outbox)>> \o Tail(outbox))
      BY <3>1, <3>2, ConcatAssociative
    <3> QED BY <2>1, <3>2, <3>3, <3>4, Zenon
  <2>4. PointsAreLinked'
    BY <1>0, <2>1, <2>2, <2>3 DEF PointsAreLinked
  <2>5. DrawsAreMarked'
    BY <1>0, <2>1, <2>3, Zenon DEF DrawsAreMarked
  <2> QED BY <1>1, <2>4, <2>5 DEF ChainInv
<1>8. CASE ConsumePath1
  <2>1. PointsAreLinked' /\ DrawsAreMarked'
    BY <1>8, ConsumedChain
  <2> QED BY <1>1, <2>1 DEF ChainInv
<1>9. CASE StartThread \/ Closing
  <2>1. consumed = dispatched
    BY <1>9 DEF StartThread, Closing, RestIsDrained, WakeInv, LifeIsOrderly, MainLoop,
      Outside, Closes, Opens, Down
  <2>2. completions = <<>> /\ pending = <<>> /\ dispatched <= consumed
    BY <1>0, <2>1, DrainedIsEmpty
  <2>3. /\ completions' = completions /\ pending' = pending
        /\ UNCHANGED <<outbox, consumed, unsubmitted, batch, jobs, vpc, vthen, dispatched>>
    BY <1>9, <2>2 DEF StartThread, Closing, GsStays, Goto
  <2>4. Begun' = Begun
    BY <2>3 DEF Begun, Executing
  <2>5. PointsAreLinked'
    BY <1>0, <2>3, <2>4 DEF PointsAreLinked
  <2>6. DrawsAreMarked'
    BY <1>0, <2>3, Zenon DEF DrawsAreMarked
  <2> QED BY <1>1, <2>5, <2>6 DEF ChainInv
<1> QED
  BY <1>2, <1>4, <1>5, <1>6, <1>7, <1>8, <1>9, PathSteps

-----------------------------------------------------------------------------
(* The unread words as a stream *)

\* A run of n points, and the words a place stands for
Path(n) == [i \in 1 .. n |-> "path1"]
WordsIn(c, n) ==
    CASE c = "payload" -> <<>> [] c = "path1" -> Path(n) [] OTHER -> <<c>>

\* n points,
LEMMA PathIsTyped ==
    ASSUME NEW n \in Nat
    PROVE  /\ Path(n) \in Seq(StreamCommand) /\ Len(Path(n)) = n
           /\ \A i \in 1 .. n : Path(n)[i] = "path1"
           /\ (n = 0 => Path(n) = <<>>) /\ (n = 1 => Path(n) = <<"path1">>)
<1> DEFINE e == Path(n)
<1>1. e \in [1 .. n -> StreamCommand] /\ \A i \in 1 .. n : e[i] = "path1"
  BY DEF Path, StreamCommand
<1>2. e \in Seq(StreamCommand)
  BY <1>1, IsASeq DEF Path, StreamCommand
<1>3. Len(e) = n
  BY <1>1, <1>2, LenProperties
<1>4. n = 0 => e = <<>>
  BY <1>2, <1>3, EmptySeq
<1>5. n = 1 => e = <<"path1">>
  <2> SUFFICES ASSUME n = 1 PROVE e = <<"path1">>
    OBVIOUS
  <2>1. <<"path1">> \in Seq(StreamCommand) /\ Len(<<"path1">>) = 1 /\ <<"path1">>[1] = "path1"
    BY DEF StreamCommand
  <2>2. \A i \in 1 .. Len(e) : e[i] = <<"path1">>[i]
    BY <1>1, <1>3, <2>1
  <2> HIDE DEF e
  <2> QED BY <1>2, <1>3, <2>1, <2>2, SeqEqual
<1> QED BY <1>1, <1>2, <1>3, <1>4, <1>5

\* and a run that is split
LEMMA PathIsSum ==
    ASSUME NEW m \in Nat, NEW n \in Nat PROVE Path(m + n) = Path(m) \o Path(n)
<1> DEFINE a == Path(m)
           b == Path(n)
           e == Path(m + n)
           d == a \o b
           S == StreamCommand
<1>1. /\ a \in Seq(S) /\ Len(a) = m /\ b \in Seq(S) /\ Len(b) = n
      /\ e \in Seq(S) /\ Len(e) = m + n
      /\ \A i \in 1 .. m : a[i] = "path1"
      /\ \A i \in 1 .. n : b[i] = "path1"
      /\ \A i \in 1 .. m + n : e[i] = "path1"
  <2>1. m + n \in Nat
    OBVIOUS
  <2> QED BY <2>1, PathIsTyped
<1> HIDE DEF a, b, e, S
<1>2. /\ d \in Seq(S) /\ Len(d) = m + n
      /\ \A i \in 1 .. m + n : d[i] = IF i <= m THEN a[i] ELSE b[i - m]
  <2>1. /\ d \in Seq(S) /\ Len(d) = Len(a) + Len(b)
        /\ \A i \in 1 .. Len(a) + Len(b) : d[i] = IF i <= Len(a) THEN a[i] ELSE b[i - Len(a)]
    BY <1>1, ConcatProperties
  <2> HIDE DEF d
  <2> QED BY <1>1, <2>1
<1> HIDE DEF d
<1>3. ASSUME NEW i \in 1 .. m + n PROVE d[i] = e[i]
  <2>1. (i <= m => i \in 1 .. m) /\ (~(i <= m) => i - m \in 1 .. n)
    OBVIOUS
  <2> QED BY <1>1, <1>2, <2>1
<1>4. d = e
  BY <1>1, <1>2, <1>3, SeqEqual
<1> QED BY <1>4 DEF a, b, d, e

\* The words of a place, before and after a step
LEMMA WordsNow ==
    ASSUME NEW i \in 1 .. Distance(write)
    PROVE  UnreadWords[i] = IF i = 1 /\ Retiring THEN <<>>
               ELSE WordsIn(ring[Step(read, i - 1)],
                            IF Step(read, i - 1) = read /\ remaining > 0 THEN remaining
                            ELSE runs[Step(read, i - 1)].count)
BY Zenon DEF UnreadWords, Words, WordsIn, Path, Retiring

LEMMA WordsNext ==
    ASSUME NEW i \in 1 .. Distance(write)'
    PROVE  UnreadWords'[i] = IF i = 1 /\ Retiring' THEN <<>>
               ELSE WordsIn(ring'[Step(read', i - 1)],
                            IF Step(read', i - 1) = read' /\ remaining' > 0 THEN remaining'
                            ELSE runs'[Step(read', i - 1)].count)
BY Zenon DEF UnreadWords, Words, WordsIn, Path, Retiring

\* Words are commands of the stream,
LEMMA WordsInIsTyped ==
    ASSUME NEW c \in {"gs", "vsync", "path1", "payload"}, NEW n \in Nat
    PROVE  WordsIn(c, n) \in Seq(StreamCommand)
<1>1. CASE c = "payload"
  BY <1>1 DEF WordsIn
<1>2. CASE c = "path1"
  BY <1>2, PathIsTyped DEF WordsIn
<1>3. CASE c \in {"gs", "vsync"}
  <2>1. WordsIn(c, n) = <<c>>
    BY <1>3 DEF WordsIn
  <2>2. c \in StreamCommand
    BY <1>3 DEF StreamCommand
  <2>3. <<c>> \in Seq(StreamCommand)
    BY <2>2
  <2> QED BY <2>1, <2>3
<1> QED BY <1>1, <1>2, <1>3

\* The places between the two positions
LEMMA UnreadPlaces ==
    ASSUME TypeInv
    PROVE  /\ Distance(write) \in Nat /\ Distance(write) < RingSize
           /\ \A i \in 1 .. Distance(write) :
                 /\ Step(read, i - 1) \in Unpassed /\ Step(read, i - 1) \in Position
                 /\ Distance(Step(read, i - 1)) = i - 1
                 /\ (Step(read, i - 1) = read <=> i = 1)
                 /\ UnreadWords[i] \in Seq(StreamCommand)
<1>1. /\ RingTypes /\ read \in Position /\ write \in Position
      /\ ring \in [Position -> {"gs", "vsync", "path1", "payload"}]
      /\ runs \in [Position -> [count : 0 .. MaxRun, open : BOOLEAN]] /\ remaining \in Nat
      /\ MaxRun \in Nat
  BY MailboxAssumption DEF TypeInv, TypeOK, RingTypes
<1>2. Distance(write) \in Nat /\ Distance(write) < RingSize /\ Distance(read) = 0
  BY <1>1, DistanceIsTyped, MailboxAssumption DEF Position
<1>3. ASSUME NEW i \in 1 .. Distance(write)
      PROVE  /\ Step(read, i - 1) \in Unpassed /\ Step(read, i - 1) \in Position
             /\ Distance(Step(read, i - 1)) = i - 1
             /\ (Step(read, i - 1) = read <=> i = 1)
             /\ UnreadWords[i] \in Seq(StreamCommand)
  <2> DEFINE p == Step(read, i - 1)
  <2>1. i - 1 \in Nat /\ Distance(read) + (i - 1) < RingSize /\ 0 + (i - 1) = i - 1
    <3>1. RingSize \in Nat
      BY MailboxAssumption
    <3>2. ASSUME NEW d \in Nat, d < RingSize, NEW j \in 1 .. d
          PROVE  j - 1 \in Nat /\ 0 + (j - 1) < RingSize /\ 0 + (j - 1) = j - 1
      BY <3>1, <3>2
    <3> QED BY <1>2, <3>2
  <2>2. p \in Position /\ Distance(p) = i - 1
    BY <1>1, <1>2, <2>1, StepIsFurther
  <2>3. p \in Unpassed /\ (p = read <=> i = 1)
    <3> HIDE DEF p
    <3>1. Distance(p) = 0 <=> p = read
      BY <1>1, <2>2, DistanceIsTyped
    <3> QED BY <1>2, <2>2, <3>1 DEF Unpassed
  <2>4. UnreadWords[i] \in Seq(StreamCommand)
    <3> DEFINE n == IF p = read /\ remaining > 0 THEN remaining ELSE runs[p].count
    <3>1. UnreadWords[i] = IF i = 1 /\ Retiring THEN <<>> ELSE WordsIn(ring[p], n)
      BY WordsNow
    <3> HIDE DEF p
    <3>2. n \in Nat /\ ring[p] \in {"gs", "vsync", "path1", "payload"}
      BY <1>1, <2>2
    <3> HIDE DEF n
    <3>3. WordsIn(ring[p], n) \in Seq(StreamCommand) /\ <<>> \in Seq(StreamCommand)
      BY <3>2, WordsInIsTyped, EmptySeq
    <3> QED BY <3>1, <3>3, Zenon
  <2> QED BY <2>2, <2>3, <2>4
<1> QED BY <1>2, <1>3

\* and so is all that is unread.
LEMMA UnreadIsTyped ==
    ASSUME TypeInv PROVE Unread \in Seq(StreamCommand)
<1> DEFINE N == Distance(write)
<1>1. N \in Nat /\ \A i \in 1 .. N : UnreadWords[i] \in Seq(StreamCommand)
  BY UnreadPlaces
<1>2. \A i \in 0 .. N : Joined(UnreadWords, N)[i] \in Seq(StreamCommand)
  <2> HIDE DEF N
  <2> QED BY <1>1, JoinedIsTyped
<1>3. N \in 0 .. N
  BY <1>1
<1> QED BY <1>2, <1>3 DEF Unread

\* The last of the sequences grows.
LEMMA JoinedLast ==
    ASSUME NEW b, NEW c, NEW N \in Nat, N > 0, NEW x \in Seq(StreamCommand),
           \A i \in 1 .. N : b[i] \in Seq(StreamCommand), \A i \in 1 .. N - 1 : c[i] = b[i],
           c[N] = b[N] \o x
    PROVE  Joined(c, N)[N] = Joined(b, N)[N] \o x
<1> DEFINE f == Joined(b, N)
           g == Joined(c, N)
<1>1. /\ f[N] = f[N - 1] \o b[N] /\ g[N] = g[N - 1] \o c[N]
      /\ f[N - 1] \in Seq(StreamCommand) /\ b[N] \in Seq(StreamCommand)
  <2>1. N \in 1 .. N /\ N - 1 \in 0 .. N
    OBVIOUS
  <2> QED BY <2>1, JoinedLoop, JoinedIsTyped
<1>2. g[N - 1] = f[N - 1]
  <2>1. N - 1 \in Nat /\ N - 1 <= N
    OBVIOUS
  <2> QED BY <2>1, JoinedOfPrefix
<1> HIDE DEF f, g
<1>3. (f[N - 1] \o b[N]) \o x = f[N - 1] \o (b[N] \o x)
  BY <1>1, Associative, Zenon
<1>4. g[N] = f[N] \o x
  BY <1>1, <1>2, <1>3, Zenon
<1> QED BY <1>4 DEF f, g

\* The unread words after a step
LEMMA UnreadNext ==
    Unread' = Joined(UnreadWords', Distance(write)')[Distance(write)']
BY DEF Unread, Joined

\* A word that a step leaves alone
LEMMA PlaceStays ==
    ASSUME TypeInv, read' = read, NEW i \in 1 .. Distance(write), i \in 1 .. Distance(write)',
           ring'[Step(read, i - 1)] = ring[Step(read, i - 1)],
           runs'[Step(read, i - 1)].count = runs[Step(read, i - 1)].count,
           i = 1 => remaining' = remaining /\ (Retiring' <=> Retiring)
    PROVE  UnreadWords'[i] = UnreadWords[i]
<1> DEFINE p == Step(read, i - 1)
<1>1. p = read <=> i = 1
  BY UnreadPlaces
<1>2. UnreadWords[i] = IF i = 1 /\ Retiring THEN <<>>
                       ELSE WordsIn(ring[p], IF p = read /\ remaining > 0 THEN remaining
                                             ELSE runs[p].count)
  BY WordsNow
<1>3. UnreadWords'[i] = IF i = 1 /\ Retiring' THEN <<>>
                        ELSE WordsIn(ring'[p], IF p = read /\ remaining' > 0 THEN remaining'
                                               ELSE runs'[p].count)
  BY WordsNext
<1> HIDE DEF p
<1>4. ring'[p] = ring[p] /\ runs'[p].count = runs[p].count
  BY DEF p
<1> QED BY <1>1, <1>2, <1>3, <1>4, Zenon

\* A step that leaves the commands alone leaves the stream alone.
LEMMA StillUnread ==
    ASSUME TypeInv, RingStill PROVE Unread' = Unread
<1> DEFINE N == Distance(write)
<1>1. N \in Nat /\ Distance(write)' = N /\ read' = read
  BY UnreadPlaces DEF RingStill, Distance
<1>2. ASSUME NEW i \in 1 .. N PROVE UnreadWords'[i] = UnreadWords[i]
  <2>1. Step(read, i - 1) \in Position
    BY UnreadPlaces
  <2>2. /\ ring'[Step(read, i - 1)] = ring[Step(read, i - 1)]
        /\ runs'[Step(read, i - 1)].count = runs[Step(read, i - 1)].count
        /\ remaining' = remaining /\ (Retiring' <=> Retiring)
    BY <2>1 DEF RingStill
  <2> QED BY <1>1, <2>2, PlaceStays
<1> HIDE DEF N
<1>3. Joined(UnreadWords', N)[N] = Joined(UnreadWords, N)[N]
  <2>1. N <= N
    BY <1>1
  <2> QED BY <1>1, <1>2, <2>1, JoinedOfPrefix
<1> QED BY <1>1, <1>3, UnreadNext DEF N, Unread

\* A reservation that joins the open run is a point behind everything else.
LEMMA ExtendedUnread ==
    ASSUME TypeInv, RunInv, QueueMtvuPath1Reservation, CanExtend
    PROVE  Unread' = Unread \o <<"path1">> /\ Issued' = Issued + 1 /\ consumed' = consumed
<1> DEFINE N == Distance(write)
           n == runs[openRun].count
<1>1. /\ RingTypes /\ read \in Position
      /\ runs \in [Position -> [count : 0 .. MaxRun, open : BOOLEAN]]
      /\ MaxRun \in Nat /\ remaining \in Nat
  BY MailboxAssumption DEF TypeInv, TypeOK, RingTypes
<1>2. /\ N \in Nat /\ Distance(write)' = N /\ read' = read /\ ring' = ring
      /\ remaining' = remaining /\ (Retiring' <=> Retiring) /\ consumed' = consumed
      /\ runs' = [runs EXCEPT ![openRun].count = @ + 1]
  <2>1. N \in Nat
    BY UnreadPlaces
  <2>2. /\ UNCHANGED <<read, write, ring, remaining, gpc, consumed>>
        /\ runs' = [runs EXCEPT ![openRun].count = @ + 1]
    BY DEF QueueMtvuPath1Reservation
  <2> QED BY <2>1, <2>2 DEF Distance, Retiring
<1>3. /\ openRun \in Unpassed /\ Distance(openRun) + 1 = N
      /\ ring[openRun] = "path1" /\ ~Claimed(openRun)
  BY DEF CanExtend, RunInv, OpenRunIsLast
<1>4. openRun \in Position /\ Distance(openRun) \in Nat /\ n \in Nat
  <2>1. openRun \in Position
    BY <1>3 DEF Unpassed
  <2>2. Distance(openRun) \in Nat
    BY <1>1, <2>1, DistanceIsTyped DEF Position
  <2> QED BY <1>1, <2>1, <2>2
<1>5. runs'[openRun].count = n + 1 /\ \A p \in Position : p # openRun => runs'[p] = runs[p]
  BY <1>1, <1>2, <1>4
<1>6. N > 0 /\ N \in 1 .. N /\ Distance(openRun) = N - 1
  BY <1>2, <1>3, <1>4
<1>7. Step(read, N - 1) = openRun
  <2>1. Step(read, N - 1) \in Position /\ Distance(Step(read, N - 1)) = N - 1
    BY <1>6, UnreadPlaces
  <2> QED BY <1>1, <1>4, <1>6, <2>1, DistanceIsTyped
<1>8. /\ ~(openRun = read /\ remaining > 0) /\ ~(openRun = read /\ Retiring)
      /\ (openRun = read <=> N = 1)
  <2>1. openRun = read <=> N = 1
    BY <1>6, <1>7, UnreadPlaces
  <2> QED BY <1>3, <2>1 DEF Claimed
<1>9. UnreadWords[N] = Path(n)
  <2>1. UnreadWords[N] = WordsIn(ring[openRun], n)
    BY <1>6, <1>7, <1>8, WordsNow
  <2> QED BY <1>3, <2>1 DEF WordsIn
<1>10. UnreadWords'[N] = Path(n + 1)
  <2>1. UnreadWords'[N] = WordsIn(ring[openRun], n + 1)
    BY <1>2, <1>5, <1>6, <1>7, <1>8, WordsNext
  <2> QED BY <1>3, <2>1 DEF WordsIn
<1>11. Path(n + 1) = Path(n) \o <<"path1">> /\ <<"path1">> \in Seq(StreamCommand)
  <2>1. Path(1) = <<"path1">> /\ Path(1) \in Seq(StreamCommand)
    BY PathIsTyped
  <2> QED BY <1>4, <2>1, PathIsSum
<1>12. ASSUME NEW i \in 1 .. N - 1 PROVE UnreadWords'[i] = UnreadWords[i]
  <2>1. i \in 1 .. N
    BY <1>2
  <2>2. Step(read, i - 1) \in Position /\ Distance(Step(read, i - 1)) = i - 1
    BY <2>1, UnreadPlaces
  <2>3. i - 1 # N - 1
    BY <1>2
  <2>4. Step(read, i - 1) # openRun
    BY <1>6, <2>2, <2>3
  <2>5. runs'[Step(read, i - 1)].count = runs[Step(read, i - 1)].count
    BY <1>5, <2>2, <2>4
  <2> QED BY <1>2, <2>1, <2>5, PlaceStays
<1>13. \A i \in 1 .. N : UnreadWords[i] \in Seq(StreamCommand)
  BY UnreadPlaces
<1> HIDE DEF N
<1>14. Joined(UnreadWords', N)[N] = Joined(UnreadWords, N)[N] \o <<"path1">>
  <2>1. UnreadWords'[N] = UnreadWords[N] \o <<"path1">>
    BY <1>9, <1>10, <1>11
  <2>2. \A i \in 1 .. N - 1 : UnreadWords'[i] = UnreadWords[i]
    BY <1>12
  <2>3. N \in Nat /\ N > 0 /\ <<"path1">> \in Seq(StreamCommand)
    BY <1>2, <1>6, <1>11
  <2> QED BY <1>13, <2>1, <2>2, <2>3, JoinedLast, Zenon
<1>15. Issued' = Issued + 1
  <2>1. epc = "reserve" /\ call = "exec" /\ epc' = "kickVu" /\ call' = call
        /\ dispatched' = dispatched /\ dispatched \in Int
    BY DEF QueueMtvuPath1Reservation, Goto, RunInv, ReservationIsOnItsWay, TypeInv, TypeOK,
           CountTypes
  <2> QED BY <2>1 DEF Issued
<1> QED BY <1>2, <1>14, <1>15, UnreadNext DEF N, Unread

\* FinishSimplePacket() and SendDataPacket() put one command behind all others.
LEMMA WrittenUnread ==
    ASSUME TypeInv, FrameInv, RunInv, WriteCommand
    PROVE  \E c \in StreamCommand :
               /\ Unread' = Unread \o <<c>> /\ consumed' = consumed
               /\ Issued' = IF c = "path1" THEN Issued + 1 ELSE Issued
<1> DEFINE N == Distance(write)
           n == SizeOf(call)
           M == Distance(write)'
           cmd == CASE call = "exec" -> "path1" [] call = "vsync" -> "vsync"
                    [] OTHER -> "gs"
<1>1. /\ RingTypes /\ read \in Position /\ write \in Position /\ RingSize \in Nat
      /\ runs \in [Position -> [count : 0 .. MaxRun, open : BOOLEAN]] /\ remaining \in Nat
  BY MailboxAssumption DEF TypeInv, TypeOK, RingTypes
<1>2. N \in Nat /\ N < RingSize /\ n \in Nat /\ n > 0
  BY UnreadPlaces, SizeIsPositive
<1>3. N + n < RingSize
  <2>1. RingSize - N > n
    BY <1>1, RoomIsDistance DEF FrameInv, RoomIsLeft, WriteCommand
  <2> HIDE DEF n, N
  <2> QED BY <1>1, <1>2, <2>1
<1>4. /\ M = N + n
      /\ \A p \in Unpassed : ring'[p] = ring[p]
      /\ \A i \in 1 .. n - 1 : ring'[Step(write, i)] = "payload"
  BY WrittenPacket DEF FrameInv
<1>5. /\ UNCHANGED <<read, remaining, gpc, consumed>> /\ (Retiring' <=> Retiring)
      /\ ring'[write] = cmd
      /\ \A p \in Position : p # write => runs'[p] = runs[p]
      /\ call = "exec" => runs'[write].count = 1
  <2>1. /\ UNCHANGED <<read, remaining, gpc, consumed>>
        /\ ring'[write] = cmd
    BY <1>1 DEF WriteCommand
  <2>2. /\ \A p \in Position : p # write => runs'[p] = runs[p]
        /\ call = "exec" => runs'[write].count = 1
    BY <1>1 DEF WriteCommand
  <2> QED BY <2>1, <2>2 DEF Retiring
<1>6. ASSUME NEW i \in 0 .. n - 1
      PROVE  Step(read, N + i) = Step(write, i) /\ Step(read, N) = write
  <2>1. Distance(read) = 0 /\ Distance(Step(write, 0)) = N /\ Step(write, 0) = write
    <3>1. Distance(read) = 0 /\ Step(write, 0) = write
      BY <1>1, <1>2, DistanceIsTyped, StepIsSum DEF Position
    <3> QED BY <3>1
  <2>2. /\ N + i \in Nat /\ i \in Nat /\ N + i < RingSize /\ 0 + (N + i) = N + i
        /\ 0 + N = N
    <3> HIDE DEF N, n
    <3> QED BY <1>1, <1>2, <1>3
  <2>3. Step(read, N + i) \in Position /\ Distance(Step(read, N + i)) = N + i
    BY <1>1, <2>1, <2>2, StepIsFurther
  <2>4. Step(read, N) \in Position /\ Distance(Step(read, N)) = N
    BY <1>1, <1>2, <2>1, <2>2, StepIsFurther
  <2>5. Step(write, i) \in Position /\ Distance(Step(write, i)) = N + i
    BY <1>1, <2>2, StepIsFurther
  <2> QED BY <1>1, <2>3, <2>4, <2>5, DistanceIsTyped
<1>7. Step(read, N) = write
  <2>1. 0 \in 0 .. n - 1
    BY <1>2
  <2> QED BY <1>6, <2>1
<1>8. ASSUME NEW i \in 1 .. N PROVE UnreadWords'[i] = UnreadWords[i]
  <2>1. Step(read, i - 1) \in Unpassed /\ Step(read, i - 1) \in Position
        /\ Step(read, i - 1) # write
    BY <1>1, UnreadPlaces DEF Unpassed
  <2>2. i \in 1 .. M
    <3> HIDE DEF N, n, M
    <3> QED BY <1>2, <1>4
  <2>3. /\ ring'[Step(read, i - 1)] = ring[Step(read, i - 1)]
        /\ runs'[Step(read, i - 1)].count = runs[Step(read, i - 1)].count
    BY <1>4, <1>5, <2>1
  <2> QED BY <1>5, <2>2, <2>3, PlaceStays
<1>9. UnreadWords'[N + 1] = <<cmd>>
  <2>1. N + 1 \in 1 .. M /\ (N + 1) - 1 = N
    <3> HIDE DEF N, n, M
    <3> QED BY <1>2, <1>4
  <2>2. (N + 1 = 1 => read = write) /\ (write = read => N = 0)
    BY <1>1, <1>2, DistanceIsTyped
  <2>3. ~(N + 1 = 1 /\ Retiring) /\ ~(write = read /\ remaining > 0)
    BY <2>2 DEF FrameInv, WorkerIsAtCommand, RunInv, RemainderIsAtHead, Retiring
  <2>4. UnreadWords'[N + 1] = WordsIn(cmd, runs'[write].count)
    <3>1. UnreadWords'[N + 1] =
             IF N + 1 = 1 /\ Retiring' THEN <<>>
             ELSE WordsIn(ring'[Step(read', (N + 1) - 1)],
                          IF Step(read', (N + 1) - 1) = read' /\ remaining' > 0 THEN remaining'
                          ELSE runs'[Step(read', (N + 1) - 1)].count)
      BY <2>1, WordsNext
    <3> HIDE DEF N, cmd
    <3>2. Step(read', (N + 1) - 1) = write
      BY <1>5, <1>7, <2>1
    <3> QED BY <1>5, <2>3, <3>1, <3>2, Zenon
  <2>5. CASE call = "exec"
    <3>1. cmd = "path1" /\ runs'[write].count = 1
      BY <1>5, <2>5
    <3>2. Path(1) = <<"path1">>
      BY PathIsTyped
    <3> QED BY <2>4, <3>1, <3>2 DEF WordsIn
  <2>6. CASE call # "exec"
    <3>1. cmd = "gs" \/ cmd = "vsync"
      BY <2>6
    <3> HIDE DEF cmd
    <3> QED BY <2>4, <3>1 DEF WordsIn
  <2> QED BY <2>5, <2>6
<1>10. ASSUME NEW i \in N + 2 .. M PROVE UnreadWords'[i] = <<>>
  <2> DEFINE j == i - 1 - N
  <2>1. i \in 1 .. M /\ i # 1 /\ j \in 1 .. n - 1 /\ j \in 0 .. n - 1 /\ N + j = i - 1
    <3> HIDE DEF N, n, M
    <3> QED BY <1>2, <1>4
  <2> HIDE DEF j
  <2>2. Step(read', i - 1) = Step(write, j)
    BY <1>5, <1>6, <2>1
  <2>3. ring'[Step(read', i - 1)] = "payload"
    BY <1>4, <2>1, <2>2
  <2> QED BY <2>1, <2>3, WordsNext DEF WordsIn
<1>11. cmd \in StreamCommand
  BY DEF StreamCommand
<1>12. Issued' = IF cmd = "path1" THEN Issued + 1 ELSE Issued
  <2>1. epc = "write" /\ dispatched' = dispatched /\ dispatched \in Int
        /\ (call' = call \/ call' = "none")
    BY DEF WriteCommand, Goto, TypeInv, TypeOK, CountTypes
  <2>2. CASE call = "exec"
    <3>1. epc' = "kickVu" /\ call' = call
      BY <2>2 DEF WriteCommand, Goto
    <3> QED BY <2>1, <2>2, <3>1 DEF Issued
  <2>3. CASE call # "exec"
    BY <2>1, <2>3 DEF Issued
  <2> QED BY <2>2, <2>3
<1>13. \A i \in 1 .. N : UnreadWords[i] \in Seq(StreamCommand)
  BY UnreadPlaces
<1> HIDE DEF N, n, M, cmd
<1>14. Joined(UnreadWords', M)[M] = Joined(UnreadWords, N)[N] \o <<cmd>>
  <2> DEFINE f == Joined(UnreadWords', M)
  <2>1. /\ M \in Nat /\ N + 1 \in 0 .. M /\ N + 1 \in 1 .. M /\ N \in 0 .. M /\ (N + 1) - 1 = N
        /\ (N + 1) + 1 = N + 2 /\ N <= M /\ N <= N
    BY <1>2, <1>4
  <2>2. \A i \in 1 .. M : UnreadWords'[i] \in Seq(StreamCommand)
    <3> TAKE i \in 1 .. M
    <3>1. i \in 1 .. N \/ i = N + 1 \/ i \in N + 2 .. M
      BY <1>2, <1>4
    <3>2. <<cmd>> \in Seq(StreamCommand) /\ <<>> \in Seq(StreamCommand)
      BY <1>11
    <3> QED BY <1>8, <1>9, <1>10, <1>13, <3>1, <3>2
  <2>3. f[M] = f[N + 1]
    <3>1. \A i \in (N + 1) + 1 .. M : UnreadWords'[i] = <<>>
      BY <1>10, <2>1
    <3> QED BY <2>1, <2>2, <3>1, JoinedEnd
  <2>4. f[N + 1] = f[N] \o <<cmd>>
    <3>1. f[N + 1] = f[(N + 1) - 1] \o UnreadWords'[N + 1]
      BY <2>1, JoinedLoop
    <3> HIDE DEF f
    <3> QED BY <1>9, <2>1, <3>1
  <2>5. f[N] = Joined(UnreadWords, N)[N]
    BY <1>2, <1>8, <2>1, JoinedOfPrefix
  <2> QED BY <2>3, <2>4, <2>5
<1>15. Unread' = Unread \o <<cmd>>
  BY <1>14, UnreadNext DEF M, N, Unread
<1> QED BY <1>5, <1>11, <1>12, <1>15

\* A command at the head is the first of the stream.
LEMMA HandledUnread ==
    ASSUME TypeInv, HandleCommand
    PROVE  /\ \/ Unread' = Unread
              \/ \E c \in StreamCommand \ {"path1"} : Unread = <<c>> \o Unread'
           /\ Unread' \in Seq(StreamCommand)
           /\ Issued' = Issued /\ consumed' = consumed
<1> DEFINE N == Distance(write)
           c == ring[read]
<1>1. /\ RingTypes /\ read \in Position /\ write \in Position
      /\ c \in {"gs", "vsync", "path1", "payload"}
  BY DEF TypeInv, TypeOK, RingTypes
<1>2. /\ c # "path1" /\ read # write /\ gpc = "head" /\ Retiring' /\ ~Retiring
      /\ UNCHANGED <<ring, read, write, runs, remaining, consumed, call, epc, dispatched>>
  BY DEF HandleCommand, GsStays, Retiring
<1>3. N \in Nat /\ N > 0 /\ N' = N /\ 1 \in 1 .. N
  <2>1. N \in Nat /\ N' = N
    BY <1>2, UnreadPlaces DEF Distance
  <2>2. N # 0
    BY <1>1, <1>2, DistanceIsTyped
  <2> QED BY <2>1, <2>2
<1>4. UnreadWords'[1] = <<>>
  BY <1>2, <1>3, WordsNext
<1>5. UnreadWords[1] = IF c = "payload" THEN <<>> ELSE <<c>>
  <2>1. Step(read, 1 - 1) = read
    BY <1>3, UnreadPlaces
  <2>2. UnreadWords[1] = WordsIn(c, IF read = read /\ remaining > 0 THEN remaining
                                    ELSE runs[read].count)
    BY <1>2, <1>3, <2>1, WordsNow
  <2> QED BY <1>2, <2>2 DEF WordsIn
<1>6. ASSUME NEW i \in 2 .. N PROVE UnreadWords[i] = UnreadWords'[i]
  <2>1. i \in 1 .. N /\ i # 1
    BY <1>3
  <2> QED BY <1>2, <1>3, <2>1, PlaceStays
<1>7. \A i \in 1 .. N : UnreadWords'[i] \in Seq(StreamCommand)
  <2> TAKE i \in 1 .. N
  <2>1. UnreadWords[i] \in Seq(StreamCommand) /\ <<>> \in Seq(StreamCommand)
    BY UnreadPlaces
  <2>2. i = 1 \/ i \in 2 .. N
    BY <1>3
  <2> QED BY <1>4, <1>6, <2>1, <2>2
<1> HIDE DEF N
<1> DEFINE x == UnreadWords[1]
<1>8. Joined(UnreadWords, N)[N] = x \o Joined(UnreadWords', N)[N]
      /\ Joined(UnreadWords', N)[N] \in Seq(StreamCommand)
  <2>1. x \in Seq(StreamCommand)
    BY <1>3, UnreadPlaces DEF N
  <2>2. x = x \o UnreadWords'[1]
    BY <1>4, <2>1, ConcatEmptySeq
  <2>3. \A i \in 2 .. N : UnreadWords[i] = UnreadWords'[i]
    BY <1>6
  <2>4. N \in Nat /\ N > 0 /\ N \in 0 .. N
    BY <1>3
  <2>5. Joined(UnreadWords, N)[N] = x \o Joined(UnreadWords', N)[N]
    <3>1. FrontOf(UnreadWords, UnreadWords', x, N)
      BY <1>7, <2>1, <2>2, <2>3, <2>4, Zenon DEF FrontOf
    <3> HIDE DEF x
    <3> QED BY <3>1, JoinedFront, SMT
  <2>6. Joined(UnreadWords', N)[N] \in Seq(StreamCommand)
    BY <1>7, <2>4, JoinedIsTyped
  <2> QED BY <2>5, <2>6
<1>9. Unread = x \o Unread' /\ Unread' \in Seq(StreamCommand)
  BY <1>3, <1>8, UnreadNext DEF N, Unread
<1>10. Issued' = Issued
  BY <1>2 DEF Issued
<1>11. CASE c = "payload"
  <2>1. x = <<>>
    BY <1>5, <1>11
  <2>2. \A u \in Seq(StreamCommand) : <<>> \o u = u
    BY ConcatEmptySeq
  <2> QED BY <1>2, <1>9, <1>10, <2>1, <2>2, Zenon
<1>12. CASE c # "payload"
  <2>1. x = <<c>> /\ c \in StreamCommand \ {"path1"}
    BY <1>1, <1>2, <1>5, <1>12 DEF StreamCommand
  <2> QED BY <1>2, <1>9, <1>10, <2>1, Zenon
<1> QED BY <1>11, <1>12

\* A completion is shown from the head of the stream.
LEMMA ConsumedUnread ==
    ASSUME TypeInv, FrameInv, RunInv, ChainInv, ConsumePath1
    PROVE  /\ Unread = Path(Shown) \o Unread' /\ Unread' \in Seq(StreamCommand)
           /\ Shown \in Nat /\ Shown > 0 /\ consumed' = consumed + Shown /\ Issued' = Issued
<1> DEFINE N == Distance(write)
           x == Path(Shown)
<1>1. /\ RingTypes /\ read \in Position /\ write \in Position /\ remaining \in Nat
      /\ runs \in [Position -> [count : 0 .. MaxRun, open : BOOLEAN]]
  BY MailboxAssumption DEF TypeInv, TypeOK, RingTypes
<1>2. /\ Left \in Nat /\ Left > 0 /\ Shown \in Nat /\ Shown > 0 /\ Shown <= Left
      /\ Left = (IF remaining > 0 THEN remaining ELSE runs[read].count)
      /\ remaining' = Left - Shown
      /\ gpc' = (IF Left = Shown THEN "advance" ELSE "head")
      /\ gpc = "take" /\ read # write /\ ring[read] = "path1"
  BY ConsumedRun
<1>3. UNCHANGED <<ring, read, write, call, epc, dispatched>> /\ ~Retiring
  BY DEF ConsumePath1, GsStays, Retiring
<1>4. \A p \in Position : p # read => runs'[p] = runs[p]
  <2>1. runs' = IF remaining > 0 THEN runs ELSE [runs EXCEPT ![read] = NoRun]
    BY DEF ConsumePath1
  <2> QED BY <1>1, <2>1
<1>5. N \in Nat /\ N > 0 /\ N' = N /\ 1 \in 1 .. N /\ N \in 0 .. N
  <2>1. N \in Nat /\ N' = N
    BY <1>3, UnreadPlaces DEF Distance
  <2>2. N # 0
    BY <1>1, <1>2, DistanceIsTyped
  <2> QED BY <2>1, <2>2
<1>6. Step(read, 1 - 1) = read
  BY <1>5, UnreadPlaces
<1>7. UnreadWords[1] = Path(Left)
  <2>1. UnreadWords[1] = WordsIn(ring[read], Left)
    <3>1. UnreadWords[1] = WordsIn(ring[read], IF read = read /\ remaining > 0 THEN remaining
                                               ELSE runs[read].count)
      BY <1>3, <1>5, <1>6, WordsNow
    <3> QED BY <1>2, <3>1
  <2> QED BY <1>2, <2>1 DEF WordsIn
<1>8. UnreadWords'[1] = Path(Left - Shown)
  <2>1. CASE Left = Shown
    <3>1. Retiring' /\ Left - Shown = 0
      BY <1>2, <2>1 DEF Retiring
    <3>2. UnreadWords'[1] = <<>>
      BY <1>5, <3>1, WordsNext
    <3>3. Path(0) = <<>>
      BY PathIsTyped
    <3> QED BY <3>1, <3>2, <3>3
  <2>2. CASE Left # Shown
    <3>1. ~Retiring' /\ remaining' > 0
      BY <1>2, <2>2 DEF Retiring
    <3>2. UnreadWords'[1] = WordsIn(ring[read], remaining')
      BY <1>3, <1>5, <1>6, <3>1, WordsNext
    <3> QED BY <1>2, <3>2 DEF WordsIn
  <2> QED BY <2>1, <2>2
<1>9. UnreadWords[1] = x \o UnreadWords'[1]
  <2>1. Left - Shown \in Nat /\ Shown + (Left - Shown) = Left
    BY <1>2
  <2>2. Path(Shown + (Left - Shown)) = Path(Shown) \o Path(Left - Shown)
    BY <1>2, <2>1, PathIsSum
  <2> QED BY <1>7, <1>8, <2>1, <2>2
<1>10. ASSUME NEW i \in 2 .. N PROVE UnreadWords[i] = UnreadWords'[i]
  <2>1. i \in 1 .. N /\ i # 1
    BY <1>5
  <2>2. Step(read, i - 1) \in Position /\ Step(read, i - 1) # read
    BY <2>1, UnreadPlaces
  <2> QED BY <1>3, <1>4, <1>5, <2>1, <2>2, PlaceStays
<1>11. \A i \in 1 .. N : UnreadWords'[i] \in Seq(StreamCommand)
  <2> TAKE i \in 1 .. N
  <2>1. UnreadWords[i] \in Seq(StreamCommand)
    BY UnreadPlaces
  <2>2. Path(Left - Shown) \in Seq(StreamCommand)
    <3>1. Left - Shown \in Nat
      BY <1>2
    <3> QED BY <3>1, PathIsTyped
  <2>3. i = 1 \/ i \in 2 .. N
    BY <1>5
  <2> QED BY <1>8, <1>10, <2>1, <2>2, <2>3
<1> HIDE DEF N
<1>12. x \in Seq(StreamCommand)
  BY <1>2, PathIsTyped
<1> HIDE DEF x
<1>13. /\ Joined(UnreadWords, N)[N] = x \o Joined(UnreadWords', N)[N]
       /\ Joined(UnreadWords', N)[N] \in Seq(StreamCommand)
  <2>1. \A i \in 2 .. N : UnreadWords[i] = UnreadWords'[i]
    BY <1>10
  <2>2. FrontOf(UnreadWords, UnreadWords', x, N)
    BY <1>5, <1>9, <1>11, <1>12, <2>1, Zenon DEF FrontOf
  <2>3. Joined(UnreadWords, N)[N] = x \o Joined(UnreadWords', N)[N]
    BY <2>2, JoinedFront, SMT
  <2>4. Joined(UnreadWords', N)[N] \in Seq(StreamCommand)
    BY <1>5, <1>11, JoinedIsTyped
  <2> QED BY <2>3, <2>4
<1>14. Unread = x \o Unread' /\ Unread' \in Seq(StreamCommand)
  BY <1>5, <1>13, UnreadNext DEF N, Unread
<1>15. Issued' = Issued
  BY <1>3 DEF Issued
<1>16. consumed' = consumed + Shown
  BY ConsumedChain
<1> QED BY <1>2, <1>14, <1>15, <1>16 DEF x

\* s_read_pos moves over words that have been shown.
LEMMA PassedUnread ==
    ASSUME TypeInv, FrameInv, RunInv, Advance
    PROVE  Unread' = Unread /\ Issued' = Issued /\ consumed' = consumed
<1> DEFINE N == Distance(write)
<1>1. /\ RingTypes /\ read \in Position /\ write \in Position /\ remaining \in Nat
      /\ RingSize \in Nat
  BY MailboxAssumption DEF TypeInv, TypeOK, RingTypes
<1>2. /\ gpc = "advance" /\ Retiring /\ ~Retiring'
      /\ UNCHANGED <<ring, write, runs, remaining, consumed, call, epc, dispatched>>
      /\ read' = Step(read, SizeOf(ring[read]))
  BY DEF Advance, GsStays, Retiring
<1>3. remaining = 0
  BY <1>1, <1>2 DEF RunInv, RemainderIsAtHead
<1>4. PICK n \in Nat :
           /\ n = SizeOf(ring[read])
           /\ n > 0 /\ n <= N /\ N' = N - n
           /\ \A p \in Unpassed : ring[p] # "payload" => p = read \/ n <= Distance(p)
  BY PassedPacket DEF FrameInv
<1>5. N \in Nat /\ N < RingSize /\ read' = Step(read, n) /\ Distance(read) = 0
  BY <1>1, <1>2, <1>4, UnreadPlaces, DistanceIsTyped
<1>6. ASSUME NEW i \in 1 .. n PROVE UnreadWords[i] = <<>>
  <2>1. i \in 1 .. N
    <3> HIDE DEF N
    <3> QED BY <1>4, <1>5
  <2>2. CASE i = 1
    BY <1>2, <2>1, <2>2, WordsNow
  <2>3. CASE i # 1
    <3>1. /\ Step(read, i - 1) \in Unpassed /\ Step(read, i - 1) # read
          /\ Distance(Step(read, i - 1)) = i - 1
      BY <2>1, <2>3, UnreadPlaces
    <3>2. ~(n <= i - 1)
      OBVIOUS
    <3>3. ring[Step(read, i - 1)] = "payload"
      BY <1>4, <3>1, <3>2
    <3> QED BY <2>1, <2>3, <3>3, WordsNow DEF WordsIn
  <2> QED BY <2>2, <2>3
<1>7. ASSUME NEW i \in 1 .. N - n PROVE UnreadWords'[i] = UnreadWords[n + i]
  <2> DEFINE j == n + i
             p == Step(read, j - 1)
  <2>1. /\ j \in 1 .. N /\ j # 1 /\ i \in 1 .. N' /\ n < RingSize
        /\ i - 1 \in Nat /\ n + (i - 1) < RingSize /\ n + (i - 1) = j - 1 /\ 0 + n = n
        /\ 0 + n < RingSize
    <3>1. N - n = N'
      BY <1>4
    <3> HIDE DEF N
    <3> QED BY <1>1, <1>4, <1>5, <3>1
  <2> HIDE DEF j
  <2>2. p \in Position /\ Distance(p) = j - 1
    BY <2>1, UnreadPlaces
  <2>3. read' \in Position /\ Distance(Step(read, n)) = n /\ Step(read, n) \in Position
    BY <1>1, <1>5, <2>1, StepIsFurther
  <2>4. Step(read', i - 1) \in Position /\ Distance(Step(Step(read, n), i - 1)) = j - 1
    BY <1>1, <1>5, <2>1, <2>3, StepIsFurther
  <2>5. Step(read', i - 1) = p
    BY <1>1, <1>5, <2>2, <2>4, DistanceIsTyped
  <2>6. UnreadWords[j] = WordsIn(ring[p], runs[p].count)
    BY <1>3, <2>1, WordsNow
  <2>7. UnreadWords'[i] = WordsIn(ring[p], runs[p].count)
    <3>1. UnreadWords'[i] =
             IF i = 1 /\ Retiring' THEN <<>>
             ELSE WordsIn(ring'[Step(read', i - 1)],
                          IF Step(read', i - 1) = read' /\ remaining' > 0 THEN remaining'
                          ELSE runs'[Step(read', i - 1)].count)
      BY <2>1, WordsNext
    <3>2. ~(remaining' > 0)
      BY <1>2, <1>3
    <3> HIDE DEF p
    <3> QED BY <1>2, <2>5, <3>1, <3>2, Zenon
  <2> QED BY <2>6, <2>7 DEF j
<1>8. \A i \in 1 .. N : UnreadWords[i] \in Seq(StreamCommand)
  BY UnreadPlaces
<1>9. N' = N - n
  BY <1>4
<1> HIDE DEF N
<1>10. Joined(UnreadWords, N)[N] = Joined(UnreadWords', N - n)[N - n]
  <2>1. n \in 0 .. N
    BY <1>4, <1>5
  <2>2. ShiftOf(UnreadWords, UnreadWords', n, N)
    BY <1>5, <1>6, <1>7, <1>8, <2>1 DEF ShiftOf
  <2> QED BY <2>2, JoinedShift, SMT
<1>11. Unread' = Unread
  BY <1>9, <1>10, UnreadNext DEF N, Unread
<1>12. Issued' = Issued
  BY <1>2 DEF Issued
<1> QED BY <1>2, <1>11, <1>12

\* A restart finds nothing unread.
LEMMA StartedUnread ==
    ASSUME TypeInv, FrameInv, RunInv, StartThread
    PROVE  Unread' = Unread /\ Issued' = Issued /\ consumed' = consumed
<1>1. /\ epc = "dead" /\ epc' = "closed" /\ call' = "none" /\ consumed' = consumed
      /\ dispatched' = dispatched /\ read' = 0 /\ write' = 0
  BY DEF StartThread, Goto
<1>2. read = write /\ read \in Position /\ read \in Int
  BY <1>1 DEF FrameInv, EmptyAtRest, TypeInv, TypeOK, RingTypes, Position
<1>3. Distance(write) = 0 /\ Distance(write)' = 0
  BY <1>1, <1>2 DEF Distance
<1>4. Joined(UnreadWords, 0)[0] = <<>> /\ Joined(UnreadWords', 0)[0] = <<>>
  BY JoinedLoop
<1>5. Unread = <<>> /\ Unread' = <<>>
  BY <1>3, <1>4, UnreadNext DEF Unread
<1>6. call # "exec"
  BY <1>1 DEF RunInv, ReservationIsOnItsWay, Writing
<1> QED BY <1>1, <1>5, <1>6 DEF Issued

-----------------------------------------------------------------------------
(* The refinement and the barrier *)

\* Sequences with one command, or a part, taken off the front
LEMMA WithoutFront ==
    ASSUME NEW x \in Seq(StreamCommand), NEW t \in Seq(StreamCommand)
    PROVE  /\ x \o t \in Seq(StreamCommand) /\ Len(x \o t) = Len(x) + Len(t)
           /\ \A i \in 1 .. Len(x) : (x \o t)[i] = x[i]
           /\ t = SubSeq(x \o t, Len(x) + 1, Len(x \o t))
<1> DEFINE e == x \o t
           a == Len(x)
           b == Len(t)
           d == SubSeq(e, a + 1, a + b)
<1>1. /\ e \in Seq(StreamCommand) /\ Len(e) = a + b /\ a \in Nat /\ b \in Nat
      /\ \A i \in 1 .. a + b : e[i] = IF i <= a THEN x[i] ELSE t[i - a]
  BY ConcatProperties, LenProperties
<1> HIDE DEF e, a, b
<1>2. \A i \in 1 .. a : e[i] = x[i]
  BY <1>1
<1>3. d \in Seq(StreamCommand) /\ Len(d) = b /\ \A i \in 1 .. b : d[i] = e[a + i]
  BY <1>1
<1>4. \A i \in 1 .. b : e[a + i] = t[i]
  <2> TAKE i \in 1 .. b
  <2>1. a + i \in 1 .. a + b /\ ~(a + i <= a) /\ (a + i) - a = i
    BY <1>1
  <2> QED BY <1>1, <2>1
<1> HIDE DEF d
<1>5. t = d
  BY <1>3, <1>4, SeqEqual DEF b
<1> QED BY <1>1, <1>2, <1>5 DEF a, b, d, e

\* Every step of the mailbox is a step of the stream, or none.
LEMMA StreamSteps ==
    ASSUME WakeInv, TypeInv, FrameInv, RunInv, ChainInv, Next
    PROVE  Stream!Next \/ UNCHANGED <<Unread, Issued, consumed>>
<1>0. Unread \in Seq(StreamCommand)
  BY UnreadIsTyped
<1>1. CASE RingStill
  BY <1>1, StillUnread DEF RingStill
<1>2. CASE (QueueMtvuPath1Reservation /\ CanExtend) \/ WriteCommand
  <2>1. \E c \in StreamCommand :
            /\ Unread' = Unread \o <<c>> /\ consumed' = consumed
            /\ Issued' = IF c = "path1" THEN Issued + 1 ELSE Issued
    <3>1. CASE QueueMtvuPath1Reservation /\ CanExtend
      BY <3>1, ExtendedUnread DEF StreamCommand
    <3>2. CASE WriteCommand
      BY <3>2, WrittenUnread
    <3> QED BY <1>2, <3>1, <3>2
  <2>2. PICK c \in StreamCommand :
            /\ Unread' = Unread \o <<c>> /\ consumed' = consumed
            /\ Issued' = IF c = "path1" THEN Issued + 1 ELSE Issued
    BY <2>1
  <2>3. Unread \o <<c>> = Append(Unread, c)
    BY <1>0, AppendIsConcat
  <2>4. Stream!Send(c)
    BY <2>2, <2>3, Zenon DEF Stream!Send
  <2> QED BY <2>4 DEF Stream!Next, Stream!Command, StreamCommand
<1>3. CASE HandleCommand
  <2>1. /\ \/ Unread' = Unread
           \/ \E c \in StreamCommand \ {"path1"} : Unread = <<c>> \o Unread'
        /\ Unread' \in Seq(StreamCommand)
        /\ Issued' = Issued /\ consumed' = consumed
    BY <1>3, HandledUnread
  <2>2. CASE Unread' = Unread
    BY <2>1, <2>2
  <2>3. CASE \E c \in StreamCommand \ {"path1"} : Unread = <<c>> \o Unread'
    <3>1. PICK c \in StreamCommand \ {"path1"} : Unread = <<c>> \o Unread'
      BY <2>3
    <3>2. Len(<<c>>) = 1 /\ <<c>>[1] = c /\ <<c>> \in Seq(StreamCommand)
      OBVIOUS
    <3>3. /\ Len(Unread) = 1 + Len(Unread') /\ Unread[1] = c
          /\ Unread' = SubSeq(Unread, 2, Len(Unread)) /\ Len(Unread') \in Nat
      <4>1. ASSUME NEW x \in Seq(StreamCommand), NEW t \in Seq(StreamCommand), Len(x) = 1
            PROVE  /\ Len(x \o t) = 1 + Len(t) /\ (x \o t)[1] = x[1]
                   /\ t = SubSeq(x \o t, 2, Len(x \o t)) /\ Len(t) \in Nat
        <5>1. Len(x) + 1 = 2 /\ 1 \in 1 .. Len(x)
          BY <4>1
        <5>2. /\ Len(x \o t) = Len(x) + Len(t) /\ \A i \in 1 .. Len(x) : (x \o t)[i] = x[i]
              /\ t = SubSeq(x \o t, Len(x) + 1, Len(x \o t))
          BY WithoutFront
        <5>3. Len(t) \in Nat
          BY LenProperties
        <5> QED BY <4>1, <5>1, <5>2, <5>3, Zenon
      <4> QED BY <2>1, <3>1, <3>2, <4>1, Zenon
    <3>4. Unread # <<>> /\ Head(Unread) = c /\ Tail(Unread) = SubSeq(Unread, 2, Len(Unread))
      BY <1>0, <3>3
    <3>5. Stream!ShowCommand
      BY <2>1, <3>1, <3>3, <3>4 DEF Stream!ShowCommand
    <3> QED BY <3>5 DEF Stream!Next
  <2> QED BY <2>1, <2>2, <2>3
<1>4. CASE ConsumePath1
  <2>1. /\ Unread = Path(Shown) \o Unread' /\ Unread' \in Seq(StreamCommand)
        /\ Shown \in Nat /\ Shown > 0 /\ consumed' = consumed + Shown /\ Issued' = Issued
    BY <1>4, ConsumedUnread
  <2>2. /\ Path(Shown) \in Seq(StreamCommand) /\ Len(Path(Shown)) = Shown
        /\ \A i \in 1 .. Shown : Path(Shown)[i] = "path1"
    BY <2>1, PathIsTyped
  <2>3. /\ Len(Unread) = Shown + Len(Unread')
        /\ \A i \in 1 .. Shown : Unread[i] = "path1"
        /\ Unread' = SubSeq(Unread, Shown + 1, Len(Unread)) /\ Len(Unread') \in Nat
    <3>1. ASSUME NEW x \in Seq(StreamCommand), NEW t \in Seq(StreamCommand), Len(x) = Shown
          PROVE  /\ Len(x \o t) = Shown + Len(t)
                 /\ \A i \in 1 .. Shown : (x \o t)[i] = x[i]
                 /\ t = SubSeq(x \o t, Shown + 1, Len(x \o t)) /\ Len(t) \in Nat
      BY <3>1, WithoutFront, LenProperties
    <3> QED BY <2>1, <2>2, <3>1, Zenon
  <2>4. Shown \in 1 .. Len(Unread)
    BY <2>1, <2>3
  <2>5. Stream!ShowPoints(Shown)
    BY <2>1, <2>3, Zenon DEF Stream!ShowPoints
  <2> QED BY <2>4, <2>5 DEF Stream!Next
<1>5. CASE Advance
  BY <1>5, PassedUnread
<1>6. CASE StartThread
  BY <1>6, StartedUnread
<1> QED BY <1>1, <1>2, <1>3, <1>4, <1>5, <1>6, RingSteps DEF RunInv

\* The points of a stream, counted up from a to z
Numbers(q, a, z, f) ==
    /\ f \in [0 .. Len(q) -> Int] /\ f[0] = a /\ f[Len(q)] = z
    /\ \A i \in 1 .. Len(q) : f[i] = f[i - 1] + (IF q[i] = "path1" THEN 1 ELSE 0)
Numbered(q, a, z) == \E f : Numbers(q, a, z, f)

\* An empty stream has no points,
LEMMA NumberedNothing == ASSUME NEW a \in Int, NEW z \in Int PROVE Numbered(<<>>, a, z) <=> a = z
<1>1. Len(<<>>) = 0
  OBVIOUS
<1>2. ASSUME Numbered(<<>>, a, z) PROVE a = z
  BY <1>1, <1>2 DEF Numbered, Numbers
<1>3. ASSUME a = z PROVE Numbered(<<>>, a, z)
  <2> DEFINE f == [i \in 0 .. 0 |-> a]
  <2>1. f \in [0 .. 0 -> Int] /\ f[0] = a
    OBVIOUS
  <2> HIDE DEF f
  <2>2. Numbers(<<>>, a, z, f)
    BY <1>1, <1>3, <2>1 DEF Numbers
  <2> QED BY <2>2 DEF Numbered
<1> QED BY <1>2, <1>3

\* and a command that is sent adds the next point, or none.
LEMMA NumberedSend ==
    ASSUME NEW q \in Seq(StreamCommand), NEW c \in StreamCommand, NEW a \in Int, NEW z \in Int,
           Numbered(q, a, z)
    PROVE  Numbered(Append(q, c), a, IF c = "path1" THEN z + 1 ELSE z)
<1> DEFINE N == Len(q)
           e == Append(q, c)
           y == IF c = "path1" THEN z + 1 ELSE z
<1>1. N \in Nat /\ Len(e) = N + 1 /\ e[N + 1] = c /\ \A i \in 1 .. N : e[i] = q[i]
  BY AppendProperties, LenProperties
<1>2. PICK f : Numbers(q, a, z, f)
  BY DEF Numbered
<1>3. /\ f \in [0 .. N -> Int] /\ f[0] = a /\ f[N] = z
      /\ \A i \in 1 .. N : f[i] = f[i - 1] + (IF q[i] = "path1" THEN 1 ELSE 0)
  BY <1>2 DEF Numbers
<1> HIDE DEF N, e
<1> DEFINE g == [i \in 0 .. N + 1 |-> IF i <= N THEN f[i] ELSE y]
<1>4. /\ g \in [0 .. N + 1 -> Int] /\ g[N + 1] = y /\ \A i \in 0 .. N : g[i] = f[i]
  BY <1>1, <1>3
<1> HIDE DEF g
<1>5. ASSUME NEW i \in 1 .. N + 1
      PROVE  g[i] = g[i - 1] + (IF e[i] = "path1" THEN 1 ELSE 0)
  <2>1. i \in 1 .. N \/ i = N + 1
    BY <1>1
  <2>2. CASE i \in 1 .. N
    <3>1. i \in 0 .. N /\ i - 1 \in 0 .. N
      BY <1>1, <2>2
    <3> QED BY <1>1, <1>3, <1>4, <2>2, <3>1
  <2>3. CASE i = N + 1
    <3>1. i - 1 = N /\ N \in 0 .. N
      BY <1>1, <2>3
    <3> QED BY <1>1, <1>3, <1>4, <2>3, <3>1
  <2> QED BY <2>1, <2>2, <2>3
<1>6. Numbers(e, a, y, g)
  <2>1. 0 \in 0 .. N
    BY <1>1
  <2> QED BY <1>1, <1>3, <1>4, <1>5, <2>1 DEF Numbers
<1> QED BY <1>6 DEF Numbered, e

\* The numbers go on behind a part that is cut off.
LEMMA NumberedCut ==
    ASSUME NEW q \in Seq(StreamCommand), NEW a \in Int, NEW z \in Int, NEW f, Numbers(q, a, z, f),
           NEW n \in 0 .. Len(q)
    PROVE  Numbered(SubSeq(q, n + 1, Len(q)), f[n], z)
<1> DEFINE N == Len(q)
           e == SubSeq(q, n + 1, N)
           M == N - n
<1>1. N \in Nat /\ M \in Nat /\ Len(e) = M /\ \A i \in 1 .. M : e[i] = q[n + i]
  <2>1. N \in Nat
    BY LenProperties
  <2> QED BY <2>1
<1>2. /\ f \in [0 .. N -> Int] /\ f[N] = z
      /\ \A i \in 1 .. N : f[i] = f[i - 1] + (IF q[i] = "path1" THEN 1 ELSE 0)
  BY DEF Numbers
<1>n. n \in 0 .. N /\ N = n + M
  BY <1>1
<1> HIDE DEF N, e, M
<1> DEFINE g == [i \in 0 .. M |-> f[n + i]]
<1>3. g \in [0 .. M -> Int] /\ g[0] = f[n] /\ g[M] = z /\ \A i \in 0 .. M : g[i] = f[n + i]
  <2>1. \A i \in 0 .. M : n + i \in 0 .. N
    BY <1>1, <1>n
  <2>2. 0 \in 0 .. M /\ M \in 0 .. M /\ n + 0 = n
    BY <1>1, <1>n
  <2> QED BY <1>2, <1>n, <2>1, <2>2
<1> HIDE DEF g
<1>4. ASSUME NEW i \in 1 .. M PROVE g[i] = g[i - 1] + (IF e[i] = "path1" THEN 1 ELSE 0)
  <2>1. /\ n + i \in 1 .. N /\ (n + i) - 1 = n + (i - 1) /\ i \in 0 .. M /\ i - 1 \in 0 .. M
    BY <1>1, <1>n
  <2>2. f[n + i] = f[(n + i) - 1] + (IF q[n + i] = "path1" THEN 1 ELSE 0)
    BY <1>2, <2>1
  <2> QED BY <1>1, <1>3, <2>1, <2>2
<1>5. Numbers(e, f[n], z, g)
  BY <1>1, <1>3, <1>4 DEF Numbers
<1> QED BY <1>5 DEF Numbered, e, N

\* The stream keeps its points numbered.
LEMMA NumbersStay ==
    ASSUME NEW q \in Seq(StreamCommand), NEW a \in Int, NEW z \in Int, Numbered(q, a, z),
           NEW n \in 0 .. Len(q)
    PROVE  /\ (\A i \in 1 .. n : q[i] = "path1")
                  => Numbered(SubSeq(q, n + 1, Len(q)), a + n, z)
           /\ (n = 1 /\ q[1] # "path1") => Numbered(SubSeq(q, n + 1, Len(q)), a, z)
<1>1. PICK f : Numbers(q, a, z, f)
  BY DEF Numbered
<1>2. /\ f \in [0 .. Len(q) -> Int] /\ f[0] = a /\ Len(q) \in Nat
      /\ \A i \in 1 .. Len(q) : f[i] = f[i - 1] + (IF q[i] = "path1" THEN 1 ELSE 0)
  BY <1>1, LenProperties DEF Numbers
<1>3. Numbered(SubSeq(q, n + 1, Len(q)), f[n], z)
  BY <1>1, NumberedCut
<1>4. ASSUME \A i \in 1 .. n : q[i] = "path1" PROVE f[n] = a + n
  <2> DEFINE G == {i \in 0 .. n : f[i] = a + i}
  <2>1. 0 \in G /\ n \in Nat
    BY <1>2
  <2>2. ASSUME NEW i \in 1 .. n, i - 1 \in G PROVE i \in G
    <3>1. i \in 1 .. Len(q) /\ f[i - 1] = a + (i - 1) /\ q[i] = "path1"
      BY <1>2, <1>4, <2>2
    <3> QED BY <1>2, <3>1
  <2>3. \A i \in 0 .. n : i \in G
    <3> HIDE DEF G
    <3> QED BY <2>1, <2>2, Induction
  <2> QED BY <2>1, <2>3
<1>5. ASSUME n = 1, q[1] # "path1" PROVE f[n] = a
  BY <1>2, <1>5
<1> QED BY <1>3, <1>4, <1>5

\* The points not shown are those of the executions not shown.
PointsAreNumbered == Numbered(Unread, consumed, Issued)

\* The mailbox as a stream
StreamInv == RunInv /\ ChainInv /\ PointsAreNumbered

\* No step loses or repeats a point.
LEMMA PointsStayNumbered ==
    ASSUME WakeInv, TypeInv, FrameInv, RunInv, ChainInv, PointsAreNumbered, Next
    PROVE  PointsAreNumbered'
<1> DEFINE q == Unread
<1>1. /\ q \in Seq(StreamCommand) /\ consumed \in Int /\ Issued \in Int
      /\ Numbered(q, consumed, Issued) /\ Len(q) \in Nat
  BY UnreadIsTyped, LenProperties DEF PointsAreNumbered, TypeInv, TypeOK, CountTypes, Issued
<1>2. CASE UNCHANGED <<Unread, Issued, consumed>>
  BY <1>1, <1>2 DEF PointsAreNumbered, Numbered, Numbers
<1>3. SUFFICES Stream!Next => Numbered(Unread', consumed', Issued')
  BY <1>2, StreamSteps DEF PointsAreNumbered, Numbered, Numbers
<1>4. ASSUME NEW c \in Stream!Command, Stream!Send(c)
      PROVE  Numbered(Unread', consumed', Issued')
  <2>1. c \in StreamCommand
    BY DEF StreamCommand, Stream!Command
  <2>2. /\ Unread' = Append(q, c) /\ consumed' = consumed
        /\ Issued' = IF c = "path1" THEN Issued + 1 ELSE Issued
    BY <1>4 DEF Stream!Send
  <2> HIDE DEF q
  <2>3. Numbered(Append(q, c), consumed, IF c = "path1" THEN Issued + 1 ELSE Issued)
    BY <1>1, <2>1, NumberedSend
  <2> QED BY <2>2, <2>3
<1>5. CASE Stream!ShowCommand
  <2>1. /\ q # <<>> /\ Head(q) # "path1" /\ Unread' = Tail(q)
        /\ Issued' = Issued /\ consumed' = consumed
    BY <1>5 DEF Stream!ShowCommand
  <2> HIDE DEF q
  <2>2. 1 \in 0 .. Len(q) /\ q[1] # "path1" /\ Tail(q) = SubSeq(q, 1 + 1, Len(q))
    BY <1>1, <2>1
  <2>3. Numbered(SubSeq(q, 1 + 1, Len(q)), consumed, Issued)
    BY <1>1, <2>2, NumbersStay
  <2> QED BY <2>1, <2>2, <2>3
<1>6. ASSUME NEW n \in 1 .. Len(q), Stream!ShowPoints(n)
      PROVE  Numbered(Unread', consumed', Issued')
  <2>1. /\ \A i \in 1 .. n : q[i] = "path1"
        /\ Unread' = SubSeq(q, n + 1, Len(q))
        /\ Issued' = Issued /\ consumed' = consumed + n
    BY <1>6 DEF Stream!ShowPoints
  <2> HIDE DEF q
  <2>2. n \in 0 .. Len(q)
    BY <1>1
  <2>3. Numbered(SubSeq(q, n + 1, Len(q)), consumed + n, Issued)
    BY <1>1, <2>1, <2>2, NumbersStay
  <2> QED BY <2>1, <2>3
<1> QED BY <1>4, <1>5, <1>6 DEF Stream!Next

\* An empty ring has shown every execution that has its place.
LEMMA EmptyIsShown ==
    ASSUME TypeInv, RunInv, PointsAreNumbered, read = write PROVE consumed = Issued
<1>1. read \in Int /\ consumed \in Int /\ Issued \in Int
  BY DEF TypeInv, TypeOK, RingTypes, Position, CountTypes, Issued
<1>2. Distance(write) = 0
  BY <1>1 DEF Distance
<1>3. Joined(UnreadWords, 0)[0] = <<>>
  BY JoinedLoop
<1>4. Unread = <<>>
  BY <1>2, <1>3 DEF Unread
<1> QED BY <1>1, <1>4, NumberedNothing DEF PointsAreNumbered

\* Outside a call that reserves, those are all executions.
LEMMA DrainedIsShown ==
    ASSUME TypeInv, RunInv, PointsAreNumbered, read = write,
           epc \notin Writing \union {"reserve"}
    PROVE  consumed = dispatched
<1>1. Issued = dispatched
  BY DEF Issued, RunInv, ReservationIsOnItsWay, Writing, TypeInv, TypeOK, CountTypes
<1> QED BY <1>1, EmptyIsShown

\* So a mailbox at rest is drained.
LEMMA RestIsShown ==
    ASSUME TypeInv, FrameInv, RunInv, PointsAreNumbered PROVE RestIsDrained
<1> SUFFICES ASSUME epc \in {"hardwareReset", "clearOpen", "dead"} \union Closes \union Opens
                                \union Down
             PROVE  consumed = dispatched
  BY DEF RestIsDrained
<1>1. read = write
  BY DEF FrameInv, EmptyAtRest
<1>2. epc \notin Writing \union {"reserve"}
  BY DEF Writing, Closes, Opens, Down
<1> QED BY <1>1, <1>2, DrainedIsShown

\* A mailbox just opened is an empty stream.
LEMMA InitIsStream == ASSUME Init PROVE StreamInv /\ Stream!Init
<1> USE DEF Init
<1>1. read = 0 /\ write = 0 /\ Distance(write) = 0
  BY DEF Distance
<1>2. Unpassed = {}
  BY MailboxAssumption DEF Unpassed, Distance, Position
<1>3. RunInv
  BY <1>2, MailboxAssumption DEF RunInv, ReservationIsOnItsWay, RemainderIsAtHead, RunsAreCounted,
     OpenRunIsLast, Writing
<1>4. completions \o outbox = <<>> /\ Len(pending) = 0 /\ Begun = 0
  BY DEF Begun, Executing
<1>5. PointsAreLinked
  <2>1. Linked(completions \o outbox, consumed, 0)
    BY <1>4, LinkedNothing
  <2>2. CountedFrom(pending, 0) /\ 0 + Len(pending) = Begun
    BY <1>4 DEF CountedFrom
  <2> QED BY <2>1, <2>2 DEF PointsAreLinked
<1>6. DrawsAreMarked
  <2>1. unsubmitted => Drawn(pending)
    OBVIOUS
  <2> QED BY <1>4, <2>1 DEF DrawsAreMarked, Marked
<1>7. Unread = <<>>
  <2>1. Joined(UnreadWords, 0)[0] = <<>>
    BY JoinedLoop
  <2> QED BY <1>1, <2>1 DEF Unread
<1>8. Issued = 0 /\ consumed = 0
  BY DEF Issued
<1>9. PointsAreNumbered
  BY <1>7, <1>8, NumberedNothing DEF PointsAreNumbered
<1>10. OutboxIsSent
  BY DEF OutboxIsSent
<1> QED BY <1>3, <1>5, <1>6, <1>7, <1>8, <1>9, <1>10 DEF StreamInv, ChainInv, Stream!Init

\* A step of no thread leaves the stream alone.
LEMMA NoStep ==
    ASSUME TypeInv, UNCHANGED vars, StreamInv
    PROVE  StreamInv' /\ UNCHANGED <<Unread, Issued, consumed>>
<1>0. RunInv /\ ChainInv /\ PointsAreNumbered
  BY DEF StreamInv
<1>1. RingStill
  BY DEF vars, RingStill, Retiring, Issued
<1>2. UNCHANGED <<Unread, Issued, consumed>>
  BY <1>1, StillUnread DEF RingStill
<1>3. RunInv'
  BY <1>0 DEF vars, RunInv, ReservationIsOnItsWay, RemainderIsAtHead, RunsAreCounted,
     OpenRunIsLast, Unpassed, Distance, Claimed, Retiring
<1>4. ChainInv'
  BY <1>0 DEF vars, ChainInv, OutboxIsSent, PointsAreLinked, DrawsAreMarked, Begun, Executing
<1>5. PointsAreNumbered'
  BY <1>0, <1>2 DEF PointsAreNumbered, Numbered, Numbers
<1> QED BY <1>2, <1>3, <1>4, <1>5 DEF StreamInv

\* The executions not shown are, in order, those of the completions and the
\* pending run, and as many points are unread; so coalesced and split runs
\* always meet the completions they stand for.
THEOREM StreamInvariant == Spec => []StreamInv
<1>1. Init => StreamInv
  BY InitIsStream
<1>2. StreamInv /\ WakeInv /\ TypeInv /\ FrameInv /\ TypeInv' /\ [Next]_vars => StreamInv'
  <2> SUFFICES ASSUME StreamInv, WakeInv, TypeInv, FrameInv, TypeInv', [Next]_vars
               PROVE  StreamInv'
    OBVIOUS
  <2>1. RunInv /\ ChainInv /\ PointsAreNumbered
    BY DEF StreamInv
  <2>2. CASE Next
    <3>1. RestIsDrained
      BY <2>1, RestIsShown
    <3> QED BY <2>1, <2>2, <3>1, RunsStay, ChainStays, PointsStayNumbered DEF StreamInv
  <2>3. CASE UNCHANGED vars
    BY <2>3, NoStep
  <2> QED BY <2>2, <2>3
<1> QED BY <1>1, <1>2, WakeInvariant, TypeInvariant, FrameInvariant, PTL DEF Spec

\* The mailbox implements the stream of GsStream, for every ring size, run
\* length and number of calls: QueueMtvuPath1Reservation() may extend a run
\* that the worker is about to claim, a completion may answer part of a run or
\* the other way round, and the GS still shows every command once, in the order
\* of the program, the n-th PATH1 point with the output of the n-th execution.
THEOREM MailboxImplementsStream == Spec => ImplementsStream
<1>1. Init => Stream!Init
  BY InitIsStream
<1>2. StreamInv /\ WakeInv /\ TypeInv /\ FrameInv /\ [Next]_vars
          => [Stream!Next]_<<Unread, Issued, consumed>>
  <2> SUFFICES ASSUME StreamInv, WakeInv, TypeInv, FrameInv, [Next]_vars
               PROVE  Stream!Next \/ UNCHANGED <<Unread, Issued, consumed>>
    OBVIOUS
  <2>1. CASE Next
    BY <2>1, StreamSteps DEF StreamInv
  <2>2. CASE UNCHANGED vars
    BY <2>2, NoStep
  <2> QED BY <2>1, <2>2
<1> QED BY <1>1, <1>2, WakeInvariant, TypeInvariant, FrameInvariant, StreamInvariant, PTL
        DEF Spec, ImplementsStream, Stream!Spec

\* Only an empty ring lets WaitGS() return.
LEMMA ReturnIsEmpty ==
    ASSUME Next, epc = "drained", epc' \notin {"drained", "arm"} PROVE read = write
<1>1. CASE EE
  BY <1>1 DEF EE, EEContinues, PublishPendingVifBatch, RequestGpuVuPath1Flush,
     QueueMtvuPath1Reservation, GenericStall, ArmStall, Spin, EnableSignal, SetEvent, RingWait,
     WriteCommand, KickStart, CountFrame, Listen, BoundGpuVuExecutionLatency, VsyncWait,
     WaitForEmpty, CheckDrained, ArmDrainWaiter, LookAtWaiting, DisarmDrainWaiter, DrainWait,
     HardwareReset, ClearOpen, DoneWait, Join, Begin, ShutdownClosed, StartThread, WaitForOpen,
     Goto
<1>2. CASE GS
  BY <1>2 DEF GS, EntryLoop, WaitForWork, Awake, HandleCommand, OpenGs, FramePost, IdlePost,
     PeekCompletion, AnnounceHole, PeekAgain, WithdrawHole, ConsumePath1, Advance, CountDown,
     EndOfRing, EndOfPass, Closing, AcknowledgeClose, PostListener, GsStays
<1>3. CASE MTVU
  BY <1>3 DEF MTVU, VuWaitForWork, ExecuteCpu, WaitForBuffer, ExecuteDirect, CommitExecution,
     SeeRingEmpty, ServeRequests, Push, PushFull, ClaimGsWaiter, NotifyGs, ClaimDrainWaiter,
     VuStays
<1> QED BY <1>1, <1>2, <1>3 DEF Next

\* A strong WaitGS() is a barrier, whatever the three threads did before: when
\* it returns the ring is empty, every frame is retired, every execution is
\* shown, nothing of MTVU's output is left anywhere and every generated draw
\* has been submitted.
THEOREM WaitGSStaysBarrier == Spec => WaitGSIsBarrier
<1> DEFINE Empty ==
        /\ read = write /\ frames = 0 /\ consumed = dispatched
        /\ batch = 0 /\ jobs <= 1 /\ remaining = 0
        /\ completions = <<>> /\ pending = <<>> /\ outbox = <<>>
        /\ ~unsubmitted
<1>1. StreamInv /\ TypeInv /\ FrameInv /\ TypeInv' /\ [Next]_vars
          => [(epc = "drained" /\ epc' \notin {"drained", "arm"}) => Empty]_vars
  <2> SUFFICES ASSUME StreamInv, TypeInv, FrameInv, TypeInv', Next,
                      epc = "drained", epc' \notin {"drained", "arm"}
               PROVE  Empty
    OBVIOUS
  <2>0. RunInv /\ ChainInv /\ PointsAreNumbered /\ RingTypes /\ RingTypes' /\ FramesAreExact
    BY DEF StreamInv, TypeInv, TypeOK, FrameInv
  <2>1. read = write
    BY ReturnIsEmpty
  <2>2. consumed = dispatched /\ dispatched \in Nat
    <3>1. epc \notin Writing \union {"reserve"}
      BY DEF Writing
    <3> QED BY <2>0, <2>1, <3>1, DrainedIsShown DEF TypeInv, TypeOK, CountTypes
  <2>3. /\ completions = <<>> /\ outbox = <<>> /\ pending = <<>> /\ batch = 0 /\ jobs <= 1
        /\ ~unsubmitted
    <3>1. consumed >= dispatched
      BY <2>2
    <3> QED BY <2>0, <3>1, DrainedIsEmpty
  <2>4. frames = 0
    <3>1. QueuedVsyncs = {}
      BY <2>0, <2>1, NothingQueued
    <3> QED BY <2>0, <3>1, FS_EmptySet DEF FramesAreExact
  <2>5. remaining = 0
    BY <2>0, <2>1, MailboxAssumption DEF RunInv, RemainderIsAtHead, RingTypes
  <2> QED BY <2>1, <2>2, <2>3, <2>4, <2>5
<1> QED BY <1>1, TypeInvariant, FrameInvariant, StreamInvariant, PTL DEF Spec, WaitGSIsBarrier
=============================================================================
