----------------------------- MODULE GsMailbox ------------------------------
(***************************************************************************)
(* The GS mailbox (pcsx2/vita/VitaGsMailbox.cpp) and the three threads     *)
(* that meet in it: the EE (CPU0) writes commands into a ring of words,    *)
(* MTVU (CPU1) publishes the PATH1 output of VU1 executions in a second    *)
(* queue, and the GS worker (CPU2) merges the two back into guest order.   *)
(*                                                                         *)
(* A PATH1 command in the ring reserves the place of one or more coming    *)
(* executions; the worker leaves it at the head until their completions    *)
(* are there, and sleeps meanwhile.                                        *)
(*                                                                         *)
(* WorkSema is reduced to a sticky notification, and WaitForEmpty() to     *)
(* "the worker sleeps and nothing is announced" (module WorkSema), MTVU's  *)
(* command ring to counts of private and published executions (module      *)
(* MtvuRing).  The tally that decides when a command wakes the worker is a *)
(* nondeterministic choice.  VU1 runs on MTVU (THREAD_VU1) and             *)
(* SynchronousMTGS is off.                                                 *)
(***************************************************************************)
EXTENDS Integers, FiniteSets, Sequences

CONSTANTS
    RingSize,       \* RingBufferSize, of both queues
    VSyncSize,      \* words of RingVSyncSnapshot
    SpinLimit,      \* 0x80: a shorter stall spins
    VsyncQueueSize,
    MaxRun,         \* MaximumMtvuReservationRun
    MaxPending,     \* MaximumPendingMtvuDirectRun
    MaxOutstanding, \* MaximumOutstandingVuExecutions
    PathRoom,       \* CPU packets the PATH1 buffer holds
    Calls,          \* the EE calls a behaviour may make
    Outputs,        \* what an execution may yield
    MaxCalls        \* bound on the calls of one behaviour

Output == {"cpu", "none", "draw", "generated"}
Call == {"gs", "freeze", "exec", "vsync", "wait", "reset", "transferEnd",
         "close", "shutdown"}

ASSUME MailboxAssumption ==
    /\ RingSize \in Nat /\ VSyncSize \in Nat \ {0} /\ RingSize > 1
    /\ SpinLimit \in Nat /\ VsyncQueueSize \in Int /\ MaxCalls \in Nat
    /\ {MaxRun, MaxPending, MaxOutstanding, PathRoom} \subseteq Nat \ {0}
    /\ Calls \subseteq Call /\ Outputs \subseteq Output

VARIABLES
    \* the command ring
    ring, read, write,
    runs,           \* s_mtvu_reservation_runs: count and the Open bit
    openRun,        \* s_open_mtvu_reservation_run, RingSize for none
    remaining,      \* s_mtvu_reservations_remaining
    \* wake-ups
    notified,       \* s_work_sema
    signalEnabled, signalPosition, ringSema,
    frames,         \* s_queued_frame_count
    listener, vsyncSema,
    completionWaiting, drainWaiter, drainSema,
    open, shutdown, doneSema,
    \* PATH1 completions and MTVU
    completions,    \* s_mtvu_path1_completions
    pending,        \* the run MTVU has executed and not published
    batch,          \* executions still private to the EE
    jobs,           \* executions MTVU may see and has not completed
    vuNotified, requests,
    \* the threads
    epc, call,
    waitFrame,      \* wait_for_frame
    gpc, vpc,
    outbox,         \* completions MTVU is publishing
    vthen,          \* where MTVU goes after that
    \* history
    made,           \* calls begun
    dispatched,     \* executions begun
    consumed,       \* the execution whose output the GS showed last
    unsubmitted,    \* generated draws shown and not submitted to the GPU
    missed          \* a wake-up or flush request was spent too early

ringVars == <<ring, read, write, runs, openRun, remaining>>
frameVars == <<frames, listener, vsyncSema>>
signalVars == <<signalEnabled, signalPosition, ringSema>>
drainVars == <<drainWaiter, drainSema>>
lifeVars == <<open, shutdown, doneSema>>
vuVars == <<pending, vpc, outbox, vthen>>
feedVars == <<batch, jobs, vuNotified, requests>>
showVars == <<consumed, unsubmitted>>
eeVars == <<epc, call, waitFrame, made, dispatched>>
vars == <<ringVars, notified, signalVars, frameVars, completionWaiting, drainVars,
          lifeVars, completions, vuVars, feedVars, showVars, eeVars, gpc, missed>>

Position == 0 .. RingSize - 1
NoRun == [count |-> 0, open |-> FALSE]
Step(p, n) == (p + n) % RingSize

-----------------------------------------------------------------------------
(* The EE thread *)

SizeOf(c) == IF c = "vsync" THEN VSyncSize + 1 ELSE 1

FreeRoom == IF write < read THEN read - write ELSE RingSize - (write - read)

\* A call that is over leaves nothing of itself behind.
Goto(pc) ==
    /\ epc' = pc
    /\ call' = IF pc \in {"idle", "closed", "dead"} THEN "none" ELSE call
    /\ waitFrame' = (waitFrame /\ pc # "idle")
    /\ UNCHANGED <<made, dispatched>>

\* Mutant: a later command leaves the PATH1 run open.
KeepOpenRun == UNCHANGED <<runs, openRun>>

\* CloseOpenMtvuReservationRun(): the Open bit goes, if the run is unclaimed
CloseOpenMtvuReservationRun ==
    /\ runs' = IF openRun = RingSize THEN runs
               ELSE [runs EXCEPT ![openRun].open = FALSE]
    /\ openRun' = RingSize

\* A call of the public interface.  An execution is first written to MTVU's
\* ring: private to the EE, or published with everything before it.
Begin(c) ==
    /\ epc = "idle" /\ c \in Calls
    /\ made < MaxCalls /\ made' = made + 1
    /\ call' = c /\ UNCHANGED waitFrame
    /\ epc' = CASE c = "exec" -> "reserve"
                [] c \in {"gs", "freeze"} -> "room"
                [] OTHER -> "publish"
    /\ IF c \in {"gs", "freeze"}
       THEN CloseOpenMtvuReservationRun ELSE UNCHANGED <<runs, openRun>>
    /\ shutdown' = (shutdown \/ c = "shutdown")
    /\ IF c = "exec"
       THEN /\ dispatched' = dispatched + 1
            /\ \/ batch' = batch + 1 /\ UNCHANGED jobs
               \/ batch' = 0 /\ jobs' = jobs + batch + 1
       ELSE UNCHANGED <<dispatched, batch, jobs>>
    /\ UNCHANGED <<ring, read, write, remaining, notified, signalVars, frameVars,
                   completionWaiting, drainVars, open, doneSema, completions,
                   vuVars, vuNotified, requests, showVars, gpc, missed>>

\* vu1Thread.PublishPendingVifBatch(), before every wait and at the end of a
\* VIF transfer
PublishPendingVifBatch ==
    /\ epc \in {"publish", "stallPublish"}
    /\ jobs' = jobs + batch /\ batch' = 0
    /\ vuNotified' = (vuNotified \/ batch > 0)
    /\ Goto(IF epc = "stallPublish" THEN "stallRequest"
            ELSE IF call = "transferEnd" THEN "idle" ELSE "request")
    /\ UNCHANGED <<ringVars, notified, signalVars, frameVars, completionWaiting,
                   drainVars, lifeVars, completions, vuVars, requests, showVars,
                   gpc, missed>>

\* vu1Thread.RequestGpuVuPath1Flush(); after it a VSync prepares its packet,
\* which closes the PATH1 run, and the other calls wait.
RequestGpuVuPath1Flush ==
    /\ epc \in {"request", "stallRequest"}
    /\ requests' = TRUE /\ vuNotified' = TRUE
    /\ IF epc = "request" /\ call = "vsync"
       THEN CloseOpenMtvuReservationRun ELSE UNCHANGED <<runs, openRun>>
    /\ Goto(IF epc = "stallRequest" THEN "stall"
            ELSE IF call = "vsync" THEN "room" ELSE "waitKick")
    /\ UNCHANGED <<ring, read, write, remaining, notified, signalVars, frameVars,
                   completionWaiting, drainVars, lifeVars, completions, vuVars,
                   batch, jobs, showVars, gpc, missed>>

\* Mutant: the run is extended although the worker may have claimed it.
CanExtendClaimed == openRun # RingSize

\* The compare_exchange of QueueMtvuPath1Reservation() succeeds
CanExtend ==
    /\ openRun # RingSize
    /\ runs[openRun].open /\ runs[openRun].count < MaxRun

\* QueueMtvuPath1Reservation(): the reservation joins the open run, or needs
\* a command of its own
QueueMtvuPath1Reservation ==
    /\ epc = "reserve"
    /\ IF CanExtend
       THEN /\ runs' = [runs EXCEPT ![openRun].count = @ + 1]
            /\ Goto("kickVu") /\ UNCHANGED openRun
       ELSE /\ openRun' = RingSize
            /\ Goto("room") /\ UNCHANGED runs
    /\ UNCHANGED <<ring, read, write, remaining, notified, signalVars, frameVars,
                   completionWaiting, drainVars, lifeVars, completions, vuVars,
                   feedVars, showVars, gpc, missed>>

\* Mutant: a full ring is waited for before MTVU's records are published.
StallUnpublished ==
    /\ epc = "room"
    /\ Goto(IF FreeRoom <= SizeOf(call) THEN "stall"
            ELSE IF call = "vsync" THEN "count" ELSE "write")
    /\ UNCHANGED <<ringVars, notified, signalVars, frameVars, completionWaiting,
                   drainVars, lifeVars, completions, vuVars, feedVars, showVars,
                   gpc, missed>>

\* GenericStall(): enough room, or first everything MTVU needs is published
GenericStall ==
    /\ epc = "room"
    /\ Goto(IF FreeRoom <= SizeOf(call) THEN "stallPublish"
            ELSE IF call = "vsync" THEN "count" ELSE "write")
    /\ UNCHANGED <<ringVars, notified, signalVars, frameVars, completionWaiting,
                   drainVars, lifeVars, completions, vuVars, feedVars, showVars,
                   gpc, missed>>

\* How many words the worker shall consume before it wakes the EE.  The code
\* takes the room it saw on entry; the worker may have freed some since, which
\* makes the quarter of the used words smaller, never less than the command.
StallWords ==
    LET quarter == (RingSize - FreeRoom) \div 4
    IN  IF quarter < SizeOf(call) + 1 THEN SizeOf(call) + 1 ELSE quarter

\* A long stall arms the countdown, a short one wakes the worker and spins.
ArmStall ==
    /\ epc = "stall"
    /\ IF StallWords > SpinLimit
       THEN /\ signalPosition' = StallWords
            /\ Goto("enable") /\ UNCHANGED notified
       ELSE /\ notified' = TRUE
            /\ Goto("spin") /\ UNCHANGED signalPosition
    /\ UNCHANGED <<ringVars, signalEnabled, ringSema, frameVars,
                   completionWaiting, drainVars, lifeVars, completions, vuVars,
                   feedVars, showVars, gpc, missed>>

Spin ==
    /\ epc = "spin" /\ FreeRoom > SizeOf(call)
    /\ Goto(IF call = "vsync" THEN "count" ELSE "write")
    /\ UNCHANGED <<ringVars, notified, signalVars, frameVars, completionWaiting,
                   drainVars, lifeVars, completions, vuVars, feedVars, showVars,
                   gpc, missed>>

EnableSignal ==
    /\ epc = "enable"
    /\ signalEnabled' = TRUE
    /\ Goto("stallKick")
    /\ UNCHANGED <<ringVars, notified, signalPosition, ringSema, frameVars,
                   completionWaiting, drainVars, lifeVars, completions, vuVars,
                   feedVars, showVars, gpc, missed>>

\* SetEvent() on the way to a wait, after a command, and at open and close
SetEvent ==
    /\ epc \in {"stallKick", "waitKick", "vsyncKick", "kick", "closeKick",
                "openKick", "joinKick"}
    /\ notified' = TRUE
    /\ Goto(CASE epc = "stallKick" -> "ringWait"
              [] epc = "waitKick" -> "empty"
              [] epc = "vsyncKick" -> "bound"
              [] epc = "kick" -> "idle"
              [] epc = "closeKick" -> "closeWait"
              [] epc = "openKick" -> "openWait"
              [] epc = "joinKick" -> "join")
    /\ UNCHANGED <<ringVars, signalVars, frameVars, completionWaiting,
                   drainVars, lifeVars, completions, vuVars, feedVars, showVars,
                   gpc, missed>>

\* s_ring_reset_sema.Wait() and the look at the room it may have made
RingWait ==
    /\ epc = "ringWait" /\ ringSema > 0
    /\ ringSema' = ringSema - 1
    /\ Goto(IF FreeRoom <= SizeOf(call) THEN "enable"
            ELSE IF call = "vsync" THEN "count" ELSE "write")
    /\ UNCHANGED <<ringVars, notified, signalEnabled, signalPosition, frameVars,
                   completionWaiting, drainVars, lifeVars, completions, vuVars,
                   feedVars, showVars, gpc, missed>>

\* The packet and s_write_pos: FinishSimplePacket(), SendDataPacket().  What
\* lies between the two stores is invisible to the worker.
WriteCommand ==
    /\ epc = "write"
    /\ LET cmd == CASE call = "exec" -> "path1" [] call = "vsync" -> "vsync"
                    [] OTHER -> "gs"
       IN  ring' = [p \in Position |->
                       IF p = write THEN cmd
                       ELSE IF \E i \in 1 .. SizeOf(call) - 1 : p = Step(write, i)
                       THEN "payload" ELSE ring[p]]
    /\ write' = Step(write, SizeOf(call))
    /\ IF call = "exec"
       THEN /\ runs' = [runs EXCEPT ![write] = [count |-> 1, open |-> TRUE]]
            /\ openRun' = write
       ELSE UNCHANGED <<runs, openRun>>
    /\ CASE call = "exec" -> Goto("kickVu")
         [] call = "vsync" -> Goto("vsyncKick")
         [] call = "freeze" -> Goto("publish")
         [] call = "reset" -> Goto("kick")
         [] OTHER -> Goto("idle") \/ Goto("kick")
    /\ UNCHANGED <<read, remaining, notified, signalVars, frameVars,
                   completionWaiting, drainVars, lifeVars, completions, vuVars,
                   feedVars, showVars, gpc, missed>>

\* vu1Thread.KickStart() at the end of ExecuteVU()
KickStart ==
    /\ epc = "kickVu"
    /\ vuNotified' = TRUE
    /\ Goto("idle")
    /\ UNCHANGED <<ringVars, notified, signalVars, frameVars, completionWaiting,
                   drainVars, lifeVars, completions, vuVars, batch, jobs,
                   requests, showVars, gpc, missed>>

\* Mutant: the frame is counted once it is published.
CountFrameLate ==
    /\ epc = "count"
    /\ waitFrame' = (VsyncQueueSize > 0 /\ frames >= VsyncQueueSize)
    /\ epc' = IF waitFrame' THEN "listen" ELSE "write"
    /\ UNCHANGED <<call, made, dispatched, frames>>
    /\ UNCHANGED <<ringVars, notified, signalVars, listener, vsyncSema,
                   completionWaiting, drainVars, lifeVars, completions, vuVars,
                   feedVars, showVars, gpc, missed>>

\* PostVsyncStart() counts the frame, and arms the listener, before the
\* packet is published
CountFrame ==
    /\ epc = "count"
    /\ frames' = frames + 1
    /\ waitFrame' = (VsyncQueueSize > 0 /\ frames >= VsyncQueueSize)
    /\ epc' = IF waitFrame' THEN "listen" ELSE "write"
    /\ UNCHANGED <<call, made, dispatched>>
    /\ UNCHANGED <<ringVars, notified, signalVars, listener, vsyncSema,
                   completionWaiting, drainVars, lifeVars, completions, vuVars,
                   feedVars, showVars, gpc, missed>>

Listen ==
    /\ epc = "listen"
    /\ listener' = TRUE
    /\ Goto("write")
    /\ UNCHANGED <<ringVars, notified, signalVars, frames, vsyncSema,
                   completionWaiting, drainVars, lifeVars, completions, vuVars,
                   feedVars, showVars, gpc, missed>>

\* BoundGpuVuExecutionLatencyAtFrameBoundary(): too many executions are out
\* and MTVU is kicked and waited for; then how the frame is paced
BoundGpuVuExecutionLatency ==
    /\ epc = "bound"
    /\ vuNotified' = (vuNotified \/ jobs >= MaxOutstanding)
    /\ IF VsyncQueueSize <= 0 /\ jobs < MaxOutstanding
       THEN epc' = "publish" /\ call' = "wait" /\ UNCHANGED <<waitFrame, made, dispatched>>
       ELSE Goto(IF jobs >= MaxOutstanding THEN "boundWait"
                 ELSE IF waitFrame THEN "vsyncWait" ELSE "idle")
    /\ UNCHANGED <<ringVars, notified, signalVars, frameVars, completionWaiting,
                   drainVars, lifeVars, completions, vuVars, batch, jobs, requests,
                   showVars, gpc, missed>>

VsyncWait ==
    /\ epc = "vsyncWait" /\ vsyncSema > 0
    /\ vsyncSema' = vsyncSema - 1
    /\ Goto("idle")
    /\ UNCHANGED <<ringVars, notified, signalVars, frames, listener,
                   completionWaiting, drainVars, lifeVars, completions, vuVars,
                   feedVars, showVars, gpc, missed>>

-----------------------------------------------------------------------------
(* WaitGS() of the EE, and the lifecycle calls that start with it *)

\* s_work_sema.WaitForEmpty(): true of a worker that sleeps at a PATH1 hole too
WaitForEmpty ==
    /\ epc = "empty" /\ gpc = "sleep" /\ ~notified
    /\ Goto("drained")
    /\ UNCHANGED <<ringVars, notified, signalVars, frameVars, completionWaiting,
                   drainVars, lifeVars, completions, vuVars, feedVars, showVars,
                   gpc, missed>>

\* The ring is empty and WaitGS() returns, or its head waits for MTVU.
CheckDrained ==
    /\ epc = "drained"
    /\ Goto(IF read # write THEN "arm"
            ELSE CASE call = "close" -> "clearOpen"
                   [] call = "shutdown" -> "clearOpen"
                   [] call = "reset" -> "hardwareReset"
                   [] OTHER -> "idle")
    /\ UNCHANGED <<ringVars, notified, signalVars, frameVars, completionWaiting,
                   drainVars, lifeVars, completions, vuVars, feedVars, showVars,
                   gpc, missed>>

ArmDrainWaiter ==
    /\ epc = "arm"
    /\ drainWaiter' = TRUE
    /\ Goto("look")
    /\ UNCHANGED <<ringVars, notified, signalVars, frameVars, completionWaiting,
                   drainSema, lifeVars, completions, vuVars, feedVars, showVars,
                   gpc, missed>>

\* The worker says it waits although the completion it waits for is there:
\* TryTakeMtvuPath1Completion() between its store and its second look.
TransientWait == gpc \in {"again", "unwait"} /\ completions # <<>>

\* Does the worker wait for a completion?
LookAtWaiting ==
    /\ epc = "look"
    /\ Goto(IF completionWaiting THEN "drainWait" ELSE "disarm")
    /\ missed' = (missed \/ (completionWaiting /\ TransientWait))
    /\ UNCHANGED <<ringVars, notified, signalVars, frameVars, completionWaiting,
                   drainVars, lifeVars, completions, vuVars, feedVars, showVars,
                   gpc>>

\* Mutant: the waiter is withdrawn without asking whether it was claimed.
DisarmBlindly ==
    /\ epc = "disarm"
    /\ drainWaiter' = FALSE
    /\ Goto("waitKick")
    /\ UNCHANGED <<ringVars, notified, signalVars, frameVars, completionWaiting,
                   drainSema, lifeVars, completions, vuVars, feedVars, showVars,
                   gpc, missed>>

\* drain_waiter.exchange(false): a claimed waiter has a post to take
DisarmDrainWaiter ==
    /\ epc = "disarm"
    /\ drainWaiter' = FALSE
    /\ Goto(IF drainWaiter THEN "waitKick" ELSE "drainWait")
    /\ UNCHANGED <<ringVars, notified, signalVars, frameVars, completionWaiting,
                   drainSema, lifeVars, completions, vuVars, feedVars, showVars,
                   gpc, missed>>

DrainWait ==
    /\ epc = "drainWait" /\ drainSema > 0
    /\ drainSema' = drainSema - 1
    /\ Goto("waitKick")
    /\ UNCHANGED <<ringVars, notified, signalVars, frameVars, completionWaiting,
                   drainWaiter, lifeVars, completions, vuVars, feedVars, showVars,
                   gpc, missed>>

\* ResetGS(true) after its caller's WaitGS()
HardwareReset ==
    /\ epc = "hardwareReset"
    /\ read' = write /\ frames' = 0 /\ listener' = FALSE
    /\ CloseOpenMtvuReservationRun
    /\ Goto("room")
    /\ UNCHANGED <<ring, write, remaining, notified, signalVars, vsyncSema,
                   completionWaiting, drainVars, lifeVars, completions, vuVars,
                   feedVars, showVars, gpc, missed>>

\* WaitForClose() after its WaitGS()
ClearOpen ==
    /\ epc = "clearOpen"
    /\ open' = FALSE
    /\ Goto("closeKick")
    /\ UNCHANGED <<ringVars, notified, signalVars, frameVars, completionWaiting,
                   drainVars, shutdown, doneSema, completions, vuVars, feedVars,
                   showVars, gpc, missed>>

\* s_open_or_close_done.Wait() of WaitForClose() and WaitForOpen()
DoneWait ==
    /\ epc \in {"closeWait", "openWait"} /\ doneSema > 0
    /\ doneSema' = doneSema - 1
    /\ Goto(IF call = "shutdown" THEN "joinKick"
            ELSE IF open THEN "idle" ELSE "closed")
    /\ UNCHANGED <<ringVars, notified, signalVars, frameVars, completionWaiting,
                   drainVars, open, shutdown, completions, vuVars, feedVars,
                   showVars, gpc, missed>>

\* ShutdownThread() of a closed mailbox
ShutdownClosed ==
    /\ epc = "closed" /\ "shutdown" \in Calls
    /\ shutdown' = TRUE
    /\ epc' = "joinKick" /\ call' = "shutdown"
    /\ UNCHANGED <<waitFrame, made, dispatched>>
    /\ UNCHANGED <<ringVars, notified, signalVars, frameVars, completionWaiting,
                   drainVars, open, doneSema, completions, vuVars, feedVars,
                   showVars, gpc, missed>>

Join ==
    /\ epc = "join" /\ gpc = "dead"
    /\ Goto("dead")
    /\ UNCHANGED <<ringVars, notified, signalVars, frameVars, completionWaiting,
                   drainVars, lifeVars, completions, vuVars, feedVars, showVars,
                   gpc, missed>>

\* StartThread(), when WaitForOpen() finds no thread
StartThread ==
    /\ epc = "dead"
    /\ read' = 0 /\ write' = 0 /\ runs' = [p \in Position |-> NoRun]
    /\ openRun' = RingSize /\ remaining' = 0
    /\ completions' = <<>> /\ pending' = <<>>
    /\ completionWaiting' = FALSE /\ drainWaiter' = FALSE
    /\ notified' = FALSE /\ shutdown' = FALSE
    /\ gpc' = "entry"
    /\ Goto("closed")
    /\ UNCHANGED <<ring, signalVars, frameVars, drainSema, open, doneSema, vpc,
                   outbox, vthen, feedVars, showVars, missed>>

WaitForOpen ==
    /\ epc = "closed"
    /\ open' = TRUE
    /\ epc' = "openKick" /\ call' = "open"
    /\ UNCHANGED <<waitFrame, made, dispatched>>
    /\ UNCHANGED <<ringVars, notified, signalVars, frameVars, completionWaiting,
                   drainVars, shutdown, doneSema, completions, vuVars, feedVars,
                   showVars, gpc, missed>>

-----------------------------------------------------------------------------
(* The GS worker: ThreadEntryPoint() and MainLoop() *)

GsStays == UNCHANGED <<drainVars, vuVars, feedVars, eeVars, missed>>

EntryLoop ==
    /\ gpc = "entry"
    /\ gpc' = IF open THEN "opening" ELSE IF shutdown THEN "dead" ELSE "entryWait"
    /\ GsStays
    /\ UNCHANGED <<ringVars, notified, signalVars, frameVars, completionWaiting,
                   lifeVars, completions, showVars>>

\* s_work_sema.WaitForWork()
WaitForWork ==
    /\ gpc \in {"entryWait", "sleep"} /\ notified
    /\ notified' = FALSE
    /\ gpc' = IF gpc = "entryWait" THEN "entry" ELSE "awake"
    /\ GsStays
    /\ UNCHANGED <<ringVars, signalVars, frameVars, completionWaiting, lifeVars,
                   completions, showVars>>

\* OpenGsOnWorker() may fail; either way the opener is told.
OpenGs(ok) ==
    /\ gpc = "opening"
    /\ open' = ok /\ doneSema' = doneSema + 1
    /\ gpc' = IF ok THEN "sleep" ELSE "entry"
    /\ GsStays
    /\ UNCHANGED <<ringVars, notified, signalVars, frameVars, completionWaiting,
                   shutdown, completions, showVars>>

Awake ==
    /\ gpc = "awake"
    /\ gpc' = IF open THEN "head" ELSE "closing"
    /\ GsStays
    /\ UNCHANGED <<ringVars, notified, signalVars, frameVars, completionWaiting,
                   lifeVars, completions, showVars>>

\* A command other than PATH1 at the head.  A VSync also retires its frame.
HandleCommand ==
    /\ gpc = "head" /\ read # write /\ ring[read] # "path1"
    /\ IF ring[read] = "vsync"
       THEN frames' = frames - 1 /\ gpc' = "framePost"
       ELSE gpc' = "advance" /\ UNCHANGED frames
    /\ GsStays
    /\ UNCHANGED <<ringVars, notified, signalVars, listener, vsyncSema,
                   completionWaiting, lifeVars, completions, showVars>>

PostListener(pc) ==
    /\ vsyncSema' = IF listener THEN vsyncSema + 1 ELSE vsyncSema
    /\ listener' = FALSE
    /\ gpc' = pc
    /\ GsStays
    /\ UNCHANGED <<ringVars, notified, signalVars, frames, completionWaiting,
                   lifeVars, completions, showVars>>

\* s_vsync_signal_listener.exchange(false) when a VSync has been processed,
\* and once more when the worker is about to sleep
FramePost == gpc = "framePost" /\ PostListener("advance")
IdlePost == gpc = "idlePost" /\ PostListener("sleep")

\* TryTakeMtvuPath1Completion(): the first look
PeekCompletion ==
    /\ gpc = "head" /\ read # write /\ ring[read] = "path1"
    /\ gpc' = IF completions # <<>> THEN "take" ELSE "hole"
    /\ GsStays
    /\ UNCHANGED <<ringVars, notified, signalVars, frameVars, completionWaiting,
                   lifeVars, completions, showVars>>

\* The sleeping intent is published, then the queue is looked at again.
AnnounceHole ==
    /\ gpc = "hole"
    /\ completionWaiting' = TRUE
    /\ gpc' = "again"
    /\ GsStays
    /\ UNCHANGED <<ringVars, notified, signalVars, frameVars, lifeVars,
                   completions, showVars>>

PeekAgain ==
    /\ gpc = "again"
    /\ gpc' = IF completions # <<>> THEN "unwait" ELSE "pass"
    /\ GsStays
    /\ UNCHANGED <<ringVars, notified, signalVars, frameVars, completionWaiting,
                   lifeVars, completions, showVars>>

WithdrawHole ==
    /\ gpc = "unwait"
    /\ completionWaiting' = FALSE
    /\ gpc' = "take"
    /\ GsStays
    /\ UNCHANGED <<ringVars, notified, signalVars, frameVars, lifeVars,
                   completions, showVars>>

\* The MTVUGSPacket case: claim the run once, show the prefix that this
\* command and this completion have in common, and stay at the head while
\* the run has points left.  The last point of a completion with the marker
\* submits the generated draws.
ConsumePath1 ==
    /\ gpc = "take"
    /\ LET c == Head(completions)
           left == IF remaining > 0 THEN remaining
                   ELSE IF runs[read].count = 0 THEN 1 ELSE runs[read].count
           n == IF Len(c.points) < left THEN Len(c.points) ELSE left
           all == n = Len(c.points)
           drawn == {i \in 1 .. n : c.points[i].output = "generated"}
       IN  /\ runs' = IF remaining > 0 THEN runs ELSE [runs EXCEPT ![read] = NoRun]
           /\ remaining' = left - n
           /\ completions' = IF all THEN Tail(completions)
                             ELSE [completions EXCEPT ![1].points =
                                       SubSeq(@, n + 1, Len(@))]
           /\ consumed' = c.points[n].id
           /\ unsubmitted' = IF all /\ c.submit THEN FALSE
                             ELSE unsubmitted \/ drawn # {}
           /\ gpc' = IF left = n THEN "advance" ELSE "head"
    /\ GsStays
    /\ UNCHANGED <<ring, read, write, openRun, notified, signalVars, frameVars,
                   completionWaiting, lifeVars>>

\* s_read_pos moves over the command
Advance ==
    /\ gpc = "advance"
    /\ read' = Step(read, SizeOf(ring[read]))
    /\ gpc' = IF ring[read] = "vsync" THEN "signalVsync" ELSE "signal"
    /\ GsStays
    /\ UNCHANGED <<ring, write, runs, openRun, remaining, notified, signalVars,
                   frameVars, completionWaiting, lifeVars, completions, showVars>>

Consumed == IF gpc = "signalVsync" THEN VSyncSize + 1 ELSE 1

\* The countdown of a stalled EE; fetch_sub() returns the value before.
CountDown ==
    /\ gpc \in {"signal", "signalVsync"}
    /\ IF signalEnabled
       THEN /\ signalPosition' = signalPosition - Consumed
            /\ signalEnabled' = (signalPosition > 0)
            /\ ringSema' = IF signalPosition > 0 THEN ringSema ELSE ringSema + 1
       ELSE UNCHANGED signalVars
    /\ gpc' = "head"
    /\ GsStays
    /\ UNCHANGED <<ringVars, notified, frameVars, completionWaiting, lifeVars,
                   completions, showVars>>

EndOfRing ==
    /\ gpc = "head" /\ read = write
    /\ gpc' = "pass"
    /\ GsStays
    /\ UNCHANGED <<ringVars, notified, signalVars, frameVars, completionWaiting,
                   lifeVars, completions, showVars>>

\* The end of a pass, with an empty ring or an unmet PATH1 head: a stalled EE
\* is woken whatever its countdown says.
EndOfPass ==
    /\ gpc = "pass"
    /\ IF signalEnabled
       THEN /\ signalEnabled' = FALSE /\ signalPosition' = 0
            /\ ringSema' = ringSema + 1
       ELSE UNCHANGED signalVars
    /\ gpc' = "idlePost"
    /\ GsStays
    /\ UNCHANGED <<ringVars, notified, frameVars, completionWaiting, lifeVars,
                   completions, showVars>>

\* MainLoop() returns: the ring is skipped, WorkSema killed, completions
\* discarded, and WorkSema reset before the close is acknowledged.
Closing ==
    /\ gpc = "closing"
    /\ read' = write
    /\ completions' = <<>> /\ completionWaiting' = FALSE
    /\ notified' = FALSE
    /\ gpc' = "closed"
    /\ GsStays
    /\ UNCHANGED <<ring, write, runs, openRun, remaining, signalVars, frameVars,
                   lifeVars, showVars>>

AcknowledgeClose ==
    /\ gpc = "closed"
    /\ doneSema' = doneSema + 1
    /\ gpc' = "entry"
    /\ GsStays
    /\ UNCHANGED <<ringVars, notified, signalVars, frameVars, completionWaiting,
                   open, shutdown, completions, showVars>>

-----------------------------------------------------------------------------
(* MTVU: executions, and the publication of their PATH1 completions *)

VuStays == UNCHANGED <<ringVars, signalVars, frameVars, lifeVars, batch, showVars,
                       eeVars, gpc>>

\* Where the last draw of a run is; 0 when the run has no draw
LastDraw(run) ==
    LET draws == {i \in DOMAIN run : run[i].output \in {"draw", "generated"}}
    IN  IF draws = {} THEN 0 ELSE CHOOSE i \in draws : \A j \in draws : j <= i

Completion(points, submit) == [points |-> points, submit |-> submit]

\* Mutant: the submission marker is forgotten.
FlushedUnmarked(run) ==
    LET k == LastDraw(run)
        rest == SubSeq(run, k + 1, Len(run))
    IN  (IF k = 0 THEN <<>> ELSE <<Completion(SubSeq(run, 1, k), FALSE)>>)
        \o (IF rest = <<>> THEN <<>> ELSE <<Completion(rest, FALSE)>>)

\* FlushPendingMtvuDirectRun(true): the draws, marked when one of them is
\* generated, then the executions without output behind them
Flushed(run) ==
    LET k == LastDraw(run)
        rest == SubSeq(run, k + 1, Len(run))
        generated == \E i \in 1 .. k : run[i].output = "generated"
    IN  (IF k = 0 THEN <<>> ELSE <<Completion(SubSeq(run, 1, k), generated)>>)
        \o (IF rest = <<>> THEN <<>> ELSE <<Completion(rest, FALSE)>>)

\* PublishPendingMtvuDirectPrefix(), called after a generated draw joined the
\* run: everything before that draw and its empty executions, unmarked
Prefix(run) == SubSeq(run, 1, LastDraw(SubSeq(run, 1, Len(run) - 1)))
Suffix(run) == SubSeq(run, Len(Prefix(run)) + 1, Len(run))

VuWaitForWork ==
    /\ vpc = "sleep" /\ vuNotified
    /\ vuNotified' = FALSE
    /\ vpc' = "loop"
    /\ VuStays
    /\ UNCHANGED <<notified, completionWaiting, drainVars, completions, pending,
                   outbox, vthen, jobs, requests, missed>>

\* The oldest execution MTVU has not completed
Point(o) == [id |-> dispatched - batch - jobs + 1, output |-> o]

CpuPackets ==
    Len(SelectSeq(completions, LAMBDA c : c.points[1].output = "cpu"))

\* Publishes cs and goes on at pc
Publish(cs, pc) ==
    /\ outbox' = cs
    /\ vpc' = IF cs = <<>> THEN pc ELSE "push"
    /\ vthen' = pc

\* An execution on the CPU: CompleteMtvuPath1Packet() flushes what is pending
ExecuteCpu ==
    /\ vpc \in {"loop", "buffer"} /\ jobs > 0 /\ "cpu" \in Outputs
    /\ CpuPackets < PathRoom
    /\ pending' = <<>>
    /\ Publish(Append(Flushed(pending), Completion(<<Point("cpu")>>, FALSE)),
               "commit")
    /\ VuStays
    /\ UNCHANGED <<notified, completionWaiting, drainVars, completions, jobs,
                   vuNotified, requests, missed>>

\* XGKICK finds the PATH1 buffer full: WaitGS(false, true, true) wakes the
\* worker and sleeps until it has consumed a packet
WaitForBuffer ==
    /\ vpc = "loop" /\ jobs > 0 /\ "cpu" \in Outputs
    /\ CpuPackets >= PathRoom
    /\ notified' = TRUE
    /\ vpc' = "buffer"
    /\ VuStays
    /\ UNCHANGED <<completionWaiting, drainVars, completions, pending, outbox,
                   vthen, jobs, vuNotified, requests, missed>>

\* An execution that leaves a draw or nothing joins the pending run, which is
\* flushed when it is long, and after a generated draw perhaps in part.
ExecuteDirect(o) ==
    /\ vpc = "loop" /\ jobs > 0 /\ o \in Outputs \ {"cpu"}
    /\ LET run == Append(pending, Point(o)) IN
         \/ /\ Len(run) >= MaxPending
            /\ pending' = <<>>
            /\ Publish(Flushed(run), "commit")
         \/ /\ Len(run) < MaxPending
            /\ pending' = run
            /\ Publish(<<>>, "commit")
         \/ /\ Len(run) < MaxPending /\ o = "generated" /\ Prefix(run) # <<>>
            /\ pending' = Suffix(run)
            /\ Publish(<<Completion(Prefix(run), FALSE)>>, "commit")
    /\ VuStays
    /\ UNCHANGED <<notified, completionWaiting, drainVars, completions, jobs,
                   vuNotified, requests, missed>>

\* The execution is counted and its record committed, which ends the
\* WaitForChange() of an EE that waits for it
CommitExecution ==
    /\ vpc = "commit"
    /\ jobs' = jobs - 1
    /\ epc' = IF epc = "boundWait" THEN "bound" ELSE epc
    /\ vpc' = "loop"
    /\ UNCHANGED <<ringVars, signalVars, frameVars, lifeVars, batch, showVars,
                   call, waitFrame, made, dispatched, gpc, notified,
                   completionWaiting, drainVars, completions, pending, outbox,
                   vthen, vuNotified, requests, missed>>

SeeRingEmpty ==
    /\ vpc = "loop" /\ jobs = 0
    /\ vpc' = "quiet"
    /\ VuStays
    /\ UNCHANGED <<notified, completionWaiting, drainVars, completions, pending,
                   outbox, vthen, jobs, vuNotified, requests, missed>>

\* The flush request is taken some time after the ring was seen empty.
ServeRequests ==
    /\ vpc = "quiet"
    /\ requests' = FALSE
    /\ IF requests
       THEN pending' = <<>> /\ Publish(Flushed(pending), "sleep")
       ELSE pending' = pending /\ Publish(<<>>, "sleep")
    /\ missed' = (missed \/ (requests /\ jobs > 0))
    /\ VuStays
    /\ UNCHANGED <<notified, completionWaiting, drainVars, completions, jobs,
                   vuNotified>>

\* PublishMtvuPath1Completion(): Push()
Push ==
    /\ vpc = "push" /\ Len(completions) < RingSize - 1
    /\ completions' = Append(completions, Head(outbox))
    /\ outbox' = Tail(outbox)
    /\ vpc' = "wake"
    /\ VuStays
    /\ UNCHANGED <<notified, completionWaiting, drainVars, pending, vthen, jobs,
                   vuNotified, requests, missed>>

\* A full queue is waited for by waking its consumer again and again.
PushFull ==
    /\ vpc = "push" /\ Len(completions) = RingSize - 1 /\ ~notified
    /\ notified' = TRUE
    /\ VuStays
    /\ UNCHANGED <<completionWaiting, drainVars, completions, vuVars, jobs,
                   vuNotified, requests, missed>>

\* s_mtvu_path1_completion_waiting.exchange(false)
ClaimGsWaiter ==
    /\ vpc = "wake"
    /\ completionWaiting' = FALSE
    /\ vpc' = IF completionWaiting THEN "notify" ELSE "drain"
    /\ VuStays
    /\ UNCHANGED <<notified, drainVars, completions, pending, outbox, vthen, jobs,
                   vuNotified, requests, missed>>

NotifyGs ==
    /\ vpc = "notify"
    /\ notified' = TRUE
    /\ vpc' = "drain"
    /\ VuStays
    /\ UNCHANGED <<completionWaiting, drainVars, completions, pending, outbox,
                   vthen, jobs, vuNotified, requests, missed>>

\* s_mtvu_path1_drain_waiter.exchange(false) and the post it owes
ClaimDrainWaiter ==
    /\ vpc = "drain"
    /\ drainSema' = IF drainWaiter THEN drainSema + 1 ELSE drainSema
    /\ drainWaiter' = FALSE
    /\ vpc' = IF outbox # <<>> THEN "push" ELSE vthen
    /\ VuStays
    /\ UNCHANGED <<notified, completionWaiting, completions, pending, outbox,
                   vthen, jobs, vuNotified, requests, missed>>

-----------------------------------------------------------------------------
\* The mailbox has just been opened for the first time.
Init ==
    /\ ring = [p \in Position |-> "payload"] /\ read = 0 /\ write = 0
    /\ runs = [p \in Position |-> NoRun] /\ openRun = RingSize /\ remaining = 0
    /\ notified = FALSE
    /\ signalEnabled = FALSE /\ signalPosition = 0 /\ ringSema = 0
    /\ frames = 0 /\ listener = FALSE /\ vsyncSema = 0
    /\ completionWaiting = FALSE /\ drainWaiter = FALSE /\ drainSema = 0
    /\ open = TRUE /\ shutdown = FALSE /\ doneSema = 0
    /\ completions = <<>> /\ pending = <<>> /\ batch = 0 /\ jobs = 0
    /\ vuNotified = FALSE /\ requests = FALSE
    /\ epc = "idle" /\ call = "none" /\ waitFrame = FALSE
    /\ gpc = "sleep" /\ vpc = "sleep" /\ outbox = <<>> /\ vthen = "sleep"
    /\ made = 0 /\ dispatched = 0 /\ consumed = 0
    /\ unsubmitted = FALSE /\ missed = FALSE

EEContinues ==
    \/ PublishPendingVifBatch \/ RequestGpuVuPath1Flush
    \/ QueueMtvuPath1Reservation \/ GenericStall \/ ArmStall \/ Spin
    \/ EnableSignal \/ SetEvent \/ RingWait \/ WriteCommand \/ KickStart
    \/ CountFrame \/ Listen \/ BoundGpuVuExecutionLatency \/ VsyncWait
    \/ WaitForEmpty \/ CheckDrained \/ ArmDrainWaiter \/ LookAtWaiting
    \/ DisarmDrainWaiter \/ DrainWait \/ HardwareReset
    \/ ClearOpen \/ DoneWait \/ Join

EE ==
    \/ EEContinues
    \/ \E c \in Call : Begin(c)
    \/ ShutdownClosed \/ StartThread \/ WaitForOpen

GS ==
    \/ EntryLoop \/ WaitForWork \/ Awake \/ HandleCommand
    \/ \E ok \in BOOLEAN : OpenGs(ok)
    \/ FramePost \/ IdlePost \/ PeekCompletion \/ AnnounceHole \/ PeekAgain
    \/ WithdrawHole \/ ConsumePath1 \/ Advance \/ CountDown \/ EndOfRing
    \/ EndOfPass \/ Closing \/ AcknowledgeClose

MTVU ==
    \/ VuWaitForWork \/ ExecuteCpu \/ WaitForBuffer
    \/ \E o \in Output : ExecuteDirect(o)
    \/ CommitExecution \/ SeeRingEmpty \/ ServeRequests \/ Push \/ PushFull
    \/ ClaimGsWaiter \/ NotifyGs \/ ClaimDrainWaiter

Next == EE \/ GS \/ MTVU
Spec == Init /\ [][Next]_vars

\* Three threads on three cores: each one that can move does.
LiveSpec == Spec /\ WF_vars(EEContinues) /\ WF_vars(GS) /\ WF_vars(MTVU)

-----------------------------------------------------------------------------
(* Properties *)

EEControl == {"idle", "publish", "stallPublish", "request", "stallRequest",
              "reserve", "room", "stall", "spin", "enable", "stallKick",
              "ringWait", "write", "kickVu", "count", "listen", "vsyncKick",
              "kick", "bound", "boundWait", "vsyncWait", "waitKick", "empty", "drained", "arm",
              "look", "disarm", "drainWait", "hardwareReset", "clearOpen",
              "closeKick", "closeWait", "openKick", "openWait", "joinKick",
              "join", "closed", "dead"}
GSControl == {"entry", "entryWait", "opening", "sleep", "awake", "head", "hole",
              "again", "unwait", "take", "framePost", "advance", "signal",
              "signalVsync", "pass", "idlePost", "closing", "closed", "dead"}
VUControl == {"sleep", "loop", "buffer", "commit", "quiet", "push", "wake",
              "notify", "drain"}

Points == Seq([id : 1 .. MaxCalls, output : Output])
Completions == Seq([points : Points \ {<<>>}, submit : BOOLEAN])

\* Every variable keeps its type; a claimed run is never larger than one
\* counted command may be, and the completion queue never overflows.
RingTypes ==
    /\ ring \in [Position -> {"gs", "vsync", "path1", "payload"}]
    /\ read \in Position /\ write \in Position
    /\ runs \in [Position -> [count : 0 .. MaxRun, open : BOOLEAN]]
    /\ openRun \in 0 .. RingSize /\ remaining \in 0 .. MaxRun
    /\ signalPosition \in Int
FlagTypes ==
    {notified, signalEnabled, listener, completionWaiting, drainWaiter, open,
     shutdown, vuNotified, requests, waitFrame, unsubmitted, missed} \subseteq BOOLEAN
CountTypes ==
    /\ {ringSema, vsyncSema, drainSema, doneSema, batch, jobs, made, dispatched,
        consumed} \subseteq Nat
    /\ frames \in Int
QueueTypes ==
    /\ completions \in Completions /\ Len(completions) < RingSize
    /\ pending \in Points /\ outbox \in Completions
ControlTypes ==
    /\ epc \in EEControl /\ call \in Call \union {"open", "none"}
    /\ gpc \in GSControl /\ vpc \in VUControl /\ vthen \in {"sleep", "commit"}
TypeOK == RingTypes /\ FlagTypes /\ CountTypes /\ QueueTypes /\ ControlTypes

\* The positions of the ring the worker has not passed
Distance(p) == IF read <= p THEN p - read ELSE p - read + RingSize
Unpassed == {p \in Position : Distance(p) < Distance(write)}

\* The words between the two positions, as stream commands: a PATH1 command is
\* as many points as its run counts, or as are left of it
Words(p) ==
    CASE ring[p] = "payload" -> <<>>
      [] ring[p] = "path1" ->
             [i \in 1 .. IF p = read /\ remaining > 0 THEN remaining
                                                      ELSE runs[p].count
                |-> "path1"]
      [] OTHER -> <<ring[p]>>

UnreadWords ==
    [i \in 1 .. Distance(write) |->
        IF i = 1 /\ gpc \in {"framePost", "advance"} THEN <<>>
        ELSE Words(Step(read, i - 1))]

\* The first n sequences of b, one after the other
Joined(b, n) ==
    LET upto[i \in 0 .. n] == IF i = 0 THEN <<>> ELSE upto[i - 1] \o b[i]
    IN  upto
Unread == Joined(UnreadWords, Distance(write))[Distance(write)]

\* Executions whose reservation is in the ring
Issued == dispatched - (IF call = "exec" /\ epc # "kickVu" THEN 1 ELSE 0)

Stream == INSTANCE GsStream
              WITH queue <- Unread, issued <- Issued, points <- consumed

\* The mailbox implements the stream: coalescing PATH1 reservations while the
\* worker claims them, splitting them over completions, wrapping and
\* stalling neither lose, reorder nor repeat a command, every execution has
\* its point in the stream at its place in the program, and the n-th point
\* shows the output of the n-th execution.
ImplementsStream == Stream!Spec

\* s_queued_frame_count is the number of VSyncs queued, the one about to be
\* published included and the one being retired not, so it is never negative,
\* whatever retires when.
QueuedVsyncs ==
    {p \in Unpassed : ring[p] = "vsync" /\ ~(p = read /\ gpc \in {"framePost", "advance"})}
FramesAreExact ==
    frames = Cardinality(QueuedVsyncs)
             + (IF call = "vsync" /\ epc \in {"listen", "write"} THEN 1 ELSE 0)

\* Each wake-up belongs to one wait: an armed flag and the token that answers
\* it are never both there, and neither is left behind for a later call.
Owed(armed, sema) == sema + (IF armed THEN 1 ELSE 0)

WakeupsAreOwned ==
    /\ Owed(signalEnabled, ringSema) =
           (IF epc \in {"stallKick", "ringWait"} THEN 1 ELSE 0)
    /\ Owed(listener, vsyncSema) =
           (IF waitFrame /\ epc # "listen" THEN 1 ELSE 0)
    /\ Owed(drainWaiter, drainSema) =
           (IF epc \in {"look", "disarm", "drainWait"} THEN 1 ELSE 0)
    /\ doneSema > 0 => epc \in {"closeKick", "closeWait", "openKick", "openWait"}

\* A strong WaitGS() is a barrier: when it returns every execution has been
\* shown, no completion is left anywhere and every generated draw has been
\* submitted to the GPU.  Freeze(), the hardware reset, StartThread() and the
\* close, which discards completions, rely on it.
WaitGSIsBarrier ==
    [][(epc = "drained" /\ epc' \notin {"drained", "arm"}) =>
          /\ read = write /\ frames = 0 /\ consumed = dispatched
          /\ batch = 0 /\ jobs <= 1 /\ remaining = 0
          /\ completions = <<>> /\ pending = <<>> /\ outbox = <<>>
          /\ ~unsubmitted]_vars

\* No call of the EE hangs: ring pressure, frame pacing, WaitGS(), open, close
\* and shutdown end, however the three threads interleave, unless one of the
\* two known races has spent a flush request or a drain wake-up too early.
Settled == epc \in {"idle", "closed", "dead"}
CallsReturn == ~Settled ~> (Settled \/ missed)

\* The same without the exception.  PostVsyncStart():
\* "Close the tail with the one submission marker before CPU0 is allowed to
\* wait"; WaitGS(): "Make every complete private MTVU record and its final
\* generated PATH1 marker visible".
EveryCallReturns == ~Settled ~> Settled

\* WaitGS(): "A strong lifecycle/observation wait sleeps for the next completion
\* publication".  So, asleep without a token, it has one coming: MTVU is
\* publishing, or holds an execution that it has yet to publish.
DrainWaitHasPublisher ==
    (epc = "drainWait" /\ drainSema = 0) =>
        \/ jobs > 0 \/ pending # <<>> \/ outbox # <<>>
        \/ vpc \in {"wake", "notify", "drain"}
=============================================================================
