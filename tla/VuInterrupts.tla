---------------------------- MODULE VuInterrupts ----------------------------
(***************************************************************************)
(* How a VU1 program on MTVU (CPU1) interrupts the EE (CPU0).  The worker  *)
(* meets SIGNAL, FINISH and LABEL writes in PATH1 data                     *)
(* (Gif_HandlerAD_MTVU) and the E, D or T bit that ends a program, leaves  *)
(* them in mtvuInterrupts, gsSignal and gsLabel, and the EE collects them  *)
(* in Get_MTVUChanges().                                                   *)
(*                                                                         *)
(* One step is one atomic access, with the private work behind it.  Every  *)
(* access whose order matters is an acquire or a release, so steps         *)
(* interleave.  A word is the set of its one bits.                         *)
(***************************************************************************)
EXTENDS Naturals

CONSTANTS
    Bit,        \* bits of SIGID and LBLID
    Words,      \* the data and mask that a SIGNAL or LABEL may carry
    InstantVU1, \* the speedhack
    MaxWrites,  \* bound on the A+D writes of one behaviour
    MaxPrograms \* bound on the programs of one behaviour

Word == [data : SUBSET Bit, mask : SUBSET Bit]

ASSUME InterruptAssumption ==
    /\ Words \subseteq Word
    /\ InstantVU1 \in BOOLEAN /\ MaxWrites \in Nat /\ MaxPrograms \in Nat

VARIABLES
    flags,      \* mtvuInterrupts
    gsSignal, gsLabel,
    \* the worker
    jobs,       \* programs queued or running
    wpc,
    word,       \* the A+D write at hand
    \* the EE
    epc,
    then,       \* where the EE goes after Get_MTVUChanges()
    interrupts, \* its copy of the flags, less what it has handled
    signal,     \* its copy of gsSignal
    csrSignal,  \* CSRreg.SIGNAL
    queued, gifSignal, \* gifUnit.gsSIGNAL
    sigId, lblId,
    tStop,      \* bit 0x400 of VPU_STAT
    \* history
    started, writes,
    finishes,   \* FINISH writes, how many the EE took and how many were reported
    doubled,    \* "Double SIGNAL Not Handled" was reported
    dropped,    \* a queued SIGNAL was replaced by the next one
    refSignal, refLabel \* the ids if every write were applied at once

workerVars == <<jobs, wpc, word>>
pollVars == <<epc, then, interrupts, signal>>
guestVars == <<csrSignal, queued, gifSignal, sigId, lblId, tStop>>
history == <<started, writes, finishes, doubled, dropped, refSignal, refLabel>>
vars == <<flags, gsSignal, gsLabel, workerVars, pollVars, guestVars, history>>

Flag == {"signal", "finish", "label", "E", "T"}
NoWord == [data |-> {}, mask |-> {}]

\* SIGID and LBLID take the masked bits of a word
Apply(id, w) == (id \ w.mask) \union (w.data \intersect w.mask)

\* Mutant: a second LABEL replaces the first.
Replace(a, b) == b

\* Gif_HandlerAD_MTVU: two LABELs become one
Merge(a, b) ==
    [data |-> (a.data \ b.mask) \union (b.data \intersect b.mask),
     mask |-> a.mask \union b.mask]

-----------------------------------------------------------------------------
(* The worker *)

\* A SIGNAL, FINISH or LABEL write of the running program
Meet(reg, w) ==
    /\ wpc = "idle" /\ jobs > 0 /\ writes < MaxWrites
    /\ wpc' = reg /\ word' = w
    /\ writes' = writes + 1
    /\ UNCHANGED <<flags, gsSignal, gsLabel, jobs, pollVars, guestVars, started,
                   finishes, doubled, dropped, refSignal, refLabel>>

\* Mutant: nobody looks whether a SIGNAL is still there.
CheckNoSignal ==
    /\ wpc = "signal"
    /\ wpc' = "signalStore"
    /\ UNCHANGED <<flags, gsSignal, gsLabel, jobs, word, pollVars, guestVars,
                   started, writes, finishes, doubled, dropped, refSignal,
                   refLabel>>

\* A SIGNAL the EE has not taken yet is reported, and replaced all the same.
CheckSignal ==
    /\ wpc = "signal"
    /\ doubled' = (doubled \/ "signal" \in flags)
    /\ wpc' = "signalStore"
    /\ UNCHANGED <<flags, gsSignal, gsLabel, jobs, word, pollVars, guestVars,
                   started, writes, finishes, dropped, refSignal, refLabel>>

StoreSignal ==
    /\ wpc = "signalStore"
    /\ gsSignal' = word
    /\ wpc' = "signalRaise"
    /\ UNCHANGED <<flags, gsLabel, jobs, word, pollVars, guestVars, history>>

RaiseSignal ==
    /\ wpc = "signalRaise"
    /\ flags' = flags \union {"signal"}
    /\ refSignal' = Apply(refSignal, word)
    /\ wpc' = "idle"
    /\ UNCHANGED <<gsSignal, gsLabel, jobs, word, pollVars, guestVars, started,
                   writes, finishes, doubled, dropped, refLabel>>

\* fetch_or() tells whether the FINISH before it is still there
RaiseFinish ==
    /\ wpc = "finish"
    /\ flags' = flags \union {"finish"}
    /\ finishes' = [met |-> finishes.met + 1, taken |-> finishes.taken,
                    reported |-> finishes.reported
                                 + (IF "finish" \in flags THEN 1 ELSE 0)]
    /\ wpc' = "idle"
    /\ UNCHANGED <<gsSignal, gsLabel, jobs, word, pollVars, guestVars, started,
                   writes, doubled, dropped, refSignal, refLabel>>

\* The compare-exchange loop: the LABEL joins the one that waits.  It is stored
\* as it is only if the first exchange finds none.
JoinLabel ==
    /\ wpc = "label"
    /\ \/ gsLabel' = Merge(gsLabel, word)
       \/ gsLabel = NoWord /\ gsLabel' = word
    /\ refLabel' = Apply(refLabel, word)
    /\ wpc' = "labelRaise"
    /\ UNCHANGED <<flags, gsSignal, jobs, word, pollVars, guestVars, started,
                   writes, finishes, doubled, dropped, refSignal>>

RaiseLabel ==
    /\ wpc = "labelRaise"
    /\ flags' = flags \union {"label"}
    /\ wpc' = "idle"
    /\ UNCHANGED <<gsSignal, gsLabel, jobs, word, pollVars, guestVars, history>>

\* EndProgram(): an enabled D or T bit takes precedence over the E bit.  The
\* job is counted as completed behind it.
EndProgram(dt) ==
    /\ wpc = "idle" /\ jobs > 0
    /\ flags' = flags \union (IF dt THEN {"T"} ELSE {"E"})
    /\ wpc' = "commit"
    /\ UNCHANGED <<gsSignal, gsLabel, jobs, word, pollVars, guestVars, history>>

Commit ==
    /\ wpc = "commit"
    /\ jobs' = jobs - 1
    /\ wpc' = "idle"
    /\ UNCHANGED <<flags, gsSignal, gsLabel, word, pollVars, guestVars, history>>

-----------------------------------------------------------------------------
(* The EE *)

EEStays == UNCHANGED <<workerVars, gsSignal, gsLabel>>

\* vu1ExecMicro() up to ExecuteVU(), vu1Finish() that waits, or a poll of VIF1,
\* of the VU1 provider, or of a vu1Finish() that need not wait
Call(next) ==
    /\ epc = "idle"
    /\ next = "enqueue" => started < MaxPrograms
    /\ then' = next
    /\ epc' = IF next = "finished" THEN "wait" ELSE "poll"
    /\ tStop' = (tStop /\ next # "enqueue")
    /\ EEStays
    /\ UNCHANGED <<flags, interrupts, signal, csrSignal, queued, gifSignal, sigId,
                   lblId, history>>

\* Mutant: vu1Finish() does not wait for the programs it queued.
WaitVUNot ==
    /\ epc = "wait"
    /\ epc' = "poll"
    /\ EEStays
    /\ UNCHANGED <<flags, then, interrupts, signal, guestVars, history>>

\* WaitVU() returns
WaitVU ==
    /\ epc = "wait" /\ jobs = 0
    /\ epc' = "poll"
    /\ EEStays
    /\ UNCHANGED <<flags, then, interrupts, signal, guestVars, history>>

\* Get_MTVUChanges() looks at the flags once
LoadInterrupts ==
    /\ epc = "poll"
    /\ interrupts' = flags
    /\ epc' = "handle"
    /\ EEStays
    /\ UNCHANGED <<flags, then, signal, guestVars, history>>

LoadSignal ==
    /\ epc = "handle" /\ "signal" \in interrupts
    /\ signal' = gsSignal
    /\ epc' = "signal"
    /\ EEStays
    /\ UNCHANGED <<flags, then, interrupts, guestVars, history>>

\* A SIGNAL fires, or waits in the GIF unit for the guest to clear the last.
ClearSignal ==
    /\ epc = "signal"
    /\ flags' = flags \ {"signal"} /\ interrupts' = interrupts \ {"signal"}
    /\ IF csrSignal
       THEN /\ queued' = TRUE /\ gifSignal' = signal
            /\ dropped' = (dropped \/ queued)
            /\ UNCHANGED <<csrSignal, sigId>>
       ELSE /\ csrSignal' = TRUE /\ sigId' = Apply(sigId, signal)
            /\ UNCHANGED <<queued, gifSignal, dropped>>
    /\ epc' = "handle"
    /\ EEStays
    /\ UNCHANGED <<then, signal, lblId, tStop, started, writes, finishes, doubled,
                   refSignal, refLabel>>

\* Mutant: every flag of the copy is cleared with the first one.
TakeFinishAndAll ==
    /\ epc = "handle" /\ "signal" \notin interrupts /\ "finish" \in interrupts
    /\ flags' = flags \ interrupts /\ interrupts' = interrupts \ {"finish"}
    /\ finishes' = [finishes EXCEPT !.taken = @ + 1]
    /\ EEStays
    /\ UNCHANGED <<epc, then, signal, guestVars, started, writes, doubled,
                   dropped, refSignal, refLabel>>

\* The GIF unit's own FINISH flags, and when it interrupts, are left out.
TakeFinish ==
    /\ epc = "handle" /\ "signal" \notin interrupts /\ "finish" \in interrupts
    /\ flags' = flags \ {"finish"} /\ interrupts' = interrupts \ {"finish"}
    /\ finishes' = [finishes EXCEPT !.taken = @ + 1]
    /\ EEStays
    /\ UNCHANGED <<epc, then, signal, guestVars, started, writes, doubled,
                   dropped, refSignal, refLabel>>

\* The flag of a LABEL is cleared before the LABEL is taken.
ClearLabel ==
    /\ epc = "handle" /\ interrupts \intersect {"signal", "finish"} = {}
    /\ "label" \in interrupts
    /\ flags' = flags \ {"label"}
    /\ epc' = "label"
    /\ EEStays
    /\ UNCHANGED <<then, interrupts, signal, guestVars, history>>

TakeLabel ==
    /\ epc = "label"
    /\ lblId' = Apply(lblId, gsLabel) /\ gsLabel' = NoWord
    /\ interrupts' = interrupts \ {"label"}
    /\ epc' = "handle"
    /\ UNCHANGED <<flags, workerVars, gsSignal, then, signal, csrSignal, queued,
                   gifSignal, sigId, tStop, history>>

\* The end of a program: E, then T, which stops VU1 and interrupts the EE
TakeEnd(bit) ==
    /\ epc = "handle" /\ bit \in interrupts
    /\ interrupts \subseteq (IF bit = "E" THEN {"E", "T"} ELSE {"T"})
    /\ flags' = flags \ {bit} /\ interrupts' = interrupts \ {bit}
    /\ tStop' = IF bit = "T" THEN TRUE ELSE (tStop /\ ~InstantVU1)
    /\ EEStays
    /\ UNCHANGED <<epc, then, signal, csrSignal, queued, gifSignal, sigId,
                   lblId, history>>

\* Get_MTVUChanges() returns; ExecuteVU() queues its program and polls again.
Return ==
    /\ epc = "handle" /\ interrupts = {}
    /\ IF then = "enqueue"
       THEN /\ jobs' = jobs + 1 /\ started' = started + 1
            /\ epc' = "poll" /\ then' = "idle"
       ELSE epc' = then /\ UNCHANGED <<jobs, started, then>>
    /\ UNCHANGED <<flags, gsSignal, gsLabel, wpc, word, interrupts, signal,
                   guestVars, writes, finishes, doubled, dropped, refSignal,
                   refLabel>>

\* vu1Finish() returns to the guest
Finished ==
    /\ epc = "finished"
    /\ epc' = "idle"
    /\ EEStays
    /\ UNCHANGED <<flags, then, interrupts, signal, guestVars, history>>

\* gsCSRwrite(): the guest clears SIGNAL and the queued one fires
ClearCsrSignal ==
    /\ epc = "idle" /\ csrSignal
    /\ sigId' = IF queued THEN Apply(sigId, gifSignal) ELSE sigId
    /\ csrSignal' = queued /\ queued' = FALSE
    /\ EEStays
    /\ UNCHANGED <<flags, pollVars, gifSignal, lblId, tStop, history>>

-----------------------------------------------------------------------------
Init ==
    /\ flags = {} /\ gsSignal = NoWord /\ gsLabel = NoWord
    /\ jobs = 0 /\ wpc = "idle" /\ word = NoWord
    /\ epc = "idle" /\ then = "idle" /\ interrupts = {} /\ signal = NoWord
    /\ csrSignal = FALSE /\ queued = FALSE /\ gifSignal = NoWord
    /\ sigId = {} /\ lblId = {} /\ tStop = FALSE
    /\ started = 0 /\ writes = 0
    /\ finishes = [met |-> 0, taken |-> 0, reported |-> 0]
    /\ doubled = FALSE /\ dropped = FALSE /\ refSignal = {} /\ refLabel = {}

Worker ==
    \/ \E reg \in {"signal", "finish", "label"}, w \in Words : Meet(reg, w)
    \/ CheckSignal \/ StoreSignal \/ RaiseSignal \/ RaiseFinish
    \/ JoinLabel \/ RaiseLabel
    \/ \E dt \in BOOLEAN : EndProgram(dt)
    \/ Commit

EE ==
    \/ \E next \in {"enqueue", "finished", "idle"} : Call(next)
    \/ WaitVU \/ LoadInterrupts \/ LoadSignal \/ ClearSignal \/ TakeFinish
    \/ ClearLabel \/ TakeLabel
    \/ \E bit \in {"E", "T"} : TakeEnd(bit)
    \/ Return \/ Finished \/ ClearCsrSignal

Next == Worker \/ EE
Spec == Init /\ [][Next]_vars

-----------------------------------------------------------------------------
(* Properties *)

\* Every variable keeps its type; the EE's copy names only flags that are
\* still set, since nobody else clears them.
FlagTypes == {csrSignal, queued, tStop, doubled, dropped} \subseteq BOOLEAN
TypeOK ==
    /\ FlagTypes
    /\ flags \subseteq Flag /\ interrupts \subseteq Flag
    /\ {gsSignal, gsLabel, word, signal, gifSignal} \subseteq Word
    /\ jobs \in Nat /\ started \in Nat /\ writes \in Nat
    /\ wpc \in {"idle", "signal", "signalStore", "signalRaise", "finish", "label",
                "labelRaise", "commit"}
    /\ epc \in {"idle", "wait", "poll", "handle", "signal", "label", "finished"}
    /\ then \in {"idle", "enqueue", "finished"}
    /\ {sigId, lblId, refSignal, refLabel} \subseteq SUBSET Bit
    /\ finishes \in [met : Nat, taken : Nat, reported : Nat]
    /\ interrupts \subseteq flags \union (IF epc = "label" THEN {"label"} ELSE {})

\* No LABEL is lost, however two of them coalesce: LBLID with the waiting LABEL
\* applied is what all LABEL writes in their order would have made of it, and a
\* waiting LABEL is on its way to the EE.  Its flag is set, or about to be set
\* by the worker, or the EE has cleared it and takes the LABEL next; the order
\* of the two keeps "an update with the flag unset" away (Get_MTVUChanges()).
LabelIsNeverLost ==
    /\ Apply(lblId, gsLabel) = refLabel
    /\ gsLabel # NoWord => "label" \in flags \/ wpc = "labelRaise" \/ epc = "label"

\* Unless a double SIGNAL was reported, or the GIF unit's queue of one replaced
\* one, SIGID with what is queued and what waits is what all SIGNAL writes in
\* their order would have made of it: none is lost, torn or taken twice.
SignalIsExact ==
    (~doubled /\ ~dropped) =>
        LET fired == IF queued THEN Apply(sigId, gifSignal) ELSE sigId
            held == IF epc = "signal" THEN signal ELSE gsSignal
        IN  refSignal = IF "signal" \in flags THEN Apply(fired, held) ELSE fired

\* vu1Finish() is a barrier: when it returns no interrupt of a finished program
\* waits, LBLID is up to date, and every FINISH was taken or reported.
FinishDelivers ==
    epc = "finished" =>
        /\ flags = {} /\ gsLabel = NoWord /\ lblId = refLabel
        /\ finishes.met = finishes.taken + finishes.reported
=============================================================================
