------------------------------ MODULE GsStream ------------------------------
(***************************************************************************)
(* What the GS mailbox promises: the commands of the EE form one stream,   *)
(* and the GS shows them in exactly that order.  A PATH1 ordering point    *)
(* stands for the output of one VU1 execution, and the n-th point shows    *)
(* that of the n-th execution.  The GS may show a run of PATH1 points at   *)
(* once, never across another command.                                     *)
(***************************************************************************)
EXTENDS Naturals, Sequences

Command == {"gs", "vsync", "path1"}

VARIABLES
    queue,  \* the commands sent and not shown
    issued, \* the VU1 executions whose place in the stream is fixed
    points  \* the number of the last PATH1 point shown

Init == queue = <<>> /\ issued = 0 /\ points = 0

\* A command joins the stream; an execution does so with its PATH1 point.
Send(c) ==
    /\ queue' = Append(queue, c)
    /\ issued' = IF c = "path1" THEN issued + 1 ELSE issued
    /\ UNCHANGED points

ShowCommand ==
    /\ queue # <<>> /\ Head(queue) # "path1"
    /\ queue' = Tail(queue)
    /\ UNCHANGED <<issued, points>>

ShowPoints(n) ==
    /\ \A i \in 1 .. n : queue[i] = "path1"
    /\ queue' = SubSeq(queue, n + 1, Len(queue))
    /\ points' = points + n
    /\ UNCHANGED issued

Next ==
    \/ \E c \in Command : Send(c)
    \/ ShowCommand
    \/ \E n \in 1 .. Len(queue) : ShowPoints(n)

Spec == Init /\ [][Next]_<<queue, issued, points>>
=============================================================================
