---------------------------- MODULE LeapBoundary ----------------------------
(***************************************************************************)
(* One leap boundary after another: the engine arms the kernel, the kernel *)
(* moves the clock, the discipline steps it, and the engine must notice    *)
(* each leap at its next look and none twice (engine.go, crossLeap).       *)
(***************************************************************************)
EXTENDS LeapEngine

CONSTANT MaxGap     \* seconds between two looks; the engine ticks every second

ASSUME BoundaryConstants == MaxGap \in Nat

VARIABLES
    kleap, kwait,   \* external: the kernel's leap flag, and TIME_WAIT
    unseen  \* ghost: the kernel moved the clock and no reset has followed:
            \* "no", or whether it was at the "armed" boundary or an "other"

boundaryAll == <<engineVars, kleap, kwait, unseen>>

(* syncKernel: the flag the kernel is given. *)
SyncKernel(a) ==
    /\ kleap' = a.leap
    /\ kwait' = (kwait /\ a.leap \in Warnings)

(* External: a kernel told to insert a leap second repeats the last second  *)
(* of the UTC day, one told to delete it skips it.  Once done it waits        *)
(* (TIME_WAIT) until the flag is withdrawn.                                   *)
KernelLeapDue ==
    /\ kleap \in Warnings /\ ~kwait
    /\ wall + (IF kleap = "delete" THEN 2 ELSE 1) = Midnight(wall)

KernelLeap ==
    /\ KernelLeapDue
    /\ kwait' = TRUE
    /\ \/ kleap = "insert" /\ wall' = wall /\ lost' = lost + 1
       \/ kleap = "delete" /\ wall' = wall + 2 /\ lost' = lost - 1
    /\ UNCHANGED kleap

Second ==
    /\ ~KernelLeapDue
    /\ wall' = wall + 1 /\ UNCHANGED <<lost, kleap, kwait>>

(* Engine.New over a durable state whose active table is t. *)
BoundaryInit ==
    /\ wall \in 1..Day /\ lost = 0 /\ lastWall = wall
    /\ kleap = "unsync" /\ kwait = FALSE
    /\ active \in Object \cup {None} /\ anchor = active /\ approved = None
    /\ utcBound = 1 /\ startBound = 1
    /\ executed = 0 /\ pendingLeap = None
    /\ view = [known |-> FALSE, bound |-> 1, exec |-> 0]
    /\ unseen = "no"

Gap == wall - lastWall + lost

AtArmed == pendingLeap # None /\ Midnight(wall) = pendingLeap.at

Elapse ==
    /\ Gap < MaxGap /\ wall + 2 <= MaxTime
    /\ \/ /\ Second /\ UNCHANGED unseen
       \/ /\ KernelLeap
          /\ unseen' = IF AtArmed THEN "armed" ELSE "other"
    /\ UNCHANGED <<boundaryVars, tableVars, view>>

Resets == unseen' = IF Crossed THEN "no" ELSE unseen

LookNow ==
    \E s \in SyncStates, li \in Indications :
        Look(s, li) /\ SyncKernel(Looked(s, li)) /\ Resets

StepNow ==
    \E w \in 1..MaxTime, li \in Indications :
        w # wall /\ ClockStep(w, li) /\ SyncKernel(Stepped(w, li)) /\ Resets

BoundaryNext == Elapse \/ LookNow \/ StepNow

BoundarySpec == BoundaryInit /\ [][BoundaryNext]_boundaryAll

-----------------------------------------------------------------------------

(***************************************************************************)
(* Where a leap table is required (it is of every server), the first look  *)
(* after the kernel applied the armed leap crosses the boundary and so     *)
(* resets the sources, whether the look falls in the repeated second or    *)
(* after it: no measurement that spans it is admitted.                     *)
(***************************************************************************)
ArmedLeapNoticed == lost = 0 => unseen # "armed"

(***************************************************************************)
(* A boundary is executed once.  Where a leap table is required, whatever  *)
(* the survivors announce and however the clock is stepped, one that has   *)
(* been executed is neither armed in the engine again nor due in the       *)
(* kernel.  (Without a required table a clock stepped far back leaves UTC  *)
(* unestablished, and the kernel is still told what the survivors say.)    *)
(***************************************************************************)
LeapsOnce ==
    /\ pendingLeap # None => pendingLeap.at > executed
    /\ KernelLeapDue => Midnight(wall) > executed

=============================================================================
