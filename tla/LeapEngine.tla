----------------------------- MODULE LeapEngine -----------------------------
(***************************************************************************)
(* The engine's side of leap seconds (internal/engine/leap.go and the leap *)
(* parts of engine.go): establishing UTC, arming a boundary, noticing that *)
(* the kernel has crossed it, approving and activating tables, and the     *)
(* snapshot every other goroutine reads.                                   *)
(*                                                                         *)
(* wall is the system clock.  Only the difference of the two clocks since  *)
(* the last look matters to the code, so the monotonic clock appears as    *)
(* lost: the seconds by which wall fell behind it (mono - lastLeapMono)    *)
(* - (wall - lastLeapWall).  What the discipline says at the moment (its   *)
(* state s, the survivors' leap indicator li) is an open choice each time. *)
(***************************************************************************)
EXTENDS LeapTable

CONSTANTS
    LeapRequired,   \* Config.LeapRequired
    MaxTime         \* bound: the last second explored

ASSUME EngineConstants == LeapRequired \in BOOLEAN /\ MaxTime \in Nat \ {0}

VARIABLES
    wall, lost,     \* the system clock, and what it lost since the last look
    lastWall,       \* Engine.lastLeapWall
    active, anchor, approved,   \* activeLeap, leapAnchor, approvedLeap
    utcBound, startBound,       \* utcBound, startupUTCbound
    executed, pendingLeap,      \* executedLeap; pendingLeap and its kind
    view            \* the published snapshot, as LeapView reads it

clockVars == <<wall, lost>>
boundaryVars == <<lastWall, executed, pendingLeap, utcBound>>
tableVars == <<active, anchor, approved, startBound>>
engineVars == <<clockVars, boundaryVars, tableVars, view>>

Later(a, b) == IF a > b THEN a ELSE b

Warnings == {"insert", "delete"}
Indications == {"none", "unsync"} \cup Warnings
SyncStates == {"synced", "coarse", "no"}

Midnight(w) == (w \div Day + 1) * Day

-----------------------------------------------------------------------------

(* crossedAnnouncedLeapAt: an insertion repeats the last second of the day. *)
Repeated ==
    /\ pendingLeap.leap = "insert"
    /\ wall < pendingLeap.at /\ wall >= pendingLeap.at - 1
    /\ lastWall >= pendingLeap.at - 2
    /\ lost = 1

(* Mutant: only a reading past the boundary counts. *)
CrossedPastOnly ==
    pendingLeap # None /\ lastWall < pendingLeap.at /\ wall >= pendingLeap.at

Crossed ==
    /\ pendingLeap # None
    /\ \/ Repeated
       \/ lastWall < pendingLeap.at /\ wall >= pendingLeap.at

(* Mutant: a crossed boundary stays armed. *)
CrossLeapStaysArmed ==
    IF Crossed
    THEN [exec |-> pendingLeap.at, bound |-> Later(utcBound, pendingLeap.at),
          pend |-> pendingLeap]
    ELSE [exec |-> executed, bound |-> utcBound, pend |-> pendingLeap]

(* crossLeap: the boundary state after a look at the clock. *)
CrossLeap ==
    IF Crossed
    THEN [exec |-> pendingLeap.at, bound |-> Later(utcBound, pendingLeap.at),
          pend |-> None]
    ELSE [exec |-> executed, bound |-> utcBound, pend |-> pendingLeap]

(* notePendingLeap: the end of the current UTC day is armed. *)
NotePendingLeap(c, warn, w) ==
    IF c.pend = None /\ warn \in Warnings /\ Midnight(w) > c.exec
    THEN [at |-> Midnight(w), leap |-> warn]
    ELSE c.pend

(* UTC is established and has not moved back by more than a second. *)
TimeKnown(c, w, s) == s # "no" /\ w >= startBound /\ w + 1 >= c.bound

(***************************************************************************)
(* applyLeap at wall time w with the table act in force: c is the boundary *)
(* state, s the discipline's state, li the survivors' indicator; leap is    *)
(* what syncKernel tells the kernel.                                       *)
(***************************************************************************)
ApplyLeap(c, w, act, s, li) ==
    LET known == TimeKnown(c, w, s)
        bound == IF known THEN Later(c.bound, w) ELSE c.bound
        byTable == known /\ act # None /\ Covers(act, Later(w, bound))
        ready == byTable \/ (known /\ ~LeapRequired /\ li # "unsync")
        synced == s = "synced" /\ (ready \/ ~LeapRequired)
        warn == IF byTable THEN Indicator(act, w) ELSE li
        pend == IF ready /\ s = "synced" THEN NotePendingLeap(c, warn, w)
                                         ELSE c.pend
        ahead == pend # None /\ w < pend.at
        leap == IF ready /\ w < c.exec THEN "none"
                ELSE IF ahead /\ (ready \/ warn = "unsync") THEN pend.leap
                ELSE IF warn = "unsync" THEN "none" ELSE warn
    IN  [known |-> known, bound |-> bound, pend |-> pend, exec |-> c.exec,
         leap |-> IF synced THEN leap ELSE "unsync"]

(* The engine's variables after applyLeap returned a at wall time w. *)
Record(a, w) ==
    /\ utcBound' = a.bound /\ executed' = a.exec /\ pendingLeap' = a.pend
    /\ lastWall' = w /\ lost' = 0

(* publishStatus, the end of every handle. *)
Publish(a) ==
    view' = [known |-> a.known, bound |-> a.bound, exec |-> a.exec]

(* A tick, or a measurement that asks for no step: handle and publish. *)
Looked(s, li) == ApplyLeap(CrossLeap, wall, active, s, li)

Look(s, li) ==
    /\ Record(Looked(s, li), wall) /\ Publish(Looked(s, li))
    /\ UNCHANGED <<wall, tableVars>>

(* A step that lands past the armed boundary executes it, without a reset. *)
StepOver(c, w) ==
    IF c.pend # None /\ w >= c.pend.at
    THEN [c EXCEPT !.exec = c.pend.at, !.pend = None]
    ELSE c

(* The discipline steps the clock to w (ActionStep in handle).  A step leaves *)
(* it settling with a system source and nothing pending: UTC is coarse.       *)
Stepped(w, li) == ApplyLeap(StepOver(CrossLeap, w), w, active, "coarse", li)

ClockStep(w, li) ==
    /\ wall' = w
    /\ Record(Stepped(w, li), w) /\ Publish(Stepped(w, li))
    /\ UNCHANGED tableVars

-----------------------------------------------------------------------------

(* Mutant: the armed boundary is not compared with the candidate. *)
CheckLeapUnarmed(o, a) ==
    a.known /\ CheckUpdate(anchor, o, Later(wall, a.bound))

(* checkLeap: a is what applyLeap said in the same call. *)
CheckLeap(o, a) ==
    /\ a.known
    /\ CheckUpdate(anchor, o, Later(wall, a.bound))
    /\ a.pend # None => a.pend \in o.trans

Activable(o, a) == CheckLeap(o, a) /\ o = approved

(* The closure leapRequest(r, activate = false) queues; TRUE iff it answers nil. *)
ApproveLeap(o, ok, s, li) ==
    LET a == ApplyLeap(CrossLeap, wall, active, s, li)
    IN  /\ ok = CheckLeap(o, a)
        /\ Record(a, wall)
        /\ approved' = IF ok THEN o ELSE approved
        /\ UNCHANGED <<wall, active, anchor, startBound, view>>

(* leapRequest(r, activate = true): the table is in force and handle runs. *)
ActivateLeap(o, ok, s, li) ==
    LET a == ApplyLeap(CrossLeap, wall, active, s, li)
        c == [exec |-> a.exec, bound |-> a.bound, pend |-> a.pend]
        b == ApplyLeap(c, wall, o, s, li)
    IN  /\ ok = Activable(o, a)
        /\ IF ok
           THEN /\ active' = o /\ anchor' = o /\ approved' = None
                /\ Record(b, wall) /\ Publish(b)
           ELSE /\ Record(a, wall)
                /\ UNCHANGED <<active, anchor, approved, view>>
        /\ UNCHANGED <<wall, startBound>>

=============================================================================
