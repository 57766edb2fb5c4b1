----------------------------- MODULE LeapProofs -----------------------------
(***************************************************************************)
(* The leap-second updater, its store and the engine, for any set of       *)
(* tables, any number of crashes and any interleaving: what is in force is *)
(* durable and announces the leap that is armed, and every step is a step  *)
(* of the abstract leap authority.  And the engine with the kernel, for    *)
(* any clock and any step of it: a leap is executed once, and noticed.     *)
(***************************************************************************)
EXTENDS LeapInstall, LeapBoundary, TLAPS

(* What Updater.state and the files hold. *)
SavedState == [act : Accepted \cup {None}, pend : Accepted \cup {None},
               bound : Nat, exec : Nat, last : Nat]

(* Where save is called from: its caller goes on at the first label when   *)
(* it succeeds and at the second when it fails.                            *)
Returns == {<<"try", "try">>, <<"reapprove", "loop">>, <<"start", "start">>,
            <<"checked", "loop">>, <<"stopped", "stopped">>}

(* Table act announces the boundary p, if one is armed. *)
Announces(act, p) == p # None => act # None /\ p \in act.trans

(* A boundary has a time. *)
Timed(p) == p # None => p.at \in Nat

(* The engine's part: where a table is required, the leap that is armed is *)
(* the table's.                                                            *)
EngineInv ==
    /\ wall \in Nat /\ utcBound \in Nat /\ executed \in Nat
    /\ active \in Object \cup {None}
    /\ view \in [known : BOOLEAN, bound : Nat, exec : Nat]
    /\ Timed(pendingLeap)
    /\ LeapRequired => Announces(active, pendingLeap)

UpdaterType ==
    /\ st \in SavedState /\ file \in SavedState /\ survivors \subseteq SavedState
    /\ cand \in Accepted \cup {None}
    /\ committed \in BOOLEAN

(* The survivor every other one is at least as late as. *)
IsWeakest(m) == m \in survivors /\ \A x \in survivors : Trails(Anchor(m), Anchor(x))

(***************************************************************************)
(* The inductive invariant.  A state reaches the disk only from memory,    *)
(* whose anchor only moves forward, so every survivor trails the file, and *)
(* the file trails the anchor in memory.  While nothing is uncommitted     *)
(* either the survivors agree with memory, or memory still has the anchor  *)
(* that was loaded; it is then that a table is put in force.               *)
(***************************************************************************)
OrderInv ==
    /\ file \in survivors
    /\ \A x \in survivors : Trails(Anchor(x), Anchor(file))
    /\ ~Down => Trails(active, Anchor(file)) /\ Trails(Anchor(file), Anchor(st))
    /\ ~Down => \/ \A x \in survivors : Trails(active, Anchor(x))
                \/ Trails(active, found)
    /\ ~Down /\ committed => /\ Anchor(file) = Anchor(st)
                             /\ \/ \A x \in survivors : Anchor(x) = Anchor(st)
                                \/ Anchor(st) = found
    /\ \E m \in survivors : IsWeakest(m)

PlaceInv ==
    /\ Down => active = None /\ pendingLeap = None /\ cand = None
    /\ upc \in {"reapprove", "activate"} => committed /\ st.pend # None
    /\ upc = "approve" => cand # None /\ Trails(Anchor(st), cand.obj)
    /\ upc \in {"save", "renamed"} => then \in Returns
    /\ upc \in {"save", "renamed"} /\ then[1] = "reapprove" => st.pend # None
    /\ upc = "renamed" => file = st

InstallInv == EngineInv /\ UpdaterType /\ OrderInv /\ PlaceInv

-----------------------------------------------------------------------------
(* Tables and days. *)

LEMMA ObjectFields ==
    ASSUME NEW o \in Object
    PROVE  /\ o.updated \in Nat /\ o.expiry \in Nat /\ o # None
           /\ o.trans \subseteq Transition
           /\ \A tr \in o.trans : tr.at % Day = 0
BY TableConstants DEF Table, WellFormed

(* "Trails" orders the tables and the absence of one. *)
LEMMA TrailsReflexive == ASSUME NEW a PROVE Trails(a, a)
BY DEF Trails

LEMMA TrailsTransitive ==
    ASSUME NEW a \in Object \cup {None}, NEW b \in Object \cup {None},
           NEW c \in Object \cup {None}, Trails(a, b), Trails(b, c)
    PROVE  Trails(a, c)
<1>1. CASE a = None \/ a = b \/ b = c
  BY <1>1 DEF Trails
<1>2. CASE a # None /\ a # b /\ b # c
  <2>1. a \in Object /\ b \in Object /\ c \in Object
    BY <1>2 DEF Trails
  <2>2. NoRollback(a, b) /\ NoRollback(b, c)
    BY <1>2, <2>1 DEF Trails
  <2>3. NoRollback(a, c)
    BY <2>1, <2>2, ObjectFields DEF NoRollback
  <2>. QED  BY <2>1, <2>3, ObjectFields DEF Trails
<1>. QED  BY <1>1, <1>2

LEMMA TrailsAntisymmetric ==
    ASSUME NEW a \in Object, NEW b \in Object, Trails(a, b), Trails(b, a)
    PROVE  a = b
BY ObjectFields DEF Trails, NoRollback

(* The coming midnight lies ahead. *)
LEMMA MidnightAhead == ASSUME NEW w \in Nat PROVE Midnight(w) \in Nat /\ w < Midnight(w)
<1>. DEFINE d == w \div Day
            r == w % Day
<1>1. d \in Nat /\ r \in 0..(Day - 1) /\ w = Day * d + r
  BY TableConstants
<1>2. Midnight(w) = (d + 1) * Day
  BY DEF Midnight
<1>. HIDE DEF d, r
<1>3. (d + 1) * Day = Day * d + Day
  BY <1>1, TableConstants
<1>4. Day * d \in Nat
  BY <1>1, TableConstants
<1>. QED  BY <1>1, <1>2, <1>3, <1>4, TableConstants

(* Between a midnight and the day before it there is no other. *)
LEMMA DayBoundary ==
    ASSUME NEW w \in Nat, NEW n \in Nat, n % Day = 0, n - Day <= w, w < n
    PROVE  n = Midnight(w)
<1>. DEFINE q == n \div Day
            d == w \div Day
            r == w % Day
<1>1. q \in Nat /\ n = Day * q
  BY TableConstants
<1>2. d \in Nat /\ r \in 0..(Day - 1) /\ w = Day * d + r
  BY TableConstants
<1>. HIDE DEF q, d, r
<1>3. Day * q < Day * (d + 2)
  BY <1>1, <1>2, TableConstants
<1>4. Day * d < Day * q
  BY <1>1, <1>2, TableConstants
<1>5. q < d + 2
  BY <1>3, <1>1, <1>2, TableConstants
<1>6. d < q
  BY <1>4, <1>1, <1>2, TableConstants
<1>7. n = (d + 1) * Day
  BY <1>1, <1>2, <1>5, <1>6, TableConstants
<1>. QED  BY <1>7 DEF Midnight, d

(* The warning of a table is about a transition at the coming midnight. *)
LEMMA IndicatorAtMidnight ==
    ASSUME NEW o \in Object, NEW w \in Nat, Indicator(o, w) \in Warnings
    PROVE  [at |-> Midnight(w), leap |-> Indicator(o, w)] \in o.trans
<1>. DEFINE Due(tr) == tr.at - Day <= w /\ w < tr.at
            tr == CHOOSE tr \in o.trans : Due(tr)
<1>1. \E x \in o.trans : Due(x)
  BY DEF Indicator, Warnings
<1>2. tr \in o.trans /\ Due(tr)
  BY <1>1
<1>3. Indicator(o, w) = tr.leap
  BY <1>1 DEF Indicator
<1>. HIDE DEF tr
<1>4. tr \in Transition /\ tr.at % Day = 0
  BY <1>2, ObjectFields
<1>5. tr.at = Midnight(w)
  BY <1>2, <1>4, DayBoundary DEF Transition
<1>6. tr = [at |-> tr.at, leap |-> tr.leap]
  BY <1>4 DEF Transition
<1>. QED  BY <1>2, <1>3, <1>5, <1>6

-----------------------------------------------------------------------------
(* The engine. *)

(* crossLeap disarms a boundary or leaves it. *)
LEMMA CrossLeapArmed ==
    ASSUME utcBound \in Nat, executed \in Nat, Timed(pendingLeap),
           LeapRequired => Announces(active, pendingLeap)
    PROVE  /\ CrossLeap.bound \in Nat /\ CrossLeap.exec \in Nat
           /\ Timed(CrossLeap.pend) /\ (LeapRequired => Announces(active, CrossLeap.pend))
<1>1. CASE Crossed
  <2>1. pendingLeap.at \in Nat
    BY <1>1 DEF Crossed, Timed
  <2>. QED  BY <1>1, <2>1 DEF CrossLeap, Later, Announces, Timed
<1>2. CASE ~Crossed
  BY <1>2 DEF CrossLeap
<1>. QED  BY <1>1, <1>2

(* applyLeap arms a boundary that has a time and, where a table is         *)
(* required, one that the table in force announces: only the table makes   *)
(* the engine ready, and its warning is then the one that counts.          *)
LEMMA ApplyLeapArmed ==
    ASSUME NEW act \in Object \cup {None}, NEW w \in Nat, NEW s, NEW li, NEW c,
           c.bound \in Nat, c.exec \in Nat, Timed(c.pend),
           LeapRequired => Announces(act, c.pend),
           NEW a, a = ApplyLeap(c, w, act, s, li)
    PROVE  /\ a.known \in BOOLEAN /\ a.bound \in Nat /\ a.exec \in Nat
           /\ Timed(a.pend) /\ (LeapRequired => Announces(act, a.pend))
<1>. DEFINE timed == TimeKnown(c, w, s)
            bound == IF timed THEN Later(c.bound, w) ELSE c.bound
            byTable == timed /\ act # None /\ Covers(act, Later(w, bound))
            ready == byTable \/ (timed /\ ~LeapRequired /\ li # "unsync")
            warn == IF byTable THEN Indicator(act, w) ELSE li
            noted == NotePendingLeap(c, warn, w)
<1>1. timed \in BOOLEAN
  BY DEF TimeKnown
<1>2. bound \in Nat
  BY DEF Later
<1>3. a.known = timed /\ a.bound = bound /\ a.exec = c.exec
  BY DEF ApplyLeap
<1>4. a.pend = c.pend \/ (ready /\ a.pend = noted)
  BY DEF ApplyLeap
<1>5. Timed(noted)
  <2>. HIDE DEF warn
  <2>1. Midnight(w) \in Nat
    BY MidnightAhead
  <2>. QED  BY <2>1 DEF NotePendingLeap, Timed
<1>6. LeapRequired /\ ready => Announces(act, noted)
  <2>. SUFFICES ASSUME LeapRequired, ready PROVE Announces(act, noted)
    OBVIOUS
  <2>1. act \in Object /\ warn = Indicator(act, w)
    OBVIOUS
  <2>. HIDE DEF warn, ready
  <2>2. CASE warn \in Warnings
    <3>1. [at |-> Midnight(w), leap |-> warn] \in act.trans
      BY <2>1, <2>2, IndicatorAtMidnight
    <3>. QED  BY <2>1, <3>1, ObjectFields DEF NotePendingLeap, Announces
  <2>3. CASE warn \notin Warnings
    BY <2>3 DEF NotePendingLeap
  <2>. QED  BY <2>2, <2>3
<1>. HIDE DEF timed, bound, noted, ready
<1>. QED  BY <1>1, <1>2, <1>3, <1>4, <1>5, <1>6

(* A look at the clock. *)
LEMMA LookStep ==
    ASSUME EngineInv, NEW s, NEW li, Look(s, li)
    PROVE  EngineInv' /\ active' = active
<1>. DEFINE a == Looked(s, li)
<1>1. /\ CrossLeap.bound \in Nat /\ CrossLeap.exec \in Nat
      /\ Timed(CrossLeap.pend) /\ (LeapRequired => Announces(active, CrossLeap.pend))
  BY CrossLeapArmed DEF EngineInv
<1>2. /\ a.known \in BOOLEAN /\ a.bound \in Nat /\ a.exec \in Nat
      /\ Timed(a.pend) /\ (LeapRequired => Announces(active, a.pend))
  BY <1>1, ApplyLeapArmed DEF Looked, EngineInv
<1>3. Record(a, wall) /\ Publish(a) /\ UNCHANGED <<wall, active>>
  BY DEF Look, tableVars
<1>. HIDE DEF a
<1>. QED  BY <1>2, <1>3 DEF Record, Publish, EngineInv, Announces, Timed

(* A request for approval, answered or not: the table in force stays. *)
LEMMA ApprovalStep ==
    ASSUME EngineInv, NEW o \in Object, NEW heard \in BOOLEAN, AskApproval(o, heard)
    PROVE  EngineInv' /\ active' = active
<1>1. CASE UNCHANGED engineVars
  BY <1>1 DEF engineVars, clockVars, boundaryVars, tableVars, EngineInv, Announces, Timed
<1>2. ASSUME NEW ok \in BOOLEAN, NEW s, NEW li, ApproveLeap(o, ok, s, li)
      PROVE  EngineInv' /\ active' = active
  <2>. DEFINE a == ApplyLeap(CrossLeap, wall, active, s, li)
  <2>1. /\ CrossLeap.bound \in Nat /\ CrossLeap.exec \in Nat
        /\ Timed(CrossLeap.pend) /\ (LeapRequired => Announces(active, CrossLeap.pend))
    BY CrossLeapArmed DEF EngineInv
  <2>2. /\ a.bound \in Nat /\ a.exec \in Nat
        /\ Timed(a.pend) /\ (LeapRequired => Announces(active, a.pend))
    BY <2>1, ApplyLeapArmed DEF EngineInv
  <2>3. Record(a, wall) /\ UNCHANGED <<wall, active, view>>
    BY <1>2 DEF ApproveLeap
  <2>. HIDE DEF a
  <2>. QED  BY <2>2, <2>3 DEF Record, EngineInv, Announces, Timed
<1>. QED  BY <1>1, <1>2 DEF AskApproval

(* A request for activation: one that was granted put o in force, and o    *)
(* announces what is armed; one that was not left the table alone.         *)
LEMMA ActivationStep ==
    ASSUME EngineInv, NEW o \in Object, NEW heard \in BOOLEAN, AskActivation(o, heard)
    PROVE  EngineInv' /\ active' \in {active, o} /\ (heard => active' = o)
<1>1. CASE ctx /\ ~heard /\ UNCHANGED engineVars
  BY <1>1 DEF engineVars, clockVars, boundaryVars, tableVars, EngineInv, Announces, Timed
<1>2. ASSUME NEW ok \in BOOLEAN, NEW s, NEW li,
             ActivateLeap(o, ok, s, li), Answer(ok, heard)
      PROVE  EngineInv' /\ active' \in {active, o} /\ (heard => active' = o)
  <2>. DEFINE a == ApplyLeap(CrossLeap, wall, active, s, li)
              c == [exec |-> a.exec, bound |-> a.bound, pend |-> a.pend]
              b == ApplyLeap(c, wall, o, s, li)
  <2>1. /\ CrossLeap.bound \in Nat /\ CrossLeap.exec \in Nat
        /\ Timed(CrossLeap.pend) /\ (LeapRequired => Announces(active, CrossLeap.pend))
    BY CrossLeapArmed DEF EngineInv
  <2>2. /\ a.bound \in Nat /\ a.exec \in Nat
        /\ Timed(a.pend) /\ (LeapRequired => Announces(active, a.pend))
    BY <2>1, ApplyLeapArmed DEF EngineInv
  <2>3. CASE ~ok
    <3>1. Record(a, wall) /\ UNCHANGED <<wall, active, view>>
      BY <1>2, <2>3 DEF ActivateLeap
    <3>2. ~heard
      BY <1>2, <2>3 DEF Answer
    <3>. HIDE DEF a
    <3>. QED  BY <2>2, <3>1, <3>2 DEF Record, EngineInv, Announces, Timed
  <2>4. CASE ok
    <3>1. Activable(o, a)
      BY <1>2, <2>4 DEF ActivateLeap
    <3>2. active' = o /\ Record(b, wall) /\ Publish(b) /\ wall' = wall
      BY <1>2, <2>4 DEF ActivateLeap
    <3>. HIDE DEF a
    <3>3. Announces(o, c.pend) /\ Timed(c.pend) /\ c.bound \in Nat /\ c.exec \in Nat
      BY <2>2, <3>1, ObjectFields DEF Activable, CheckLeap, Announces
    <3>. HIDE DEF c
    <3>4. /\ b.known \in BOOLEAN /\ b.bound \in Nat /\ b.exec \in Nat
          /\ Timed(b.pend) /\ (LeapRequired => Announces(o, b.pend))
      BY <3>3, ApplyLeapArmed DEF EngineInv
    <3>. HIDE DEF b
    <3>. QED  BY <3>2, <3>4 DEF Record, Publish, EngineInv, Announces, Timed
  <2>. QED  BY <2>3, <2>4
<1>. QED  BY <1>1, <1>2 DEF AskActivation

-----------------------------------------------------------------------------
(* The updater. *)

LEMMA AnchorIsTable ==
    ASSUME NEW x \in SavedState
    PROVE  Anchor(x) \in Object \cup {None}
BY DEF SavedState, Accepted, Anchor, ObjectOf

(* What is in force, the file and memory are of one lineage, in this order. *)
LEMMA TrailsState ==
    ASSUME InstallInv, ~Down
    PROVE  /\ Trails(active, Anchor(st))
           /\ \A x \in survivors : Trails(Anchor(x), Anchor(st))
<1>1. Trails(active, Anchor(file)) /\ Trails(Anchor(file), Anchor(st))
  BY DEF InstallInv, OrderInv
<1>2. \A x \in survivors \cup {st, file} : Anchor(x) \in Object \cup {None}
  BY AnchorIsTable DEF InstallInv, UpdaterType
<1>3. Trails(active, Anchor(st))
  BY <1>1, <1>2, TrailsTransitive DEF InstallInv, EngineInv
<1>4. ASSUME NEW x \in survivors PROVE Trails(Anchor(x), Anchor(st))
  <2>1. Trails(Anchor(x), Anchor(file))
    BY DEF InstallInv, OrderInv
  <2>. QED  BY <1>1, <1>2, <2>1, TrailsTransitive
<1>. QED  BY <1>3, <1>4

(* At these places nothing is owed. *)
LEMMA FreePlace ==
    ASSUME upc' \in {"loop", "try", "start", "checked", "stopped"}
    PROVE  PlaceInv'
BY DEF PlaceInv, Down

(* A step that leaves the disk, the anchor and the table in force alone. *)
LEMMA OrderKept ==
    ASSUME InstallInv, ~Down, active' = active, UNCHANGED <<file, survivors, found>>,
           Anchor(st') = Anchor(st), committed' = committed
    PROVE  OrderInv'
BY DEF InstallInv, OrderInv, IsWeakest

LEMMA CheckpointedKeeps ==
    ASSUME NEW x \in SavedState, NEW force \in BOOLEAN,
           view.bound \in Nat, view.exec \in Nat
    PROVE  /\ Checkpointed(x, force) \in SavedState
           /\ Checkpointed(x, force).pend = x.pend
           /\ Anchor(Checkpointed(x, force)) = Anchor(x)
<1>. DEFINE y == Checkpointed(x, force)
            e == Later(view.exec, x.exec)
            did == view.exec > x.exec
            over == x.act # None /\ view.bound >= x.act.obj.expiry
                                 /\ x.bound < x.act.obj.expiry
            due == force \/ did \/ over \/ view.bound - x.bound >= Checkpoint
            b == IF due THEN Later(view.bound, x.bound) ELSE x.bound
<1>1. e \in Nat /\ Later(view.bound, x.bound) \in Nat /\ x.bound \in Nat
  BY DEF SavedState, Later
<1>2. b \in Nat
  <2>. HIDE DEF due
  <2>. QED  BY <1>1
<1>3. y = [x EXCEPT !.exec = e, !.bound = b]
  BY Zenon DEF Checkpointed
<1>. HIDE DEF y, e, b
<1>4. y \in SavedState /\ y.act = x.act /\ y.pend = x.pend
  BY <1>1, <1>2, <1>3 DEF SavedState
<1>. QED  BY <1>4 DEF y, Anchor

LEMMA EngineFrame ==
    ASSUME InstallInv, UNCHANGED engineVars
    PROVE  EngineInv' /\ active' = active
BY DEF engineVars, clockVars, boundaryVars, tableVars, InstallInv, EngineInv, Announces, Timed

LEMMA TopStep == ASSUME InstallInv, Top PROVE InstallInv'
<1>1. EngineInv' /\ active' = active
  BY EngineFrame DEF Top
<1>2. st' \in SavedState /\ st'.pend = st.pend /\ Anchor(st') = Anchor(st)
  BY CheckpointedKeeps DEF Top, InstallInv, EngineInv, UpdaterType
<1>3. UpdaterType'
  BY <1>2 DEF Top, diskVars, InstallInv, UpdaterType
<1>4. OrderInv'
  BY <1>1, <1>2, OrderKept DEF Top, diskVars, Down
<1>5. PlaceInv'
  <2>1. CASE upc' = "save" /\ then' = <<"try", "try">>
    BY <2>1 DEF PlaceInv, Returns, Down
  <2>2. CASE upc' = "try"
    BY <2>2, FreePlace
  <2>. QED  BY <2>1, <2>2 DEF Top
<1>. QED  BY <1>1, <1>3, <1>4, <1>5 DEF InstallInv

(* The steps of the loop that touch neither the state nor the disk. *)
LEMMA LoopStep ==
    ASSUME InstallInv, TryPending \/ Iterated \/ JobFailed \/ NotModified
    PROVE  InstallInv'
<1>1. /\ UNCHANGED engineVars /\ UNCHANGED <<st, committed, file, survivors, found>>
      /\ cand' \in {cand, None}
  BY DEF TryPending, Iterated, JobFailed, NotModified, Loop, Goto, diskVars
<1>2. EngineInv' /\ active' = active
  BY <1>1, EngineFrame
<1>3. UpdaterType'
  BY <1>1 DEF InstallInv, UpdaterType
<1>4. ~Down
  BY DEF TryPending, Iterated, JobFailed, NotModified, Down
<1>5. OrderInv'
  BY <1>1, <1>2, <1>4, OrderKept
<1>6. PlaceInv'
  <2>1. CASE TryPending
    <3>1. upc' = "reapprove" /\ committed' /\ st'.pend # None
      BY <1>1, <2>1 DEF TryPending, Pending, Goto
    <3>. QED  BY <3>1 DEF PlaceInv, Down
  <2>2. CASE Iterated \/ JobFailed \/ NotModified
    BY <2>2, FreePlace DEF Iterated, JobFailed, NotModified, Loop, Goto
  <2>. QED  BY <2>1, <2>2
<1>. QED  BY <1>2, <1>3, <1>5, <1>6 DEF InstallInv

(* install checks a table against the anchor, so what it offers is later.  *)
LEMMA InstallStep ==
    ASSUME InstallInv, NEW o \in Object, Install(o)
    PROVE  InstallInv'
<1>. DEFINE now == Later(wall, view.bound)
<1>1. now \in Nat
  BY DEF Later, InstallInv, EngineInv
<1>2. /\ UNCHANGED engineVars /\ UNCHANGED <<st, committed, file, survivors, found>>
      /\ upc = "loop" /\ upc' = "approve" /\ cand' = [obj |-> o, acc |-> now]
      /\ CheckUpdate(Anchor(st), o, now)
  BY DEF Install, diskVars
<1>. HIDE DEF now
<1>3. EngineInv' /\ active' = active
  BY <1>2, EngineFrame
<1>4. cand' \in Accepted /\ cand'.obj = o /\ cand' # None
  BY <1>1, <1>2, InstallConstants DEF Accepted
<1>5. UpdaterType'
  BY <1>2, <1>4 DEF InstallInv, UpdaterType
<1>6. OrderInv'
  BY <1>2, <1>3, OrderKept DEF Down
<1>7. Trails(Anchor(st), o)
  BY <1>2, ObjectFields DEF CheckUpdate, Revises, Trails
<1>8. PlaceInv'
  BY <1>2, <1>4, <1>7 DEF PlaceInv, Down
<1>. QED  BY <1>3, <1>5, <1>6, <1>8 DEF InstallInv

(* An approved table becomes the anchor in memory, uncommitted. *)
LEMMA ApproveStep ==
    ASSUME InstallInv, NEW heard \in BOOLEAN, Approve(heard)
    PROVE  InstallInv'
<1>1. upc = "approve" /\ cand \in Accepted /\ cand.obj \in Object /\ Trails(Anchor(st), cand.obj)
  BY DEF Approve, InstallInv, UpdaterType, PlaceInv, Accepted
<1>2. EngineInv' /\ active' = active
  BY <1>1, ApprovalStep DEF Approve, InstallInv
<1>3. UNCHANGED <<file, survivors, found>>
  BY DEF Approve, diskVars
<1>4. CASE ~heard
  <2>1. upc' = "loop" /\ cand' = None /\ UNCHANGED <<st, committed>>
    BY <1>4 DEF Approve, Loop
  <2>2. UpdaterType'
    BY <1>3, <2>1 DEF InstallInv, UpdaterType
  <2>3. OrderInv'
    BY <1>1, <1>2, <1>3, <2>1, OrderKept DEF Down
  <2>. QED  BY <1>2, <2>1, <2>2, <2>3, FreePlace DEF InstallInv
<1>5. CASE heard
  <2>1. /\ st' = [st EXCEPT !.pend = cand, !.bound = cand.acc]
        /\ committed' = FALSE /\ cand' = cand
        /\ upc' = "save" /\ then' = <<"reapprove", "loop">>
    BY <1>5 DEF Approve, GotoSave
  <2>2. st' \in SavedState /\ st'.pend = cand /\ cand # None
    BY <1>1, <2>1, InstallConstants DEF InstallInv, UpdaterType, SavedState, Accepted
  <2>3. Anchor(st') = cand.obj
    BY <2>2 DEF Anchor
  <2>4. UpdaterType'
    BY <1>3, <2>1, <2>2 DEF InstallInv, UpdaterType
  <2>5. Trails(Anchor(file), Anchor(st'))
    <3>1. Trails(Anchor(file), Anchor(st))
      BY <1>1 DEF InstallInv, OrderInv, Down
    <3>2. Anchor(file) \in Object \cup {None} /\ Anchor(st) \in Object \cup {None}
      BY AnchorIsTable DEF InstallInv, UpdaterType
    <3>. QED  BY <1>1, <2>3, <3>1, <3>2, TrailsTransitive
  <2>6. OrderInv'
    BY <1>1, <1>2, <1>3, <2>1, <2>5 DEF InstallInv, OrderInv, IsWeakest, Down
  <2>7. PlaceInv'
    BY <2>1, <2>2 DEF PlaceInv, Returns, Down
  <2>. QED  BY <1>2, <2>4, <2>6, <2>7 DEF InstallInv
<1>. QED  BY <1>4, <1>5

(* What a request that was not granted leaves: the state as it was. *)
LEMMA NotActivatedPlace ==
    ASSUME NotActivated
    PROVE  upc' \in {"start", "loop"} /\ cand' \in {cand, None}
BY DEF NotActivated, Loop, Goto

LEMMA ReapproveStep ==
    ASSUME InstallInv, NEW heard \in BOOLEAN, Reapprove(heard)
    PROVE  InstallInv'
<1>1. upc = "reapprove" /\ committed /\ st.pend # None /\ st.pend.obj \in Object
  BY DEF Reapprove, InstallInv, UpdaterType, PlaceInv, SavedState, Accepted
<1>2. EngineInv' /\ active' = active
  BY <1>1, ApprovalStep DEF Reapprove, InstallInv
<1>3. UNCHANGED <<file, survivors, found, st, committed>>
  BY DEF Reapprove, diskVars
<1>4. OrderInv'
  BY <1>1, <1>2, <1>3, OrderKept DEF Down
<1>5. CASE heard
  <2>1. upc' = "activate" /\ cand' = cand
    BY <1>5 DEF Reapprove, Goto
  <2>2. PlaceInv'
    BY <1>1, <1>3, <2>1 DEF PlaceInv, Down
  <2>3. UpdaterType'
    BY <1>3, <2>1 DEF InstallInv, UpdaterType
  <2>. QED  BY <1>2, <1>4, <2>2, <2>3 DEF InstallInv
<1>6. CASE ~heard
  <2>1. upc' \in {"start", "loop"} /\ cand' \in {cand, None}
    BY <1>6, NotActivatedPlace DEF Reapprove
  <2>2. UpdaterType'
    BY <1>3, <2>1 DEF InstallInv, UpdaterType
  <2>. QED  BY <1>2, <1>4, <2>1, <2>2, FreePlace DEF InstallInv
<1>. QED  BY <1>5, <1>6

(* Only a committed table is put in force, when every survivor has it. *)
LEMMA ActivateStep ==
    ASSUME InstallInv, NEW heard \in BOOLEAN, Activate(heard)
    PROVE  InstallInv'
<1>1. /\ upc = "activate" /\ committed /\ st.pend # None
      /\ st.pend \in Accepted /\ st.pend.obj \in Object
  BY DEF Activate, InstallInv, UpdaterType, PlaceInv, SavedState, Accepted
<1>2. EngineInv' /\ active' \in {active, st.pend.obj} /\ (heard => active' = st.pend.obj)
  BY <1>1, ActivationStep DEF Activate, InstallInv
<1>3. UNCHANGED <<file, survivors, found, committed>>
  BY DEF Activate, diskVars
<1>4. Anchor(st) = st.pend.obj
  BY <1>1 DEF Anchor
<1>5. /\ Trails(active', Anchor(st)) /\ Anchor(file) = Anchor(st)
      /\ \/ \A x \in survivors : Trails(active', Anchor(x))
         \/ Trails(active', found)
  BY <1>1, <1>2, <1>4, TrailsState DEF InstallInv, OrderInv, Down, Trails
<1>6. CASE heard
  <2>1. st' = [st EXCEPT !.act = st.pend, !.pend = None]
    BY <1>6 DEF Activate
  <2>2. st' \in SavedState /\ st'.act = st.pend /\ st'.pend = None
    BY <1>1, <2>1 DEF InstallInv, UpdaterType, SavedState
  <2>3. Anchor(st') = Anchor(st)
    BY <1>1, <1>4, <2>2 DEF Anchor, ObjectOf
  <2>4. /\ upc' = "save" /\ cand' = cand
        /\ then' \in {<<"start", "start">>, <<"checked", "loop">>}
    BY <1>6 DEF Activate, GotoSave
  <2>5. UpdaterType'
    BY <1>3, <2>2, <2>4 DEF InstallInv, UpdaterType
  <2>6. OrderInv'
    BY <1>1, <1>3, <1>5, <2>3, TrailsReflexive DEF InstallInv, OrderInv, IsWeakest, Down
  <2>7. PlaceInv'
    BY <2>4 DEF PlaceInv, Returns, Down
  <2>. QED  BY <1>2, <2>5, <2>6, <2>7 DEF InstallInv
<1>7. CASE ~heard
  <2>1. upc' \in {"start", "loop"} /\ cand' \in {cand, None} /\ st' = st
    BY <1>7, NotActivatedPlace DEF Activate
  <2>2. UpdaterType'
    BY <1>3, <2>1 DEF InstallInv, UpdaterType
  <2>3. OrderInv'
    BY <1>1, <1>3, <1>5, <2>1, TrailsReflexive DEF InstallInv, OrderInv, IsWeakest, Down
  <2>. QED  BY <1>2, <2>1, <2>2, <2>3, FreePlace DEF InstallInv
<1>. QED  BY <1>6, <1>7

LEMMA CheckedStep == ASSUME InstallInv, Checked PROVE InstallInv'
<1>1. EngineInv' /\ active' = active
  BY EngineFrame DEF Checked
<1>2. st' \in SavedState /\ Anchor(st') = Anchor(st)
  <2>1. CASE Seed /\ view.known
    <3>. DEFINE b == Later(wall, Later(view.bound, st.bound))
    <3>1. b \in Nat /\ wall \in Nat /\ st \in SavedState
      BY DEF Later, InstallInv, EngineInv, UpdaterType, SavedState
    <3>2. st' = [st EXCEPT !.last = wall, !.bound = b]
      BY <2>1 DEF Checked
    <3>. HIDE DEF b
    <3>3. st' \in SavedState /\ st'.act = st.act /\ st'.pend = st.pend
      BY <3>1, <3>2 DEF SavedState
    <3>. QED  BY <3>3 DEF Anchor
  <2>2. CASE ~(Seed /\ view.known)
    BY <2>2 DEF Checked, InstallInv, UpdaterType
  <2>. QED  BY <2>1, <2>2
<1>3. upc' = "loop" /\ cand' = None /\ UNCHANGED <<file, survivors, found, committed>>
  BY DEF Checked, Loop, diskVars
<1>4. UpdaterType'
  BY <1>2, <1>3 DEF InstallInv, UpdaterType
<1>5. OrderInv'
  BY <1>1, <1>2, <1>3, OrderKept DEF Checked, Down
<1>. QED  BY <1>1, <1>3, <1>4, <1>5, FreePlace DEF InstallInv

LEMMA FinalStep == ASSUME InstallInv, Final PROVE InstallInv'
<1>1. EngineInv' /\ active' = active
  BY EngineFrame DEF Final
<1>2. st' \in SavedState /\ Anchor(st') = Anchor(st)
  BY CheckpointedKeeps DEF Final, InstallInv, EngineInv, UpdaterType
<1>3. UNCHANGED <<file, survivors, found, committed, cand>>
  BY DEF Final, GotoSave, Goto, diskVars
<1>4. UpdaterType'
  BY <1>2, <1>3 DEF InstallInv, UpdaterType
<1>5. OrderInv'
  BY <1>1, <1>2, <1>3, OrderKept DEF Final, Down
<1>6. PlaceInv'
  <2>1. CASE dirty'
    <3>1. upc' = "save" /\ then' = <<"stopped", "stopped">>
      BY <2>1 DEF Final, GotoSave
    <3>. QED  BY <3>1 DEF PlaceInv, Returns, Down
  <2>2. CASE ~dirty'
    BY <2>2, FreePlace DEF Final, Goto
  <2>. QED  BY <2>1, <2>2
<1>. QED  BY <1>1, <1>4, <1>5, <1>6 DEF InstallInv

-----------------------------------------------------------------------------
(* The store. *)

LEMMA ReturnPlace ==
    ASSUME NEW l, Return(l)
    PROVE  upc' = l /\ cand' \in {cand, None}
BY DEF Return, Loop, Goto

LEMMA SaveFailsStep == ASSUME InstallInv, SaveFails PROVE InstallInv'
<1>1. EngineInv' /\ active' = active
  BY EngineFrame DEF SaveFails
<1>2. UNCHANGED <<st, committed, file, survivors, found>> /\ ~Down
  BY DEF SaveFails, diskVars, Down
<1>3. upc' = then[2] /\ cand' \in {cand, None}
  BY ReturnPlace DEF SaveFails
<1>4. then \in Returns
  BY DEF SaveFails, InstallInv, PlaceInv
<1>5. upc' \in {"loop", "try", "start", "stopped"}
  BY <1>3, <1>4 DEF Returns
<1>6. UpdaterType'
  BY <1>2, <1>3 DEF InstallInv, UpdaterType
<1>7. OrderInv'
  BY <1>1, <1>2, OrderKept
<1>. QED  BY <1>1, <1>5, <1>6, <1>7, FreePlace DEF InstallInv

(* The rename adds the state in memory to what may survive: no survivor is *)
(* later than it, so the weakest one stays.                                *)
LEMMA RenameStep == ASSUME InstallInv, Rename PROVE InstallInv'
<1>1. EngineInv' /\ active' = active
  BY EngineFrame DEF Rename
<1>2. /\ file' = st /\ survivors' = survivors \cup {st} /\ upc' = "renamed" /\ ~Down
      /\ UNCHANGED <<st, committed, found, cand, then>>
  BY DEF Rename, Down
<1>3. UpdaterType'
  BY <1>2 DEF InstallInv, UpdaterType
<1>4. /\ Trails(active, Anchor(st)) /\ Trails(Anchor(st), Anchor(st))
      /\ \A x \in survivors : Trails(Anchor(x), Anchor(st))
  BY <1>2, TrailsState, TrailsReflexive
<1>5. PICK m \in survivors : IsWeakest(m)
  BY DEF InstallInv, OrderInv
<1>6. IsWeakest(m)' /\ m \in survivors'
  BY <1>2, <1>4, <1>5 DEF IsWeakest
<1>7. OrderInv'
  <2>1. \A x \in survivors' : Trails(Anchor(x), Anchor(file'))
    BY <1>2, <1>4
  <2>2. \/ \A x \in survivors' : Trails(active', Anchor(x))
        \/ Trails(active', found')
    BY <1>1, <1>2, <1>4 DEF InstallInv, OrderInv
  <2>3. committed' => \/ \A x \in survivors' : Anchor(x) = Anchor(st')
                      \/ Anchor(st') = found'
    BY <1>2 DEF InstallInv, OrderInv
  <2>. QED  BY <1>1, <1>2, <1>4, <1>6, <2>1, <2>2, <2>3 DEF OrderInv
<1>8. PlaceInv'
  BY <1>2 DEF Rename, InstallInv, PlaceInv, Down
<1>. QED  BY <1>1, <1>3, <1>7, <1>8 DEF InstallInv

LEMMA SyncDirStep == ASSUME InstallInv, SyncDir PROVE InstallInv'
<1>1. EngineInv' /\ active' = active
  BY EngineFrame DEF SyncDir
<1>2. /\ survivors' = {st} /\ committed' = TRUE /\ UNCHANGED <<st, file>>
      /\ upc = "renamed" /\ file = st
  BY DEF SyncDir, InstallInv, PlaceInv
<1>3. upc' = then[1] /\ cand' \in {cand, None}
  BY ReturnPlace DEF SyncDir
<1>4. then \in Returns /\ (then[1] = "reapprove" => st.pend # None)
  BY <1>2 DEF InstallInv, PlaceInv
<1>5. UpdaterType'
  BY <1>2, <1>3 DEF InstallInv, UpdaterType
<1>6. Trails(active, Anchor(st))
  BY <1>2, TrailsState DEF Down
<1>7. OrderInv'
  BY <1>1, <1>2, <1>6, TrailsReflexive DEF OrderInv, IsWeakest
<1>8. PlaceInv'
  <2>1. CASE then[1] = "reapprove"
    BY <1>2, <1>3, <1>4, <2>1 DEF PlaceInv, Down
  <2>2. CASE then[1] # "reapprove"
    BY <1>3, <1>4, <2>2, FreePlace DEF Returns
  <2>. QED  BY <2>1, <2>2
<1>. QED  BY <1>1, <1>5, <1>7, <1>8 DEF InstallInv

-----------------------------------------------------------------------------
(* Time, the engine's looks, cancellation, death and restart. *)

LEMMA AmbientStep == ASSUME InstallInv, Tick \/ EngineLook \/ Cancel PROVE InstallInv'
<1>1. EngineInv' /\ active' = active
  <2>1. CASE Tick
    BY <2>1 DEF Tick, boundaryVars, tableVars, InstallInv, EngineInv, Announces, Timed
  <2>2. CASE EngineLook
    BY <2>2, LookStep DEF EngineLook, InstallInv
  <2>3. CASE Cancel
    BY <2>3, EngineFrame DEF Cancel
  <2>. QED  BY <2>1, <2>2, <2>3
<1>2. UNCHANGED <<st, committed, file, survivors, found, cand, upc, then>> /\ ~Down
  BY DEF Tick, EngineLook, Cancel, updVars, diskVars
<1>3. UpdaterType'
  BY <1>2 DEF InstallInv, UpdaterType
<1>4. OrderInv'
  BY <1>1, <1>2, OrderKept
<1>5. PlaceInv'
  BY <1>2 DEF InstallInv, PlaceInv, Down
<1>. QED  BY <1>1, <1>3, <1>4, <1>5 DEF InstallInv

LEMMA EmptyState == Empty \in SavedState /\ Anchor(Empty) = None
BY DEF Empty, SavedState, Anchor, ObjectOf

LEMMA CrashStep == ASSUME InstallInv, Crash PROVE InstallInv'
<1>1. EngineInv'
  <2>1. view' \in [known : BOOLEAN, bound : Nat, exec : Nat]
    BY DEF Crash
  <2>. QED  BY <2>1 DEF Crash, EngineInv, Announces, Timed
<1>2. /\ st' = Empty /\ cand' = None /\ committed' = TRUE /\ upc' = "down"
      /\ active' = None /\ pendingLeap' = None
  BY DEF Crash
<1>3. PlaceInv'
  BY <1>2 DEF PlaceInv, Down
<1>4. CASE Killed
  <2>1. UpdaterType'
    BY <1>2, <1>4, EmptyState DEF Killed, InstallInv, UpdaterType
  <2>2. OrderInv'
    BY <1>2, <1>4 DEF Killed, InstallInv, OrderInv, IsWeakest, Down
  <2>. QED  BY <1>1, <1>3, <2>1, <2>2 DEF InstallInv
<1>5. ASSUME NEW x \in survivors, file' = x, survivors' = {x} PROVE InstallInv'
  <2>1. UpdaterType'
    BY <1>2, <1>5, EmptyState DEF InstallInv, UpdaterType
  <2>2. OrderInv'
    BY <1>2, <1>5, TrailsReflexive DEF OrderInv, IsWeakest, Down
  <2>. QED  BY <1>1, <1>3, <2>1, <2>2 DEF InstallInv
<1>. QED  BY <1>4, <1>5 DEF Crash, PowerLost

(* loadState compares the two tables of a file. *)
LEMMA LoadsInOrder ==
    ASSUME NEW x \in SavedState, Loads(x)
    PROVE  Trails(ObjectOf(x.act), Anchor(x))
<1>1. CASE x.act = None
  BY <1>1 DEF ObjectOf, Trails
<1>2. CASE x.act # None /\ x.pend = None
  BY <1>2 DEF ObjectOf, Anchor, Trails
<1>3. CASE x.act # None /\ x.pend # None
  <2>1. CheckUpdate(x.act.obj, x.pend.obj, x.pend.acc)
    BY <1>3 DEF Loads
  <2>2. x.act.obj \in Object /\ x.pend.obj \in Object
    BY <1>3 DEF SavedState, Accepted
  <2>. QED  BY <1>3, <2>1, <2>2, ObjectFields
            DEF CheckUpdate, Revises, ObjectOf, Anchor, Trails
<1>. QED  BY <1>1, <1>2, <1>3

LEMMA RestartStep ==
    ASSUME InstallInv, NEW w \in 1..MaxTime, Restart(w)
    PROVE  InstallInv'
<1>1. file \in SavedState
  BY DEF InstallInv, UpdaterType
<1>2. /\ st' = file /\ UNCHANGED <<file, survivors>> /\ committed' = TRUE
      /\ found' = Anchor(file) /\ upc = "down" /\ upc' = "loop" /\ cand' = cand
      /\ active' = ObjectOf(file.act)
  BY DEF Restart
<1>3. pendingLeap' = None /\ active' \in Object \cup {None}
  BY <1>1, <1>2 DEF Restart, InstallInv, PlaceInv, Down, ObjectOf, SavedState, Accepted
<1>4. EngineInv'
  <2>1. view' \in [known : BOOLEAN, bound : Nat, exec : Nat] /\ utcBound' \in Nat
        /\ executed' \in Nat /\ wall' \in Nat
    BY <1>1, EngineConstants DEF Restart, SavedState
  <2>. QED  BY <1>3, <2>1 DEF EngineInv, Announces, Timed
<1>5. UpdaterType'
  BY <1>1, <1>2 DEF InstallInv, UpdaterType
<1>6. Trails(active', Anchor(file))
  BY <1>1, <1>2, LoadsInOrder DEF Restart
<1>7. OrderInv'
  BY <1>2, <1>6, TrailsReflexive DEF InstallInv, OrderInv, IsWeakest
<1>. QED  BY <1>2, <1>4, <1>5, <1>7, FreePlace DEF InstallInv

-----------------------------------------------------------------------------
(* The invariant, and what it gives. *)

LEMMA InstallInitial == Init => InstallInv
<1>. SUFFICES ASSUME Init PROVE InstallInv
  OBVIOUS
<1>1. view \in [known : BOOLEAN, bound : Nat, exec : Nat]
  BY DEF Init
<1>2. EngineInv
  BY <1>1 DEF Init, EngineInv, Announces, Timed
<1>3. UpdaterType
  BY EmptyState DEF Init, UpdaterType
<1>4. OrderInv
  BY TrailsReflexive DEF Init, OrderInv, IsWeakest, Down
<1>5. PlaceInv
  BY DEF Init, PlaceInv, Down
<1>. QED  BY <1>2, <1>3, <1>4, <1>5 DEF InstallInv

LEMMA InstallFrame == ASSUME InstallInv, UNCHANGED vars PROVE InstallInv'
<1>1. /\ UNCHANGED engineVars
      /\ UNCHANGED <<st, committed, file, survivors, found, cand, upc, then, active, pendingLeap>>
  BY DEF vars, engineVars, boundaryVars, tableVars, updVars, diskVars
<1>2. EngineInv'
  BY <1>1, EngineFrame
<1>3. UpdaterType' /\ PlaceInv'
  BY <1>1 DEF InstallInv, UpdaterType, PlaceInv, Down
<1>4. OrderInv'
  BY <1>1 DEF InstallInv, OrderInv, IsWeakest, Down
<1>. QED  BY <1>2, <1>3, <1>4 DEF InstallInv

LEMMA InstallInductive == InstallInv /\ [Next]_vars => InstallInv'
<1>. SUFFICES ASSUME InstallInv, [Next]_vars PROVE InstallInv'
  OBVIOUS
<1>1. CASE UNCHANGED vars
  BY <1>1, InstallFrame
<1>2. CASE Top \/ TryPending \/ Iterated \/ JobFailed \/ NotModified \/ Checked \/ Final
  BY <1>2, TopStep, LoopStep, CheckedStep, FinalStep
<1>3. CASE SaveFails \/ Rename \/ SyncDir
  BY <1>3, SaveFailsStep, RenameStep, SyncDirStep
<1>4. CASE Tick \/ EngineLook \/ Cancel \/ Crash
  BY <1>4, AmbientStep, CrashStep
<1>5. CASE \E o \in Object : Install(o)
  BY <1>5, InstallStep
<1>6. CASE \E heard \in BOOLEAN : Approve(heard) \/ Reapprove(heard) \/ Activate(heard)
  BY <1>6, ApproveStep, ReapproveStep, ActivateStep
<1>7. CASE \E w \in 1..MaxTime : Restart(w)
  BY <1>7, RestartStep
<1>. QED  BY <1>1, <1>2, <1>3, <1>4, <1>5, <1>6, <1>7 DEF Next

LEMMA InstallInvariant == Spec => []InstallInv
BY InstallInitial, InstallInductive, PTL DEF Spec

(***************************************************************************)
(* install and activate: a table is in force only once the file, and every *)
(* state a power loss can leave, is anchored at it or at a later one, save *)
(* for one the process loaded when it started.                             *)
(***************************************************************************)
THEOREM InForceIsDurable == Spec => []ActivatedIsDurable
<1>1. InstallInv => ActivatedIsDurable
  <2>1. Trails(None, Anchor(file)) /\ \A x \in survivors : Trails(None, Anchor(x))
    BY DEF Trails
  <2>. QED  BY <2>1 DEF InstallInv, OrderInv, PlaceInv, ActivatedIsDurable
<1>. QED  BY <1>1, InstallInvariant, PTL

(***************************************************************************)
(* applyLeap and checkLeap: where a table is required, whatever is armed   *)
(* is announced by the table in force, through every update and restart.   *)
(* Where none is, the survivors of the selection may arm a boundary.       *)
(***************************************************************************)
THEOREM ArmedIsAnnounced == LeapRequired => (Spec => []ArmedInTable)
<1>. SUFFICES ASSUME LeapRequired PROVE Spec => []ArmedInTable
  OBVIOUS
<1>1. InstallInv => ArmedInTable
  BY DEF InstallInv, EngineInv, Announces, ArmedInTable
<1>. QED  BY <1>1, InstallInvariant, PTL

-----------------------------------------------------------------------------
(* The refinement: the table every survivor has at least plays the durable *)
(* table of the authority.                                                 *)

LEMMA SameTrails ==
    ASSUME NEW a, NEW b
    PROVE  Authority!Trails(a, b) <=> Trails(a, b)
BY DEF Authority!Trails, Authority!NoRollback, Trails, NoRollback

LEMMA WeakestIs ==
    ASSUME NEW S \in SUBSET SavedState, NEW m \in S,
           \A x \in S : Trails(Anchor(m), Anchor(x))
    PROVE  WeakestOf(S) = Anchor(m)
<1>. DEFINE As == {Anchor(x) : x \in S}
<1>1. As \subseteq Object \cup {None} /\ Anchor(m) \in As
  BY AnchorIsTable
<1>2. \A a \in As : Trails(Anchor(m), a)
  OBVIOUS
<1>. HIDE DEF As
<1>3. CASE Anchor(m) = None
  BY <1>1, <1>3 DEF WeakestOf, As
<1>4. CASE Anchor(m) # None
  <2>1. None \notin As
    BY <1>2, <1>4 DEF Trails
  <2>2. Anchor(m) \in As /\ \A b \in As : Anchor(m) = b \/ NoRollback(Anchor(m), b)
    BY <1>1, <1>2, <1>4 DEF Trails
  <2>3. ASSUME NEW a \in As, \A b \in As : a = b \/ NoRollback(a, b)
        PROVE  a = Anchor(m)
    BY <1>1, <1>2, <2>1, <2>3, TrailsAntisymmetric DEF Trails
  <2>4. Anchor(m) = CHOOSE a \in As : \A b \in As : a = b \/ NoRollback(a, b)
    BY <2>2, <2>3
  <2>. QED  BY <2>1, <2>4 DEF WeakestOf, As
<1>. QED  BY <1>3, <1>4

(* Nothing the authority speaks of has changed. *)
LEMMA QuietStep ==
    ASSUME UNCHANGED <<file, survivors, found>>, active' = active, Down' <=> Down
    PROVE  UNCHANGED Authority!authVars
BY DEF Authority!authVars, Weakest

(* While the daemon runs, what it has in memory is at least as late as the *)
(* weakest survivor, which is a saved state's anchor.                      *)
LEMMA WeakestOfSurvivors ==
    ASSUME InstallInv
    PROVE  \E m \in survivors : IsWeakest(m) /\ Weakest = Anchor(m)
<1>1. PICK m \in survivors : IsWeakest(m)
  BY DEF InstallInv, OrderInv
<1>2. Weakest = Anchor(m)
  BY <1>1, WeakestIs DEF IsWeakest, Weakest, InstallInv, UpdaterType
<1>. QED  BY <1>1, <1>2

(* The rename replaces the file, by a state no survivor leads. *)
LEMMA RenameRefines ==
    ASSUME InstallInv, Rename
    PROVE  Authority!Replace \/ UNCHANGED Authority!authVars
<1>1. PICK m \in survivors : IsWeakest(m) /\ Weakest = Anchor(m)
  BY WeakestOfSurvivors
<1>2. /\ file' = st /\ survivors' = survivors \cup {st} /\ UNCHANGED <<active, found>>
      /\ ~Down /\ ~Down'
  BY DEF Rename, Down, engineVars, tableVars
<1>3. survivors' \in SUBSET SavedState /\ m \in survivors'
  BY <1>2 DEF InstallInv, UpdaterType
<1>4. \A x \in survivors' : Trails(Anchor(m), Anchor(x))
  BY <1>1, <1>2, TrailsState DEF IsWeakest
<1>5. WeakestOf(survivors') = Anchor(m)
  BY <1>3, <1>4, WeakestIs
<1>6. Weakest' = Weakest
  BY <1>1, <1>5 DEF Weakest
<1>7. Trails(Anchor(file), Anchor(st)) /\ Anchor(file)' = Anchor(st)
  BY <1>2 DEF InstallInv, OrderInv, Anchor, ObjectOf
<1>8. Anchor(st) \in Object \cup {None}
  BY AnchorIsTable DEF InstallInv, UpdaterType
<1>9. CASE Anchor(st) = None
  <2>1. Anchor(file)' = Anchor(file)
    BY <1>7, <1>9 DEF Trails
  <2>. QED  BY <1>2, <1>6, <2>1 DEF Authority!authVars
<1>10. CASE Anchor(st) \in Object
  BY <1>2, <1>6, <1>7, <1>10, SameTrails DEF Authority!Replace
<1>. QED  BY <1>8, <1>9, <1>10

(* The sync of the directory commits the file, which is the state in memory. *)
LEMMA SyncDirRefines ==
    ASSUME InstallInv, SyncDir
    PROVE  Authority!Commit
<1>1. PICK m \in survivors : IsWeakest(m) /\ Weakest = Anchor(m)
  BY WeakestOfSurvivors
<1>2. survivors' = {file} /\ UNCHANGED <<active, file, found>> /\ upc = "renamed"
  BY DEF SyncDir, engineVars, tableVars
<1>3. ~Down /\ ~Down'
  <2>1. upc' = then[1] /\ then \in Returns
    BY <1>2, ReturnPlace DEF SyncDir, InstallInv, PlaceInv
  <2>. QED  BY <1>2, <2>1 DEF Returns, Down
<1>4. file \in SavedState
  BY DEF InstallInv, UpdaterType
<1>5. Weakest' = Anchor(file)
  BY <1>2, <1>4, WeakestIs, TrailsReflexive DEF Weakest
<1>6. Trails(Weakest, Anchor(file))
  BY <1>1 DEF InstallInv, OrderInv
<1>7. Anchor(file)' = Anchor(file)
  BY <1>2 DEF Anchor, ObjectOf
<1>. QED  BY <1>2, <1>3, <1>5, <1>6, <1>7, SameTrails DEF Authority!Commit

(* An activation serves by the committed table, or by the one loaded. *)
LEMMA ActivateRefines ==
    ASSUME InstallInv, NEW heard \in BOOLEAN, Activate(heard)
    PROVE  Authority!Serve \/ UNCHANGED Authority!authVars
<1>1. PICK m \in survivors : IsWeakest(m) /\ Weakest = Anchor(m)
  BY WeakestOfSurvivors
<1>2. upc = "activate" /\ committed /\ st.pend # None /\ st.pend.obj \in Object
  BY DEF Activate, InstallInv, UpdaterType, PlaceInv, SavedState, Accepted
<1>3. active' \in {active, st.pend.obj}
  BY <1>2, ActivationStep DEF Activate, InstallInv
<1>4. UNCHANGED <<file, survivors, found>>
  BY DEF Activate, diskVars
<1>5. upc' \in {"save", "start", "loop"}
  BY NotActivatedPlace DEF Activate, GotoSave
<1>6. ~Down /\ ~Down'
  BY <1>2, <1>5 DEF Down
<1>7. Anchor(st) = st.pend.obj
  BY <1>2 DEF Anchor
<1>8. /\ Trails(active, st.pend.obj)
      /\ Trails(st.pend.obj, Weakest) \/ Trails(st.pend.obj, found)
  BY <1>1, <1>2, <1>6, <1>7, TrailsState, TrailsReflexive DEF InstallInv, OrderInv
<1>9. Weakest' = Weakest /\ Anchor(file)' = Anchor(file)
  BY <1>4 DEF Weakest, Anchor, ObjectOf
<1>10. CASE active' = active
  BY <1>4, <1>6, <1>10, QuietStep
<1>11. CASE active' = st.pend.obj
  BY <1>2, <1>4, <1>6, <1>8, <1>9, <1>11, SameTrails DEF Authority!Serve
<1>. QED  BY <1>3, <1>10, <1>11

LEMMA CrashRefines ==
    ASSUME InstallInv, Crash
    PROVE  Authority!Stop
<1>1. active' = None /\ found' = None /\ ~Down /\ Down'
  BY DEF Crash, Down
<1>2. CASE Killed
  <2>1. Weakest' = Weakest /\ Anchor(file)' = Anchor(file)
    BY <1>2 DEF Killed, Weakest, Anchor, ObjectOf
  <2>. QED  BY <1>1, <2>1 DEF Authority!Stop
<1>3. ASSUME NEW x \in survivors, file' = x, survivors' = {x} PROVE Authority!Stop
  <2>1. PICK m \in survivors : IsWeakest(m) /\ Weakest = Anchor(m)
    BY WeakestOfSurvivors
  <2>2. x \in SavedState /\ Anchor(x) \in Object \cup {None}
    BY AnchorIsTable DEF InstallInv, UpdaterType
  <2>3. Weakest' = Anchor(x)
    BY <1>3, <2>2, WeakestIs, TrailsReflexive DEF Weakest
  <2>4. Anchor(file)' = Anchor(x)
    BY <1>3 DEF Anchor, ObjectOf
  <2>5. Trails(Weakest, Anchor(x)) /\ Trails(Anchor(x), Anchor(file))
    BY <2>1 DEF IsWeakest, InstallInv, OrderInv
  <2>. QED  BY <1>1, <2>2, <2>3, <2>4, <2>5, SameTrails DEF Authority!Stop
<1>. QED  BY <1>2, <1>3 DEF Crash, PowerLost

LEMMA RestartRefines ==
    ASSUME InstallInv, NEW w \in 1..MaxTime, Restart(w)
    PROVE  Authority!Start
<1>1. file \in SavedState
  BY DEF InstallInv, UpdaterType
<1>2. /\ UNCHANGED <<file, survivors>> /\ found' = Anchor(file)
      /\ active' = ObjectOf(file.act) /\ Down /\ ~Down' /\ Loads(file)
  BY DEF Restart, Down
<1>3. active' \in Object \cup {None}
  BY <1>1, <1>2 DEF ObjectOf, SavedState, Accepted
<1>4. Weakest' = Weakest /\ Anchor(file)' = Anchor(file)
  BY <1>2 DEF Weakest, Anchor, ObjectOf
<1>5. Trails(active', Anchor(file))
  BY <1>1, <1>2, LoadsInOrder
<1>. QED  BY <1>2, <1>3, <1>4, <1>5, SameTrails DEF Authority!Start

(* The other steps are invisible to the authority. *)
LEMMA OtherStepsQuiet ==
    ASSUME InstallInv,
           \/ Top \/ TryPending \/ Iterated \/ JobFailed \/ NotModified
           \/ Checked \/ Final \/ SaveFails \/ Tick \/ EngineLook \/ Cancel
           \/ \E o \in Object : Install(o)
           \/ \E heard \in BOOLEAN : Approve(heard) \/ Reapprove(heard)
    PROVE  UNCHANGED Authority!authVars
<1>1. CASE Top \/ TryPending \/ Iterated \/ JobFailed \/ NotModified
  <2>1. UNCHANGED <<file, survivors, found>> /\ active' = active /\ ~Down
    BY <1>1 DEF Top, TryPending, Iterated, JobFailed, NotModified, diskVars,
                engineVars, tableVars, Down
  <2>2. upc' \in {"save", "try", "reapprove", "loop", "checked"}
    BY <1>1 DEF Top, TryPending, Iterated, JobFailed, NotModified, Loop, Goto
  <2>. QED  BY <2>1, <2>2, QuietStep DEF Down
<1>2. CASE Checked \/ Final
  <2>1. UNCHANGED <<file, survivors, found>> /\ active' = active /\ ~Down
    BY <1>2 DEF Checked, Final, diskVars, engineVars, tableVars, Down
  <2>2. upc' \in {"loop", "save", "stopped"}
    BY <1>2 DEF Checked, Final, Loop, Goto, GotoSave
  <2>. QED  BY <2>1, <2>2, QuietStep DEF Down
<1>3. CASE SaveFails
  <2>1. UNCHANGED <<file, survivors, found>> /\ active' = active /\ ~Down
    BY <1>3 DEF SaveFails, diskVars, engineVars, tableVars, Down
  <2>2. upc' = then[2] /\ then \in Returns
    BY <1>3, ReturnPlace DEF SaveFails, InstallInv, PlaceInv
  <2>3. upc' # "down"
    BY <2>2 DEF Returns
  <2>. QED  BY <2>1, <2>3, QuietStep DEF Down
<1>4. CASE Tick \/ EngineLook \/ Cancel
  <2>1. UNCHANGED <<file, survivors, found>> /\ active' = active /\ upc' = upc
    BY <1>4 DEF Tick, EngineLook, Look, Cancel, diskVars, updVars, engineVars, tableVars
  <2>. QED  BY <2>1, QuietStep DEF Down
<1>5. ASSUME NEW o \in Object, Install(o) PROVE UNCHANGED Authority!authVars
  <2>1. UNCHANGED <<file, survivors, found>> /\ active' = active /\ upc = "loop" /\ upc' = "approve"
    BY <1>5 DEF Install, diskVars, engineVars, tableVars
  <2>. QED  BY <2>1, QuietStep DEF Down
<1>6. ASSUME NEW heard \in BOOLEAN, Approve(heard) \/ Reapprove(heard)
      PROVE  UNCHANGED Authority!authVars
  <2>1. UNCHANGED <<file, survivors, found>> /\ ~Down
    BY <1>6 DEF Approve, Reapprove, diskVars, Down
  <2>2. active' = active
    BY <1>6, ApprovalStep
       DEF Approve, Reapprove, InstallInv, UpdaterType, PlaceInv, SavedState, Accepted
  <2>3. upc' \in {"save", "loop", "activate", "start"}
    BY <1>6, NotActivatedPlace DEF Approve, Reapprove, GotoSave, Loop, Goto
  <2>. QED  BY <2>1, <2>2, <2>3, QuietStep DEF Down
<1>. QED  BY <1>1, <1>2, <1>3, <1>4, <1>5, <1>6

(***************************************************************************)
(* The updater, the store and the engine implement the leap authority: the *)
(* table no crash can take back moves only forward in its lineage, and the *)
(* one in force leads it no further than what the process loaded.          *)
(***************************************************************************)
THEOREM InstallRefinesAuthority == Spec => Implements
<1>1. Init => Authority!AuthInit
  <2>. SUFFICES ASSUME Init PROVE Authority!AuthInit
    OBVIOUS
  <2>1. /\ survivors = {Empty} /\ file = Empty /\ found = None /\ active = None
        /\ Down
    BY DEF Init, Down
  <2>2. Weakest = None
    BY <2>1, WeakestIs, EmptyState, TrailsReflexive DEF Weakest
  <2>. QED  BY <2>1, <2>2, EmptyState DEF Authority!AuthInit
<1>2. InstallInv /\ [Next]_vars => [Authority!AuthNext]_Authority!authVars
  <2>. SUFFICES ASSUME InstallInv, [Next]_vars
                PROVE  Authority!AuthNext \/ UNCHANGED Authority!authVars
    OBVIOUS
  <2>1. CASE UNCHANGED vars
    <3>1. UNCHANGED <<file, survivors, found>> /\ active' = active /\ upc' = upc
      BY <2>1 DEF vars, engineVars, tableVars, updVars, diskVars
    <3>. QED  BY <3>1, QuietStep DEF Down
  <2>2. CASE Rename \/ SyncDir \/ Crash
    BY <2>2, RenameRefines, SyncDirRefines, CrashRefines DEF Authority!AuthNext
  <2>3. CASE \E heard \in BOOLEAN : Activate(heard)
    BY <2>3, ActivateRefines DEF Authority!AuthNext
  <2>4. CASE \E w \in 1..MaxTime : Restart(w)
    BY <2>4, RestartRefines DEF Authority!AuthNext
  <2>5. CASE \/ Top \/ TryPending \/ Iterated \/ JobFailed \/ NotModified
             \/ Checked \/ Final \/ SaveFails \/ Tick \/ EngineLook \/ Cancel
             \/ \E o \in Object : Install(o)
             \/ \E heard \in BOOLEAN : Approve(heard) \/ Reapprove(heard)
    BY <2>5, OtherStepsQuiet
  <2>. QED  BY <2>1, <2>2, <2>3, <2>4, <2>5 DEF Next
<1>. QED  BY <1>1, <1>2, InstallInvariant, PTL DEF Spec, Implements, Authority!AuthSpec

-----------------------------------------------------------------------------
(* The boundary.  After every look an armed boundary lies ahead of the     *)
(* clock, the kernel is told of no other, and between two looks the kernel *)
(* moves the clock at most once.  What it did at the armed boundary is a   *)
(* crossing that the next look cannot miss.                                *)

BoundaryInv ==
    /\ wall \in Nat /\ lastWall \in Nat /\ executed \in Nat /\ lost \in Int
    /\ kwait \in BOOLEAN
    /\ pendingLeap # None =>
           /\ pendingLeap \in Transition
           /\ lastWall < pendingLeap.at /\ executed < pendingLeap.at
    /\ kleap \in Warnings =>
           executed <= wall /\ pendingLeap # None /\ pendingLeap.leap = kleap
    /\ lost # 0 => kwait
    /\ MaxGap <= 2 /\ unseen = "armed" => lost # 0 /\ Crossed

(* The boundary state c that is about to be armed at wall time w. *)
Ahead(c, w) ==
    /\ c.exec \in Nat
    /\ c.pend # None => c.pend \in Transition /\ w < c.pend.at /\ c.exec < c.pend.at

LEMMA NoteAhead ==
    ASSUME NEW c, NEW w \in Nat, NEW warn, Ahead(c, w)
    PROVE  LET p == NotePendingLeap(c, warn, w) IN
           /\ p # None => p \in Transition /\ w < p.at /\ c.exec < p.at
           /\ c.exec <= w /\ warn \in Warnings => p # None
<1>. DEFINE n == Midnight(w)
            p == NotePendingLeap(c, warn, w)
<1>1. n \in Nat /\ w < n /\ None \notin Transition
  BY MidnightAhead, TableConstants
<1>2. p = IF c.pend = None /\ warn \in Warnings /\ n > c.exec
          THEN [at |-> n, leap |-> warn] ELSE c.pend
  BY DEF NotePendingLeap
<1>. HIDE DEF n, p
<1>3. CASE c.pend = None /\ warn \in Warnings /\ n > c.exec
  <2>1. p = [at |-> n, leap |-> warn]
    BY <1>2, <1>3
  <2>2. p \in Transition /\ p.at = n
    <3>1. n \in Nat \ {0} /\ warn \in {"insert", "delete"}
      BY <1>1, <1>3 DEF Warnings
    <3>. QED  BY <2>1, <3>1, Zenon DEF Transition
  <2>3. p # None
    BY <1>1, <2>2
  <2>. QED  BY <1>1, <1>3, <2>2, <2>3 DEF p
<1>4. CASE ~(c.pend = None /\ warn \in Warnings /\ n > c.exec)
  <2>1. p = c.pend
    BY <1>2, <1>4
  <2>2. c.exec <= w => c.exec < n
    BY <1>1 DEF Ahead
  <2>. QED  BY <1>4, <2>1, <2>2 DEF Ahead, p
<1>. QED  BY <1>3, <1>4

(* What applyLeap left at wall time w: the kernel is told of the armed     *)
(* boundary, which lies ahead, or of none.                                 *)
Tells(a, c, w) ==
    /\ a.exec = c.exec /\ a.exec \in Nat
    /\ a.pend # None => a.pend \in Transition /\ w < a.pend.at /\ a.exec < a.pend.at
    /\ a.leap \in Warnings => a.exec <= w /\ a.pend # None /\ a.pend.leap = a.leap

LEMMA ApplyLeapUnsynced ==
    ASSUME NEW c, NEW w, NEW act, NEW s, NEW li, s # "synced"
    PROVE  ApplyLeap(c, w, act, s, li).leap = "unsync"
BY DEF ApplyLeap

LEMMA ApplyLeapTells ==
    ASSUME LeapRequired, NEW c, NEW w \in Nat, NEW act, NEW s, NEW li, Ahead(c, w)
    PROVE  Tells(ApplyLeap(c, w, act, s, li), c, w)
<1>. DEFINE a == ApplyLeap(c, w, act, s, li)
            timed == TimeKnown(c, w, s)
            bound == IF timed THEN Later(c.bound, w) ELSE c.bound
            byTable == timed /\ act # None /\ Covers(act, Later(w, bound))
            ready == byTable \/ (timed /\ ~LeapRequired /\ li # "unsync")
            synced == s = "synced" /\ (ready \/ ~LeapRequired)
            warn == IF byTable THEN Indicator(act, w) ELSE li
            pend == IF ready /\ s = "synced" THEN NotePendingLeap(c, warn, w)
                                             ELSE c.pend
            ahead == pend # None /\ w < pend.at
            leap == IF ready /\ w < c.exec THEN "none"
                    ELSE IF ahead /\ (ready \/ warn = "unsync") THEN pend.leap
                    ELSE IF warn = "unsync" THEN "none" ELSE warn
<1>1. a.exec = c.exec /\ a.pend = pend /\ a.leap = IF synced THEN leap ELSE "unsync"
  BY DEF ApplyLeap
<1>2. synced => s = "synced" /\ ready
  OBVIOUS
<1>3. (ready /\ s = "synced") => pend = NotePendingLeap(c, warn, w)
  OBVIOUS
<1>4. ~(ready /\ s = "synced") => pend = c.pend
  OBVIOUS
<1>. HIDE DEF timed, bound, byTable, ready, synced, warn, pend
<1>5. pend # None => pend \in Transition /\ w < pend.at /\ c.exec < pend.at
  BY <1>3, <1>4, NoteAhead DEF Ahead
<1>6. ASSUME synced, leap \in Warnings
      PROVE  c.exec <= w /\ pend # None /\ pend.leap = leap
  <2>1. c.exec <= w
    BY <1>2, <1>6 DEF Ahead, Warnings
  <2>2. pend # None => leap = pend.leap
    BY <1>2, <1>5, <1>6, <2>1 DEF Ahead
  <2>3. CASE pend = None
    <3>1. leap = warn
      BY <1>6, <2>1, <2>3 DEF Warnings, Ahead
    <3>. QED  BY <1>2, <1>3, <1>6, <2>1, <2>3, <3>1, NoteAhead
  <2>. QED  BY <2>1, <2>2, <2>3
<1>7. c.exec \in Nat
  BY DEF Ahead
<1>. HIDE DEF leap, a
<1>8. Tells(a, c, w)
  BY <1>1, <1>5, <1>6, <1>7 DEF Warnings, Tells
<1>. QED  BY <1>8 DEF a

(* crossLeap leaves armed only what the clock has not reached. *)
LEMMA CrossLeapAhead ==
    ASSUME BoundaryInv
    PROVE  /\ Ahead(CrossLeap, wall)
           /\ CrossLeap.pend # None => CrossLeap.pend \in Transition /\ executed < CrossLeap.pend.at
<1>1. CASE Crossed
  <2>1. CrossLeap.exec = pendingLeap.at /\ CrossLeap.pend = None
    BY <1>1 DEF CrossLeap
  <2>2. pendingLeap.at \in Nat
    BY <1>1 DEF Crossed, BoundaryInv, Transition
  <2>. QED  BY <2>1, <2>2 DEF Ahead
<1>2. CASE ~Crossed
  <2>1. CrossLeap.exec = executed /\ CrossLeap.pend = pendingLeap
    BY <1>2 DEF CrossLeap
  <2>2. pendingLeap # None => wall < pendingLeap.at
    BY <1>2 DEF Crossed, BoundaryInv, Transition
  <2>. QED  BY <2>1, <2>2 DEF Ahead, BoundaryInv
<1>. QED  BY <1>1, <1>2

(* A look that noticed what the kernel did leaves nothing unseen. *)
LEMMA ResetsStep ==
    ASSUME BoundaryInv, Resets
    PROVE  MaxGap <= 2 => unseen' # "armed"
BY DEF BoundaryInv, Resets

LEMMA LookNowStep == ASSUME LeapRequired, BoundaryInv, LookNow PROVE BoundaryInv'
<1>1. PICK s \in SyncStates, li \in Indications :
          Look(s, li) /\ SyncKernel(Looked(s, li)) /\ Resets
  BY DEF LookNow
<1>. DEFINE a == Looked(s, li)
<1>2. wall \in Nat /\ Ahead(CrossLeap, wall)
  BY CrossLeapAhead DEF BoundaryInv
<1>3. Tells(a, CrossLeap, wall)
  BY <1>2, ApplyLeapTells DEF Looked
<1>4. Record(a, wall) /\ wall' = wall /\ SyncKernel(a)
  BY <1>1 DEF Look
<1>. HIDE DEF a
<1>5. MaxGap <= 2 => unseen' # "armed"
  BY <1>1, ResetsStep
<1>6. kwait' \in BOOLEAN
  BY <1>4, Zenon DEF SyncKernel
<1>7. /\ executed' = a.exec /\ pendingLeap' = a.pend /\ lastWall' = wall /\ lost' = 0
      /\ kleap' = a.leap
  BY <1>4 DEF Record, SyncKernel
<1>8. /\ wall' \in Nat /\ lastWall' \in Nat /\ executed' \in Nat /\ lost' = 0
  BY <1>2, <1>3, <1>4, <1>7 DEF Tells
<1>9. pendingLeap' # None => /\ pendingLeap' \in Transition
                             /\ lastWall' < pendingLeap'.at /\ executed' < pendingLeap'.at
  BY <1>3, <1>7 DEF Tells
<1>10. kleap' \in Warnings =>
           executed' <= wall' /\ pendingLeap' # None /\ pendingLeap'.leap = kleap'
  BY <1>3, <1>4, <1>7 DEF Tells
<1>. QED  BY <1>5, <1>6, <1>8, <1>9, <1>10 DEF BoundaryInv

LEMMA StepNowStep == ASSUME LeapRequired, BoundaryInv, StepNow PROVE BoundaryInv'
<1>1. PICK w \in 1..MaxTime, li \in Indications :
          w # wall /\ ClockStep(w, li) /\ SyncKernel(Stepped(w, li)) /\ Resets
  BY DEF StepNow
<1>. DEFINE x == CrossLeap
            c == StepOver(x, w)
            a == Stepped(w, li)
<1>2. w \in Nat
  BY <1>1, EngineConstants
<1>3. Ahead(c, w)
  <2>1. x = [exec |-> x.exec, bound |-> x.bound, pend |-> x.pend]
    BY DEF CrossLeap
  <2>2. Ahead(x, wall)
    BY CrossLeapAhead
  <2>. HIDE DEF x
  <2>3. CASE x.pend # None /\ w >= x.pend.at
    <3>1. c.exec = x.pend.at /\ c.pend = None
      BY <2>1, <2>3 DEF StepOver
    <3>2. x.pend.at \in Nat
      BY <2>2, <2>3 DEF Ahead, Transition
    <3>. QED  BY <3>1, <3>2 DEF Ahead
  <2>4. CASE ~(x.pend # None /\ w >= x.pend.at)
    <3>1. c = x
      BY <2>4 DEF StepOver
    <3>2. x.pend # None => x.pend.at \in Nat
      BY <2>2 DEF Ahead, Transition
    <3>. HIDE DEF c
    <3>. QED  BY <1>2, <2>2, <2>4, <3>1, <3>2 DEF Ahead
  <2>. QED  BY <2>3, <2>4
<1>4. Tells(a, c, w)
  <2>1. a = ApplyLeap(c, w, active, "coarse", li)
    BY DEF Stepped
  <2>. HIDE DEF a, c
  <2>. QED  BY <1>2, <1>3, <2>1, ApplyLeapTells
<1>5. a.leap = "unsync"
  BY ApplyLeapUnsynced DEF Stepped
<1>6. Record(a, w) /\ wall' = w /\ SyncKernel(a)
  BY <1>1 DEF ClockStep
<1>. HIDE DEF a, c
<1>7. MaxGap <= 2 => unseen' # "armed"
  BY <1>1, ResetsStep
<1>8. kwait' \in BOOLEAN
  BY <1>6, Zenon DEF SyncKernel
<1>9. /\ executed' = a.exec /\ pendingLeap' = a.pend /\ lastWall' = w /\ lost' = 0
      /\ kleap' = "unsync"
  BY <1>5, <1>6 DEF Record, SyncKernel
<1>10. /\ wall' \in Nat /\ lastWall' \in Nat /\ executed' \in Nat /\ lost' = 0
  BY <1>2, <1>4, <1>6, <1>9 DEF Tells
<1>11. pendingLeap' # None => /\ pendingLeap' \in Transition
                              /\ lastWall' < pendingLeap'.at /\ executed' < pendingLeap'.at
  BY <1>4, <1>9 DEF Tells
<1>12. kleap' \notin Warnings
  BY <1>9 DEF Warnings
<1>. QED  BY <1>7, <1>8, <1>10, <1>11, <1>12 DEF BoundaryInv

(* The clock runs on, or the kernel moves it at a midnight. *)
LEMMA ElapseStep == ASSUME BoundaryInv, Elapse PROVE BoundaryInv'
<1>. USE DEF BoundaryInv
<1>1. /\ lastWall' = lastWall /\ executed' = executed /\ pendingLeap' = pendingLeap
      /\ kleap' = kleap
  BY DEF Elapse, boundaryVars, Second, KernelLeap
<1>2. CASE Second /\ UNCHANGED unseen
  <2>1. wall' = wall + 1 /\ lost' = lost /\ kwait' = kwait /\ unseen' = unseen
    BY <1>2 DEF Second
  <2>2. pendingLeap # None => pendingLeap.at \in Nat
    BY DEF Transition
  <2>3. Repeated /\ pendingLeap # None => Crossed'
    BY <1>1, <2>1, <2>2 DEF Crossed, Repeated
  <2>4. Crossed => Crossed'
    BY <1>1, <2>1, <2>2, <2>3 DEF Crossed
  <2>. QED  BY <1>1, <2>1, <2>4
<1>3. CASE KernelLeap /\ unseen' = IF AtArmed THEN "armed" ELSE "other"
  <2>1. kleap \in Warnings /\ lost = 0 /\ kwait' = TRUE
    BY <1>3 DEF KernelLeap, KernelLeapDue
  <2>2. /\ pendingLeap # None /\ pendingLeap.leap = kleap
        /\ pendingLeap.at \in Nat /\ lastWall < pendingLeap.at
    BY <2>1 DEF Transition
  <2>3. CASE kleap = "insert"
    <3>1. wall' = wall /\ lost' = 1 /\ wall + 1 = Midnight(wall)
      BY <1>3, <2>1, <2>3 DEF KernelLeap, KernelLeapDue
    <3>2. ASSUME AtArmed, MaxGap <= 2 PROVE Crossed'
      <4>1. wall + 1 = pendingLeap.at /\ lastWall >= pendingLeap.at - 2
        BY <2>1, <2>2, <3>1, <3>2, BoundaryConstants DEF AtArmed, Elapse, Gap
      <4>2. Repeated'
        BY <1>1, <2>2, <2>3, <3>1, <4>1 DEF Repeated
      <4>. QED  BY <1>1, <2>2, <4>2 DEF Crossed
    <3>. QED  BY <1>1, <1>3, <2>1, <2>2, <3>1, <3>2
  <2>4. CASE kleap = "delete"
    <3>1. wall' = wall + 2 /\ lost' = -1 /\ wall + 2 = Midnight(wall)
      BY <1>3, <2>1, <2>4 DEF KernelLeap, KernelLeapDue
    <3>2. AtArmed => Crossed'
      BY <1>1, <2>2, <3>1 DEF AtArmed, Crossed
    <3>. QED  BY <1>1, <1>3, <2>1, <2>2, <3>1, <3>2
  <2>. QED  BY <2>1, <2>3, <2>4 DEF Warnings
<1>. QED  BY <1>2, <1>3 DEF Elapse

LEMMA BoundaryInitial == BoundaryInit => BoundaryInv
<1>. SUFFICES ASSUME BoundaryInit PROVE BoundaryInv
  OBVIOUS
<1>1. kwait \in BOOLEAN /\ kleap \notin Warnings
  BY DEF BoundaryInit, Warnings
<1>2. wall \in Nat /\ lastWall \in Nat /\ lost = 0 /\ executed = 0
  BY TableConstants DEF BoundaryInit
<1>3. pendingLeap = None /\ unseen = "no"
  BY DEF BoundaryInit
<1>. QED  BY <1>1, <1>2, <1>3 DEF BoundaryInv

LEMMA BoundaryInvariant == LeapRequired => (BoundarySpec => []BoundaryInv)
<1>. SUFFICES ASSUME LeapRequired PROVE BoundarySpec => []BoundaryInv
  OBVIOUS
<1>1. BoundaryInv /\ [BoundaryNext]_boundaryAll => BoundaryInv'
  <2>. SUFFICES ASSUME BoundaryInv, [BoundaryNext]_boundaryAll PROVE BoundaryInv'
    OBVIOUS
  <2>1. CASE UNCHANGED boundaryAll
    BY <2>1 DEF boundaryAll, engineVars, clockVars, boundaryVars, BoundaryInv, Crossed, Repeated
  <2>. QED  BY <2>1, ElapseStep, LookNowStep, StepNowStep DEF BoundaryNext
<1>. QED  BY <1>1, BoundaryInitial, PTL DEF BoundarySpec

(* An executed boundary is never armed again, in the engine or in the      *)
(* kernel, where a leap table is required: applyLeap withholds the         *)
(* announcement of a midnight at or before executedLeap.                   *)
THEOREM ExecutedOnce == LeapRequired => (BoundarySpec => []LeapsOnce)
<1>1. BoundaryInv => LeapsOnce
  BY MidnightAhead DEF BoundaryInv, LeapsOnce, KernelLeapDue, Transition
<1>. QED  BY <1>1, BoundaryInvariant, PTL

(* Where a leap table is required and the engine looks at the clock every  *)
(* second, at most one second late, crossLeap notices the leap it armed at *)
(* its first look: for any day length, tables, steps and announcements.    *)
THEOREM ArmedIsNoticed == LeapRequired /\ MaxGap <= 2 => (BoundarySpec => []ArmedLeapNoticed)
<1>. SUFFICES ASSUME LeapRequired, MaxGap <= 2 PROVE BoundarySpec => []ArmedLeapNoticed
  OBVIOUS
<1>1. BoundaryInv => ArmedLeapNoticed
  BY DEF BoundaryInv, ArmedLeapNoticed
<1>. QED  BY <1>1, BoundaryInvariant, PTL

=============================================================================
