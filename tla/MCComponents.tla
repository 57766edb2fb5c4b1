---------------------------- MODULE MCComponents ----------------------------
(***************************************************************************)
(* Small instances of the components that share no state, side by side:    *)
(* focus is the component under study, chosen once, and it alone moves;    *)
(* the others stay in one of their initial states.                         *)
(***************************************************************************)
EXTENDS DriftWriter, LeapBoundary, Selection, PhaseLoop, Recorder, ControlSocket,
        Responder, Distributor, Listener, LeapSeed, LeapFetch

VARIABLE focus

-----------------------------------------------------------------------------
(* The instances. *)

MCTable(n, kind) ==
    [id |-> n, base |-> 1, off |-> 10, updated |-> 1, expiry |-> 11,
     trans |-> {[at |-> 8, leap |-> kind]}]
MCObject == {MCTable(1, "insert"), MCTable(2, "delete")}

MCSource(off, dist, jit, prefer) ==
    [off |-> off, dist |-> dist, jit |-> jit, num |-> TRUE, pps |-> FALSE,
     prefer |-> prefer, stratum |-> 2]
MCPulse(off) ==
    [off |-> off, dist |-> 1, jit |-> 0, num |-> FALSE, pps |-> TRUE,
     prefer |-> TRUE, stratum |-> 1]
MCUpToThree ==
    UNION {[1..n -> {MCSource(o, d, 1, FALSE) : o \in -2..2, d \in 1..2}] : n \in 1..3}
MCFour == [1..4 -> {MCSource(o, d, 1, FALSE) : o \in {-2, 0, 1}, d \in {1, 3}}]
MCWithPulse ==
    {<<a, b, MCPulse(o)>> :
        a \in {MCSource(o, d, 0, FALSE) : o \in -2..2, d \in 1..2},
        b \in {MCSource(o, 1, 0, p) : o \in -2..2, p \in BOOLEAN},
        o \in -3..3}
MCInputs == MCUpToThree \cup MCFour \cup MCWithPulse

MCPhases == {0, 2}
MCFreqs == {0, 1}

MCRows == [loop |-> 1, pps |-> 2]

MCRequire == [c \in Clients |-> IF c = "peer" THEN "k" ELSE NoKey]
MCWatched == ServiceKey("peer", "k")

MCSize == [o \in Tables |-> IF o = "old" THEN 2 ELSE 5]
MCDate == [o \in Tables |-> IF o = "old" THEN 1 ELSE 2]

-----------------------------------------------------------------------------

Components == {"drift", "boundary", "selection", "loop", "recorder", "control",
               "responder", "distributor", "listener", "seed", "fetch"}

Resting(c) == focus # c

(* Every component starts as it does on its own; where it has a choice of  *)
(* starts, one that rests has made it.                                     *)
ComponentsInit ==
    /\ focus \in Components
    /\ Init /\ SrvInit /\ DistInit /\ SeedInit
    /\ BoundaryInit /\ (Resting("boundary") => wall = 1 /\ active = None)
    /\ SelInit /\ (Resting("selection") => srcs = <<MCSource(0, 1, 1, FALSE)>>)
    /\ LoopInit /\ (Resting("loop") => freq = 0)
    /\ RecInit /\ (Resting("recorder") => today = 1)
    /\ CtlInit /\ (Resting("control") => ~leapCache)
    /\ LisInit /\ (Resting("listener") => casts = {})
    /\ FetchInit /\ (Resting("fetch") => cached = NoObject /\ current = "new")

Others(c, component) == Resting(c) => UNCHANGED component

ComponentsNext ==
    /\ UNCHANGED focus
    /\ \/ ~Resting("drift") /\ Next
       \/ ~Resting("boundary") /\ BoundaryNext
       \/ ~Resting("selection") /\ Select
       \/ ~Resting("loop") /\ LoopNext
       \/ ~Resting("recorder") /\ RecNext
       \/ ~Resting("control") /\ CtlNext
       \/ ~Resting("responder") /\ SrvNext
       \/ ~Resting("distributor") /\ DistNext
       \/ ~Resting("listener") /\ LisNext
       \/ ~Resting("seed") /\ SeedNext
       \/ ~Resting("fetch") /\ FetchNext
    /\ Others("drift", vars) /\ Others("boundary", boundaryAll)
    /\ Others("selection", selVars) /\ Others("loop", loopVars)
    /\ Others("recorder", recVars) /\ Others("control", ctlVars)
    /\ Others("responder", srvVars) /\ Others("distributor", distVars)
    /\ Others("listener", lisVars) /\ Others("seed", seedVars)
    /\ Others("fetch", fetchVars)

ComponentsSpec ==
    ComponentsInit
    /\ [][ComponentsNext]_<<focus, vars, boundaryAll, selVars, loopVars, recVars, ctlVars,
                            srvVars, distVars, lisVars, seedVars, fetchVars>>

=============================================================================
