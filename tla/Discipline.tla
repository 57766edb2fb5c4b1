----------------------------- MODULE Discipline -----------------------------
(***************************************************************************)
(* The synchronization state machine (internal/discipline/system.go, with  *)
(* the step policy of loop.go and the per-source records of select.go).    *)
(*                                                                         *)
(* Which candidates survive the intersection and what offset they combine  *)
(* to is the subject of Selection; here any subset of the candidates may   *)
(* survive and the offset is one of three classes: within the step         *)
(* threshold, beyond it, beyond the panic threshold.  Counters stop at the *)
(* largest value the code compares them with.                              *)
(***************************************************************************)
EXTENDS Naturals, Integers, FiniteSets

CONSTANTS
    Sources, Prefer,    \* the registered sources; those with Options.Prefer
    None,               \* no system source
    MinSurvivors, SettleUpdates, HoldoverMax,   \* Config
    StepLimit, PanicAtStartup,                  \* LoopConfig
    Deadline            \* freshnessDeadline, in ticks

ASSUME DisciplineConstants ==
    /\ IsFiniteSet(Sources) /\ Prefer \subseteq Sources /\ None \notin Sources
    /\ MinSurvivors \in Nat \ {0} /\ SettleUpdates \in Nat \ {0}
    /\ HoldoverMax \in Nat /\ Deadline \in Nat
    /\ StepLimit \in Int /\ StepLimit >= -1
    /\ PanicAtStartup \in BOOLEAN

VARIABLES
    src,        \* SourceState of each source
    state,      \* System.state
    sysName,    \* System.sysName
    sinceStep, postStepUpdates, resyncing, everSynced, unsyncedReason,
    offset,     \* System.offset: the offset of the last loop update
    held,       \* ticks since holdoverSince
    updates, steps,     \* Loop.Updates, Loop.Steps
    up,         \* the engine's Run has not ended
    live,       \* producers still deliver estimates
    jumped,     \* ghost: the last event stepped the clock
    heard       \* ghost: estimates applied since the step before that

settling == <<sinceStep, postStepUpdates, resyncing, everSynced>>
vars == <<src, state, sysName, settling, unsyncedReason, offset, held,
          updates, steps, up, live, jumped, heard>>

States == {"unsynced", "settling", "synced", "holdover"}
Offsets == {"small", "step", "panic"}
Served == state \in {"synced", "holdover"}

(* What a source's record holds: new says its sample time is past usedAt,  *)
(* age the ticks since Updated (both mean something only while valid), and *)
(* count is its sinceStep.                                                 *)
SourceState == [reach : BOOLEAN, valid : BOOLEAN, new : BOOLEAN,
                count : 0..2, age : 0..(Deadline + 1)]

UpTo(n, cap) == IF n > cap THEN cap ELSE n
UpdatesCap == IF StepLimit > 1 THEN StepLimit ELSE 1

Init ==
    /\ src = [s \in Sources |-> [reach |-> FALSE, valid |-> FALSE, new |-> FALSE,
                                 count |-> 0, age |-> 0]]
    /\ state = "unsynced" /\ sysName = None
    /\ sinceStep = 0 /\ postStepUpdates = 0
    /\ resyncing = FALSE /\ everSynced = FALSE /\ unsyncedReason = "INIT"
    /\ offset = "small" /\ held = 0
    /\ updates = 0 /\ steps = 0
    /\ up = TRUE /\ live = TRUE /\ jumped = FALSE /\ heard = 0

-----------------------------------------------------------------------------
(* select.go *)

Drop(x) == [x EXCEPT !.valid = FALSE, !.new = FALSE, !.age = 0]

(* apply: what a measurement does to its source's record. *)
Apply(x, m) ==
    LET y == IF m.invalidate THEN Drop(x) ELSE x
    IN  IF m.kind = "estimate"
        THEN [reach |-> m.reach, valid |-> TRUE, new |-> TRUE, age |-> 0,
              count |-> UpTo(x.count + 1, 2)]
        ELSE [y EXCEPT !.reach = m.reach]

(* Mutant: the count of post-step measurements outlives the step. *)
InvalidateKeepsCount(x) == Drop(x)

Invalidate(x) == [Drop(x) EXCEPT !.count = 0]

(* candidate: reachable, fresh and holding an estimate.  One that is       *)
(* unsynchronized or too distant is left to the choice of survivors.       *)
Candidate(x) == x.reach /\ x.valid /\ x.age <= Deadline

Candidates(cur) == {s \in Sources : Candidate(cur[s])}

(* The system source: a preferred survivor, else the best-ranked one. *)
SystemOf(surv) ==
    IF Cardinality(surv) < MinSurvivors THEN {}
    ELSE IF surv \cap Prefer # {} THEN surv \cap Prefer ELSE surv

-----------------------------------------------------------------------------
(* loop.go *)

StepAllowed(u) == StepLimit < 0 \/ u < StepLimit

(* mayStep: a further step rests on two post-step measurements. *)
MayStep(cur, surv, s) ==
    \/ steps = 0
    \/ cur[s].count >= 2
    \/ \E t, u \in surv : t # u /\ cur[t].count >= 1 /\ cur[u].count >= 1

(* What Loop.Update may answer to an offset of class o. *)
Verdicts(o, cur, surv, s) ==
    IF o = "panic" /\ (updates # 0 \/ ~PanicAtStartup \/ ~StepAllowed(updates))
    THEN {"refused"}
    ELSE IF o # "small" /\ StepAllowed(updates)
    THEN IF MayStep(cur, surv, s) THEN {"stepped"} ELSE {"deferred"}
    ELSE {"slewed"} \cup {v \in {"ignored"} : state = "synced" /\ updates > 0}

-----------------------------------------------------------------------------
(* system.go *)

SettleDone(o, n, p, u) ==
    p >= 1 /\ n >= SettleUpdates /\ (~StepAllowed(u) \/ o = "small")

(* Mutant: a holdover that runs out keeps the reason recorded before. *)
BecomeSilently(to, h, tick) ==
    LET expired == tick /\ to = "holdover" /\ h > HoldoverMax
    IN  /\ state' = IF expired THEN "unsynced" ELSE to
        /\ unsyncedReason' = IF to = "unsynced" THEN "INIT" ELSE unsyncedReason
        /\ held' = IF state' = "holdover" THEN h ELSE 0

(* setState, and on a tick the holdover timeout that follows. *)
Become(to, h, tick) ==
    LET expired == tick /\ to = "holdover" /\ h > HoldoverMax
    IN  /\ state' = IF expired THEN "unsynced" ELSE to
        /\ unsyncedReason' =
               CASE expired -> "HOLD"
                 [] to = "unsynced" /\ state = "settling" -> "INIT"
                 [] OTHER -> unsyncedReason
        /\ held' = IF state' = "holdover" THEN h ELSE 0

(* Mutant: every loss while settling is served as holdover. *)
LoseAlways(h, tick) ==
    CASE state \in {"synced", "settling"} -> Become("holdover", 0, tick)
      [] OTHER -> Become(state, h, tick)

(* No system source is left. *)
Lose(h, tick) ==
    CASE state = "synced" \/ (state = "settling" /\ everSynced) ->
             Become("holdover", 0, tick)
      [] state = "settling" /\ ~everSynced -> Become("unsynced", h, tick)
      [] OTHER -> Become(state, h, tick)

(* The system source has no sample the loop has not used. *)
Unchanged(n, h, tick) ==
    LET to == CASE state \in {"settling", "holdover"} ->
                       IF SettleDone(offset, n, postStepUpdates, updates)
                       THEN "synced" ELSE "settling"
                [] OTHER -> state
    IN  /\ Become(to, h, tick)
        /\ everSynced' = (everSynced \/ to = "synced")

(* A loop update moved the frequency and the pending phase. *)
Slewed(o, n, rs, h, tick) ==
    LET to == IF state = "synced" \/ rs \/ SettleDone(o, n, 1, UpTo(updates + 1, UpdatesCap))
              THEN "synced" ELSE "settling"
    IN  /\ Become(to, h, tick)
        /\ offset' = o /\ postStepUpdates' = 1
        /\ updates' = UpTo(updates + 1, UpdatesCap)
        /\ everSynced' = (everSynced \/ to = "synced")
        /\ resyncing' = (rs /\ state = "synced")

(* Mutant: synchronization from before the step still counts. *)
StepKeepsTrust ==
    /\ sinceStep' = 0 /\ postStepUpdates' = 0 /\ resyncing' = FALSE
    /\ UNCHANGED everSynced

(* What a step takes back. *)
StepClears ==
    /\ sinceStep' = 0 /\ postStepUpdates' = 0
    /\ resyncing' = FALSE /\ everSynced' = FALSE

(* The loop has stepped: every estimate is dropped.  The engine issues the *)
(* step; a kernel that refuses it ends the run.                            *)
Stepped(cur, h, tick) ==
    /\ Become("settling", h, tick)
    /\ StepClears
    /\ offset' = "small"
    /\ src' = [t \in Sources |-> Invalidate(cur[t])]
    /\ updates' = UpTo(updates + 1, UpdatesCap) /\ steps' = UpTo(steps + 1, 2)
    /\ jumped' = TRUE
    /\ up' \in BOOLEAN

(* The loop answered v to the sample of s: it is used, whatever it did. *)
Answered(v, o, s, cur, n, rs, h, tick) ==
    LET used == [cur EXCEPT ![s].new = FALSE]
    IN  \/ v = "stepped" /\ Stepped(used, h, tick)
        \/ /\ v = "slewed"
           /\ Slewed(o, n, rs, h, tick)
           /\ src' = used /\ sinceStep' = n
           /\ jumped' = FALSE /\ UNCHANGED <<steps, up>>
        \/ /\ v \in {"deferred", "ignored"}
           /\ Become(state, h, tick)
           /\ src' = used /\ sinceStep' = n /\ resyncing' = rs
           /\ jumped' = FALSE
           /\ UNCHANGED <<postStepUpdates, everSynced, offset, updates, steps, up>>
        \/ /\ v = "refused"
           /\ state' = "unsynced" /\ unsyncedReason' = "PANC"
           /\ held' = 0 /\ up' = FALSE
           /\ src' = used /\ sinceStep' = n /\ resyncing' = rs
           /\ jumped' = FALSE
           /\ UNCHANGED <<postStepUpdates, everSynced, offset, updates, steps>>

(* No system source. *)
NoSystem(cur, n, rs, h, tick) ==
    /\ sysName' = None
    /\ Lose(h, tick)
    /\ src' = cur /\ sinceStep' = n /\ resyncing' = rs
    /\ jumped' = FALSE
    /\ UNCHANGED <<postStepUpdates, everSynced, offset, updates, steps, up>>

(* A system source whose sample the loop has used. *)
NothingNew(cur, n, rs, h, tick) ==
    /\ Unchanged(n, h, tick)
    /\ src' = cur /\ sinceStep' = n /\ resyncing' = rs
    /\ jumped' = FALSE
    /\ UNCHANGED <<postStepUpdates, offset, updates, steps, up>>

(***************************************************************************)
(* reselect, over the records cur, with n acquisitions counted, rs the     *)
(* resync request, h ticks of holdover, and whether a tick called it.      *)
(***************************************************************************)
Reselect(cur, n, rs, h, tick) ==
    \E surv \in SUBSET Candidates(cur) :
        \/ SystemOf(surv) = {} /\ NoSystem(cur, n, rs, h, tick)
        \/ \E s \in SystemOf(surv) :
              /\ sysName' = s
              /\ \/ ~cur[s].new /\ NothingNew(cur, n, rs, h, tick)
                 \/ /\ cur[s].new
                    /\ \E o \in Offsets : \E v \in Verdicts(o, cur, surv, s) :
                          Answered(v, o, s, cur, n, rs, h, tick)

(* Estimates since the last step, after e more of them. *)
Heard(e) == UpTo((IF jumped THEN 0 ELSE heard) + e, 2)

(* Update: a measurement of source s.  A sample that yields no new         *)
(* estimate still counts towards settling; a miss may empty the reach      *)
(* register, and an invalidation may come with either.                     *)
Update(s, m) ==
    /\ m.kind # "miss" => live /\ m.reach
    /\ LET n == IF s = sysName /\ m.kind # "miss" THEN UpTo(sinceStep + 1, SettleUpdates)
                                                  ELSE sinceStep
       IN  Reselect([src EXCEPT ![s] = Apply(@, m)], n, resyncing, held, FALSE)
    /\ heard' = Heard(IF m.kind = "estimate" THEN 1 ELSE 0)
    /\ UNCHANGED live

Measurement == [kind : {"estimate", "acquired", "miss"}, reach : BOOLEAN, invalidate : BOOLEAN]

(* Resync: a leap second was crossed. *)
Resync ==
    /\ Reselect([s \in Sources |-> Invalidate(src[s])], sinceStep, Served, held, FALSE)
    /\ heard' = Heard(0)
    /\ UNCHANGED live

(* Mutant: eligibility is not looked at again until a measurement comes. *)
TickOnly ==
    /\ Become(state, UpTo(held + 1, HoldoverMax + 1), TRUE)
    /\ jumped' = FALSE /\ heard' = Heard(0)
    /\ UNCHANGED <<src, sysName, settling, offset, updates, steps, up, live>>

(* A record one tick older. *)
Aged(x) == [x EXCEPT !.age = IF x.valid THEN UpTo(@ + 1, Deadline + 1) ELSE @]

(* Tick: every second, whether or not anything was measured. *)
Tick ==
    /\ Reselect([s \in Sources |-> Aged(src[s])], sinceStep, resyncing,
                UpTo(held + 1, HoldoverMax + 1), TRUE)
    /\ heard' = Heard(0)
    /\ UNCHANGED live

(* External: the producers fall silent, for good. *)
Silence == live /\ live' = FALSE /\ UNCHANGED <<src, state, sysName, settling,
               unsyncedReason, offset, held, updates, steps, up, jumped, heard>>

Measure == \E s \in Sources, m \in Measurement : Update(s, m)

Next == up /\ (Measure \/ Resync \/ Tick \/ Silence)

Spec == Init /\ [][Next]_vars
FairSpec == Spec /\ WF_vars(up /\ Tick)

-----------------------------------------------------------------------------

(* The types of the variables. *)
TypeOK ==
    /\ src \in [Sources -> SourceState]
    /\ state \in States /\ sysName \in Sources \cup {None}
    /\ sinceStep \in 0..SettleUpdates /\ postStepUpdates \in 0..1
    /\ resyncing \in BOOLEAN /\ everSynced \in BOOLEAN
    /\ unsyncedReason \in {"INIT", "HOLD", "PANC"}
    /\ offset \in Offsets /\ held \in 0..(HoldoverMax + 1)
    /\ updates \in 0..UpdatesCap /\ steps \in 0..2
    /\ up \in BOOLEAN /\ live \in BOOLEAN /\ jumped \in BOOLEAN /\ heard \in 0..2

(***************************************************************************)
(* Trust is never gained by losing evidence: the clock is served only      *)
(* while synchronization established since the last step still applies,    *)
(* and a clock being settled has none, so losing its last source leaves it *)
(* unsynchronized whatever came before (reselect, RA6X-009).  The second   *)
(* half is not the intention: reselect has a branch for "Settling *after*  *)
(* a spell of synchronization", which it makes unreachable.                *)
(***************************************************************************)
ServedIsTrusted ==
    /\ Served => everSynced
    /\ state = "settling" => ~everSynced

(***************************************************************************)
(* Established synchronization always satisfies the settling criterion:    *)
(* a loop update and SettleUpdates acquisitions since the last step, and   *)
(* no step still on the table (settleDone).                                *)
(***************************************************************************)
TrustIsEarned ==
    everSynced => SettleDone(offset, sinceStep, postStepUpdates, updates)

(***************************************************************************)
(* A step after the first rests on at least two estimates received since   *)
(* the one before it (mayStep): a single measurement computed before a     *)
(* step and delivered after it cannot step the clock back.                 *)
(***************************************************************************)
SecondStepEvidence == jumped /\ steps = 2 => heard >= 2

(***************************************************************************)
(* The reference identifier of an unsynchronized daemon tells why: HOLD    *)
(* exactly when it was synchronized and its holdover ran out, INIT when it *)
(* never was since its last step.                                          *)
(***************************************************************************)
ReasonTellsWhy ==
    state = "unsynced" /\ up => unsyncedReason = IF everSynced THEN "HOLD" ELSE "INIT"

(***************************************************************************)
(* Once every producer is silent the daemon stops serving within the       *)
(* freshness deadline and the holdover time, though no measurement or      *)
(* lifecycle event tells it of the loss (Tick, RA6X-003).                  *)
(***************************************************************************)
SilenceEndsService == ~live ~> (state = "unsynced" \/ ~up)

=============================================================================
