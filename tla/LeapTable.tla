------------------------------ MODULE LeapTable ------------------------------
(***************************************************************************)
(* Leap-second tables and the rule by which one may replace another        *)
(* (internal/leap/object.go, internal/leap/leap.go).                       *)
(*                                                                         *)
(* Instants are natural numbers of seconds; 0 is Go's zero time.  A table  *)
(* is a record; its transitions are a set because Parse only admits        *)
(* strictly increasing ones.  Two tables are equal exactly when their      *)
(* manifests (dates, size and digest) are; id stands for the digest.       *)
(***************************************************************************)
EXTENDS Integers

CONSTANTS
    Object,     \* the tables that exist
    None,       \* a nil pointer
    Day,        \* 24 hours
    Slack,      \* how far #$ may lie in the future (5 minutes)
    Horizon     \* how far #@ may lie in the future (400 days)

Transition == [at : Nat \ {0}, leap : {"insert", "delete"}]

Table == [id : Nat, base : Nat, off : Nat, updated : Nat, expiry : Nat,
          trans : SUBSET Transition]

(* What Parse and NewObject guarantee of every table. *)
WellFormed(t) ==
    /\ t.updated # 0 /\ t.updated < t.expiry
    /\ \A tr \in t.trans : t.base < tr.at /\ tr.at < t.expiry /\ tr.at % Day = 0
    /\ \A a, b \in t.trans : a.at = b.at => a = b

ASSUME TableConstants ==
    /\ Object \subseteq Table
    /\ \A t \in Object : WellFormed(t)
    /\ None \notin Object \cup Transition
    /\ Day \in Nat \ {0} /\ Slack \in Nat /\ Horizon \in Nat

-----------------------------------------------------------------------------

(* The first half of CheckUpdate: t covers the instant now. *)
Covers(t, now) ==
    /\ now # 0 /\ now < t.expiry
    /\ t.base <= now /\ t.updated <= now + Slack /\ t.expiry <= now + Horizon

(* Dates never decrease, and differ; the baseline does not change. *)
NoRollback(old, next) ==
    /\ old.updated <= next.updated /\ old.expiry <= next.expiry
    /\ <<old.updated, old.expiry>> # <<next.updated, next.expiry>>
    /\ old.base = next.base /\ old.off = next.off

Past(t, cutoff) == {tr \in t.trans : tr.at <= cutoff}

Cutoff(old, now) == IF now < old.expiry THEN now ELSE old.expiry - 1

(* What old said of the time it covered is what next says of it. *)
SameHistory(old, next, now) ==
    /\ old.updated = next.updated => old.trans = next.trans
    /\ Past(old, Cutoff(old, now)) = Past(next, Cutoff(old, now))

Revises(old, next, now) == NoRollback(old, next) /\ SameHistory(old, next, now)

(* Mutant: the table in hand is not compared with its predecessor. *)
CheckUpdateAlone(old, next, now) == Covers(next, now)

(* CheckUpdate(old, next, now) = nil. *)
CheckUpdate(old, next, now) ==
    /\ Covers(next, now)
    /\ old \notin {None, next} => Revises(old, next, now)

(* Table.Indicator: the warning of the day before a transition. *)
Indicator(t, now) ==
    IF \E tr \in t.trans : tr.at - Day <= now /\ now < tr.at
    THEN (CHOOSE tr \in t.trans : tr.at - Day <= now /\ now < tr.at).leap
    ELSE "none"

=============================================================================
