---------------------------- MODULE Distributor ----------------------------
(***************************************************************************)
(* The leap distributor's request budgets (internal/leap/distributor.go):  *)
(* every listener goroutine spends from the same two atomic words, the one *)
(* of the requesting key and the one of all keys together.                 *)
(***************************************************************************)
EXTENDS Naturals, FiniteSets, Sequences

CONSTANTS
    Listeners, ExportKeys, Global,      \* Global names d.global among the budgets
    KeyInterval, KeyBurst, GlobalInterval, GlobalBurst,
    MaxTries,                           \* compare-and-swap attempts
    MaxClock                            \* bound on the monotonic clock

ASSUME DistributorConstants ==
    /\ Global \notin ExportKeys
    /\ KeyInterval \in Nat /\ KeyBurst \in Nat
    /\ GlobalInterval \in Nat /\ GlobalBurst \in Nat

Budgets == ExportKeys \cup {Global}
PaceOf(b) == IF b = Global THEN GlobalInterval ELSE KeyInterval
BurstOf(b) == IF b = Global THEN GlobalBurst ELSE KeyBurst

VARIABLES
    clock,          \* monotonic time since d.epoch
    end,            \* budget -> its virtual finish time
    call,           \* listener -> where its Respond is, "idle" when in none
    spent           \* ghost: budget -> the times it allowed a request at

distVars == <<clock, end, call, spent>>

Idle == [at |-> "idle"]

DistInit ==
    /\ clock = 0
    /\ end = [b \in Budgets |-> 0]
    /\ call = [l \in Listeners |-> Idle]
    /\ spent = [b \in Budgets |-> <<>>]

(* External: time passes. *)
ClockTicks ==
    /\ clock < MaxClock /\ clock' = clock + 1
    /\ UNCHANGED <<end, call, spent>>

(* Respond: the caller's monotonic reading is taken once. *)
Respond(l) ==
    /\ call[l] = Idle
    /\ \E k \in ExportKeys :
           call' = [call EXCEPT ![l] = [at |-> "load", b |-> k, now |-> clock, tries |-> 0, old |-> 0]]
    /\ UNCHANGED <<clock, end, spent>>

LaterOf(x, y) == IF x >= y THEN x ELSE y
NextEnd(c, old) == LaterOf(old, c.now) + PaceOf(c.b)
Over(c, old) == NextEnd(c, old) - c.now > BurstOf(c.b) * PaceOf(c.b)

(* allow: load the word; over the burst the request is refused. *)
Load(l) ==
    /\ call[l].at = "load"
    /\ LET c == call[l]
       IN  call' = [call EXCEPT ![l] = IF Over(c, end[c.b]) THEN Idle
                                       ELSE [c EXCEPT !.at = "swap", !.old = end[c.b]]]
    /\ UNCHANGED <<clock, end, spent>>

(* An allowed request goes on from its key's budget to the global one, and *)
(* is then answered.                                                       *)
Allowed(l) ==
    LET c == call[l]
    IN  /\ end' = [end EXCEPT ![c.b] = NextEnd(c, c.old)]
        /\ spent' = [spent EXCEPT ![c.b] = Append(@, c.now)]
        /\ call' = [call EXCEPT ![l] =
                       IF c.b = Global THEN Idle
                       ELSE [c EXCEPT !.at = "load", !.b = Global, !.tries = 0, !.old = 0]]

(* Mutant: the word is stored, not compared and swapped. *)
SwapBlindly(l) ==
    /\ call[l].at = "swap" /\ Allowed(l)
    /\ UNCHANGED clock

(* CompareAndSwap: a word another listener moved is loaded again, MaxTries *)
(* times; contention then drops the request.                               *)
Swap(l) ==
    /\ call[l].at = "swap"
    /\ LET c == call[l]
       IN  IF end[c.b] = c.old THEN Allowed(l)
           ELSE /\ call' = [call EXCEPT ![l] = IF c.tries + 1 = MaxTries THEN Idle
                               ELSE [c EXCEPT !.at = "load", !.tries = @ + 1, !.old = 0]]
                /\ UNCHANGED <<end, spent>>
    /\ UNCHANGED clock

DistNext == ClockTicks \/ \E l \in Listeners : Respond(l) \/ Load(l) \/ Swap(l)

DistSpec == DistInit /\ [][DistNext]_distVars

-----------------------------------------------------------------------------

(***************************************************************************)
(* "Contention drops bounded work": however the listeners interleave, and  *)
(* however old the readings they came with, no budget ever allows more     *)
(* than its burst and one request per interval since it was made.          *)
(***************************************************************************)
BudgetKept ==
    \A b \in Budgets : Len(spent[b]) * PaceOf(b) <= clock + BurstOf(b) * PaceOf(b)

=============================================================================
