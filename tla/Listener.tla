------------------------------ MODULE Listener ------------------------------
(***************************************************************************)
(* What an NTP listener asks before it passes a datagram to the handler:   *)
(* whether its destination is one of the host's broadcast addresses, of    *)
(* which it keeps a cache (internal/server/listener.go, broadcast.go).     *)
(***************************************************************************)
EXTENDS Naturals

CONSTANTS
    Addresses,          \* destinations a request may carry
    Refresh,            \* broadcastRefresh
    MaxWhen             \* bound on the clock

ASSUME ListenerConstants == Refresh \in Nat \ {0}

VARIABLES
    casts,              \* the interfaces' broadcast addresses, in truth
    known, refreshed, haveOnce,     \* localBroadcasts
    changed,            \* ghost: when casts last changed
    failedSince,        \* ghost: an enumeration failed after the last good one
    when,
    passed              \* the destination of the datagram last passed to Handle

lisVars == <<casts, known, refreshed, haveOnce, changed, failedSince, when, passed>>

-----------------------------------------------------------------------------
LisInit ==
    /\ casts \in SUBSET Addresses
    /\ known = {} /\ refreshed = 0 /\ haveOnce = FALSE
    /\ changed = 0 /\ failedSince = FALSE /\ when = 1 /\ passed = {}

(* External: the interfaces are reconfigured; time passes. *)
Reconfigured ==
    /\ casts' \in SUBSET Addresses \ {casts}
    /\ changed' = when
    /\ UNCHANGED <<known, refreshed, haveOnce, failedSince, when, passed>>

TimePasses ==
    /\ when < MaxWhen /\ when' = when + 1
    /\ passed' = {}
    /\ UNCHANGED <<casts, known, refreshed, haveOnce, changed, failedSince>>

(* Mutant: a failed enumeration forgets what was known. *)
LookUpForgets(dst, ok) ==
    IF ok THEN known' = casts /\ refreshed' = when /\ haveOnce' = TRUE /\ failedSince' = FALSE
    ELSE known' = {} /\ failedSince' = TRUE /\ UNCHANGED <<refreshed, haveOnce>>

(* isBroadcast past its refresh: enumerate, or keep the last known set.    *)
LookUp(dst, ok) ==
    IF ok THEN known' = casts /\ refreshed' = when /\ haveOnce' = TRUE /\ failedSince' = FALSE
    ELSE failedSince' = TRUE /\ UNCHANGED <<known, refreshed, haveOnce>>

(* serve: one datagram, to a destination.  A broadcast destination is      *)
(* dropped as martian.  Counters are left out.                             *)
Datagram ==
    /\ \E dst \in Addresses, ok \in BOOLEAN :
           /\ IF haveOnce /\ when - refreshed < Refresh
              THEN ok /\ UNCHANGED <<known, refreshed, haveOnce, failedSince>>
              ELSE LookUp(dst, ok)
           /\ passed' = {dst} \ known'
    /\ UNCHANGED <<casts, changed, when>>

LisNext == Reconfigured \/ TimePasses \/ Datagram

LisSpec == LisInit /\ [][LisNext]_lisVars

-----------------------------------------------------------------------------

(***************************************************************************)
(* A datagram to a directed broadcast address reaches the handler only if  *)
(* the interfaces changed since the cache was filled, less than Refresh    *)
(* ago unless they could not be read since; one failed enumeration does    *)
(* not lose the check.                                                     *)
(***************************************************************************)
BroadcastRefused ==
    passed \cap casts # {} =>
        \/ ~haveOnce
        \/ changed >= refreshed /\ (failedSince \/ when - changed < Refresh)

=============================================================================
