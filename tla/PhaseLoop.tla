----------------------------- MODULE PhaseLoop ------------------------------
(***************************************************************************)
(* The phase accounting of the discipline loop (internal/discipline/       *)
(* loop.go): how much of an offset the frequency words issued to the       *)
(* kernel have already corrected.  Time, phase and frequency are whole     *)
(* units; a transient of one unit of frequency moves one unit of phase per *)
(* unit of time.  What the loop filter makes of an offset, its new base    *)
(* frequency and the size of the next transient, is an open choice.        *)
(***************************************************************************)
EXTENDS Integers, Sequences

CONSTANTS
    Phases,             \* the offsets measured
    Freqs,              \* the base frequencies
    MaxFrequency, MaxSlew, MaxTick, LogSpan,
    MaxMono             \* bound: the last instant explored

VARIABLES
    mono,               \* the monotonic clock
    freq, pending,      \* Loop.Freq, Loop.Pending
    word, wordBase,     \* applied, appliedBase; word = NoWord before the first
    chargeFrom,         \* -1 while ~haveTick
    slewLog, cumSlew,
    slewed, lastOffset,
    rate,               \* ghost: the transient the kernel really runs
    moved,              \* ghost: the phase it has moved by each instant
    updatedAt, measuredAt,  \* ghost: the last update and the last step or
                            \* first update
    exactFrom           \* ghost: the instant from which the log is complete

loopVars == <<mono, freq, pending, word, wordBase, chargeFrom, slewLog, cumSlew,
              slewed, lastOffset, rate, moved, updatedAt, measuredAt, exactFrom>>

(* A base frequency is clamped before it is used. *)
ASSUME LoopConstants ==
    /\ MaxFrequency \in Nat /\ MaxSlew \in Nat /\ MaxTick \in Nat
    /\ LogSpan \in Nat /\ MaxMono \in Nat
    /\ Phases \subseteq Int /\ Freqs \subseteq -MaxFrequency..MaxFrequency

NoWord == MaxFrequency + 1    \* no word has been issued

Clamp(x, m) == IF x > m THEN m ELSE IF x < -m THEN -m ELSE x
Between(lo, x, hi) == lo <= x /\ x <= hi

LoopInit ==
    /\ mono = 0 /\ freq \in Freqs /\ pending = 0
    /\ word = NoWord /\ wordBase = 0 /\ chargeFrom = -1
    /\ slewLog = <<>> /\ cumSlew = 0 /\ slewed = 0 /\ lastOffset = 0
    /\ rate = 0 /\ moved = <<0>>
    /\ updatedAt = -1 /\ measuredAt = -1 /\ exactFrom = 0

MovedAt(t) == moved[t + 1]

(* Time passes while the last word runs. *)
MonoElapses ==
    /\ mono < MaxMono
    /\ mono' = mono + 1
    /\ moved' = Append(moved, MovedAt(mono) + rate)
    /\ UNCHANGED <<freq, pending, word, wordBase, chargeFrom, slewLog, cumSlew,
                   slewed, lastOffset, rate, updatedAt, measuredAt, exactFrom>>

-----------------------------------------------------------------------------

(* elapsed: the interval to charge, at most MaxTick. *)
Interval == IF chargeFrom = -1 THEN 0 ELSE Clamp(mono - chargeFrom, MaxTick)

(* The transient of the word in the kernel, against its own base. *)
Running == IF word = NoWord THEN 0 ELSE word - wordBase

(* Mutant: the transient is taken against the present base. *)
RanAgainstPresentBase == IF word = NoWord THEN 0 ELSE (word - freq) * Interval

(* What the word in the kernel has moved since the last accounting point. *)
Ran == Running * Interval

(* A second point at the same instant repeats the first. *)
Extended(log, p) ==
    IF log # <<>> /\ log[Len(log)] = p THEN log ELSE Append(log, p)

(* The first point that is kept: the next one, if any, is after the cut. *)
Kept(all, cut) ==
    LET ends == {k \in DOMAIN all : k = Len(all) \/ all[k + 1].at > cut}
    IN  CHOOSE k \in ends : \A j \in ends : k <= j

(* noteSlew: a new point; the oldest are dropped. *)
Noted(log, cum) ==
    LET all == Extended(log, [at |-> mono, cum |-> cum])
    IN  SubSeq(all, Kept(all, mono - LogSpan), Len(all))

(* chargeApplied, with what pending becomes; a stall charges too little. *)
Charge(left) ==
    /\ pending' = left
    /\ chargeFrom' = mono
    /\ cumSlew' = cumSlew + Ran
    /\ slewLog' = Noted(slewLog, cumSlew + Ran)

Stalled == chargeFrom # -1 /\ mono - chargeFrom > MaxTick

(* Mutant: a new offset is charged again for what ran before it was taken. *)
UpdateChargesTwice(o, f) ==
    /\ pending' = o
    /\ lastOffset' = o /\ freq' = f /\ updatedAt' = mono
    /\ slewed' = (IF measuredAt = -1 THEN 0 ELSE slewed)
    /\ measuredAt' = IF measuredAt = -1 THEN mono ELSE measuredAt
    /\ UNCHANGED <<mono, word, wordBase, rate, moved, chargeFrom, cumSlew, slewLog, exactFrom>>

(* Update, on an offset that is neither stepped nor ignored: the offset    *)
(* replaces the residual phase, and no word is issued.                     *)
LoopUpdate(o, f) ==
    /\ Charge(o)
    /\ slewed' = (IF measuredAt = -1 THEN 0 ELSE slewed) + Ran
    /\ lastOffset' = o /\ freq' = f /\ updatedAt' = mono
    /\ measuredAt' = IF measuredAt = -1 THEN mono ELSE measuredAt
    /\ exactFrom' = IF Stalled /\ exactFrom <= MaxMono THEN mono ELSE exactFrom
    /\ UNCHANGED <<mono, word, wordBase, rate, moved>>

(* step: the phase and its history are gone; the word runs on, charged to  *)
(* nothing, until the next tick.                                           *)
LoopStep ==
    /\ pending' = 0 /\ lastOffset' = 0 /\ slewed' = 0
    /\ slewLog' = <<>> /\ cumSlew' = 0
    /\ chargeFrom' = mono
    /\ wordBase' = word
    /\ updatedAt' = mono /\ measuredAt' = mono
    /\ exactFrom' = MaxMono + 1
    /\ UNCHANGED <<mono, freq, word, rate, moved>>

Sign(x) == IF x < 0 THEN -1 ELSE 1

(* The transients for a residual phase p: towards it, at most MaxSlew. *)
Transients(p) ==
    IF p = 0 THEN {0}
    ELSE {Sign(p) * a : a \in {a \in 1..MaxSlew : a <= Sign(p) * p}}

(* Tick: charge what ran, then issue the word for what remains. *)
LoopTick ==
    /\ Charge(pending - Ran)
    /\ slewed' = slewed + Ran
    /\ exactFrom' = IF Stalled \/ exactFrom > MaxMono THEN mono ELSE exactFrom
    /\ IF pending' = 0 /\ word = freq THEN UNCHANGED <<word, wordBase>>
       ELSE \E adj \in Transients(pending') :
                word' = Clamp(freq + adj, MaxFrequency) /\ wordBase' = freq
    /\ rate' = word' - wordBase'
    /\ UNCHANGED <<mono, freq, lastOffset, moved, updatedAt, measuredAt>>

LoopNext ==
    \/ MonoElapses \/ LoopStep \/ LoopTick
    \/ \E o \in Phases, f \in Freqs : LoopUpdate(o, f)

LoopSpec == LoopInit /\ [][LoopNext]_loopVars

-----------------------------------------------------------------------------

Interpolated(a, b, t) == a.cum + (((b.cum - a.cum) * (t - a.at)) \div (b.at - a.at))

(* cumulativeSlew: interpolated in the log, extended by the word running. *)
CumulativeSlew(t) ==
    LET n == Len(slewLog)
    IN  IF n = 0 THEN 0
        ELSE IF t <= slewLog[1].at THEN slewLog[1].cum
        ELSE IF t >= slewLog[n].at THEN slewLog[n].cum + Running * (t - slewLog[n].at)
        ELSE LET k == CHOOSE k \in 1..(n - 1) :
                          slewLog[k].at <= t /\ t < slewLog[k + 1].at
             IN  Interpolated(slewLog[k], slewLog[k + 1], t)

AppliedSince(t) == IF mono <= t THEN 0 ELSE CumulativeSlew(mono) - CumulativeSlew(t)

(***************************************************************************)
(* AppliedSince is "exactly the amount by which an offset measured at `at` *)
(* overstates the error remaining at `now`": what the words really moved,  *)
(* for every instant in the span kept, across updates that change the base *)
(* and ticks that change the word, except what a stall or the word left    *)
(* running by a step moved.                                                *)
(***************************************************************************)
AppliedIsExact ==
    \A t \in exactFrom..mono :
        t >= mono - LogSpan => AppliedSince(t) = MovedAt(mono) - MovedAt(t)

(***************************************************************************)
(* At every accounting point the residual phase is the last offset less    *)
(* what was moved since it was measured, each interval debited once, and   *)
(* the frequency measurement adds back what was slewed in its window.      *)
(***************************************************************************)
PhaseChargedOnce ==
    /\ Between(exactFrom, updatedAt, chargeFrom) =>
           pending = lastOffset - (MovedAt(chargeFrom) - MovedAt(updatedAt))
    /\ measuredAt # -1 /\ Between(exactFrom, measuredAt, chargeFrom) =>
           slewed = MovedAt(chargeFrom) - MovedAt(measuredAt)

=============================================================================
