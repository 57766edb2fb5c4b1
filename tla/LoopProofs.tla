----------------------------- MODULE LoopProofs -----------------------------
(***************************************************************************)
(* The phase accounting of the discipline loop, for any offsets,           *)
(* frequencies and instants: the residual phase is debited once for what   *)
(* the kernel moved, and the log of it is exact over the span it keeps.    *)
(***************************************************************************)
EXTENDS PhaseLoop, WellFoundedInduction, TLAPS

-----------------------------------------------------------------------------
(* The phase accounting. *)

Points == [at : Nat, cum : Int]
Exact == exactFrom <= MaxMono

LoopTypeOK ==
    /\ mono \in 0..MaxMono /\ freq \in Freqs /\ pending \in Int
    /\ word \in Int /\ wordBase \in Int /\ rate \in Int
    /\ chargeFrom \in -1..mono
    /\ updatedAt \in -1..chargeFrom /\ measuredAt \in -1..chargeFrom
    /\ slewLog \in Seq(Points) /\ cumSlew \in Int
    /\ slewed \in Int /\ lastOffset \in Int
    /\ moved \in Seq(Int) /\ Len(moved) = mono + 1
    /\ exactFrom \in 0..mono \/ exactFrom = MaxMono + 1

(* The kernel has moved in a straight line since the last accounting       *)
(* point, at the transient the loop knows of unless a step left it behind. *)
Steady ==
    /\ chargeFrom = -1 =>
           word = NoWord /\ rate = 0 /\ exactFrom = 0 /\ \A t \in 0..mono : MovedAt(t) = 0
    /\ chargeFrom # -1 =>
           \A t \in chargeFrom..mono : MovedAt(t) = MovedAt(chargeFrom) + rate * (t - chargeFrom)
    /\ Exact => rate = Running
    /\ Exact /\ chargeFrom # -1 => exactFrom <= chargeFrom

(* Nothing has been charged to a measurement at its own instant, and       *)
(* nothing runs before the first.                                          *)
Fresh ==
    /\ updatedAt = chargeFrom => pending = lastOffset
    /\ measuredAt = chargeFrom => slewed = 0
    /\ measuredAt = -1 => pending = 0 /\ Running = 0

Rising(log) == \A i, j \in DOMAIN log : i < j => log[i].at < log[j].at

(* The log's points in the span of exactness, from the instant e on, tell  *)
(* what had been moved (mv) by then, the newest being at the instant now;  *)
(* the motion between two of them is a straight line, and e is not strictly*)
(* between two.                                                            *)
Straight(mv, a, b) ==
    \E r \in Int : \A t \in a..b : mv[t + 1] = mv[a + 1] + r * (t - a)

Marks(log, mv, e, now, sum) ==
    /\ Rising(log)
    /\ log # <<>> => log[Len(log)] = [at |-> now, cum |-> sum]
    /\ e <= MaxMono =>
          /\ \A i \in DOMAIN log : log[i].at >= e =>
                sum - log[i].cum = mv[now + 1] - mv[log[i].at + 1]
          /\ \A i \in 1..(Len(log) - 1) :
                \/ log[i + 1].at <= e
                \/ log[i].at >= e /\ Straight(mv, log[i].at, log[i + 1].at)

(* Before the oldest point nothing moved, as far back as the log spans. *)
Still(log, mv, e, since) ==
    e <= MaxMono /\ log # <<>> =>
        \A t \in e..log[1].at : t >= since => mv[t + 1] = mv[log[1].at + 1]

(* The log is empty before the first accounting point and after a step. *)
LogInv ==
    /\ slewLog = <<>> => cumSlew = 0 /\ (chargeFrom = -1 \/ ~Exact)
    /\ chargeFrom = -1 => slewLog = <<>>
    /\ Marks(slewLog, moved, exactFrom, chargeFrom, cumSlew)
    /\ Still(slewLog, moved, exactFrom, chargeFrom - LogSpan)

(* Neither property is inductive: what a charge debits is what was moved   *)
(* only because the motion is straight between accounting points, and the  *)
(* log can be interpolated only because each of its points tells the sum.  *)
LoopInv == LoopTypeOK /\ Steady /\ Fresh /\ LogInv /\ PhaseChargedOnce

-----------------------------------------------------------------------------
(* Numbers. *)

(* A set of natural numbers has a least one. *)
LEMMA LeastElement ==
    ASSUME NEW S \in SUBSET Nat, S # {}
    PROVE  \E k \in S : \A j \in S : k <= j
<1>. DEFINE R == OpToRel(<, Nat)
<1>1. IsWellFoundedOn(R, Nat)
  BY NatLessThanWellFounded, Zenon
<1>2. \A j, k \in Nat : j < k => <<j, k>> \in R
  BY DEF OpToRel
<1>. HIDE DEF R
<1>3. PICK k \in S : \A j \in S : ~(<<j, k>> \in R)
  BY <1>1, WFMin, Zenon
<1>4. ASSUME NEW j \in S PROVE k <= j
  <2>1. j \in Nat /\ k \in Nat /\ ~(j < k)
    BY <1>2, <1>3, Zenon
  <2>. QED  BY <2>1
<1>. QED  BY <1>4

(* Multiplication, as far as a straight line needs it. *)
LEMMA LineSteps ==
    ASSUME NEW r \in Int, NEW x \in Int
    PROVE  r * x \in Int /\ r * (x + 1) = r * x + r /\ r * 0 = 0 /\ 0 * x = 0
OBVIOUS

LEMMA Quotient ==
    ASSUME NEW r \in Int, NEW m \in Int, NEW n \in Nat, n # 0
    PROVE  ((r * n) * m) \div n = r * m
<1>. DEFINE x == (r * n) * m
            d == x \div n
            p == r * m
<1>1. x \in Int /\ d \in Int /\ p \in Int /\ x = p * n
  OBVIOUS
<1>2. d * n <= x /\ x < d * n + n
  OBVIOUS
<1>. HIDE DEF x, d, p
<1>3. CASE d < p
  <2>1. (p - d) * n >= n
    BY <1>1, <1>3
  <2>. QED  BY <1>1, <1>2, <2>1
<1>4. CASE d > p
  <2>1. (d - p) * n >= n
    BY <1>1, <1>4
  <2>. QED  BY <1>1, <1>2, <2>1
<1>. QED  BY <1>1, <1>3, <1>4 DEF x, d, p

-----------------------------------------------------------------------------
(* The log. *)

IsKept(all, cut, k) ==
    /\ k \in 1..Len(all)
    /\ k = Len(all) \/ all[k + 1].at > cut
    /\ k > 1 => all[k].at <= cut

(* noteSlew's loop stops at the first point whose successor is after the   *)
(* cut, so the point it stops at, unless it is the oldest, is not.         *)
LEMMA KeptIsFirst ==
    ASSUME NEW all \in Seq(Points), all # <<>>, NEW cut \in Int
    PROVE  IsKept(all, cut, Kept(all, cut))
<1>. DEFINE ends == {k \in DOMAIN all : k = Len(all) \/ all[k + 1].at > cut}
<1>1. Len(all) \in ends /\ ends \in SUBSET Nat
  OBVIOUS
<1>2. \E k \in ends : \A j \in ends : k <= j
  <2>. HIDE DEF ends
  <2>. QED  BY <1>1, LeastElement, Zenon
<1>3. Kept(all, cut) \in ends /\ \A j \in ends : Kept(all, cut) <= j
  <2>1. Kept(all, cut) = CHOOSE k \in ends : \A j \in ends : k <= j
    BY DEF Kept
  <2>. HIDE DEF ends
  <2>. QED  BY <1>2, <2>1, Zenon
<1>. DEFINE k == Kept(all, cut)
<1>. HIDE DEF k
<1>4. k \in ends /\ \A j \in ends : k <= j
  BY <1>3, Zenon DEF k
<1>5. ASSUME k > 1 PROVE all[k].at <= cut
  <2>1. k - 1 \in DOMAIN all /\ k - 1 # Len(all) /\ ~(k - 1 \in ends)
    <3>. HIDE DEF ends
    <3>1. k \in DOMAIN all
      BY <1>4 DEF ends
    <3>. QED  BY <1>4, <1>5, <3>1
  <2>2. ~(all[(k - 1) + 1].at > cut) /\ (k - 1) + 1 = k /\ all[k] \in Points
    BY <1>4, <2>1
  <2>. QED  BY <2>2 DEF Points
<1>6. IsKept(all, cut, k)
  BY <1>4, <1>5 DEF IsKept
<1>. QED  BY <1>6 DEF k

(* Dropping the oldest points keeps what the log tells, from the cut on. *)
LEMMA TrimKeeps ==
    ASSUME NEW all \in Seq(Points), all # <<>>, NEW cut \in Int,
           NEW mv, NEW e \in Int, NEW now \in Nat, NEW sum \in Int,
           Marks(all, mv, e, now, sum), Still(all, mv, e, cut)
    PROVE  LET log == SubSeq(all, Kept(all, cut), Len(all))
           IN  /\ log \in Seq(Points) /\ log # <<>>
               /\ Marks(log, mv, e, now, sum) /\ Still(log, mv, e, cut)
<1>. DEFINE k == Kept(all, cut)
            log == SubSeq(all, k, Len(all))
<1>1. IsKept(all, cut, k)
  BY KeptIsFirst
<1>. HIDE DEF k
<1>2. /\ log \in Seq(Points) /\ Len(log) = Len(all) - k + 1
      /\ \A i \in 1..Len(log) : log[i] = all[i + k - 1] /\ i + k - 1 \in DOMAIN all
  BY <1>1 DEF IsKept
<1>3. k \in 1..Len(all) /\ Len(all) \in Nat /\ DOMAIN log = 1..Len(log)
  BY <1>1, <1>2 DEF IsKept
<1>. HIDE DEF log
<1>4. log # <<>> /\ log[Len(log)] = all[Len(all)] /\ log[1] = all[k]
  BY <1>2, <1>3
<1>5. Rising(log)
  <2>1. ASSUME NEW i \in 1..Len(log), NEW j \in 1..Len(log), i < j
        PROVE  log[i].at < log[j].at
    <3>1. i + k - 1 < j + k - 1 /\ Rising(all)
      BY <1>3, <2>1, <1>2 DEF Marks
    <3>. QED  BY <1>2, <3>1 DEF Rising
  <2>. QED  BY <1>3, <2>1 DEF Rising
<1>6. log[Len(log)] = [at |-> now, cum |-> sum]
  BY <1>4, Zenon DEF Marks
<1>7. ASSUME e <= MaxMono, NEW i \in DOMAIN log, log[i].at >= e
      PROVE  sum - log[i].cum = mv[now + 1] - mv[log[i].at + 1]
  BY <1>2, <1>3, <1>7 DEF Marks
<1>8. ASSUME e <= MaxMono, NEW i \in 1..(Len(log) - 1)
      PROVE  \/ log[i + 1].at <= e
             \/ log[i].at >= e /\ Straight(mv, log[i].at, log[i + 1].at)
  <2>1. log[i] = all[i + k - 1] /\ log[i + 1] = all[(i + k - 1) + 1]
        /\ i + k - 1 \in 1..(Len(all) - 1)
    BY <1>2, <1>3
  <2>. QED  BY <1>8, <2>1 DEF Marks
<1>9. Still(log, mv, e, cut)
  <2>1. CASE k = 1
    BY <1>4, <2>1 DEF Still
  <2>2. CASE k > 1
    <3>1. all[k] \in Points /\ all[k].at <= cut /\ log[1] = all[k]
      BY <1>1, <1>3, <1>4, <2>2 DEF IsKept
    <3>2. \A t \in e..log[1].at : t >= cut => t = log[1].at
      BY <3>1 DEF Points
    <3>. QED  BY <3>2, Zenon DEF Still
  <2>. QED  BY <1>3, <2>1, <2>2
<1>10. Marks(log, mv, e, now, sum)
  BY <1>5, <1>6, <1>7, <1>8, Zenon DEF Marks
<1>. QED  BY <1>2, <1>4, <1>9, <1>10, Zenon DEF log, k

(* What is charged is what was moved since the last accounting point,      *)
(* unless the loop stalled or a step left a word behind.                   *)
LEMMA ChargedIsMoved ==
    ASSUME LoopInv
    PROVE  /\ Ran \in Int /\ Running \in Int
           /\ chargeFrom \in {-1, mono} => Ran = 0
           /\ measuredAt = -1 => Ran = 0
           /\ Exact /\ ~Stalled /\ chargeFrom # -1 =>
                 MovedAt(mono) = MovedAt(chargeFrom) + Ran
<1>1. Running \in Int /\ Interval \in Int
  BY LoopConstants DEF LoopInv, LoopTypeOK, Running, Interval, Clamp, NoWord
<1>2. chargeFrom \in {-1, mono} => Interval = 0
  BY LoopConstants DEF LoopInv, LoopTypeOK, Interval, Clamp
<1>3. Ran \in Int /\ (Interval = 0 => Ran = 0) /\ (Running = 0 => Ran = 0)
  BY <1>1, LineSteps DEF Ran
<1>4. measuredAt = -1 => Running = 0
  BY DEF LoopInv, Fresh
<1>5. ASSUME Exact, ~Stalled, chargeFrom # -1
      PROVE  MovedAt(mono) = MovedAt(chargeFrom) + Ran
  <2>1. Interval = mono - chargeFrom
    BY <1>5, LoopConstants DEF LoopInv, LoopTypeOK, Interval, Clamp, Stalled
  <2>2. mono \in chargeFrom..mono
    BY DEF LoopInv, LoopTypeOK
  <2>3. MovedAt(mono) = MovedAt(chargeFrom) + rate * (mono - chargeFrom) /\ rate = Running
    BY <1>5, <2>2 DEF LoopInv, Steady
  <2>. QED  BY <2>1, <2>3 DEF Ran
<1>. QED  BY <1>1, <1>2, <1>3, <1>4, <1>5

(* The new point continues the log: exact from where it was, or from now.  *)
LEMMA ExtendKeeps ==
    ASSUME LoopInv, NEW e \in Int,
           \/ e = mono
           \/ e = exactFrom /\ (~Stalled \/ ~Exact)
    PROVE  LET sum == cumSlew + Ran
               all == Extended(slewLog, [at |-> mono, cum |-> sum])
           IN  /\ all \in Seq(Points) /\ all # <<>> /\ sum \in Int
               /\ Marks(all, moved, e, mono, sum)
               /\ Still(all, moved, e, mono - LogSpan)
<1>. DEFINE sum == cumSlew + Ran
            p == [at |-> mono, cum |-> sum]
            all == Extended(slewLog, p)
            n == Len(slewLog)
<1>1. /\ Ran \in Int /\ sum \in Int
      /\ chargeFrom \in {-1, mono} => Ran = 0
      /\ Exact /\ ~Stalled /\ chargeFrom # -1 => MovedAt(mono) = MovedAt(chargeFrom) + Ran
  BY ChargedIsMoved DEF LoopInv, LoopTypeOK
<1>2. p \in Points /\ p.at = mono /\ p.cum = sum /\ mono \in Nat /\ mono <= MaxMono
      /\ MaxMono \in Int /\ exactFrom \in Int /\ chargeFrom \in Int
  BY <1>1, LoopConstants DEF LoopInv, LoopTypeOK, Points
<1>3. slewLog \in Seq(Points) /\ n \in Nat /\ DOMAIN slewLog = 1..n
      /\ Marks(slewLog, moved, exactFrom, chargeFrom, cumSlew)
      /\ Still(slewLog, moved, exactFrom, chargeFrom - LogSpan)
  BY DEF LoopInv, LogInv, LoopTypeOK
<1>4. slewLog # <<>> =>
         /\ slewLog[n] = [at |-> chargeFrom, cum |-> cumSlew] /\ chargeFrom # -1
         /\ chargeFrom \in 0..mono
  BY DEF LoopInv, LogInv, Marks, LoopTypeOK
<1>. HIDE DEF sum, p, n
<1>5. ASSUME NEW i \in 1..n
      PROVE  /\ slewLog[i] \in Points /\ slewLog[i].at \in Nat /\ slewLog[i].cum \in Int
             /\ slewLog[i].at <= chargeFrom /\ chargeFrom <= mono
             /\ slewLog[i].at = chargeFrom => i = n
  <2>1. slewLog[i] \in Points /\ slewLog # <<>> /\ n \in 1..n
    BY <1>3 DEF n
  <2>2. slewLog[n].at = chargeFrom /\ chargeFrom \in 0..mono
    BY <1>4, <2>1
  <2>3. i # n => slewLog[i].at < slewLog[n].at
    BY <1>3, <2>1 DEF Marks, Rising
  <2>4. slewLog[i].at \in Nat /\ slewLog[i].cum \in Int
    BY <2>1 DEF Points
  <2>. QED  BY <1>2, <2>1, <2>2, <2>3, <2>4
<1>6. CASE slewLog # <<>> /\ chargeFrom = mono
  <2>1. sum = cumSlew /\ slewLog[n] = p /\ all = slewLog
    BY <1>1, <1>4, <1>6 DEF Extended, sum, p, n, LoopInv, LoopTypeOK
  <2>2. Still(slewLog, moved, e, mono - LogSpan)
    <3>1. CASE e = exactFrom
      BY <1>3, <1>6, <3>1
    <3>2. CASE e = mono
      <4>1. slewLog[1] \in Points /\ slewLog[1].at <= mono
        <5>1. 1 \in 1..n
          BY <1>3, <1>6 DEF n
        <5>. QED  BY <1>6, <1>5, <5>1
      <4>2. \A t \in e..slewLog[1].at : t = slewLog[1].at
        BY <1>2, <3>2, <4>1 DEF Points
      <4>. QED  BY <4>2, Zenon DEF Still
    <3>. QED  BY <3>1, <3>2
  <2>3. Marks(slewLog, moved, e, mono, sum)
    <3>1. CASE e = exactFrom
      BY <1>3, <1>6, <2>1, <3>1
    <3>2. CASE e = mono
      <4>1. \A i \in 1..n : slewLog[i] \in Points /\ slewLog[i].at <= mono
                            /\ (slewLog[i].at = mono => i = n)
        BY <1>6, <1>5
      <4>2. ASSUME NEW i \in DOMAIN slewLog, slewLog[i].at >= e
            PROVE  sum - slewLog[i].cum = moved[mono + 1] - moved[slewLog[i].at + 1]
        <5>1. i = n /\ slewLog[i].at = mono /\ slewLog[i].cum = sum
          BY <1>2, <1>3, <2>1, <3>2, <4>1, <4>2 DEF Points
        <5>2. moved[mono + 1] \in Int
          BY <1>2 DEF LoopInv, LoopTypeOK
        <5>. QED  BY <1>1, <5>1, <5>2
      <4>3. \A i \in 1..(n - 1) : slewLog[i + 1].at <= e
        BY <1>3, <3>2, <4>1
      <4>. QED  BY <1>3, <2>1, <4>2, <4>3, Zenon DEF Marks, p, n
    <3>. QED  BY <3>1, <3>2
  <2>. QED  BY <1>1, <1>3, <1>6, <2>1, <2>2, <2>3, Zenon DEF sum, p
<1>7. CASE ~(slewLog # <<>> /\ chargeFrom = mono)
  <2>1. all = Append(slewLog, p)
    <3>1. slewLog # <<>> => slewLog[n].at # p.at
      BY <1>2, <1>4, <1>7
    <3>. QED  BY <3>1, Zenon DEF Extended, n
  <2>. HIDE DEF all
  <2>2. /\ all \in Seq(Points) /\ Len(all) = n + 1 /\ all[n + 1] = p
        /\ \A i \in 1..n : all[i] = slewLog[i]
        /\ DOMAIN all = 1..(n + 1)
    BY <1>2, <1>3, <2>1 DEF n
  <2>3. \A i \in 1..n : slewLog[i] \in Points /\ slewLog[i].at < mono
    <3>1. ASSUME NEW i \in 1..n PROVE slewLog[i] \in Points /\ slewLog[i].at < mono
      <4>1. slewLog # <<>> /\ chargeFrom # mono
        BY <1>3, <1>7 DEF n
      <4>. QED  BY <1>2, <1>5, <4>1
    <3>. QED  BY <3>1
  <2>4. Rising(all)
    <3>1. ASSUME NEW i \in 1..(n + 1), NEW j \in 1..(n + 1), i < j
          PROVE  all[i].at < all[j].at
      <4>1. CASE j \in 1..n
        BY <1>3, <2>2, <3>1, <4>1 DEF Marks, Rising
      <4>2. CASE j = n + 1
        BY <1>2, <1>3, <2>2, <2>3, <3>1, <4>2
      <4>. QED  BY <1>3, <4>1, <4>2
    <3>. QED  BY <2>2, <3>1 DEF Rising
  <2>5. moved \in Seq(Int) /\ Len(moved) = mono + 1
        /\ \A t \in 0..mono : moved[t + 1] \in Int
    BY DEF LoopInv, LoopTypeOK
  <2>6. ASSUME e <= MaxMono, e # mono
        PROVE  e = exactFrom /\ Exact /\ ~Stalled
    BY <2>6 DEF Exact
  <2>7. ASSUME e <= MaxMono, NEW i \in DOMAIN all, all[i].at >= e
        PROVE  sum - all[i].cum = moved[mono + 1] - moved[all[i].at + 1]
    <3>1. CASE i = n + 1
      BY <1>1, <1>2, <2>2, <2>5, <3>1
    <3>2. CASE i \in 1..n
      <4>1. slewLog[i] \in Points /\ all[i] = slewLog[i] /\ slewLog[i].at < mono
        BY <2>2, <2>3, <3>2
      <4>2. e # mono /\ slewLog # <<>>
        BY <1>2, <1>3, <2>7, <3>2, <4>1 DEF Points, n
      <4>3. MovedAt(mono) = MovedAt(chargeFrom) + Ran /\ chargeFrom \in 0..mono
        BY <1>1, <1>4, <2>6, <2>7, <4>2
      <4>4. cumSlew - slewLog[i].cum = moved[chargeFrom + 1] - moved[slewLog[i].at + 1]
        BY <1>3, <2>6, <2>7, <3>2, <4>1, <4>2 DEF Marks, Exact
      <4>5. moved[chargeFrom + 1] \in Int /\ moved[slewLog[i].at + 1] \in Int
            /\ moved[mono + 1] \in Int /\ slewLog[i].cum \in Int /\ cumSlew \in Int
        <5>1. slewLog[i].at \in 0..mono /\ mono \in 0..mono
          BY <1>2, <1>5, <3>2, <4>1
        <5>2. cumSlew \in Int
          BY DEF LoopInv, LoopTypeOK
        <5>. QED  BY <1>5, <2>5, <3>2, <4>3, <5>1, <5>2
      <4>. QED  BY <1>1, <4>1, <4>3, <4>4, <4>5 DEF sum, MovedAt
    <3>. QED  BY <1>3, <2>2, <3>1, <3>2
  <2>8. ASSUME e <= MaxMono, NEW i \in 1..(Len(all) - 1)
        PROVE  \/ all[i + 1].at <= e
               \/ all[i].at >= e /\ Straight(moved, all[i].at, all[i + 1].at)
    <3>1. CASE e = mono
      <4>1. i + 1 \in 1..n \/ i + 1 = n + 1
        BY <1>3, <2>2
      <4>2. i + 1 \in 1..n => all[i + 1].at < mono
        BY <2>2, <2>3
      <4>3. i + 1 \in 1..n => all[i + 1].at \in Nat
        BY <1>5, <2>2
      <4>. QED  BY <1>2, <2>2, <3>1, <4>1, <4>2, <4>3
    <3>2. CASE e # mono /\ i # n
      <4>1. i \in 1..(n - 1) /\ all[i] = slewLog[i] /\ all[i + 1] = slewLog[i + 1]
        BY <1>3, <2>2, <3>2
      <4>. QED  BY <1>3, <2>6, <2>8, <3>2, <4>1 DEF Marks, n
    <3>3. CASE e # mono /\ i = n
      <4>1. all[i].at = chargeFrom /\ all[i + 1].at = mono /\ chargeFrom # -1
        BY <1>2, <1>3, <1>4, <2>2, <3>3 DEF n
      <4>2. Exact /\ e = exactFrom /\ exactFrom <= chargeFrom
        BY <2>6, <2>8, <3>3, <4>1 DEF LoopInv, Steady
      <4>3. Straight(moved, chargeFrom, mono)
        BY <4>1 DEF Straight, LoopInv, Steady, MovedAt, LoopTypeOK
      <4>. QED  BY <1>2, <4>1, <4>2, <4>3
    <3>. QED  BY <3>1, <3>2, <3>3
  <2>9. Still(all, moved, e, mono - LogSpan)
    <3>1. SUFFICES ASSUME e <= MaxMono, NEW t \in e..all[1].at, t >= mono - LogSpan
                   PROVE  moved[t + 1] = moved[all[1].at + 1]
      BY Zenon DEF Still
    <3>2. CASE slewLog = <<>>
      <4>1. all[1] = p /\ all[1].at = mono
        BY <1>2, <1>3, <2>2, <3>2 DEF n
      <4>2. CASE e = mono
        BY <1>2, <4>1, <4>2
      <4>3. CASE e # mono
        <5>1. e = exactFrom /\ chargeFrom = -1
          BY <2>6, <3>1, <3>2, <4>3 DEF LoopInv, LogInv
        <5>2. t \in 0..mono /\ mono \in 0..mono
          BY <1>2, <4>1, <5>1 DEF LoopInv, Steady
        <5>. QED  BY <4>1, <5>1, <5>2 DEF LoopInv, Steady, MovedAt
      <4>. QED  BY <4>2, <4>3
    <3>3. CASE slewLog # <<>>
      <4>1. all[1] = slewLog[1] /\ slewLog[1].at < mono /\ slewLog[1] \in Points
        BY <1>3, <2>2, <2>3, <3>3 DEF n
      <4>2. e # mono
        BY <1>2, <3>1, <4>1 DEF Points
      <4>3. t \in exactFrom..slewLog[1].at /\ t >= chargeFrom - LogSpan /\ exactFrom <= MaxMono
        BY <1>2, <1>4, <2>6, <3>1, <3>3, <4>1, <4>2, LoopConstants DEF Points
      <4>. QED  BY <1>3, <3>3, <4>1, <4>3 DEF Still
    <3>. QED  BY <3>2, <3>3
  <2>10. Marks(all, moved, e, mono, sum)
    <3>1. all[Len(all)] = [at |-> mono, cum |-> sum]
      BY <2>2 DEF p
    <3>. QED  BY <2>4, <2>7, <2>8, <3>1, Zenon DEF Marks
  <2>11. all # <<>>
    BY <1>3, <2>2
  <2>. QED  BY <1>1, <2>2, <2>9, <2>10, <2>11, Zenon DEF sum, p, all
<1>. QED  BY <1>6, <1>7, Zenon

(* The clock moves on: the log tells what it told. *)
LEMMA MarksLast ==
    ASSUME NEW log \in Seq(Points), NEW mv, NEW mw, NEW e \in Nat,
           NEW now \in Int, NEW sum \in Int, NEW since \in Int,
           \A t \in 0..now : mw[t + 1] = mv[t + 1],
           Marks(log, mv, e, now, sum), Still(log, mv, e, since)
    PROVE  Marks(log, mw, e, now, sum) /\ Still(log, mw, e, since)
<1>. DEFINE n == Len(log)
<1>1. n \in Nat /\ DOMAIN log = 1..n
  OBVIOUS
<1>. HIDE DEF n
<1>2. ASSUME NEW i \in 1..n
      PROVE  log[i].at \in 0..now /\ log[i].at \in Nat /\ now \in 0..now /\ log # <<>>
  <2>1. log[i] \in Points /\ log[n] \in Points /\ log # <<>> /\ n \in 1..n
    BY <1>1 DEF n
  <2>2. log[n].at = now /\ now \in Nat /\ log[i].at \in Nat
    <3>1. log[n] = [at |-> now, cum |-> sum]
      BY <2>1 DEF Marks, n
    <3>. QED  BY <2>1, <3>1 DEF Points
  <2>3. i # n => log[i].at < log[n].at
    <3>1. i # n => i < n
      BY <1>1
    <3>2. Rising(log)
      BY DEF Marks
    <3>. QED  BY <1>1, <2>1, <3>1, <3>2, Zenon DEF Rising
  <2>. QED  BY <2>1, <2>2, <2>3
<1>3. ASSUME e <= MaxMono, NEW i \in DOMAIN log, log[i].at >= e
      PROVE  sum - log[i].cum = mw[now + 1] - mw[log[i].at + 1]
  BY <1>1, <1>2, <1>3 DEF Marks
<1>4. ASSUME e <= MaxMono, NEW i \in 1..(Len(log) - 1)
      PROVE  \/ log[i + 1].at <= e
             \/ log[i].at >= e /\ Straight(mw, log[i].at, log[i + 1].at)
  <2>1. i \in 1..n /\ i + 1 \in 1..n
    BY <1>1 DEF n
  <2>2. log[i].at \in 0..now /\ log[i + 1].at \in 0..now
    BY <1>2, <2>1
  <2>3. Straight(mv, log[i].at, log[i + 1].at) => Straight(mw, log[i].at, log[i + 1].at)
    <3>1. ASSUME NEW a \in 0..now, NEW b \in 0..now, Straight(mv, a, b)
          PROVE  Straight(mw, a, b)
      <4>1. PICK r \in Int : \A t \in a..b : mv[t + 1] = mv[a + 1] + r * (t - a)
        BY <3>1 DEF Straight
      <4>2. \A t \in a..b : mw[t + 1] = mv[t + 1] /\ mw[a + 1] = mv[a + 1]
        OBVIOUS
      <4>3. \A t \in a..b : mw[t + 1] = mw[a + 1] + r * (t - a)
        BY <4>1, <4>2, Zenon
      <4>. QED  BY <4>3, Zenon DEF Straight
    <3>. QED  BY <2>2, <3>1, Zenon
  <2>. QED  BY <1>4, <2>3 DEF Marks
<1>5. Marks(log, mw, e, now, sum)
  BY <1>3, <1>4, Zenon DEF Marks
<1>6. Still(log, mw, e, since)
  <2>1. SUFFICES ASSUME e <= MaxMono, log # <<>>, NEW t \in e..log[1].at, t >= since
                 PROVE  mw[t + 1] = mw[log[1].at + 1]
    BY Zenon DEF Still
  <2>2. 1 \in 1..n
    BY <1>1, <2>1 DEF n
  <2>3. log[1].at \in 0..now /\ t \in 0..now
    BY <1>2, <2>2
  <2>4. mv[t + 1] = mv[log[1].at + 1]
    BY <2>1 DEF Still
  <2>. QED  BY <2>3, <2>4
<1>. QED  BY <1>5, <1>6

(* chargeApplied leaves a log that ends now. *)
LEMMA ChargeKeeps ==
    ASSUME LoopInv, NEW left, Charge(left), NEW e \in Int,
           \/ e = mono
           \/ e = exactFrom /\ (~Stalled \/ ~Exact)
    PROVE  /\ slewLog' \in Seq(Points) /\ slewLog' # <<>> /\ cumSlew' \in Int
           /\ Marks(slewLog', moved, e, mono, cumSlew')
           /\ Still(slewLog', moved, e, mono - LogSpan)
<1>. DEFINE sum == cumSlew + Ran
            all == Extended(slewLog, [at |-> mono, cum |-> sum])
            cut == mono - LogSpan
<1>1. slewLog' = SubSeq(all, Kept(all, cut), Len(all)) /\ cumSlew' = sum
  BY DEF Charge, Noted
<1>2. /\ all \in Seq(Points) /\ all # <<>> /\ sum \in Int
      /\ Marks(all, moved, e, mono, sum) /\ Still(all, moved, e, cut)
  BY ExtendKeeps
<1>3. cut \in Int /\ mono \in Nat
  BY LoopConstants DEF LoopInv, LoopTypeOK
<1>. HIDE DEF all, cut, sum
<1>4. LET log == SubSeq(all, Kept(all, cut), Len(all))
      IN  /\ log \in Seq(Points) /\ log # <<>>
          /\ Marks(log, moved, e, mono, sum) /\ Still(log, moved, e, cut)
  BY <1>2, <1>3, TrimKeeps, Zenon
<1>. QED  BY <1>1, <1>2, <1>4, Zenon DEF cut

-----------------------------------------------------------------------------
(* The steps of the loop. *)

LEMMA LoopInitial == LoopInit => LoopInv
<1>. SUFFICES ASSUME LoopInit PROVE LoopInv
  OBVIOUS
<1>. USE LoopConstants DEF LoopInit
<1>1. LoopTypeOK
  BY DEF LoopTypeOK, NoWord
<1>2. Steady
  BY DEF Steady, MovedAt, Running, Exact
<1>3. Fresh
  BY DEF Fresh, Running
<1>4. slewLog = <<>> /\ cumSlew = 0 /\ chargeFrom = -1
  OBVIOUS
<1>5. Marks(slewLog, moved, exactFrom, chargeFrom, cumSlew)
  BY <1>4 DEF Marks, Rising
<1>6. Still(slewLog, moved, exactFrom, chargeFrom - LogSpan)
  BY <1>4 DEF Still
<1>7. PhaseChargedOnce
  BY DEF PhaseChargedOnce, Between
<1>8. LogInv
  BY <1>4, <1>5, <1>6, Zenon DEF LogInv
<1>. QED  BY <1>1, <1>2, <1>3, <1>7, <1>8 DEF LoopInv

LEMMA ElapseKeeps == LoopInv /\ MonoElapses => LoopInv'
<1>. SUFFICES ASSUME LoopInv, MonoElapses PROVE LoopInv'
  OBVIOUS
<1>1. /\ moved \in Seq(Int) /\ Len(moved) = mono + 1 /\ mono \in Nat /\ rate \in Int
      /\ chargeFrom \in -1..mono /\ chargeFrom' = chargeFrom /\ mono' = mono + 1
      /\ moved' = Append(moved, moved[mono + 1] + rate) /\ rate' = rate
  BY DEF LoopInv, LoopTypeOK, MonoElapses, MovedAt
<1>2. /\ moved' \in Seq(Int) /\ Len(moved') = mono' + 1
      /\ moved'[mono' + 1] = moved[mono + 1] + rate
      /\ \A t \in 0..mono : moved'[t + 1] = moved[t + 1] /\ moved[t + 1] \in Int
  BY <1>1
<1>3. LoopTypeOK'
  <2>1. mono' \in 0..MaxMono /\ chargeFrom' \in -1..mono'
    BY <1>1, LoopConstants DEF MonoElapses
  <2>2. UNCHANGED <<freq, pending, word, wordBase, chargeFrom, slewLog, cumSlew, slewed,
                    lastOffset, rate, updatedAt, measuredAt, exactFrom>>
    BY DEF MonoElapses
  <2>3. exactFrom' \in 0..mono' \/ exactFrom' = MaxMono + 1
    BY <1>1, <2>2, LoopConstants DEF LoopInv, LoopTypeOK
  <2>. QED  BY <1>2, <2>1, <2>2, <2>3 DEF LoopInv, LoopTypeOK
<1>4. Running' = Running /\ Exact' = Exact
  BY DEF MonoElapses, Running, Exact
<1>5. Steady'
  <2>1. ASSUME chargeFrom = -1
        PROVE  word' = NoWord /\ rate' = 0 /\ exactFrom' = 0
               /\ \A t \in 0..mono' : moved'[t + 1] = 0
    <3>1. word' = NoWord /\ rate' = 0 /\ exactFrom' = 0
      BY <2>1 DEF LoopInv, Steady, MonoElapses
    <3>2. \A t \in 0..mono : moved[t + 1] = 0
      BY <2>1 DEF LoopInv, Steady, MovedAt
    <3>3. ASSUME NEW t \in 0..mono' PROVE moved'[t + 1] = 0
      BY <1>1, <1>2, <3>1, <3>2
    <3>. QED  BY <3>1, <3>3
  <2>2. ASSUME chargeFrom # -1, NEW t \in chargeFrom..mono'
        PROVE  moved'[t + 1] = moved'[chargeFrom + 1] + rate * (t - chargeFrom)
    <3>1. chargeFrom \in 0..mono /\ mono \in chargeFrom..mono
      BY <1>1, <2>2
    <3>2. \A u \in chargeFrom..mono : moved[u + 1] = moved[chargeFrom + 1] + rate * (u - chargeFrom)
      BY <2>2 DEF LoopInv, Steady, MovedAt
    <3>3. CASE t = mono'
      <4>. DEFINE x == mono - chargeFrom
      <4>1. x \in Int /\ t - chargeFrom = x + 1
        BY <1>1, <3>3
      <4>2. rate * (t - chargeFrom) = rate * x + rate /\ rate * x \in Int
        BY <1>1, <4>1, LineSteps
      <4>3. moved[mono + 1] = moved[chargeFrom + 1] + rate * x
        BY <3>1, <3>2
      <4>. HIDE DEF x
      <4>4. moved'[t + 1] = moved[mono + 1] + rate /\ moved'[chargeFrom + 1] = moved[chargeFrom + 1]
            /\ moved[chargeFrom + 1] \in Int
        BY <1>1, <1>2, <3>1, <3>3
      <4>. DEFINE y == rate * x
                  a == moved[chargeFrom + 1]
      <4>5. moved'[t + 1] = (a + y) + rate /\ y \in Int /\ a \in Int
        BY <4>2, <4>3, <4>4, Zenon
      <4>6. rate * (t - chargeFrom) = y + rate /\ moved'[chargeFrom + 1] = a
        BY <4>2, <4>4, Zenon
      <4>. HIDE DEF y, a
      <4>7. (a + y) + rate = a + (y + rate)
        BY <1>1, <4>5
      <4>. QED  BY <4>5, <4>6, <4>7, Zenon
    <3>4. CASE t \in chargeFrom..mono
      <4>1. t \in 0..mono
        BY <3>1, <3>4
      <4>. QED  BY <1>2, <3>1, <3>2, <3>4, <4>1
    <3>. QED  BY <1>1, <2>2, <3>3, <3>4
  <2>3. Exact' => rate' = Running'
    BY <1>1, <1>4 DEF LoopInv, Steady
  <2>4. Exact' /\ chargeFrom' # -1 => exactFrom' <= chargeFrom'
    BY <1>4 DEF LoopInv, Steady, MonoElapses
  <2>. QED  BY <1>1, <2>1, <2>2, <2>3, <2>4 DEF Steady, MovedAt
<1>6. Fresh'
  BY <1>1, <1>4 DEF LoopInv, Fresh, MonoElapses
<1>7. LogInv'
  <2>1. \A t \in 0..chargeFrom : moved'[t + 1] = moved[t + 1]
    BY <1>1, <1>2
  <2>2. slewLog \in Seq(Points) /\ exactFrom \in Nat /\ cumSlew \in Int
        /\ chargeFrom - LogSpan \in Int
        /\ Marks(slewLog, moved, exactFrom, chargeFrom, cumSlew)
        /\ Still(slewLog, moved, exactFrom, chargeFrom - LogSpan)
    BY LoopConstants DEF LoopInv, LogInv, LoopTypeOK
  <2>3. /\ Marks(slewLog, moved', exactFrom, chargeFrom, cumSlew)
        /\ Still(slewLog, moved', exactFrom, chargeFrom - LogSpan)
    <3>. DEFINE since == chargeFrom - LogSpan
    <3>1. chargeFrom \in Int /\ since \in Int /\ Still(slewLog, moved, exactFrom, since)
      BY <1>1, <2>2
    <3>. HIDE DEF since
    <3>2. /\ Marks(slewLog, moved', exactFrom, chargeFrom, cumSlew)
          /\ Still(slewLog, moved', exactFrom, since)
      BY <2>1, <2>2, <3>1, MarksLast, Zenon
    <3>. QED  BY <3>2, Zenon DEF since
  <2>4. slewLog' = slewLog /\ exactFrom' = exactFrom /\ cumSlew' = cumSlew
    BY DEF MonoElapses
  <2>5. /\ slewLog = <<>> => cumSlew = 0 /\ (chargeFrom = -1 \/ ~Exact)
        /\ chargeFrom = -1 => slewLog = <<>>
    BY DEF LoopInv, LogInv
  <2>. QED  BY <1>1, <1>4, <2>3, <2>4, <2>5, Zenon DEF LogInv
<1>8. PhaseChargedOnce'
  <2>1. pending' = pending /\ lastOffset' = lastOffset /\ slewed' = slewed
        /\ updatedAt' = updatedAt /\ measuredAt' = measuredAt /\ exactFrom' = exactFrom
    BY DEF MonoElapses
  <2>2. exactFrom \in Nat /\ updatedAt \in Int /\ measuredAt \in Int
    BY LoopConstants DEF LoopInv, LoopTypeOK
  <2>3. ASSUME NEW u \in Int, Between(exactFrom, u, chargeFrom)
        PROVE  moved'[u + 1] = moved[u + 1] /\ moved'[chargeFrom + 1] = moved[chargeFrom + 1]
    <3>1. u \in 0..mono /\ chargeFrom \in 0..mono
      BY <1>1, <2>2, <2>3 DEF Between
    <3>. QED  BY <1>2, <3>1
  <2>4. PhaseChargedOnce
    BY DEF LoopInv
  <2>. QED  BY <1>1, <2>1, <2>2, <2>3, <2>4 DEF PhaseChargedOnce, MovedAt
<1>. QED  BY <1>3, <1>5, <1>6, <1>7, <1>8, Zenon DEF LoopInv

(* What Update and Tick share: the point they are charged at. *)
LEMMA ChargedLog ==
    ASSUME LoopInv, NEW left, Charge(left), mono' = mono, moved' = moved,
           exactFrom' \in Int,
           \/ exactFrom' = mono
           \/ exactFrom' = exactFrom /\ (~Stalled \/ ~Exact)
    PROVE  LogInv' /\ slewLog' \in Seq(Points) /\ cumSlew' \in Int
<1>1. /\ slewLog' \in Seq(Points) /\ slewLog' # <<>> /\ cumSlew' \in Int
      /\ Marks(slewLog', moved, exactFrom', mono, cumSlew')
      /\ Still(slewLog', moved, exactFrom', mono - LogSpan)
  BY ChargeKeeps
<1>2. chargeFrom' = mono /\ chargeFrom' # -1
  BY DEF Charge, LoopInv, LoopTypeOK
<1>. QED  BY <1>1, <1>2, Zenon DEF LogInv

LEMMA UpdateKeeps ==
    ASSUME LoopInv, NEW o \in Phases, NEW f \in Freqs, LoopUpdate(o, f)
    PROVE  LoopInv'
<1>1. /\ Ran \in Int
      /\ chargeFrom \in {-1, mono} => Ran = 0
      /\ measuredAt = -1 => Ran = 0
      /\ Exact /\ ~Stalled /\ chargeFrom # -1 => MovedAt(mono) = MovedAt(chargeFrom) + Ran
  BY ChargedIsMoved
<1>2. /\ pending' = o /\ chargeFrom' = mono /\ lastOffset' = o /\ freq' = f /\ updatedAt' = mono
      /\ slewed' = (IF measuredAt = -1 THEN 0 ELSE slewed) + Ran
      /\ measuredAt' = (IF measuredAt = -1 THEN mono ELSE measuredAt)
      /\ exactFrom' = (IF Stalled /\ exactFrom <= MaxMono THEN mono ELSE exactFrom)
      /\ UNCHANGED <<mono, word, wordBase, rate, moved>>
  BY DEF LoopUpdate, Charge
<1>3. LogInv' /\ slewLog' \in Seq(Points) /\ cumSlew' \in Int
  <2>1. exactFrom' \in Int /\ (exactFrom' = mono \/ (exactFrom' = exactFrom /\ (~Stalled \/ ~Exact)))
    BY <1>2, LoopConstants DEF LoopInv, LoopTypeOK, Exact
  <2>2. Charge(o)
    BY DEF LoopUpdate
  <2>. QED  BY <1>2, <2>1, <2>2, ChargedLog
<1>4. o \in Int /\ MaxMono \in Nat
  BY LoopConstants
<1>5. LoopTypeOK'
  <2>1. mono \in 0..MaxMono /\ slewed \in Int
        /\ (exactFrom \in 0..mono \/ exactFrom = MaxMono + 1)
    BY DEF LoopInv, LoopTypeOK
  <2>2. exactFrom' \in 0..mono \/ exactFrom' = MaxMono + 1
    BY <1>2, <2>1
  <2>3. measuredAt' \in -1..mono /\ slewed' \in Int
    BY <1>1, <1>2, <2>1 DEF LoopInv, LoopTypeOK
  <2>4. word \in Int /\ wordBase \in Int /\ rate \in Int
        /\ moved \in Seq(Int) /\ Len(moved) = mono + 1
    BY DEF LoopInv, LoopTypeOK
  <2>5. mono \in -1..mono
    BY <2>1
  <2>. QED  BY <1>2, <1>3, <1>4, <2>1, <2>2, <2>3, <2>4, <2>5 DEF LoopTypeOK
<1>6. /\ mono \in 0..MaxMono /\ chargeFrom \in -1..mono /\ measuredAt \in -1..chargeFrom
      /\ exactFrom \in Nat /\ slewed \in Int /\ moved \in Seq(Int) /\ Len(moved) = mono + 1
      /\ \A t \in 0..mono : MovedAt(t) \in Int
  BY <1>4 DEF LoopInv, LoopTypeOK, MovedAt
<1>7. Running' = Running /\ (Exact' => Exact)
  BY <1>2, <1>4, <1>6 DEF Running, Exact
<1>8. Steady'
  <2>1. \A t \in mono..mono : moved[t + 1] = moved[mono + 1] + rate * (t - mono)
    <3>1. rate * 0 = 0 /\ moved[mono + 1] \in Int
      BY <1>6, LineSteps DEF LoopInv, LoopTypeOK
    <3>. QED  BY <1>6, <3>1
  <2>2. Exact' => rate' = Running'
    BY <1>2, <1>7 DEF LoopInv, Steady
  <2>3. Exact' => exactFrom' <= chargeFrom'
    <3>1. exactFrom' \in 0..mono' \/ exactFrom' = MaxMono + 1
      BY <1>5 DEF LoopTypeOK
    <3>. QED  BY <1>2, <1>4, <1>6, <3>1 DEF Exact
  <2>. QED  BY <1>2, <1>6, <2>1, <2>2, <2>3 DEF Steady, MovedAt
<1>9. measuredAt' = mono => slewed' = 0
  <2>1. CASE measuredAt = -1
    BY <1>1, <1>2, <2>1
  <2>2. CASE measuredAt # -1 /\ measuredAt = mono
    <3>1. chargeFrom = mono /\ slewed = 0
      BY <1>6, <2>2 DEF LoopInv, Fresh
    <3>. QED  BY <1>1, <1>2, <2>2, <3>1
  <2>. QED  BY <1>2, <2>1, <2>2
<1>10. Fresh'
  BY <1>2, <1>6, <1>9 DEF Fresh
<1>11. PhaseChargedOnce'
  <2>1. moved[mono + 1] \in Int /\ o = o - (moved[mono + 1] - moved[mono + 1])
    BY <1>4, <1>6
  <2>2. ASSUME measuredAt' # -1, Between(exactFrom', measuredAt', mono)
        PROVE  slewed' = moved[mono + 1] - moved[measuredAt' + 1]
    <3>1. CASE measuredAt' = mono
      BY <1>9, <2>1, <3>1
    <3>2. CASE measuredAt' # mono
      <4>1. measuredAt' = measuredAt /\ measuredAt # -1 /\ slewed' = slewed + Ran
        BY <1>2, <3>2
      <4>2. exactFrom' # mono /\ exactFrom' <= MaxMono
        BY <1>2, <1>4, <1>6, <2>2, <3>2, <4>1 DEF Between
      <4>3. exactFrom' = exactFrom /\ Exact /\ ~Stalled
        BY <1>2, <4>2 DEF Exact
      <4>4. chargeFrom # -1 /\ Between(exactFrom, measuredAt, chargeFrom)
            /\ measuredAt \in 0..mono /\ chargeFrom \in 0..mono
        BY <1>6, <2>2, <4>1, <4>3 DEF Between
      <4>5. slewed = MovedAt(chargeFrom) - MovedAt(measuredAt)
        BY <4>1, <4>4 DEF LoopInv, PhaseChargedOnce
      <4>6. MovedAt(mono) = MovedAt(chargeFrom) + Ran
        BY <1>1, <4>3, <4>4
      <4>7. MovedAt(chargeFrom) \in Int /\ MovedAt(measuredAt) \in Int
        BY <1>6, <4>4
      <4>8. slewed' = MovedAt(mono) - MovedAt(measuredAt)
        BY <1>1, <4>1, <4>5, <4>6, <4>7
      <4>. QED  BY <4>1, <4>8, Zenon DEF MovedAt
    <3>. QED  BY <3>1, <3>2
  <2>. QED  BY <1>2, <2>1, <2>2 DEF PhaseChargedOnce, MovedAt
<1>. QED  BY <1>3, <1>5, <1>8, <1>10, <1>11 DEF LoopInv

LEMMA LoopStepKeeps == LoopInv /\ LoopStep => LoopInv'
<1>. SUFFICES ASSUME LoopInv, LoopStep PROVE LoopInv'
  OBVIOUS
<1>1. /\ pending' = 0 /\ lastOffset' = 0 /\ slewed' = 0 /\ slewLog' = <<>> /\ cumSlew' = 0
      /\ chargeFrom' = mono /\ wordBase' = word /\ updatedAt' = mono /\ measuredAt' = mono
      /\ exactFrom' = MaxMono + 1 /\ UNCHANGED <<mono, freq, word, rate, moved>>
  BY DEF LoopStep
<1>2. LoopTypeOK'
  BY <1>1 DEF LoopInv, LoopTypeOK
<1>3. ~Exact' /\ mono \in 0..MaxMono /\ moved[mono + 1] \in Int /\ rate \in Int
  BY <1>1, LoopConstants DEF LoopInv, LoopTypeOK, Exact
<1>4. Steady'
  <2>1. \A t \in mono..mono : moved[t + 1] = moved[mono + 1] + rate * (t - mono)
    <3>1. rate * 0 = 0
      BY <1>3, LineSteps
    <3>. QED  BY <1>3, <3>1
  <2>. QED  BY <1>1, <1>3, <2>1 DEF Steady, MovedAt
<1>5. Fresh'
  BY <1>1, <1>3 DEF Fresh
<1>6. LogInv'
  <2>1. ~(exactFrom' <= MaxMono) /\ chargeFrom' # -1
    BY <1>1, <1>3, LoopConstants
  <2>2. Rising(<<>>)
    BY DEF Rising
  <2>. QED  BY <1>1, <1>3, <2>1, <2>2, Zenon DEF LogInv, Marks, Still
<1>7. PhaseChargedOnce'
  BY <1>1, <1>3, LoopConstants DEF PhaseChargedOnce, Between
<1>. QED  BY <1>2, <1>4, <1>5, <1>6, <1>7 DEF LoopInv

(* Tick issues a word: its transient is against the base it is issued      *)
(* with, and it is none when there is no phase to correct.                 *)
LEMMA TickIssues ==
    ASSUME LoopInv, LoopTick
    PROVE  /\ word' \in Int /\ wordBase' \in Int /\ rate' \in Int
           /\ Running' = rate'
           /\ measuredAt = -1 => pending' = 0 /\ Running' = 0
<1>1. /\ freq \in Int /\ freq <= MaxFrequency /\ freq >= -MaxFrequency
      /\ MaxFrequency \in Nat /\ MaxSlew \in Nat
      /\ word \in Int /\ wordBase \in Int /\ pending \in Int /\ Ran \in Int
      /\ measuredAt = -1 => pending = 0 /\ Ran = 0 /\ Running = 0
  BY LoopConstants, ChargedIsMoved DEF LoopInv, LoopTypeOK, Fresh
<1>2. pending' = pending - Ran /\ pending' \in Int /\ rate' = word' - wordBase'
  BY <1>1 DEF LoopTick, Charge
<1>3. measuredAt = -1 => pending' = 0
  BY <1>1, <1>2
<1>4. CASE pending' = 0 /\ word = freq
  <2>1. word' = word /\ wordBase' = wordBase /\ word # NoWord
    BY <1>1, <1>4 DEF LoopTick, NoWord
  <2>2. Running' = word' - wordBase' /\ Running = word - wordBase
    BY <2>1 DEF Running, NoWord
  <2>. QED  BY <1>1, <1>2, <1>3, <2>1, <2>2
<1>5. CASE ~(pending' = 0 /\ word = freq)
  <2>1. PICK adj \in Transients(pending') :
           word' = Clamp(freq + adj, MaxFrequency) /\ wordBase' = freq
    BY <1>5, Zenon DEF LoopTick
  <2>2. adj \in Int /\ (pending' = 0 => adj = 0)
    BY <1>1, <1>2 DEF Transients, Sign
  <2>3. word' \in -MaxFrequency..MaxFrequency /\ (adj = 0 => word' = freq)
    BY <1>1, <2>1, <2>2 DEF Clamp
  <2>4. Running' = word' - wordBase'
    BY <1>1, <2>3 DEF Running, NoWord
  <2>. QED  BY <1>1, <1>2, <1>3, <2>1, <2>2, <2>3, <2>4
<1>. QED  BY <1>4, <1>5

LEMMA TickKeeps == LoopInv /\ LoopTick => LoopInv'
<1>. SUFFICES ASSUME LoopInv, LoopTick PROVE LoopInv'
  OBVIOUS
<1>1. /\ Ran \in Int
      /\ chargeFrom \in {-1, mono} => Ran = 0
      /\ Exact /\ ~Stalled /\ chargeFrom # -1 => MovedAt(mono) = MovedAt(chargeFrom) + Ran
  BY ChargedIsMoved
<1>2. /\ pending' = pending - Ran /\ chargeFrom' = mono /\ slewed' = slewed + Ran
      /\ exactFrom' = (IF Stalled \/ exactFrom > MaxMono THEN mono ELSE exactFrom)
      /\ UNCHANGED <<mono, freq, lastOffset, moved, updatedAt, measuredAt>>
  BY DEF LoopTick, Charge
<1>3. /\ word' \in Int /\ wordBase' \in Int /\ rate' \in Int /\ Running' = rate'
      /\ measuredAt = -1 => pending' = 0 /\ Running' = 0
  BY TickIssues
<1>4. /\ mono \in 0..MaxMono /\ chargeFrom \in -1..mono /\ MaxMono \in Nat
      /\ measuredAt \in -1..chargeFrom /\ updatedAt \in -1..chargeFrom
      /\ exactFrom \in Nat /\ (exactFrom \in 0..mono \/ exactFrom = MaxMono + 1)
      /\ slewed \in Int /\ pending \in Int /\ lastOffset \in Int /\ freq \in Freqs
      /\ moved \in Seq(Int) /\ Len(moved) = mono + 1
      /\ \A t \in 0..mono : MovedAt(t) \in Int
  BY LoopConstants DEF LoopInv, LoopTypeOK, MovedAt
<1>5. exactFrom' \in 0..mono /\ (exactFrom' = mono \/ (exactFrom' = exactFrom /\ Exact /\ ~Stalled))
  BY <1>2, <1>4 DEF Exact
<1>6. LogInv' /\ slewLog' \in Seq(Points) /\ cumSlew' \in Int
  <2>1. Charge(pending - Ran)
    BY DEF LoopTick
  <2>. QED  BY <1>2, <1>5, <2>1, ChargedLog
<1>7. LoopTypeOK'
  <2>1. measuredAt \in -1..mono /\ updatedAt \in -1..mono /\ mono \in -1..mono
        /\ pending' \in Int /\ slewed' \in Int
    BY <1>1, <1>2, <1>4
  <2>. QED  BY <1>2, <1>3, <1>4, <1>5, <1>6, <2>1 DEF LoopTypeOK
<1>8. Steady'
  <2>1. \A t \in mono..mono : moved[t + 1] = moved[mono + 1] + rate' * (t - mono)
    <3>1. rate' * 0 = 0
      BY <1>3, LineSteps
    <3>2. mono \in 0..mono /\ moved[mono + 1] \in Int
      BY <1>4
    <3>. QED  BY <1>4, <3>1, <3>2
  <2>2. exactFrom' <= mono /\ mono # -1
    BY <1>4, <1>5
  <2>. QED  BY <1>2, <1>3, <2>1, <2>2 DEF Steady, MovedAt
<1>9. ASSUME NEW u \in Int, u <= chargeFrom, u = mono
      PROVE  chargeFrom = mono /\ Ran = 0
  BY <1>1, <1>4, <1>9
<1>10. Fresh'
  <2>1. updatedAt = mono => pending' = lastOffset
    BY <1>2, <1>4, <1>9 DEF LoopInv, Fresh
  <2>2. measuredAt = mono => slewed' = 0
    BY <1>2, <1>4, <1>9 DEF LoopInv, Fresh
  <2>. QED  BY <1>2, <1>3, <2>1, <2>2 DEF Fresh
<1>11. PhaseChargedOnce'
  <2>1. ASSUME NEW u \in -1..chargeFrom, u # mono, Between(exactFrom', u, mono)
        PROVE  /\ Between(exactFrom, u, chargeFrom)
               /\ MovedAt(mono) = MovedAt(chargeFrom) + Ran
               /\ MovedAt(chargeFrom) \in Int /\ MovedAt(u) \in Int
    <3>1. exactFrom' = exactFrom /\ Exact /\ ~Stalled /\ u \in 0..mono /\ chargeFrom \in 0..mono
      BY <1>4, <1>5, <2>1 DEF Between
    <3>2. Between(exactFrom, u, chargeFrom) /\ chargeFrom # -1
      BY <1>4, <2>1, <3>1 DEF Between
    <3>. QED  BY <1>1, <1>4, <3>1, <3>2
  <2>2. ASSUME Between(exactFrom', updatedAt, mono)
        PROVE  pending' = lastOffset - (MovedAt(mono) - MovedAt(updatedAt))
    <3>1. CASE updatedAt = mono
      <4>1. pending' = lastOffset /\ MovedAt(mono) \in Int
        BY <1>2, <1>4, <1>10, <3>1 DEF Fresh
      <4>. QED  BY <1>4, <3>1, <4>1
    <3>2. CASE updatedAt # mono
      <4>1. Between(exactFrom, updatedAt, chargeFrom) /\ MovedAt(mono) = MovedAt(chargeFrom) + Ran
            /\ MovedAt(chargeFrom) \in Int /\ MovedAt(updatedAt) \in Int
        BY <1>4, <2>1, <2>2, <3>2
      <4>2. pending = lastOffset - (MovedAt(chargeFrom) - MovedAt(updatedAt))
        BY <4>1 DEF LoopInv, PhaseChargedOnce
      <4>3. ASSUME NEW a \in Int, NEW b \in Int, NEW c \in Int
            PROVE  (c - (a - b)) - Ran = c - ((a + Ran) - b)
        BY <1>1
      <4>4. pending' = lastOffset - ((MovedAt(chargeFrom) + Ran) - MovedAt(updatedAt))
        <5>1. lastOffset \in Int
          BY <1>4
        <5>2. pending' = (lastOffset - (MovedAt(chargeFrom) - MovedAt(updatedAt))) - Ran
          BY <1>2, <4>2, Zenon
        <5>. QED  BY <4>1, <4>3, <5>1, <5>2, Zenon
      <4>. QED  BY <4>1, <4>4, Zenon
    <3>. QED  BY <3>1, <3>2
  <2>3. ASSUME measuredAt # -1, Between(exactFrom', measuredAt, mono)
        PROVE  slewed' = MovedAt(mono) - MovedAt(measuredAt)
    <3>1. CASE measuredAt = mono
      <4>1. slewed' = 0 /\ MovedAt(mono) \in Int
        BY <1>2, <1>4, <1>10, <3>1 DEF Fresh
      <4>. QED  BY <3>1, <4>1
    <3>2. CASE measuredAt # mono
      <4>1. Between(exactFrom, measuredAt, chargeFrom) /\ MovedAt(mono) = MovedAt(chargeFrom) + Ran
            /\ MovedAt(chargeFrom) \in Int /\ MovedAt(measuredAt) \in Int
        BY <1>4, <2>1, <2>3, <3>2
      <4>2. slewed = MovedAt(chargeFrom) - MovedAt(measuredAt)
        BY <2>3, <4>1 DEF LoopInv, PhaseChargedOnce
      <4>. QED  BY <1>1, <1>2, <1>4, <4>1, <4>2
    <3>. QED  BY <3>1, <3>2
  <2>. QED  BY <1>2, <2>2, <2>3 DEF PhaseChargedOnce, MovedAt
<1>. QED  BY <1>6, <1>7, <1>8, <1>10, <1>11 DEF LoopInv

LEMMA LoopInvariant == LoopSpec => []LoopInv
<1>1. LoopInv /\ [LoopNext]_loopVars => LoopInv'
  <2>. SUFFICES ASSUME LoopInv, [LoopNext]_loopVars PROVE LoopInv'
    OBVIOUS
  <2>1. CASE LoopNext
    <3>1. CASE \E o \in Phases, f \in Freqs : LoopUpdate(o, f)
      BY <3>1, UpdateKeeps
    <3>. QED  BY <2>1, <3>1, ElapseKeeps, LoopStepKeeps, TickKeeps DEF LoopNext
  <2>2. CASE UNCHANGED loopVars
    <3>. USE <2>2 DEF loopVars
    <3>1. LoopTypeOK' /\ Steady' /\ Fresh'
      BY DEF LoopInv, LoopTypeOK, Steady, Fresh, Exact, Running, MovedAt
    <3>2. LogInv' /\ PhaseChargedOnce'
      BY Zenon DEF LoopInv, LogInv, Exact, PhaseChargedOnce, MovedAt
    <3>. QED  BY <3>1, <3>2 DEF LoopInv
  <2>. QED  BY <2>1, <2>2
<1>. QED  BY <1>1, LoopInitial, PTL DEF LoopSpec

(***************************************************************************)
(* However updates, ticks, steps and stalls interleave, the residual phase *)
(* is the last offset less what the kernel has moved since it was taken,   *)
(* each interval debited once by chargeApplied.                            *)
(***************************************************************************)
THEOREM PhaseIsChargedOnce == LoopSpec => []PhaseChargedOnce
<1>1. LoopInv => PhaseChargedOnce
  BY DEF LoopInv
<1>. QED  BY <1>1, LoopInvariant, PTL

-----------------------------------------------------------------------------
(* What the log tells of an instant. *)

(* cumulativeSlew's search: an instant inside the log is between two       *)
(* neighbouring points.                                                    *)
LEMMA BetweenPoints ==
    ASSUME NEW log \in Seq(Points), log # <<>>, NEW t \in Int,
           log[1].at < t, t < log[Len(log)].at
    PROVE  \E k \in 1..(Len(log) - 1) : log[k].at <= t /\ t < log[k + 1].at
<1>. DEFINE S == {j \in 1..Len(log) : t < log[j].at}
<1>1. Len(log) \in S /\ S \in SUBSET Nat
  OBVIOUS
<1>2. PICK m \in S : \A j \in S : m <= j
  <2>. HIDE DEF S
  <2>. QED  BY <1>1, LeastElement, Zenon
<1>3. m \in 1..Len(log) /\ t < log[m].at
  OBVIOUS
<1>4. m # 1
  <2>1. log[1] \in Points
    OBVIOUS
  <2>. QED  BY <1>3, <2>1 DEF Points
<1>5. m - 1 \in 1..Len(log) /\ m - 1 \in 1..(Len(log) - 1) /\ (m - 1) + 1 = m
  BY <1>3, <1>4
<1>6. ~(m - 1 \in S)
  <2>1. m \in Int /\ m - 1 < m
    BY <1>3
  <2>. HIDE DEF S
  <2>. QED  BY <1>2, <2>1
<1>7. log[m - 1] \in Points /\ ~(t < log[m - 1].at)
  BY <1>5, <1>6
<1>8. log[m - 1].at <= t
  BY <1>7 DEF Points
<1>. QED  BY <1>3, <1>5, <1>8

(* Between two points that tell the sum, where the motion is straight, the *)
(* interpolation is what was moved.                                        *)
LEMMA InterpolatedIsMoved ==
    ASSUME NEW a \in Points, NEW b \in Points, NEW t \in Int,
           a.at <= t, t < b.at, NEW mv,
           \A u \in a.at..b.at : mv[u + 1] \in Int,
           b.cum - a.cum = mv[b.at + 1] - mv[a.at + 1],
           Straight(mv, a.at, b.at)
    PROVE  Interpolated(a, b, t) = a.cum + (mv[t + 1] - mv[a.at + 1])
<1>1. PICK r \in Int : \A u \in a.at..b.at : mv[u + 1] = mv[a.at + 1] + r * (u - a.at)
  BY DEF Straight
<1>. DEFINE n == b.at - a.at
            m == t - a.at
<1>2. n \in Nat /\ n # 0 /\ m \in Int /\ a.cum \in Int /\ b.cum \in Int
  BY DEF Points
<1>3. a.at \in a.at..b.at /\ b.at \in a.at..b.at /\ t \in a.at..b.at
  BY DEF Points
<1>4. mv[b.at + 1] = mv[a.at + 1] + r * n /\ mv[t + 1] = mv[a.at + 1] + r * m
  BY <1>1, <1>3
<1>5. mv[a.at + 1] \in Int
  BY <1>3
<1>6. Interpolated(a, b, t) = a.cum + (((b.cum - a.cum) * m) \div n)
  BY DEF Interpolated
<1>. HIDE DEF n, m
<1>7. r * n \in Int /\ r * m \in Int
  BY <1>2
<1>8. b.cum - a.cum = r * n /\ mv[t + 1] - mv[a.at + 1] = r * m
  <2>. DEFINE A == mv[a.at + 1]
              B == mv[b.at + 1]
              C == mv[t + 1]
              y == r * n
              z == r * m
  <2>1. B = A + y /\ C = A + z /\ A \in Int /\ y \in Int /\ z \in Int
    BY <1>4, <1>5, <1>7
  <2>2. b.cum - a.cum = B - A
    OBVIOUS
  <2>. HIDE DEF A, B, C, y, z
  <2>3. B - A = y /\ C - A = z
    BY <2>1
  <2>. QED  BY <2>2, <2>3, Zenon DEF A, C, y, z
<1>9. ((r * n) * m) \div n = r * m
  BY <1>2, Quotient
<1>. QED  BY <1>6, <1>8, <1>9, Zenon

(* cumulativeSlew at an instant of the exact span: the sum so far and what *)
(* was moved between it and the last accounting point.                     *)
LEMMA CumulativeIsMoved ==
    ASSUME LoopInv, slewLog # <<>>, NEW t \in exactFrom..mono, t >= mono - LogSpan
    PROVE  /\ CumulativeSlew(t) = cumSlew + (MovedAt(t) - MovedAt(chargeFrom))
           /\ CumulativeSlew(t) \in Int
<1>. DEFINE n == Len(slewLog)
<1>1. /\ mono \in 0..MaxMono /\ chargeFrom \in 0..mono /\ exactFrom \in Nat /\ Exact
      /\ MaxMono \in Nat /\ LogSpan \in Nat
      /\ slewLog \in Seq(Points) /\ cumSlew \in Int /\ t \in Int
      /\ \A u \in 0..mono : MovedAt(u) \in Int
  BY LoopConstants DEF LoopInv, LogInv, LoopTypeOK, MovedAt, Exact
<1>2. n \in Nat /\ n # 0 /\ DOMAIN slewLog = 1..n /\ 1 \in 1..n /\ n \in 1..n
  BY <1>1
<1>3. Marks(slewLog, moved, exactFrom, chargeFrom, cumSlew)
      /\ Still(slewLog, moved, exactFrom, chargeFrom - LogSpan)
  BY DEF LoopInv, LogInv
<1>4. slewLog[n].at = chargeFrom /\ slewLog[n].cum = cumSlew
  BY <1>3 DEF Marks
<1>. HIDE DEF n
<1>5. ASSUME NEW i \in 1..n
      PROVE  /\ slewLog[i] \in Points /\ slewLog[i].at \in 0..mono /\ slewLog[i].cum \in Int
             /\ slewLog[i].at >= exactFrom =>
                   cumSlew - slewLog[i].cum = MovedAt(chargeFrom) - MovedAt(slewLog[i].at)
  <2>1. slewLog[i] \in Points
    BY <1>1, <1>2
  <2>2. i # n => slewLog[i].at < slewLog[n].at
    BY <1>2, <1>3 DEF Marks, Rising
  <2>3. slewLog[i].at \in 0..mono /\ slewLog[i].cum \in Int
    <3>1. slewLog[i].at \in Nat /\ slewLog[i].cum \in Int
      BY <2>1 DEF Points
    <3>2. slewLog[i].at <= chargeFrom
      <4>1. CASE i = n
        BY <1>1, <1>4, <4>1
      <4>2. CASE i # n
        BY <1>1, <1>4, <2>2, <3>1, <4>2
      <4>. QED  BY <4>1, <4>2
    <3>. QED  BY <1>1, <3>1, <3>2
  <2>. QED  BY <1>1, <1>2, <1>3, <2>1, <2>3 DEF Marks, Exact, MovedAt
<1>6. MovedAt(t) \in Int /\ MovedAt(chargeFrom) \in Int /\ t \in 0..mono
  BY <1>1
<1>7. CASE t <= slewLog[1].at
  <2>1. CumulativeSlew(t) = slewLog[1].cum
    BY <1>2, <1>7 DEF CumulativeSlew, n
  <2>2. slewLog[1].at >= exactFrom /\ slewLog[1].at \in 0..mono /\ slewLog[1].cum \in Int
        /\ cumSlew - slewLog[1].cum = MovedAt(chargeFrom) - MovedAt(slewLog[1].at)
    BY <1>1, <1>2, <1>5, <1>7
  <2>3. t \in exactFrom..slewLog[1].at /\ t >= chargeFrom - LogSpan
    BY <1>1, <1>7, <2>2
  <2>4. MovedAt(t) = MovedAt(slewLog[1].at)
    BY <1>1, <1>3, <2>3 DEF Still, Exact, MovedAt
  <2>. DEFINE p == slewLog[1].cum
              y == MovedAt(t)
              c == MovedAt(chargeFrom)
  <2>5. cumSlew - p = c - y /\ p \in Int /\ y \in Int /\ c \in Int /\ cumSlew \in Int
    BY <1>1, <1>6, <2>2, <2>4, Zenon
  <2>. HIDE DEF p, y, c
  <2>6. p = cumSlew + (y - c)
    BY <2>5
  <2>. QED  BY <2>1, <2>5, <2>6, Zenon DEF p, y, c
<1>8. CASE t > slewLog[1].at /\ t >= slewLog[n].at
  <2>1. CumulativeSlew(t) = cumSlew + Running * (t - chargeFrom)
    <3>1. ~(t <= slewLog[1].at)
      BY <1>1, <1>2, <1>5, <1>8
    <3>. QED  BY <1>2, <1>4, <1>8, <3>1 DEF CumulativeSlew, n
  <2>2. t \in chargeFrom..mono /\ chargeFrom # -1
    BY <1>1, <1>4, <1>8
  <2>3. MovedAt(t) = MovedAt(chargeFrom) + Running * (t - chargeFrom)
    BY <1>1, <2>2 DEF LoopInv, Steady
  <2>4. Running * (t - chargeFrom) \in Int
    BY <1>1, LoopConstants DEF Running, NoWord, LoopInv, LoopTypeOK
  <2>. DEFINE y == Running * (t - chargeFrom)
  <2>5. CumulativeSlew(t) = cumSlew + y /\ MovedAt(t) = MovedAt(chargeFrom) + y /\ y \in Int
    BY <2>1, <2>3, <2>4, Zenon
  <2>. HIDE DEF y
  <2>. QED  BY <1>1, <1>6, <2>5
<1>9. CASE t > slewLog[1].at /\ t < slewLog[n].at
  <2>. DEFINE k == CHOOSE k \in 1..(n - 1) : slewLog[k].at <= t /\ t < slewLog[k + 1].at
  <2>1. CumulativeSlew(t) = Interpolated(slewLog[k], slewLog[k + 1], t)
    <3>1. ~(t <= slewLog[1].at) /\ ~(t >= slewLog[n].at)
      BY <1>1, <1>2, <1>5, <1>9
    <3>. QED  BY <1>2, <3>1, Zenon DEF CumulativeSlew, n
  <2>2. k \in 1..(n - 1) /\ slewLog[k].at <= t /\ t < slewLog[k + 1].at
    <3>1. slewLog[1].at < t /\ t < slewLog[Len(slewLog)].at
      BY <1>1, <1>2, <1>5, <1>9 DEF n
    <3>2. \E j \in 1..(n - 1) : slewLog[j].at <= t /\ t < slewLog[j + 1].at
      BY <1>1, <3>1, BetweenPoints DEF n
    <3>. QED  BY <3>2, Zenon
  <2>. HIDE DEF k
  <2>3. k \in 1..n /\ k + 1 \in 1..n
    BY <1>2, <2>2
  <2>. DEFINE a == slewLog[k]
              b == slewLog[k + 1]
  <2>4. /\ a \in Points /\ b \in Points /\ a.at \in 0..mono /\ b.at \in 0..mono
        /\ a.cum \in Int /\ b.cum \in Int /\ b.at > exactFrom
    BY <1>1, <1>5, <2>2, <2>3
  <2>5. a.at >= exactFrom /\ Straight(moved, a.at, b.at)
    <3>1. \/ slewLog[k + 1].at <= exactFrom
          \/ slewLog[k].at >= exactFrom /\ Straight(moved, slewLog[k].at, slewLog[k + 1].at)
      BY <1>1, <1>3, <2>2, Zenon DEF Marks, Exact, n
    <3>2. ~(slewLog[k + 1].at <= exactFrom)
      BY <1>1, <2>4
    <3>. QED  BY <3>1, <3>2, Zenon
  <2>6. /\ cumSlew - a.cum = MovedAt(chargeFrom) - MovedAt(a.at)
        /\ cumSlew - b.cum = MovedAt(chargeFrom) - MovedAt(b.at)
        /\ MovedAt(a.at) \in Int /\ MovedAt(b.at) \in Int
    <3>1. b.at >= exactFrom
      BY <1>1, <2>4
    <3>. QED  BY <1>1, <1>5, <2>3, <2>4, <2>5, <3>1, Zenon
  <2>7. a.at <= t /\ t < b.at
    BY <2>2
  <2>. HIDE DEF a, b
  <2>8. b.cum - a.cum = moved[b.at + 1] - moved[a.at + 1]
    <3>. DEFINE p == a.cum
                q == b.cum
                x == MovedAt(a.at)
                y == MovedAt(b.at)
                c == MovedAt(chargeFrom)
    <3>1. cumSlew - p = c - x /\ cumSlew - q = c - y /\ cumSlew \in Int
          /\ p \in Int /\ q \in Int /\ x \in Int /\ y \in Int /\ c \in Int
      BY <1>1, <1>6, <2>4, <2>6, Zenon
    <3>. HIDE DEF p, q, x, y, c
    <3>2. q - p = y - x
      BY <3>1
    <3>. QED  BY <3>2, Zenon DEF p, q, x, y, MovedAt
  <2>9. \A u \in a.at..b.at : moved[u + 1] \in Int
    BY <1>1, <2>4 DEF MovedAt
  <2>10. Interpolated(a, b, t) = a.cum + (moved[t + 1] - moved[a.at + 1])
    BY <1>1, <2>4, <2>5, <2>7, <2>8, <2>9, InterpolatedIsMoved
  <2>11. CumulativeSlew(t) = a.cum + (MovedAt(t) - MovedAt(a.at))
    BY <2>1, <2>10, Zenon DEF a, b, MovedAt
  <2>. DEFINE p == a.cum
              x == MovedAt(a.at)
              y == MovedAt(t)
              c == MovedAt(chargeFrom)
  <2>12. cumSlew - p = c - x /\ CumulativeSlew(t) = p + (y - x)
         /\ cumSlew \in Int /\ p \in Int /\ x \in Int /\ y \in Int /\ c \in Int
    BY <1>1, <1>6, <2>4, <2>6, <2>11, Zenon
  <2>. HIDE DEF p, x, y, c
  <2>13. CumulativeSlew(t) = cumSlew + (y - c) /\ CumulativeSlew(t) \in Int
    BY <2>12
  <2>. QED  BY <2>13, Zenon DEF y, c
<1>10. slewLog[1].at \in Int /\ slewLog[n].at \in Int
  BY <1>2, <1>5
<1>. QED  BY <1>1, <1>7, <1>8, <1>9, <1>10

(***************************************************************************)
(* AppliedSince is exactly what the frequency words moved since the        *)
(* instant asked for, for every instant of the span kept: across ticks     *)
(* that change the word, updates that change the base under it, and points *)
(* dropped from the log.                                                   *)
(***************************************************************************)
THEOREM AppliedWasMoved == LoopSpec => []AppliedIsExact
<1>1. LoopInv => AppliedIsExact
  <2>. SUFFICES ASSUME LoopInv, NEW t \in exactFrom..mono, t >= mono - LogSpan
                PROVE  AppliedSince(t) = MovedAt(mono) - MovedAt(t)
    BY DEF AppliedIsExact
  <2>1. /\ mono \in 0..MaxMono /\ exactFrom \in Nat /\ Exact /\ LogSpan \in Nat
        /\ t \in 0..mono /\ mono \in 0..mono
        /\ chargeFrom \in -1..mono
        /\ \A u \in 0..mono : MovedAt(u) \in Int
    BY LoopConstants DEF LoopInv, LoopTypeOK, MovedAt, Exact
  <2>2. CASE mono <= t
    BY <2>1, <2>2 DEF AppliedSince
  <2>3. CASE ~(mono <= t) /\ slewLog = <<>>
    <3>1. MovedAt(mono) = 0 /\ MovedAt(t) = 0
      BY <2>1, <2>3 DEF LoopInv, LogInv, Steady
    <3>2. CumulativeSlew(mono) = 0 /\ CumulativeSlew(t) = 0
      BY <2>3 DEF CumulativeSlew
    <3>. QED  BY <2>3, <3>1, <3>2 DEF AppliedSince
  <2>4. CASE ~(mono <= t) /\ slewLog # <<>>
    <3>1. mono \in exactFrom..mono /\ mono >= mono - LogSpan /\ chargeFrom \in 0..mono
      BY <2>1, <2>4 DEF LoopInv, LogInv
    <3>2. /\ CumulativeSlew(t) = cumSlew + (MovedAt(t) - MovedAt(chargeFrom))
          /\ CumulativeSlew(mono) = cumSlew + (MovedAt(mono) - MovedAt(chargeFrom))
      BY <2>4, <3>1, CumulativeIsMoved
    <3>3. cumSlew \in Int /\ MovedAt(t) \in Int /\ MovedAt(mono) \in Int /\ MovedAt(chargeFrom) \in Int
      BY <2>1, <3>1 DEF LoopInv, LoopTypeOK
    <3>4. AppliedSince(t) = CumulativeSlew(mono) - CumulativeSlew(t)
      BY <2>4, Zenon DEF AppliedSince
    <3>. QED  BY <3>2, <3>3, <3>4
  <2>. QED  BY <2>2, <2>3, <2>4
<1>. QED  BY <1>1, LoopInvariant, PTL

=============================================================================
