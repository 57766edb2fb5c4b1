---------------------------- MODULE FilterProofs -----------------------------
(***************************************************************************)
(* What the discontinuities and resets of the clock-epoch protocol leave   *)
(* in the clock filters (UnreportedInEpoch) and in the pulse windows       *)
(* (OneStrayPulse), that a reset comes before the next sample              *)
(* (ResetBeforeNextSample), and where every sample behind an offset is of  *)
(* the settled epoch (OffsetInEpoch); for any sources, channel capacity,   *)
(* filter length and number of steps and leaps.                            *)
(***************************************************************************)
EXTENDS EpochProofs

-----------------------------------------------------------------------------
(* What a reset leaves behind. *)

(***************************************************************************)
(* Between two discontinuities; the bracket of a step that is not made, or *)
(* is refused, does not move the clock.                                    *)
(***************************************************************************)
Quiet == ~leapDue /\ eng \notin {"leap", "stepped"}

(* The engine has asked s for a reset that s has not taken up, or will ask. *)
Awaits(s) == resetReq[s] \/ (eng = "reset" /\ s \in todo)

(* s has taken up the reset of a leap before its bracket is closed. *)
LeapTaken(s) == eng = "leap" /\ s \notin todo /\ ~resetReq[s]

Unreported(s) == \A i \in 1..Len(window[s]) : i > used[s] => window[s][i] = world
OneStray(s) == \A i, j \in 1..Len(window[s]) : i # j => world \in {window[s][i], window[s][j]}

(***************************************************************************)
(* The inductive invariant.  Only the sample that was past its second read *)
(* of the epoch when the discontinuity began can join the filter after it; *)
(* it does so in the same step that takes up the reset, so it enters alone *)
(* and, in a clock filter, reported.  Until a leap's bracket closes no     *)
(* other sample passes the second read.                                    *)
(***************************************************************************)
WindowInv(s) ==
    /\ Quiet /\ ~Awaits(s) => /\ pc[s] = "hit" => obs[s] = world
                              /\ s \in NTPs => Unreported(s)
                              /\ s \in PPSs => OneStray(s)
    /\ LeapTaken(s) => /\ pc[s] # "hit"
                       /\ s \in NTPs => Len(window[s]) <= used[s]
                       /\ s \in PPSs => Len(window[s]) <= 1

FilterInv == \A s \in NTPs \cup PPSs : WindowInv(s)

(* The newest sample is last; the others keep their places, or move up one *)
(* when the register was full.                                             *)
IsShift(w, x, v) ==
    /\ v \in Seq(Nat) /\ Len(v) >= 1 /\ v[Len(v)] = x
    /\ Len(w) < Stages => Len(v) = Len(w) + 1 /\ \A i \in 1..Len(w) : v[i] = w[i]
    /\ ~(Len(w) < Stages) => Len(v) = Len(w) /\ \A i \in 1..(Len(w) - 1) : v[i] = w[i + 1]

LEMMA ShiftAt ==
    ASSUME NEW w \in Seq(Nat), NEW x \in Nat PROVE IsShift(w, x, Shift(w, x))
<1>1. CASE Len(w) < Stages
  BY <1>1 DEF Shift, IsShift
<1>2. CASE ~(Len(w) < Stages)
  <2>1. w # <<>>
    BY <1>2, EpochConstants
  <2>2. /\ Tail(w) \in Seq(Nat) /\ Len(Tail(w)) = Len(w) - 1
        /\ \A i \in 1..(Len(w) - 1) : Tail(w)[i] = w[i + 1]
    BY <2>1
  <2>. DEFINE t == Tail(w)
  <2>3. Shift(w, x) = Append(t, x)
    BY <1>2 DEF Shift
  <2>4. Len(t) = Len(w) - 1 /\ t \in Seq(Nat) /\ \A i \in 1..(Len(w) - 1) : t[i] = w[i + 1]
    BY <2>2
  <2>. HIDE DEF t
  <2>. QED  BY <1>2, <2>3, <2>4 DEF IsShift
<1>. QED  BY <1>1, <1>2

(* A sample shifted into an empty register is alone in it. *)
LEMMA ShiftFirst ==
    ASSUME NEW x \in Nat
    PROVE  Len(Shift(<<>>, x)) = 1 /\ Shift(<<>>, x)[1] = x
BY EpochConstants DEF Shift

(* A source's step leaves the others' windows and requests alone. *)
LEMMA OthersWindow ==
    ASSUME TypeOK, NEW s \in Source, OwnStep(s), NEW t \in Source, t # s, WindowInv(t)
    PROVE  WindowInv(t)'
<1>1. ASSUME NEW B, NEW f \in [Source -> B], NEW g, Touch(f, g, s, B)
      PROVE  g[t] = f[t]
  <2>1. CASE g = f
    BY <2>1
  <2>2. ASSUME NEW v \in B, g = [f EXCEPT ![s] = v] PROVE g[t] = f[t]
    BY <2>2
  <2>. QED  BY <1>1, <2>1, <2>2 DEF Touch
<1>2. /\ pc'[t] = pc[t] /\ obs'[t] = obs[t] /\ window'[t] = window[t]
      /\ used'[t] = used[t] /\ resetReq'[t] = resetReq[t]
  BY <1>1, Zenon DEF OwnStep, TypeOK
<1>3. UNCHANGED <<world, leapDue, eng, todo>>
  BY DEF OwnStep, clockVars, engVars
<1>. QED  BY <1>2, <1>3, Zenon DEF WindowInv, Quiet, Awaits, LeapTaken, Unreported, OneStray

(* What a source's step that neither consumes a request nor adds a sample  *)
(* may do: empty the window, or pass the second read of the epoch.         *)
LEMMA PlainWindow ==
    ASSUME EpochInv, NEW s \in Source, WindowInv(s),
           UNCHANGED <<gen, world, leapDue, eng, todo>>,
           resetReq'[s] = resetReq[s],
           \/ window'[s] = window[s] /\ used'[s] = used[s]
           \/ window'[s] = <<>> /\ used'[s] \in Nat,
           \/ pc'[s] # "hit"
           \/ /\ pc[s] = "replied" /\ gen = seen[s] /\ StableEpoch(gen) /\ obs'[s] = obs[s]
           \/ /\ pc[s] = "hit" /\ obs'[s] = obs[s]
    PROVE  WindowInv(s)'
<1>1. /\ Quiet' = Quiet /\ Awaits(s)' = Awaits(s) /\ LeapTaken(s)' = LeapTaken(s)
  BY Zenon DEF Quiet, Awaits, LeapTaken
<1>2. window[s] \in Seq(Nat) /\ used[s] \in Nat
  BY DEF EpochInv, TypeOK
<1>3. ASSUME pc'[s] = "hit", Quiet, ~Awaits(s) PROVE obs'[s] = world'
  <2>1. CASE pc[s] = "hit"
    BY <1>3, <2>1 DEF WindowInv
  <2>2. CASE pc[s] # "hit"
    BY <1>3, <2>2 DEF EpochInv, SourceInv, Settled, Quiet
  <2>. QED  BY <2>1, <2>2
<1>4. ASSUME LeapTaken(s) PROVE pc'[s] # "hit"
  BY <1>4 DEF LeapTaken, WindowInv, EpochInv, BracketIsOdd, InBracket
<1>5. CASE window'[s] = window[s] /\ used'[s] = used[s]
  BY <1>1, <1>3, <1>4, <1>5, Zenon DEF WindowInv, Unreported, OneStray
<1>6. CASE window'[s] = <<>> /\ used'[s] \in Nat
  <2>1. Unreported(s)' /\ OneStray(s)' /\ Len(window'[s]) <= 1 /\ Len(window'[s]) <= used'[s]
    BY <1>6 DEF OneStray, Unreported
  <2>. QED  BY <1>1, <1>3, <1>4, <2>1, Zenon DEF WindowInv
<1>. QED  BY <1>5, <1>6

(* A filter shifts what was reported along with the samples. *)
LEMMA UnreportedShift ==
    ASSUME NEW w \in Seq(Nat), NEW u \in Nat, NEW v, IsShift(w, world, v),
           \A i \in 1..Len(w) : i > u => w[i] = world,
           NEW i \in 1..Len(v), i > Reported(w, u)
    PROVE  v[i] = world
<1>. DEFINE n == Reported(w, u)
<1>1. n \in Nat /\ (n = u \/ (Len(w) = Stages /\ n = u - 1))
  BY DEF Reported
<1>2. n < i
  BY <1>1
<1>. HIDE DEF n
<1>3. CASE i = Len(v)
  BY <1>3 DEF IsShift
<1>4. CASE i # Len(v) /\ Len(w) < Stages
  <2>0. Len(v) = Len(w) + 1 /\ Len(w) \in Nat /\ \A k \in 1..Len(w) : v[k] = w[k]
    BY <1>4 DEF IsShift
  <2>1. i \in 1..Len(w)
    BY <1>4, <2>0
  <2>2. v[i] = w[i]
    BY <2>0, <2>1, Zenon
  <2>3. i > u
    BY <1>1, <1>2, <1>4
  <2>. QED  BY <2>1, <2>2, <2>3
<1>5. CASE i # Len(v) /\ ~(Len(w) < Stages)
  <2>0. Len(v) = Len(w) /\ Len(w) \in Nat /\ \A k \in 1..(Len(w) - 1) : v[k] = w[k + 1]
    BY <1>5 DEF IsShift
  <2>1. i \in 1..(Len(w) - 1) /\ i + 1 \in 1..Len(w)
    BY <1>5, <2>0
  <2>2. v[i] = w[i + 1]
    BY <2>0, <2>1, Zenon
  <2>3. i + 1 > u
    BY <1>1, <1>2
  <2>. QED  BY <2>1, <2>2, <2>3
<1>. QED  BY <1>3, <1>4, <1>5

(* hit: the samples a clock filter could still report stay this side. *)
LEMMA HitWindow ==
    ASSUME EpochInv, NEW s \in NTPs, Hit(s), WindowInv(s)
    PROVE  WindowInv(s)'
<1>0. s \in Source /\ s \notin PPSs
  BY EpochConstants DEF Source
<1>1. /\ window \in [Source -> Seq(Nat)] /\ used \in [Source -> Nat]
      /\ pc \in [Source -> SrcPlaces] /\ resetReq \in [Source -> BOOLEAN]
      /\ window[s] \in Seq(Nat) /\ used[s] \in Nat /\ obs[s] \in Nat
  BY <1>0 DEF EpochInv, TypeOK
<1>2. /\ pc[s] = "hit" /\ pc'[s] # "hit" /\ ~resetReq'[s]
      /\ UNCHANGED <<gen, world, leapDue, eng, todo>>
  BY <1>0, <1>1, Zenon DEF Hit, ntpFrame, clockVars, engVars
<1>. DEFINE cleared(b) == resetReq[s] \/ b
            held(b) == IF cleared(b) THEN <<>> ELSE window[s]
            done(b) == IF cleared(b) THEN 0 ELSE Reported(window[s], used[s])
            w(b) == Shift(held(b), obs[s])
<1>3. PICK b \in BOOLEAN :
        /\ window' = [window EXCEPT ![s] = w(b)]
        /\ \E best \in 1..Len(w(b)) :
             \/ best > done(b) /\ used' = [used EXCEPT ![s] = best]
             \/ best <= done(b) /\ used' = [used EXCEPT ![s] = done(b)]
  BY Zenon DEF Hit
<1>4. PICK best \in 1..Len(w(b)) :
             \/ best > done(b) /\ used' = [used EXCEPT ![s] = best]
             \/ best <= done(b) /\ used' = [used EXCEPT ![s] = done(b)]
  BY <1>3, Zenon
<1>5. /\ window'[s] = w(b)
      /\ \/ best > done(b) /\ used'[s] = best
         \/ best <= done(b) /\ used'[s] = done(b)
  <2>. HIDE DEF w, done
  <2>. QED  BY <1>0, <1>1, <1>3, <1>4
<1>6. CASE cleared(b)
  <2>1. Len(w(b)) = 1 /\ done(b) = 0
    BY <1>1, <1>6, ShiftFirst
  <2>. HIDE DEF w, done
  <2>2. Len(window'[s]) = 1 /\ used'[s] = 1
    BY <1>4, <1>5, <2>1
  <2>3. Unreported(s)' /\ Len(window'[s]) <= used'[s]
    BY <2>2 DEF Unreported
  <2>. QED  BY <1>0, <1>2, <2>3, Zenon DEF WindowInv
<1>7. CASE ~cleared(b)
  <2>1. ~resetReq[s] /\ w(b) = Shift(window[s], obs[s]) /\ done(b) = Reported(window[s], used[s])
    BY <1>7
  <2>. HIDE DEF w
  <2>2. IsShift(window[s], obs[s], w(b))
    BY <1>1, <2>1, ShiftAt
  <2>3. ~LeapTaken(s)'
    BY <1>2, <2>1 DEF LeapTaken, WindowInv
  <2>. DEFINE v == w(b)
              n == done(b)
  <2>4. n \in Nat /\ used'[s] \in Nat /\ used'[s] >= n
    BY <1>1, <1>4, <1>5, <2>1 DEF Reported
  <2>5. ASSUME Quiet', ~Awaits(s)' PROVE Unreported(s)'
    <3>1. obs[s] = world /\ Unreported(s)
      BY <1>2, <2>1, <2>5, Zenon DEF WindowInv, Quiet, Awaits
    <3>. SUFFICES ASSUME NEW i \in 1..Len(v), i > used'[s] PROVE v[i] = world
      BY <1>2, <1>5 DEF Unreported
    <3>2. i > Reported(window[s], used[s])
      BY <2>1, <2>4
    <3>3. \A k \in 1..Len(window[s]) : k > used[s] => window[s][k] = world
      BY <3>1 DEF Unreported
    <3>4. IsShift(window[s], world, v)
      BY <2>2, <3>1
    <3>5. window[s] \in Seq(Nat) /\ used[s] \in Nat
      BY <1>1
    <3>. HIDE DEF v
    <3>. QED  BY <3>2, <3>3, <3>4, <3>5, UnreportedShift
  <2>. QED  BY <1>0, <1>2, <2>3, <2>5, Zenon DEF WindowInv
<1>. QED  BY <1>6, <1>7

LEMMA NTPWindow ==
    ASSUME EpochInv, NEW s \in NTPs, NTPNext(s), WindowInv(s)
    PROVE  WindowInv(s)'
<1>0. s \in Source
  BY DEF Source
<1>1. /\ window \in [Source -> Seq(Nat)] /\ used \in [Source -> Nat] /\ used[s] \in Nat
      /\ pc \in [Source -> SrcPlaces] /\ obs \in [Source -> Nat]
  BY <1>0 DEF EpochInv, TypeOK
<1>2. CASE Hit(s)
  BY <1>2, HitWindow
<1>3. CASE ~Hit(s)
  <2>1. /\ UNCHANGED <<gen, world, leapDue, eng, todo>>
        /\ resetReq'[s] = resetReq[s]
    BY <1>3, Zenon DEF NTPNext, PollBegin, SendRequest, Reply, Recheck, EmptyReport, Emit,
                ntpFrame, clockVars, engVars
  <2>2. \/ window'[s] = window[s] /\ used'[s] = used[s]
        \/ window'[s] = <<>> /\ used'[s] \in Nat
    <3>1. CASE PollBegin(s)
      BY <1>0, <1>1, <3>1 DEF PollBegin
    <3>2. CASE ~PollBegin(s)
      BY <1>3, <3>2, Zenon DEF NTPNext, SendRequest, Reply, Recheck, EmptyReport, Emit
    <3>. QED  BY <3>1, <3>2
  <2>3. \/ pc'[s] # "hit"
        \/ /\ pc[s] = "replied" /\ gen = seen[s] /\ StableEpoch(gen) /\ obs'[s] = obs[s]
    BY <1>0, <1>1, <1>3 DEF NTPNext, PollBegin, SendRequest, Reply, Recheck, EmptyReport, Emit
  <2>. QED  BY <1>0, <2>1, <2>2, <2>3, PlainWindow
<1>. QED  BY <1>2, <1>3

(* Two samples of a window are in no third place after a shift. *)
LEMMA ShiftStray ==
    ASSUME NEW w \in Seq(Nat), NEW x, NEW v, IsShift(w, x, v),
           x = world, \A i, j \in 1..Len(w) : i # j => world \in {w[i], w[j]}
    PROVE  \A i, j \in 1..Len(v) : i # j => world \in {v[i], v[j]}
<1>. SUFFICES ASSUME NEW i \in 1..Len(v), NEW j \in 1..Len(v), i # j,
                     v[i] # world, v[j] # world
              PROVE  FALSE
  OBVIOUS
<1>1. Len(v) \in Nat /\ i # Len(v) /\ j # Len(v)
  BY DEF IsShift
<1>2. CASE Len(w) < Stages
  <2>0. Len(v) = Len(w) + 1 /\ Len(w) \in Nat /\ \A k \in 1..Len(w) : v[k] = w[k]
    BY <1>2 DEF IsShift
  <2>1. i \in 1..Len(w) /\ j \in 1..Len(w)
    BY <1>1, <2>0
  <2>2. v[i] = w[i] /\ v[j] = w[j]
    BY <2>0, <2>1, Zenon
  <2>. QED  BY <2>1, <2>2
<1>3. CASE ~(Len(w) < Stages)
  <2>0. Len(v) = Len(w) /\ Len(w) \in Nat /\ \A k \in 1..(Len(w) - 1) : v[k] = w[k + 1]
    BY <1>3 DEF IsShift
  <2>1. /\ i \in 1..(Len(w) - 1) /\ j \in 1..(Len(w) - 1)
        /\ i + 1 \in 1..Len(w) /\ j + 1 \in 1..Len(w) /\ i + 1 # j + 1
    BY <1>1, <2>0
  <2>2. v[i] = w[i + 1] /\ v[j] = w[j + 1]
    BY <2>0, <2>1, Zenon
  <2>. QED  BY <2>1, <2>2
<1>. QED  BY <1>2, <1>3

(* accept: the pulse that takes up a request is alone in the window. *)
LEMMA AcceptWindow ==
    ASSUME EpochInv, NEW s \in PPSs, Accept(s), WindowInv(s)
    PROVE  WindowInv(s)'
<1>0. s \in Source /\ s \notin NTPs
  BY EpochConstants DEF Source
<1>1. /\ window \in [Source -> Seq(Nat)] /\ pc \in [Source -> SrcPlaces]
      /\ resetReq \in [Source -> BOOLEAN] /\ window[s] \in Seq(Nat) /\ obs[s] \in Nat
  BY <1>0 DEF EpochInv, TypeOK
<1>2. /\ pc[s] = "hit" /\ pc'[s] # "hit" /\ ~resetReq'[s]
      /\ UNCHANGED <<gen, world, leapDue, eng, todo>>
  <2>1. pc' = [pc EXCEPT ![s] = "nil"] \/ pc' = [pc EXCEPT ![s] = "emit"]
    BY Zenon DEF Accept
  <2>2. /\ pc[s] = "hit" /\ resetReq' = [resetReq EXCEPT ![s] = FALSE]
        /\ UNCHANGED <<gen, world, leapDue, eng, todo>>
    BY Zenon DEF Accept, ppsFrame, clockVars, engVars
  <2>. QED  BY <1>0, <1>1, <2>1, <2>2
<1>. DEFINE held == IF resetReq[s] THEN <<>> ELSE window[s]
            w == Shift(held, obs[s])
<1>3. \/ window' = [window EXCEPT ![s] = held]
      \/ window' = [window EXCEPT ![s] = <<>>]
      \/ window' = [window EXCEPT ![s] = w]
  BY Zenon DEF Accept
<1>4. window'[s] = held \/ window'[s] = <<>> \/ window'[s] = w
  <2>. HIDE DEF held, w
  <2>. QED  BY <1>0, <1>1, <1>3
<1>5. CASE window'[s] = <<>> \/ resetReq[s]
  <2>. DEFINE n == Len(window'[s])
  <2>1. n = 0 \/ n = 1
    BY <1>1, <1>4, <1>5, ShiftFirst
  <2>2. n <= 1 /\ \A i, j \in 1..n : i = j
    <3>. HIDE DEF n
    <3>. QED  BY <2>1
  <2>3. OneStray(s)'
    BY <2>2, Zenon DEF OneStray
  <2>. QED  BY <1>0, <1>2, <2>2, <2>3, Zenon DEF WindowInv
<1>6. CASE window'[s] # <<>> /\ ~resetReq[s]
  <2>1. window'[s] = window[s] \/ window'[s] = Shift(window[s], obs[s])
    BY <1>4, <1>6
  <2>2. ~LeapTaken(s)'
    BY <1>2, <1>6 DEF LeapTaken, WindowInv
  <2>3. ASSUME Quiet', ~Awaits(s)' PROVE OneStray(s)'
    <3>1. obs[s] = world /\ OneStray(s) /\ world' = world
      BY <1>2, <1>6, <2>3, Zenon DEF WindowInv, Quiet, Awaits
    <3>2. \A i, j \in 1..Len(window[s]) : i # j => world \in {window[s][i], window[s][j]}
      BY <3>1, Zenon DEF OneStray
    <3>. DEFINE old == window[s]
                new == window'[s]
    <3>3. \A i, j \in 1..Len(new) : i # j => world \in {new[i], new[j]}
      <4>1. CASE new = old
        BY <3>2, <4>1, Zenon
      <4>2. CASE new = Shift(old, obs[s])
        <5>1. IsShift(old, obs[s], new) /\ old \in Seq(Nat)
          BY <1>1, <4>2, ShiftAt
        <5>. HIDE DEF old, new
        <5>2. \A i, j \in 1..Len(old) : i # j => world \in {old[i], old[j]}
          BY <3>2 DEF old
        <5>. QED  BY <3>1, <5>1, <5>2, ShiftStray
      <4>. QED  BY <2>1, <4>1, <4>2
    <3>. QED  BY <3>1, <3>3, Zenon DEF OneStray
  <2>. QED  BY <1>0, <1>2, <2>2, <2>3, Zenon DEF WindowInv
<1>. QED  BY <1>5, <1>6

(* The top of the pulse loop empties the window when it takes up a request. *)
LEMMA TopWindow ==
    ASSUME EpochInv, NEW s \in PPSs, PPSTop(s), WindowInv(s)
    PROVE  WindowInv(s)'
<1>0. s \in Source /\ s \notin NTPs
  BY EpochConstants DEF Source
<1>1. /\ window \in [Source -> Seq(Nat)] /\ pc \in [Source -> SrcPlaces]
      /\ resetReq \in [Source -> BOOLEAN] /\ used[s] \in Nat
  BY <1>0 DEF EpochInv, TypeOK
<1>2. /\ pc'[s] = "top" /\ resetReq'[s] = FALSE
      /\ window'[s] = IF resetReq[s] THEN <<>> ELSE window[s]
      /\ used'[s] = used[s]
      /\ UNCHANGED <<gen, world, leapDue, eng, todo>>
  BY <1>0, <1>1, Zenon DEF PPSTop, ppsFrame, clockVars, engVars
<1>3. CASE ~resetReq[s]
  <2>1. resetReq'[s] = resetReq[s] /\ window'[s] = window[s]
    BY <1>0, <1>1, <1>2, <1>3, Zenon
  <2>. QED  BY <1>0, <1>2, <2>1, PlainWindow
<1>4. CASE resetReq[s]
  <2>1. window'[s] = <<>> /\ pc'[s] # "hit"
    BY <1>2, <1>4
  <2>2. OneStray(s)' /\ Len(window'[s]) <= 1
    BY <2>1 DEF OneStray
  <2>. QED  BY <1>0, <2>1, <2>2, Zenon DEF WindowInv
<1>. QED  BY <1>3, <1>4

LEMMA PPSWindow ==
    ASSUME EpochInv, NEW s \in PPSs, PPSNext(s) \/ PPSReopen(s), WindowInv(s)
    PROVE  WindowInv(s)'
<1>0. s \in Source
  BY DEF Source
<1>1. /\ window \in [Source -> Seq(Nat)] /\ used[s] \in Nat
      /\ pc \in [Source -> SrcPlaces] /\ obs \in [Source -> Nat]
  BY <1>0 DEF EpochInv, TypeOK
<1>2. CASE Accept(s) \/ PPSTop(s)
  BY <1>2, AcceptWindow, TopWindow
<1>3. CASE ~(Accept(s) \/ PPSTop(s))
  <2>1. /\ UNCHANGED <<gen, world, leapDue, eng, todo>>
        /\ resetReq'[s] = resetReq[s] /\ used'[s] = used[s]
    BY <1>3, Zenon DEF PPSNext, PPSReadEpoch, Fetch, PPSRecheck, PPSEmptyReport, PPSEmit,
                PPSReopen, ppsFrame, clockVars, engVars
  <2>2. window'[s] = window[s] \/ window'[s] = <<>>
    <3>1. window' = window \/ window' = [window EXCEPT ![s] = <<>>]
      BY <1>3, Zenon DEF PPSNext, PPSReadEpoch, Fetch, PPSRecheck, PPSEmptyReport, PPSEmit, PPSReopen
    <3>. QED  BY <1>0, <1>1, <3>1
  <2>3. \/ pc'[s] # "hit"
        \/ /\ pc[s] = "replied" /\ gen = seen[s] /\ StableEpoch(gen) /\ obs'[s] = obs[s]
    BY <1>0, <1>1, <1>3 DEF PPSNext, PPSReadEpoch, Fetch, PPSRecheck, PPSEmptyReport, PPSEmit, PPSReopen
  <2>. QED  BY <1>0, <1>1, <2>1, <2>2, <2>3, PlainWindow
<1>. QED  BY <1>2, <1>3

(* The engine and the kernel: the clock moves only where a reset of every  *)
(* source is still to come, and a leap's bracket closes after it.          *)
LEMMA EngineWindow ==
    ASSUME EpochInv, EngineNext \/ KernelLeap, NEW s \in NTPs \cup PPSs, WindowInv(s)
    PROVE  WindowInv(s)'
<1>0. s \in Source
  BY DEF Source
<1>1. resetReq \in [Source -> BOOLEAN] /\ ret \in {"stale", "tick", "request", "handle"}
  BY DEF EpochInv, TypeOK
<1>2. ASSUME UNCHANGED <<world, srcVars>>,
             Quiet' /\ ~Awaits(s)' => Quiet /\ ~Awaits(s),
             ~LeapTaken(s)' \/ LeapTaken(s)
      PROVE  WindowInv(s)'
  BY <1>2, Zenon DEF WindowInv, Unreported, OneStray, srcVars
<1>3. ASSUME UNCHANGED srcVars, ~Quiet' \/ Awaits(s)', ~LeapTaken(s)' \/ LeapTaken(s)
      PROVE  WindowInv(s)'
  BY <1>3, Zenon DEF WindowInv, srcVars
<1>. USE DEF engFrame, clockVars, engVars
<1>4. CASE KernelLeap
  BY <1>3, <1>4 DEF KernelLeap, Quiet, LeapTaken
<1>5. CASE Receive \/ Tick \/ Request \/ Discard \/ Admit \/ TickUpdate \/ RequestLeap \/ Publish
  <2>1. /\ UNCHANGED <<world, leapDue, todo, srcVars, resetReq>>
        /\ eng \notin {"leap", "stepped", "reset"} /\ eng' \notin {"leap", "stepped", "reset"}
    BY <1>5 DEF Receive, Tick, Request, Discard, Admit, TickUpdate, RequestLeap, Publish
  <2>2. Awaits(s)' <=> Awaits(s)
    BY <2>1, Zenon DEF Awaits
  <2>3. (Quiet' => Quiet) /\ ~LeapTaken(s)'
    BY <2>1 DEF Quiet, LeapTaken
  <2>. QED  BY <1>2, <2>1, <2>2, <2>3
<1>6. CASE CrossLeap
  BY <1>0, <1>3, <1>6, Zenon DEF CrossLeap, Quiet, LeapTaken
<1>7. CASE LeapClose
  <2>1. /\ eng = "leap" /\ todo = {} /\ eng' \notin {"leap", "stepped", "reset"}
        /\ UNCHANGED <<world, srcVars, resetReq>>
    BY <1>1, <1>7 DEF LeapClose
  <2>2. CASE resetReq[s]
    <3>1. Awaits(s)' /\ ~LeapTaken(s)'
      BY <2>1, <2>2, Zenon DEF Awaits, LeapTaken
    <3>. QED  BY <1>3, <2>1, <3>1
  <2>3. CASE ~resetReq[s]
    <3>1. LeapTaken(s) /\ ~LeapTaken(s)'
      BY <2>1, <2>3 DEF LeapTaken
    <3>2. /\ pc[s] # "hit"
          /\ s \in NTPs => Len(window[s]) <= used[s]
          /\ s \in PPSs => Len(window[s]) <= 1
      BY <3>1, Zenon DEF WindowInv
    <3>. DEFINE n == Len(window[s])
    <3>3. n \in Nat /\ used[s] \in Nat
      BY <1>0 DEF EpochInv, TypeOK
    <3>4. s \in NTPs => \A i \in 1..n : ~(i > used[s])
      <4>. HIDE DEF n
      <4>. QED  BY <3>2, <3>3 DEF n
    <3>5. s \in PPSs => \A i, j \in 1..n : i = j
      <4>. HIDE DEF n
      <4>. QED  BY <3>2, <3>3 DEF n
    <3>6. s \in NTPs => Unreported(s)'
      BY <2>1, <3>4, Zenon DEF Unreported, srcVars
    <3>7. s \in PPSs => OneStray(s)'
      BY <2>1, <3>5, Zenon DEF OneStray, srcVars
    <3>. QED  BY <2>1, <3>1, <3>2, <3>6, <3>7, Zenon DEF WindowInv, srcVars
  <2>. QED  BY <2>2, <2>3
<1>8. CASE StepBegin \/ StepFailed
  <2>1. /\ UNCHANGED <<world, leapDue, todo, srcVars, resetReq>>
        /\ eng \notin {"leap", "stepped", "reset"} /\ eng' \notin {"leap", "stepped", "reset"}
    BY <1>8 DEF StepBegin, StepFailed
  <2>2. Awaits(s)' <=> Awaits(s)
    BY <2>1, Zenon DEF Awaits
  <2>3. (Quiet' => Quiet) /\ ~LeapTaken(s)'
    BY <2>1 DEF Quiet, LeapTaken
  <2>. QED  BY <1>2, <2>1, <2>2, <2>3
<1>9. CASE ClockStep
  <2>1. CASE eng' = "stepped"
    BY <1>3, <1>9, <2>1 DEF ClockStep, Quiet, LeapTaken
  <2>2. CASE eng' = "failed" /\ UNCHANGED world
    <3>1. Awaits(s)' <=> Awaits(s)
      BY <1>9, <2>2 DEF ClockStep, Awaits
    <3>2. (Quiet' => Quiet) /\ ~LeapTaken(s)'
      BY <1>9, <2>2 DEF ClockStep, Quiet, LeapTaken
    <3>. QED  BY <1>2, <1>9, <2>2, <3>1, <3>2 DEF ClockStep
  <2>. QED  BY <1>9, <2>1, <2>2 DEF ClockStep
<1>10. CASE StepFinish
  BY <1>0, <1>3, <1>10, Zenon DEF StepFinish, Awaits, LeapTaken
<1>11. CASE ResetDone
  <2>1. /\ UNCHANGED <<world, leapDue, srcVars, resetReq>> /\ todo = {}
        /\ eng = "reset" /\ eng' \notin {"leap", "stepped", "reset"}
    BY <1>11 DEF ResetDone
  <2>2. Awaits(s)' <=> Awaits(s)
    BY <2>1 DEF Awaits
  <2>3. (Quiet' => Quiet) /\ ~LeapTaken(s)'
    BY <2>1 DEF Quiet, LeapTaken
  <2>. QED  BY <1>2, <2>1, <2>2, <2>3
<1>12. ASSUME NEW t \in Source, LeapReset(t) \/ ResetFilter(t) PROVE WindowInv(s)'
  <2>1. /\ UNCHANGED <<world, leapDue, eng, srcVars>> /\ eng \in {"leap", "reset"}
        /\ todo' = todo \ {t} /\ resetReq' = [resetReq EXCEPT ![t] = TRUE]
    BY <1>12 DEF LeapReset, ResetFilter
  <2>2. CASE s = t
    <3>1. resetReq'[s] = TRUE
      BY <1>0, <1>1, <2>1, <2>2
    <3>2. Awaits(s)' /\ ~LeapTaken(s)'
      BY <3>1, Zenon DEF Awaits, LeapTaken
    <3>. QED  BY <1>3, <2>1, <3>2
  <2>3. CASE s # t
    <3>1. resetReq'[s] = resetReq[s] /\ (s \in todo' <=> s \in todo)
      BY <1>0, <1>1, <2>1, <2>3
    <3>2. (Quiet' <=> Quiet) /\ (Awaits(s)' <=> Awaits(s)) /\ (LeapTaken(s)' <=> LeapTaken(s))
      BY <2>1, <3>1, Zenon DEF Quiet, Awaits, LeapTaken
    <3>. QED  BY <1>2, <2>1, <3>2
  <2>. QED  BY <2>2, <2>3
<1>. QED
  BY <1>4, <1>5, <1>6, <1>7, <1>8, <1>9, <1>10, <1>11, <1>12, Zenon DEF EngineNext

LEMMA FilterStep ==
    ASSUME EpochInv, FilterInv, [Next]_vars
    PROVE  FilterInv'
<1>. SUFFICES ASSUME NEW t \in NTPs \cup PPSs PROVE WindowInv(t)'
  BY DEF FilterInv
<1>0. TypeOK /\ t \in Source /\ WindowInv(t)
  BY DEF EpochInv, FilterInv, Source
<1>1. CASE UNCHANGED vars
  BY <1>0, <1>1, Zenon DEF WindowInv, Quiet, Awaits, LeapTaken, Unreported, OneStray,
                           vars, clockVars, engVars, srcVars
<1>2. CASE EngineNext \/ KernelLeap
  BY <1>0, <1>2, EngineWindow
<1>3. ASSUME NEW s \in NTPs, NTPNext(s) PROVE WindowInv(t)'
  <2>1. s \in Source /\ OwnStep(s)
    BY <1>0, <1>3, NTPOwnStep DEF Source
  <2>2. CASE t = s
    BY <1>0, <1>3, <2>2, NTPWindow
  <2>. QED  BY <1>0, <2>1, <2>2, OthersWindow
<1>4. ASSUME NEW s \in PPSs, PPSNext(s) \/ PPSReopen(s) PROVE WindowInv(t)'
  <2>1. s \in Source /\ OwnStep(s)
    BY <1>0, <1>4, PPSOwnStep DEF Source
  <2>2. CASE t = s
    BY <1>0, <1>4, <2>2, PPSWindow
  <2>. QED  BY <1>0, <2>1, <2>2, OthersWindow
<1>5. ASSUME NEW s \in NMEAs, NMEANext(s) \/ NMEAReopen(s) PROVE WindowInv(t)'
  <2>1. s \in Source /\ OwnStep(s) /\ t # s
    BY <1>0, <1>5, NMEAOwnStep, EpochConstants DEF Source
  <2>. QED  BY <1>0, <2>1, OthersWindow
<1>. QED  BY <1>1, <1>2, <1>3, <1>4, <1>5 DEF Next, Running, Halted

LEMMA FilterInvariant == Spec => [](EpochInv /\ FilterInv)
<1>1. Init => FilterInv
  <2>. SUFFICES ASSUME Init, NEW s \in NTPs \cup PPSs PROVE WindowInv(s)
    BY DEF FilterInv
  <2>1. s \in Source
    BY DEF Source
  <2>2. pc[s] = "idle" /\ window[s] = <<>> /\ eng = "idle"
    BY <2>1 DEF Init
  <2>3. Unreported(s) /\ OneStray(s)
    BY <2>2 DEF Unreported, OneStray
  <2>. QED  BY <2>2, <2>3 DEF WindowInv, LeapTaken
<1>. QED  BY <1>1, InitInv, NextInv, FilterStep, PTL DEF Spec

(* After any number of steps and leaps, and for any filter length, a clock *)
(* filter whose source has taken up its reset (hit, resetEndpointState)    *)
(* can report only samples of the present side.                            *)
THEOREM FiltersAreClean == Spec => []UnreportedInEpoch
<1>1. EpochInv /\ FilterInv => UnreportedInEpoch
  <2>. SUFFICES ASSUME EpochInv, FilterInv, Settled, eng # "reset", NEW s \in NTPs, ~resetReq[s]
                PROVE  Unreported(s)
    BY Zenon DEF UnreportedInEpoch, Unreported
  <2>1. Quiet /\ ~Awaits(s)
    BY DEF EpochInv, BracketIsOdd, InBracket, Quiet, Awaits, Settled
  <2>. QED  BY <2>1, Zenon DEF FilterInv, WindowInv
<1>. QED  BY <1>1, FilterInvariant, PTL

(* ... and a pulse window holds at most one pulse of the other side, the   *)
(* one accept was holding when the discontinuity began.                    *)
THEOREM PulsesAreClean == Spec => []OneStrayPulse
<1>1. EpochInv /\ FilterInv => OneStrayPulse
  <2>. SUFFICES ASSUME EpochInv, FilterInv, Settled, eng # "reset", NEW s \in PPSs, ~resetReq[s]
                PROVE  OneStray(s)
    BY Zenon DEF OneStrayPulse, OneStray
  <2>1. Quiet /\ ~Awaits(s)
    BY DEF EpochInv, BracketIsOdd, InBracket, Quiet, Awaits, Settled
  <2>. QED  BY <2>1, Zenon DEF FilterInv, WindowInv
<1>. QED  BY <1>1, FilterInvariant, PTL

(* Source.Reset: with a request pending, hit and accept add their sample   *)
(* to an empty window, for NTP and PPS sources.  (An NMEA source adds one  *)
(* sentence first, which is why there is none here.)                       *)
THEOREM ResetComesFirst == NMEAs = {} => (Spec => ResetBeforeNextSample)
<1>. DEFINE Kept(s) == resetReq[s] /\ window'[s] # window[s] => Len(window'[s]) <= 1
<1>0. \A n : n = 0 \/ n = 1 => n <= 1
  OBVIOUS
<1>1. ASSUME NMEAs = {}, TypeOK, [Next]_vars PROVE [\A s \in Source : Kept(s)]_vars
  <2>. SUFFICES ASSUME Next, NEW t \in Source, resetReq[t], window'[t] # window[t]
                PROVE  Len(window'[t]) <= 1
    BY <1>1
  <2>0. window \in [Source -> Seq(Nat)] /\ obs \in [Source -> Nat]
    BY <1>1 DEF TypeOK
  <2>2. ASSUME NEW s \in NTPs, NTPNext(s) PROVE Len(window'[t]) <= 1
    <3>0. s \in Source
      BY DEF Source
    <3>1. CASE PollBegin(s)
      <4>1. window' = window \/ window' = [window EXCEPT ![s] = <<>>]
        BY <3>1, Zenon DEF PollBegin
      <4>2. window'[t] = <<>>
        BY <2>0, <3>0, <4>1
      <4>. QED  BY <4>2
    <3>2. CASE Hit(s)
      <4>. DEFINE w(b) == Shift(IF resetReq[s] \/ b THEN <<>> ELSE window[s], obs[s])
      <4>1. PICK b \in BOOLEAN : window' = [window EXCEPT ![s] = w(b)]
        BY <3>2, Zenon DEF Hit
      <4>2. resetReq[s]
        <5>. HIDE DEF w
        <5>. QED  BY <2>0, <3>0, <4>1
      <4>. DEFINE x == w(b)
      <4>0. (resetReq[s] \/ b) <=> TRUE
        BY <4>2, Zenon
      <4>3. x = Shift(<<>>, obs[s]) /\ obs[s] \in Nat
        BY <2>0, <3>0, <4>2, <4>0, Zenon
      <4>4. window' = [window EXCEPT ![s] = x]
        BY <4>1
      <4>. HIDE DEF x
      <4>5. Len(Shift(<<>>, obs[s])) = 1
        BY <4>3, ShiftFirst, Zenon
      <4>6. Len(x) = 1
        BY <4>3, <4>5, Zenon
      <4>7. window'[t] = x
        BY <2>0, <3>0, <4>4
      <4>8. Len(window'[t]) = 1
        BY <4>6, <4>7, Zenon
      <4>. QED  BY <1>0, <4>8, Zenon
    <3>3. CASE ~PollBegin(s) /\ ~Hit(s)
      BY <2>2, <3>3, Zenon DEF NTPNext, SendRequest, Reply, Recheck, EmptyReport, Emit
    <3>. QED  BY <3>1, <3>2, <3>3
  <2>3. ASSUME NEW s \in PPSs, PPSNext(s) \/ PPSReopen(s) PROVE Len(window'[t]) <= 1
    <3>0. s \in Source
      BY DEF Source
    <3>1. CASE Accept(s)
      <4>. DEFINE held == IF resetReq[s] THEN <<>> ELSE window[s]
                  w == Shift(held, obs[s])
      <4>1. \/ window' = [window EXCEPT ![s] = held]
            \/ window' = [window EXCEPT ![s] = <<>>]
            \/ window' = [window EXCEPT ![s] = w]
        BY <3>1, Zenon DEF Accept
      <4>2. resetReq[s]
        <5>. HIDE DEF w, held
        <5>. QED  BY <2>0, <3>0, <4>1
      <4>3. held = <<>> /\ w = Shift(<<>>, obs[s]) /\ obs[s] \in Nat
        BY <2>0, <3>0, <4>2
      <4>. HIDE DEF w, held
      <4>4. Len(Shift(<<>>, obs[s])) = 1
        BY <4>3, ShiftFirst, Zenon
      <4>5. Len(w) = 1
        BY <4>3, <4>4, Zenon
      <4>6. window'[t] = w \/ window'[t] = <<>>
        BY <2>0, <3>0, <4>1, <4>3
      <4>0. Len(<<>>) = 0
        OBVIOUS
      <4>7. Len(window'[t]) = 1 \/ Len(window'[t]) = 0
        BY <4>0, <4>5, <4>6, Zenon
      <4>. QED  BY <1>0, <4>7, Zenon
    <3>2. CASE PPSTop(s)
      <4>. DEFINE w == IF resetReq[s] THEN <<>> ELSE window[s]
      <4>1. window' = [window EXCEPT ![s] = w]
        BY <3>2, Zenon DEF PPSTop
      <4>2. resetReq[s]
        BY <2>0, <3>0, <4>1
      <4>3. window'[t] = <<>>
        BY <2>0, <3>0, <4>1, <4>2
      <4>. QED  BY <4>3
    <3>3. CASE ~Accept(s) /\ ~PPSTop(s)
      <4>1. window' = window \/ window' = [window EXCEPT ![s] = <<>>]
        BY <2>3, <3>3, Zenon DEF PPSNext, PPSReadEpoch, Fetch, PPSRecheck, PPSEmptyReport, PPSEmit, PPSReopen
      <4>2. window'[t] = <<>>
        BY <2>0, <3>0, <4>1
      <4>. QED  BY <4>2
    <3>. QED  BY <3>1, <3>2, <3>3
  <2>4. CASE EngineNext \/ KernelLeap
    BY <2>4, Zenon DEF EngineNext, KernelLeap, Receive, Tick, Request, CrossLeap, LeapClose, Discard, Admit,
       TickUpdate, RequestLeap, Publish, StepBegin, ClockStep, StepFinish, StepFailed, ResetDone, LeapReset,
       ResetFilter, engFrame, srcVars
  <2>5. CASE UNCHANGED vars
    BY <2>5 DEF vars, srcVars
  <2>. QED  BY <1>1, <2>2, <2>3, <2>4, <2>5 DEF Next, Running, Halted
<1>2. ASSUME NMEAs = {} PROVE Spec => [][\A s \in Source : Kept(s)]_vars
  <2>1. TypeOK /\ [Next]_vars => [\A s \in Source : Kept(s)]_vars
    BY <1>1, <1>2
  <2>. QED  BY <2>1, TypeCorrect, PTL DEF Spec
<1>. QED  BY <1>2 DEF ResetBeforeNextSample

-----------------------------------------------------------------------------
(* The offset of an NTP source, where the clock is never stepped. *)

(***************************************************************************)
(* A valid message of the settled epoch was computed from samples of it.   *)
(* A leap is bracketed with the resets inside, so a filter cannot hold a   *)
(* sample of the other side it could still report once the epoch settles;  *)
(* the bracket of a step closes before its resets.                         *)
(***************************************************************************)
Pure(m) == Settled /\ m.valid /\ m.gen = gen => m.rest \subseteq {world}

OffsetInv ==
    /\ verdict # "step" /\ eng \notin {"step", "stepped", "failed", "reset"}
    /\ \A s \in Source : Pure(out[s])
    /\ Pure(hand)
    /\ \A i \in 1..Len(queue) : Pure(queue[i])
    /\ OffsetInEpoch

(* hit reports nothing the filter held from before the discontinuity. *)
LEMMA HitIsPure ==
    ASSUME EpochInv, FilterInv, OffsetInv, NEW s \in NTPs, Hit(s)
    PROVE  Pure(out[s])'
<1>0. s \in Source /\ WindowInv(s)
  BY DEF Source, FilterInv
<1>1. /\ out \in [Source -> Measurement] /\ resetReq \in [Source -> BOOLEAN]
      /\ window[s] \in Seq(Nat) /\ used[s] \in Nat /\ obs[s] \in Nat
      /\ SourceInv(s) /\ Pure(out[s]) /\ eng \notin {"step", "stepped", "failed", "reset"}
  BY <1>0 DEF EpochInv, TypeOK, OffsetInv
<1>2. pc[s] = "hit" /\ UNCHANGED <<gen, world, leapDue>>
  BY Zenon DEF Hit, ntpFrame, clockVars
<1>. DEFINE cleared(b) == resetReq[s] \/ b
            held(b) == IF cleared(b) THEN <<>> ELSE window[s]
            done(b) == IF cleared(b) THEN 0 ELSE Reported(window[s], used[s])
            w(b) == Shift(held(b), obs[s])
<1>3. \/ out' = out
      \/ \E b \in BOOLEAN : \E best \in 1..Len(w(b)) :
           best > done(b) /\ out' = [out EXCEPT ![s] = Valid(s, seen[s], FALSE, obs[s], {w(b)[best]})]
  BY Zenon DEF Hit
<1>4. CASE out' = out
  BY <1>1, <1>2, <1>4, Zenon DEF Pure, Settled
<1>5. ASSUME NEW b \in BOOLEAN, NEW best \in 1..Len(w(b)), best > done(b),
             out' = [out EXCEPT ![s] = Valid(s, seen[s], FALSE, obs[s], {w(b)[best]})]
      PROVE  Pure(out[s])'
  <2>. DEFINE x == w(b)[best]
  <2>1. out'[s].gen = seen[s] /\ out'[s].rest = {x}
    <3>. HIDE DEF x
    <3>1. out'[s] = Valid(s, seen[s], FALSE, obs[s], {x})
      BY <1>0, <1>1, <1>5 DEF x
    <3>. QED  BY <3>1 DEF Valid
  <2>2. ASSUME Settled, seen[s] = gen PROVE x = world
    <3>1. obs[s] = world
      BY <1>1, <1>2, <2>2 DEF SourceInv
    <3>2. CASE cleared(b)
      <4>1. w(b) = Shift(<<>>, obs[s])
        BY <3>2
      <4>2. Len(Shift(<<>>, obs[s])) = 1 /\ Shift(<<>>, obs[s])[1] = obs[s]
        BY <1>1, ShiftFirst
      <4>3. Len(w(b)) = 1 /\ w(b)[1] = obs[s]
        BY <4>1, <4>2, Zenon
      <4>. HIDE DEF w, x
      <4>4. best \in 1..1
        BY <1>5, <4>3, Zenon
      <4>5. best = 1
        BY <4>4
      <4>. QED  BY <3>1, <4>3, <4>5, Zenon DEF x
    <3>3. CASE ~cleared(b)
      <4>1. ~resetReq[s] /\ w(b) = Shift(window[s], obs[s]) /\ done(b) = Reported(window[s], used[s])
        BY <3>3
      <4>2. Quiet /\ ~Awaits(s)
        BY <1>1, <2>2, <4>1 DEF EpochInv, BracketIsOdd, InBracket, Settled, Quiet, Awaits
      <4>3. Unreported(s)
        BY <1>0, <4>2, Zenon DEF WindowInv
      <4>. HIDE DEF w, done, x
      <4>4. IsShift(window[s], world, w(b))
        BY <1>1, <3>1, <4>1, ShiftAt
      <4>5. \A k \in 1..Len(window[s]) : k > used[s] => window[s][k] = world
        BY <4>3 DEF Unreported
      <4>6. best > Reported(window[s], used[s])
        BY <1>5, <4>1
      <4>. DEFINE v == w(b)
      <4>7. IsShift(window[s], world, v) /\ best \in 1..Len(v)
        BY <1>5, <4>4
      <4>. HIDE DEF v
      <4>8. window[s] \in Seq(Nat) /\ used[s] \in Nat
        BY <1>1
      <4>9. v[best] = world
        BY <4>5, <4>6, <4>7, <4>8, UnreportedShift
      <4>. QED  BY <4>9 DEF x, v
    <3>. QED  BY <3>2, <3>3
  <2>. HIDE DEF x
  <2>. QED  BY <1>2, <2>1, <2>2 DEF Pure, Settled
<1>. QED  BY <1>3, <1>4, <1>5

(* A message stays pure when the epoch does not change, when it is         *)
(* unsettled, and when it becomes one the message does not carry.          *)
LEMMA PureKept ==
    ASSUME EpochInv, TypeOK', NEW m \in Measurement, MessageInv(m), Pure(m),
           \/ UNCHANGED <<gen, world, leapDue>>
           \/ ~Settled'
           \/ gen' > gen
    PROVE  Pure(m)'
<1>1. gen \in Nat /\ gen' \in Nat /\ m.gen \in Nat /\ m.gen <= gen
  BY DEF EpochInv, TypeOK, Measurement, MessageInv
<1>2. CASE UNCHANGED <<gen, world, leapDue>>
  BY <1>2, Zenon DEF Pure, Settled
<1>3. CASE ~Settled'
  BY <1>3, Zenon DEF Pure
<1>4. CASE gen' > gen
  <2>1. m.gen # gen'
    BY <1>1, <1>4
  <2>. QED  BY <2>1, Zenon DEF Pure
<1>. QED  BY <1>2, <1>3, <1>4

(* An NTP source's step keeps every message pure. *)
LEMMA NTPOffset ==
    ASSUME EpochInv, FilterInv, OffsetInv, NEW s \in NTPs, NTPNext(s)
    PROVE  OffsetInv'
<1>0. s \in Source /\ TypeOK /\ OwnStep(s)
  BY NTPOwnStep DEF Source, EpochInv
<1>1. TypeOK' /\ UNCHANGED <<gen, world, leapDue, eng, verdict, hand, est>>
  BY <1>0, OwnStepType, Zenon DEF OwnStep, clockVars, engVars
<1>2. \A m : Pure(m) => Pure(m)'
  BY <1>1, Zenon DEF Pure, Settled
<1>3. Pure(out[s])'
  <2>1. CASE Hit(s)
    BY <2>1, HitIsPure
  <2>2. CASE ~Hit(s)
    <3>1. out' = out \/ \E g : out' = [out EXCEPT ![s] = Empty(s, g, FALSE)]
      BY <2>2, Zenon DEF NTPNext, PollBegin, SendRequest, Reply, Recheck, EmptyReport, Emit, Send
    <3>2. CASE out' = out
      BY <1>0, <1>1, <3>2, Zenon DEF OffsetInv, Pure, Settled
    <3>3. ASSUME NEW g, out' = [out EXCEPT ![s] = Empty(s, g, FALSE)] PROVE Pure(out[s])'
      <4>1. out'[s] = Empty(s, g, FALSE)
        BY <1>0, <3>3 DEF TypeOK
      <4>2. ~out'[s].valid
        BY <4>1 DEF Empty
      <4>. QED  BY <4>2, Zenon DEF Pure
    <3>. QED  BY <3>1, <3>2, <3>3
  <2>. QED  BY <2>1, <2>2
<1>4. ASSUME NEW t \in Source PROVE Pure(out[t])'
  <2>1. CASE t # s
    <3>1. out'[t] = out[t]
      <4>1. out' = out \/ \E v \in Measurement : out' = [out EXCEPT ![s] = v]
        BY <1>0, Zenon DEF OwnStep, Touch
      <4>. QED  BY <1>0, <2>1, <4>1 DEF TypeOK
    <3>. QED  BY <1>1, <3>1, Zenon DEF OffsetInv, Pure, Settled
  <2>. QED  BY <1>3, <2>1, Zenon
<1>5. ASSUME NEW i \in 1..Len(queue') PROVE Pure(queue[i])'
  <2>1. CASE queue' = queue
    BY <1>1, <2>1, Zenon DEF OffsetInv, Pure, Settled
  <2>2. CASE Send(s)
    <3>0. queue \in Seq(Measurement) /\ out[s] \in Measurement /\ queue' = Append(queue, out[s])
      BY <1>0, <2>2 DEF Send, TypeOK
    <3>1. \/ i = Len(queue) + 1 /\ queue'[i] = out[s]
          \/ i \in 1..Len(queue) /\ queue'[i] = queue[i]
      BY <3>0
    <3>. QED  BY <1>0, <1>1, <3>1, Zenon DEF OffsetInv, Pure, Settled
  <2>. QED  BY <1>0, <2>1, <2>2 DEF OwnStep
<1>6. Pure(hand)' /\ OffsetInEpoch'
  BY <1>1, Zenon DEF OffsetInv, Pure, Settled, OffsetInEpoch
<1>. QED  BY <1>1, <1>4, <1>5, <1>6, Zenon DEF OffsetInv

(* The engine admits only pure messages, and keeps the others so. *)
LEMMA EngineOffset ==
    ASSUME EpochInv, ~StepEnabled, OffsetInv, EngineNext \/ KernelLeap
    PROVE  OffsetInv'
<1>0. TypeOK /\ TypeOK' /\ EpochInv'
  BY EngineInv DEF EpochInv
<1>1. /\ gen \in Nat /\ hand \in Measurement /\ queue \in Seq(Measurement)
      /\ out \in [Source -> Measurement]
      /\ MessageInv(hand) /\ (\A s \in Source : MessageInv(out[s]))
      /\ \A i \in 1..Len(queue) : MessageInv(queue[i])
  BY <1>0 DEF TypeOK, EpochInv, SourceInv
<1>2. /\ verdict # "step" /\ eng \notin {"step", "stepped", "failed", "reset"}
      /\ Pure(hand) /\ OffsetInEpoch /\ (\A s \in Source : Pure(out[s]))
      /\ \A i \in 1..Len(queue) : Pure(queue[i])
  BY DEF OffsetInv
<1>3. ASSUME NEW m, ~m.valid PROVE Pure(m)'
  BY <1>3, Zenon DEF Pure
<1>4. ASSUME verdict' # "step", eng' \notin {"step", "stepped", "failed", "reset"},
             out' = out, OffsetInEpoch',
             \/ UNCHANGED <<gen, world, leapDue>>
             \/ ~Settled'
             \/ gen' > gen,
             hand' = hand \/ ~hand'.valid \/ (queue # <<>> /\ hand' = Head(queue)),
             queue' = queue \/ (queue # <<>> /\ queue' = Tail(queue))
      PROVE  OffsetInv'
  <2>1. ASSUME NEW m \in Measurement, MessageInv(m), Pure(m) PROVE Pure(m)'
    BY <1>0, <1>4, <2>1, PureKept
  <2>2. ASSUME NEW s \in Source PROVE Pure(out[s])'
    <3>1. out[s] \in Measurement /\ out'[s] = out[s]
      BY <1>1, <1>4
    <3>. QED  BY <1>1, <1>2, <2>1, <3>1, Zenon DEF Pure
  <2>3. ASSUME NEW i \in 1..Len(queue) PROVE queue[i] \in Measurement /\ Pure(queue[i]) /\ MessageInv(queue[i])
    BY <1>1, <1>2
  <2>4. queue # <<>> => /\ Head(queue) = queue[1] /\ 1 \in 1..Len(queue)
                        /\ \A i \in 1..Len(Tail(queue)) : i + 1 \in 1..Len(queue)
                                                          /\ Tail(queue)[i] = queue[i + 1]
    BY <1>1
  <2>5. Pure(hand)'
    <3>1. CASE hand' = hand
      BY <1>1, <1>2, <2>1, <3>1, Zenon DEF Pure
    <3>2. CASE ~hand'.valid
      BY <3>2, Zenon DEF Pure
    <3>3. CASE queue # <<>> /\ hand' = Head(queue)
      <4>1. hand' \in Measurement /\ Pure(Head(queue)) /\ MessageInv(Head(queue))
        BY <2>3, <2>4, <3>3, Zenon
      <4>. QED  BY <2>1, <3>3, <4>1, Zenon DEF Pure
    <3>. QED  BY <1>4, <3>1, <3>2, <3>3
  <2>6. ASSUME NEW i \in 1..Len(queue') PROVE Pure(queue[i])'
    <3>1. \E j \in 1..Len(queue) : queue'[i] = queue[j]
      BY <1>4, <2>4
    <3>2. PICK j \in 1..Len(queue) : queue'[i] = queue[j]
      BY <3>1
    <3>. QED  BY <2>1, <2>3, <3>2, Zenon DEF Pure
  <2>. QED  BY <1>4, <2>2, <2>5, <2>6, Zenon DEF OffsetInv
<1>5. ASSUME OffsetInEpoch, est' = est, UNCHANGED <<gen, world, leapDue>> \/ ~Settled'
      PROVE  OffsetInEpoch'
  BY <1>5, Zenon DEF OffsetInEpoch, Settled
<1>6. ASSUME NEW e, Decide(e), UNCHANGED <<gen, world, leapDue>>,
             Settled => \A s \in Source : e[s].valid => e[s].rest \subseteq {world}
      PROVE  verdict' # "step" /\ OffsetInEpoch'
  <2>1. est' = e /\ verdict' \in {"none", "panic"}
    BY <1>6 DEF Decide
  <2>. QED  BY <1>6, <2>1, Zenon DEF OffsetInEpoch, Settled
<1>7. CASE KernelLeap
  <2>1. ~Settled' /\ UNCHANGED <<verdict, eng, out, hand, queue, est>>
    BY <1>7 DEF KernelLeap, Settled, engVars, engFrame, srcVars
  <2>. QED  BY <1>2, <1>4, <1>5, <2>1
<1>8. CASE Receive
  <2>1. /\ UNCHANGED <<verdict, out, gen, world, leapDue, est>>
        /\ eng' = "stale" /\ queue # <<>> /\ hand' = Head(queue) /\ queue' = Tail(queue)
    BY <1>8, Zenon DEF Receive, clockVars, srcVars
  <2>. QED  BY <1>2, <1>4, <1>5, <2>1
<1>9. CASE Tick
  <2>1. UNCHANGED <<verdict, out, gen, world, leapDue, est, hand, queue>> /\ eng' = "tick"
    BY <1>9, Zenon DEF Tick, clockVars, engFrame, srcVars
  <2>. QED  BY <1>2, <1>4, <1>5, <2>1
<1>a. CASE Request \/ RequestLeap
  <2>1. /\ UNCHANGED <<verdict, out, gen, world, leapDue, est, hand, queue>>
        /\ eng' \in {"request", "idle", "handle"}
    BY <1>a DEF Request, RequestLeap, clockVars, engFrame, srcVars
  <2>. QED  BY <1>2, <1>4, <1>5, <2>1
<1>10. CASE CrossLeap
  <2>1. UNCHANGED <<verdict, out, est, hand, queue>> /\ eng' = "leap"
    BY <1>10, Zenon DEF CrossLeap, engFrame, srcVars
  <2>2. ~Settled'
    BY <1>0, <2>1 DEF EpochInv, BracketIsOdd, InBracket, Settled
  <2>. QED  BY <1>2, <1>4, <1>5, <2>1, <2>2
<1>11. CASE LeapClose
  <2>1. /\ UNCHANGED <<verdict, out, hand, queue>> /\ eng' = ret /\ gen' = gen + 1
        /\ est' = [s \in Source |-> NoEstimate]
    BY <1>11, Zenon DEF LeapClose, engFrame, srcVars
  <2>2. eng' \notin {"step", "stepped", "failed", "reset"} /\ gen' > gen
    BY <1>0, <1>1, <2>1 DEF TypeOK
  <2>3. OffsetInEpoch'
    BY <2>1 DEF OffsetInEpoch, NoEstimate
  <2>. QED  BY <1>2, <1>4, <2>1, <2>2, <2>3
<1>12. ASSUME hand' = Empty(hand.src, 0, FALSE) PROVE ~hand'.valid
  BY <1>12 DEF Empty
<1>13. CASE Discard
  <2>1. /\ UNCHANGED <<verdict, out, gen, world, leapDue, est, queue>> /\ eng' = "idle"
        /\ hand' = Empty(hand.src, 0, FALSE)
    BY <1>13, Zenon DEF Discard, clockVars, engFrame, srcVars
  <2>. QED  BY <1>2, <1>4, <1>5, <1>12, <2>1
<1>14. CASE Admit
  <2>1. /\ UNCHANGED <<out, gen, world, leapDue, queue>> /\ eng' = "handle"
        /\ hand' = Empty(hand.src, 0, FALSE) /\ hand.gen = gen /\ Decide(Apply(hand))
    BY <1>14, Zenon DEF Admit, Stale, clockVars, engFrame, srcVars
  <2>2. ASSUME Settled, NEW s \in Source, Apply(hand)[s].valid
        PROVE  Apply(hand)[s].rest \subseteq {world}
    <3>1. est \in [Source -> [valid : BOOLEAN, obs : Nat, rest : SUBSET Nat]] /\ hand.src \in Source
      BY <1>0, <1>1 DEF TypeOK, Measurement
    <3>2. CASE s # hand.src
      BY <1>2, <2>2, <3>1, <3>2 DEF Apply, OffsetInEpoch
    <3>3. CASE s = hand.src
      <4>. DEFINE a == [valid |-> TRUE, obs |-> hand.obs, rest |-> hand.rest]
      <4>1. \/ hand.valid /\ Apply(hand)[s] = a
            \/ Apply(hand)[s] = NoEstimate
            \/ Apply(hand)[s] = est[s]
        <5>. HIDE DEF a
        <5>. QED  BY <3>1, <3>3, Zenon DEF Apply, a
      <4>2. ASSUME hand.valid, Apply(hand)[s] = a PROVE Apply(hand)[s].rest \subseteq {world}
        <5>1. a.rest = hand.rest
          OBVIOUS
        <5>2. hand.rest \subseteq {world}
          BY <1>2, <2>1, <2>2, <4>2, Zenon DEF Pure
        <5>. HIDE DEF a
        <5>. QED  BY <4>2, <5>1, <5>2, Zenon
      <4>3. ASSUME Apply(hand)[s] = NoEstimate PROVE FALSE
        BY <2>2, <4>3 DEF NoEstimate
      <4>4. ASSUME Apply(hand)[s] = est[s] PROVE Apply(hand)[s].rest \subseteq {world}
        BY <1>2, <2>2, <4>4, Zenon DEF OffsetInEpoch
      <4>. QED  BY <4>1, <4>2, <4>3, <4>4
    <3>. QED  BY <3>2, <3>3
  <2>3. verdict' # "step" /\ OffsetInEpoch'
    BY <1>6, <2>1, <2>2
  <2>. QED  BY <1>4, <1>12, <2>1, <2>3
<1>15. CASE TickUpdate
  <2>1. UNCHANGED <<out, gen, world, leapDue, queue, hand>> /\ eng' = "handle" /\ Decide(est)
    BY <1>15, Zenon DEF TickUpdate, clockVars, engFrame, srcVars
  <2>2. verdict' # "step" /\ OffsetInEpoch'
    BY <1>2, <1>6, <2>1 DEF OffsetInEpoch
  <2>. QED  BY <1>4, <2>1, <2>2
<1>16. CASE Publish
  <2>1. /\ UNCHANGED <<out, gen, world, leapDue, queue, hand, est>>
        /\ verdict' = "none" /\ eng' \in {"idle", "halted"}
    BY <1>16 DEF Publish, engFrame, srcVars
  <2>. QED  BY <1>2, <1>4, <1>5, <2>1
<1>17. CASE \E s \in Source : LeapReset(s)
  <2>1. UNCHANGED <<out, gen, world, leapDue, queue, hand, est, verdict, eng>>
    BY <1>17, Zenon DEF LeapReset, clockVars, engFrame, srcVars
  <2>. QED  BY <1>2, <1>4, <1>5, <2>1
<1>18. ~(StepBegin \/ ClockStep \/ StepFinish \/ StepFailed \/ ResetDone
         \/ \E s \in Source : ResetFilter(s))
  BY <1>2 DEF StepBegin, ClockStep, StepFinish, StepFailed, ResetDone, ResetFilter
<1>. QED
  BY <1>7, <1>8, <1>9, <1>10, <1>11, <1>13, <1>14, <1>15, <1>16, <1>17, <1>18, <1>a, Zenon
     DEF EngineNext

(* In a configuration of servers alone whose [step] limit is 0, every      *)
(* sample an estimate's offset was computed from, the ones the clock       *)
(* filter held included, was taken in the settled epoch.  (A pulse window  *)
(* may keep one stray, and a step closes its bracket before its resets.)   *)
THEOREM OffsetsAreClean ==
    PPSs = {} /\ NMEAs = {} /\ ~StepEnabled => (Spec => []OffsetInEpoch)
<1>1. Init => OffsetInv
  <2>. SUFFICES ASSUME Init PROVE OffsetInv
    OBVIOUS
  <2>1. \A s \in Source : ~Empty(s, 0, FALSE).valid
    BY DEF Empty
  <2>2. (\A s \in Source : ~out[s].valid) /\ ~hand.valid
    <3>1. \A s \in Source : out[s] = Empty(s, 0, FALSE)
      BY DEF Init
    <3>2. \E s \in Source : hand = Empty(s, 0, FALSE)
      BY DEF Init
    <3>. QED  BY <2>1, <3>1, <3>2, Zenon
  <2>3. \A s \in Source : ~est[s].valid
    BY DEF Init, NoEstimate
  <2>4. Len(queue) = 0 /\ verdict # "step" /\ eng \notin {"step", "stepped", "failed", "reset"}
    BY DEF Init
  <2>5. (\A s \in Source : Pure(out[s])) /\ Pure(hand) /\ OffsetInEpoch
    BY <2>2, <2>3, Zenon DEF Pure, OffsetInEpoch
  <2>6. \A i \in 1..Len(queue) : Pure(queue[i])
    BY <2>4
  <2>. QED  BY <2>4, <2>5, <2>6, Zenon DEF OffsetInv
<1>2. ASSUME PPSs = {}, NMEAs = {}, ~StepEnabled, EpochInv, FilterInv, OffsetInv, [Next]_vars
      PROVE  OffsetInv'
  <2>1. CASE UNCHANGED vars
    BY <1>2, <2>1, Zenon DEF OffsetInv, OffsetInEpoch, Pure, Settled, vars, clockVars, engVars, srcVars
  <2>2. CASE EngineNext \/ KernelLeap
    BY <1>2, <2>2, EngineOffset
  <2>3. ASSUME NEW s \in NTPs, NTPNext(s) PROVE OffsetInv'
    BY <1>2, <2>3, NTPOffset
  <2>. QED  BY <1>2, <2>1, <2>2, <2>3 DEF Next, Running, Halted
<1>3. OffsetInv => OffsetInEpoch
  BY DEF OffsetInv
<1>4. ASSUME PPSs = {}, NMEAs = {}, ~StepEnabled PROVE Spec => []OffsetInEpoch
  <2>1. EpochInv /\ FilterInv /\ OffsetInv /\ [Next]_vars => OffsetInv'
    BY <1>2, <1>4
  <2>. QED  BY <1>1, <1>3, <2>1, FilterInvariant, PTL DEF Spec
<1>. QED  BY <1>4

=============================================================================
