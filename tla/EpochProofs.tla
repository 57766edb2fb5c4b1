----------------------------- MODULE EpochProofs -----------------------------
(***************************************************************************)
(* Type correctness of the clock-epoch protocol, and the proof that no     *)
(* measurement acquired on the other side of a discontinuity reaches the   *)
(* discipline (AcquiredInEpoch), for any number of sources of each kind,   *)
(* any channel capacity and any number of steps and leaps.                 *)
(***************************************************************************)
EXTENDS Epoch, TLAPS

-----------------------------------------------------------------------------
(* The inductive invariant. *)

(* The places where the engine holds a bracket open, and the only ones. *)
InBracket == eng \in {"leap", "step", "stepped", "failed"}
BracketIsOdd == gen # 0 /\ (InBracket <=> ~StableEpoch(gen))

(* A step is asked for together with the invalidation of every estimate,   *)
(* and none is admitted before its bracket has closed.                     *)
StepDropsEstimates ==
    verdict = "step" \/ eng \in {"step", "stepped", "failed"} =>
        \A s \in Source : ~est[s].valid

(* Nobody holds an epoch the engine has not published yet, so the epoch a  *)
(* closing bracket publishes is one that no sample or message carries; and *)
(* whatever carries the current settled epoch was observed in it, wherever *)
(* it is on its way from a clock reading to the selector.                  *)
MessageInv(m) ==
    /\ m.gen <= gen
    /\ Settled /\ m.valid /\ m.gen = gen => m.obs = world
SourceInv(s) ==
    /\ seen[s] <= gen /\ lineGen[s] <= gen
    /\ Settled /\ seen[s] = gen /\ pc[s] \in {"sent", "replied", "hit"} => obs[s] = world
    /\ Settled /\ lineGen[s] = gen => lineObs[s] = world
    /\ MessageInv(out[s])

EpochInv ==
    /\ TypeOK
    /\ BracketIsOdd
    /\ StepDropsEstimates
    /\ \A s \in Source : SourceInv(s)
    /\ MessageInv(hand)
    /\ \A i \in 1..Len(queue) : MessageInv(queue[i])
    /\ AcquiredInEpoch

-----------------------------------------------------------------------------
(* What the helpers build. *)

(* An empty and a valid report are both well-formed measurements. *)
LEMMA ReportType ==
    ASSUME NEW s \in Source, NEW g \in Nat, NEW inv \in BOOLEAN,
           NEW o \in Nat, NEW r \in SUBSET Nat
    PROVE  /\ Empty(s, g, inv) \in Measurement
           /\ [Empty(s, g, inv) EXCEPT !.obs = o] \in Measurement
           /\ Valid(s, g, inv, o, r) \in Measurement
BY DEF Empty, Valid, Measurement, Torn

(* Shifting a sample into a register leaves a register of samples. *)
LEMMA ShiftType ==
    ASSUME NEW w \in Seq(Nat), NEW x \in Nat
    PROVE  /\ Shift(w, x) \in Seq(Nat)
           /\ {Shift(w, x)[i] : i \in 1..Len(Shift(w, x))} \in SUBSET Nat
           /\ \A i \in 1..Len(Shift(w, x)) : {Shift(w, x)[i]} \in SUBSET Nat
<1>1. Shift(w, x) \in Seq(Nat)
  <2>1. CASE Len(w) < Stages
    BY <2>1 DEF Shift
  <2>2. CASE ~(Len(w) < Stages)
    <3>1. w # <<>>
      BY <2>2, EpochConstants
    <3>2. Tail(w) \in Seq(Nat)
      BY <3>1
    <3> QED BY <2>2, <3>2 DEF Shift
  <2> QED BY <2>1, <2>2
<1>2. \A i \in 1..Len(Shift(w, x)) : Shift(w, x)[i] \in Nat
  BY <1>1
<1> QED BY <1>1, <1>2

(* The engine's steps keep the state well-formed. *)
LEMMA EngineType ==
    ASSUME TypeOK, EngineNext \/ KernelLeap
    PROVE  TypeOK'
<1> USE DEF TypeOK, EngPlaces, engVars, srcVars, clockVars, engFrame
<1>0. Torn \in Nat /\ NoEstimate \in [valid : BOOLEAN, obs : Nat, rest : SUBSET Nat]
  BY DEF Torn, NoEstimate
<1>1. CASE KernelLeap
  BY <1>1 DEF KernelLeap
<1>2. CASE Receive
  <2>1. /\ Head(queue) \in Measurement
        /\ Tail(queue) \in Seq(Measurement)
        /\ Len(Tail(queue)) <= QueueCap
    BY <1>2, EpochConstants DEF Receive
  <2> QED BY <1>2, <2>1 DEF Receive
<1>3. CASE Tick
  BY <1>3 DEF Tick
<1>a. CASE Request
  BY <1>a DEF Request
<1>b. CASE RequestLeap
  <2>1. armed' \in BOOLEAN
    BY <1>b, Zenon DEF RequestLeap
  <2> QED BY <1>b, <2>1 DEF RequestLeap
<1>4. CASE CrossLeap
  <2>1. ret' \in {"stale", "tick", "request", "handle"} /\ todo' \in SUBSET Source
    BY <1>4 DEF CrossLeap
  <2>2. armed' \in BOOLEAN /\ leapDue' \in BOOLEAN
    BY <1>4, Zenon DEF CrossLeap
  <2>3. /\ gen' \in Nat
        /\ eng' \in EngPlaces
        /\ UNCHANGED <<world, hand, verdict, est, engFrame, resetReq>>
    BY <1>4 DEF CrossLeap
  <2> QED BY <2>1, <2>2, <2>3
<1>5. CASE LeapClose
  BY <1>5, <1>0 DEF LeapClose
<1>6. ASSUME NEW e \in [Source -> [valid : BOOLEAN, obs : Nat, rest : SUBSET Nat]],
             Decide(e)
      PROVE  /\ verdict' \in {"none", "step", "panic"}
             /\ est' \in [Source -> [valid : BOOLEAN, obs : Nat, rest : SUBSET Nat]]
  BY <1>6, <1>0 DEF Decide
<1>7. hand.src \in Source /\ Empty(hand.src, 0, FALSE) \in Measurement
  BY ReportType DEF Measurement, Empty, Torn
<1>8. CASE Discard
  BY <1>8, <1>7, Zenon DEF Discard
<1>9. CASE Admit
  <2>1. Apply(hand) \in [Source -> [valid : BOOLEAN, obs : Nat, rest : SUBSET Nat]]
    BY <1>0 DEF Apply, Measurement
  <2>2. /\ verdict' \in {"none", "step", "panic"}
        /\ est' \in [Source -> [valid : BOOLEAN, obs : Nat, rest : SUBSET Nat]]
    BY <2>1, <1>6, <1>9 DEF Admit
  <2> QED BY <1>9, <1>7, <2>2, Zenon DEF Admit
<1>10. CASE TickUpdate
  <2>1. /\ verdict' \in {"none", "step", "panic"}
        /\ est' \in [Source -> [valid : BOOLEAN, obs : Nat, rest : SUBSET Nat]]
    BY <1>6, <1>10 DEF TickUpdate
  <2> QED BY <1>10, <2>1 DEF TickUpdate
<1>11. CASE Publish
  BY <1>11 DEF Publish
<1>12. CASE StepBegin
  BY <1>12 DEF StepBegin
<1>13. CASE ClockStep
  BY <1>13 DEF ClockStep
<1>14. CASE StepFinish
  <2>1. todo' \in SUBSET Source
    BY <1>14 DEF StepFinish
  <2>2. armed' \in BOOLEAN /\ leapDue' \in BOOLEAN
    BY <1>14, Zenon DEF StepFinish
  <2>3. /\ gen' \in Nat
        /\ eng' \in EngPlaces
        /\ UNCHANGED <<world, ret, hand, verdict, est, engFrame, resetReq>>
    BY <1>14 DEF StepFinish
  <2> QED BY <2>1, <2>2, <2>3
<1>15. CASE StepFailed
  BY <1>15 DEF StepFailed
<1>16. CASE ResetDone
  BY <1>16, Zenon DEF ResetDone
<1>17. ASSUME NEW s \in Source, LeapReset(s) \/ ResetFilter(s)
       PROVE  TypeOK'
  BY <1>17, Zenon DEF LeapReset, ResetFilter
<1> QED
  BY <1>1, <1>2, <1>3, <1>4, <1>5, <1>8, <1>9, <1>10, <1>11, <1>12, <1>13, <1>14,
     <1>15, <1>16, <1>17, <1>a, <1>b, Zenon DEF EngineNext

(* A blocking send leaves the channel within its capacity. *)
LEMMA SendType ==
    ASSUME TypeOK, NEW s \in Source, Send(s)
    PROVE  /\ queue' \in Seq(Measurement) /\ Len(queue') <= QueueCap
           /\ out' \in [Source -> Measurement]
<1>1. Empty(s, 0, FALSE) \in Measurement
  BY ReportType DEF Measurement, Empty, Torn
<1>2. out[s] \in Measurement
  BY DEF TypeOK
<1>3. queue' \in Seq(Measurement) /\ Len(queue') <= QueueCap
  BY <1>2, EpochConstants DEF TypeOK, Send
<1>4. out' \in [Source -> Measurement]
  BY <1>1, Zenon DEF TypeOK, Send
<1> QED BY <1>3, <1>4

(* f becomes g by a change at a, if at all, to a value in B. *)
Touch(f, g, a, B) == g = f \/ \E v \in B : g = [f EXCEPT ![a] = v]

(* Such a change keeps the function's type. *)
LEMMA Touched ==
    ASSUME NEW A, NEW B, NEW f \in [A -> B], NEW a \in A, NEW g, Touch(f, g, a, B)
    PROVE  g \in [A -> B]
<1>1. CASE g = f
  BY <1>1
<1>2. ASSUME NEW v \in B, g = [f EXCEPT ![a] = v]
      PROVE  g \in [A -> B]
  BY <1>2
<1> QED BY <1>1, <1>2 DEF Touch

(* What every step of a source's goroutine does: it touches its own state, *)
(* the channel and its own reset flag, and nothing else.                   *)
OwnStep(s) ==
    /\ UNCHANGED <<clockVars, engVars>>
    /\ Touch(pc, pc', s, SrcPlaces)
    /\ Touch(seen, seen', s, Nat)
    /\ Touch(obs, obs', s, Nat)
    /\ Touch(out, out', s, Measurement)
    /\ Touch(window, window', s, Seq(Nat))
    /\ Touch(used, used', s, Nat)
    /\ Touch(inval, inval', s, BOOLEAN)
    /\ Touch(resetReq, resetReq', s, BOOLEAN)
    /\ Touch(lineGen, lineGen', s, Nat)
    /\ Touch(lineObs, lineObs', s, Nat)
    /\ queue' = queue \/ Send(s)

(* Such a step keeps the state well-formed. *)
LEMMA OwnStepType ==
    ASSUME TypeOK, NEW s \in Source, OwnStep(s)
    PROVE  TypeOK'
<1>1. queue' \in Seq(Measurement) /\ Len(queue') <= QueueCap
  BY SendType DEF OwnStep, TypeOK
<1>2. /\ pc' \in [Source -> SrcPlaces]
      /\ seen' \in [Source -> Nat] /\ obs' \in [Source -> Nat]
      /\ out' \in [Source -> Measurement]
  BY Touched, Zenon DEF OwnStep, TypeOK
<1>3. /\ window' \in [Source -> Seq(Nat)] /\ used' \in [Source -> Nat]
      /\ resetReq' \in [Source -> BOOLEAN] /\ inval' \in [Source -> BOOLEAN]
      /\ lineGen' \in [Source -> Nat] /\ lineObs' \in [Source -> Nat]
  BY Touched DEF OwnStep, TypeOK
<1>4. UNCHANGED <<clockVars, engVars>>
  BY DEF OwnStep
<1> QED BY <1>1, <1>2, <1>3, <1>4, Zenon DEF TypeOK, clockVars, engVars

(* Every step of an NTP source is one. *)
LEMMA NTPOwnStep ==
    ASSUME TypeOK, NEW s \in NTPs, NTPNext(s)
    PROVE  OwnStep(s)
<1>0. s \in Source /\ Torn \in Nat
  BY DEF Source, Torn
<1>a. /\ gen \in Nat /\ world \in Nat /\ seen[s] \in Nat /\ obs[s] \in Nat
      /\ window[s] \in Seq(Nat) /\ used[s] \in Nat
  BY <1>0 DEF TypeOK
<1>b. <<>> \in Seq(Nat) /\ 0 \in Nat
  OBVIOUS
<1> USE <1>0, <1>a DEF OwnStep, SrcPlaces, ntpFrame
<1>1. CASE PollBegin(s)
  <2>1. Touch(window, window', s, Seq(Nat)) /\ Touch(used, used', s, Nat)
    BY <1>1, <1>b, Zenon DEF PollBegin, Touch
  <2> QED BY <1>1, <2>1 DEF PollBegin, Touch
<1>2. CASE SendRequest(s)
  BY <1>2, Zenon DEF SendRequest, Touch
<1>3. CASE Reply(s)
  BY <1>3 DEF Reply, EndSample, Touch
<1>4. CASE Recheck(s)
  BY <1>4 DEF Recheck, EndSample, Touch
<1>5. CASE Hit(s)
  <2> DEFINE held(b) == IF resetReq[s] \/ b THEN <<>> ELSE window[s]
             done(b) == IF resetReq[s] \/ b THEN 0 ELSE Reported(window[s], used[s])
             w(b) == Shift(held(b), obs[s])
             report(b, best) == Valid(s, seen[s], FALSE, obs[s], {w(b)[best]})
  <2>1. \A b \in BOOLEAN : held(b) \in Seq(Nat) /\ done(b) \in Nat
    BY DEF Reported
  <2>2. \A b \in BOOLEAN : /\ w(b) \in Seq(Nat)
                           /\ \A i \in 1..Len(w(b)) : {w(b)[i]} \in SUBSET Nat
    <3> HIDE DEF held
    <3> QED BY <2>1, ShiftType, Zenon
  <2>3. \A b \in BOOLEAN : \A best \in 1..Len(w(b)) : report(b, best) \in Measurement
    <3> HIDE DEF w
    <3> QED BY <2>2, ReportType, Zenon
  <2>4. PICK b \in BOOLEAN :
          /\ window' = [window EXCEPT ![s] = w(b)]
          /\ \E best \in 1..Len(w(b)) :
               \/ /\ used' = [used EXCEPT ![s] = best]
                  /\ out' = [out EXCEPT ![s] = report(b, best)]
                  /\ pc' = [pc EXCEPT ![s] = "emit"]
               \/ /\ used' = [used EXCEPT ![s] = done(b)]
                  /\ pc' = [pc EXCEPT ![s] = "nil"]
                  /\ UNCHANGED out
    BY <1>5, Zenon DEF Hit
  <2> HIDE DEF w, done, report
  <2>5. Touch(window, window', s, Seq(Nat))
    BY <2>2, <2>4, Zenon DEF Touch
  <2>6. Touch(out, out', s, Measurement)
    BY <2>3, <2>4 DEF Touch
  <2>7. Touch(used, used', s, Nat)
    BY <2>1, <2>2, <2>4 DEF Touch
  <2>8. Touch(pc, pc', s, SrcPlaces)
    BY <2>4 DEF Touch
  <2> QED BY <1>5, <2>5, <2>6, <2>7, <2>8, Zenon DEF Hit, EndSample, Touch
<1>6. CASE EmptyReport(s)
  <2>1. Empty(s, gen, FALSE) \in Measurement
    BY DEF Measurement, Empty
  <2> QED BY <1>6, <2>1, Zenon DEF EmptyReport, Touch
<1>7. CASE Emit(s)
  <2>1. Empty(s, 0, FALSE) \in Measurement
    BY DEF Measurement, Empty
  <2> QED BY <1>7, <2>1, Zenon DEF Emit, Send, Touch
<1> QED
  BY <1>1, <1>2, <1>3, <1>4, <1>5, <1>6, <1>7, Zenon DEF NTPNext

(* Every step of a PPS source is one. *)
LEMMA PPSOwnStep ==
    ASSUME TypeOK, NEW s \in PPSs, PPSNext(s) \/ PPSReopen(s)
    PROVE  OwnStep(s)
<1>0. s \in Source /\ Torn \in Nat
  BY DEF Source, Torn
<1>a. /\ gen \in Nat /\ world \in Nat /\ seen[s] \in Nat /\ obs[s] \in Nat
      /\ window[s] \in Seq(Nat) /\ resetReq[s] \in BOOLEAN /\ inval[s] \in BOOLEAN
  BY <1>0 DEF TypeOK
<1>b. <<>> \in Seq(Nat)
  OBVIOUS
<1> USE <1>0, <1>a, <1>b DEF OwnStep, SrcPlaces, ppsFrame
<1>1. CASE PPSTop(s)
  <2>1. Touch(window, window', s, Seq(Nat))
    BY <1>1, Zenon DEF PPSTop, Touch
  <2>2. Touch(inval, inval', s, BOOLEAN)
    BY <1>1, Zenon DEF PPSTop, Touch
  <2> QED BY <1>1, <2>1, <2>2, Zenon DEF PPSTop, Touch
<1>2. CASE PPSReadEpoch(s)
  BY <1>2, Zenon DEF PPSReadEpoch, Touch
<1>3. CASE Fetch(s)
  <2>1. Touch(window, window', s, Seq(Nat)) /\ Touch(inval, inval', s, BOOLEAN)
    BY <1>3, Zenon DEF Fetch, Touch
  <2> QED BY <1>3, <2>1 DEF Fetch, EndSample, Touch
<1>4. CASE PPSRecheck(s)
  <2>1. Touch(window, window', s, Seq(Nat)) /\ Touch(inval, inval', s, BOOLEAN)
    BY <1>4, Zenon DEF PPSRecheck, Touch
  <2> QED BY <1>4, <2>1 DEF PPSRecheck, EndSample, Touch
<1>5. CASE Accept(s)
  <2> DEFINE held == IF resetReq[s] THEN <<>> ELSE window[s]
             armedInval == inval[s] \/ resetReq[s]
             w == Shift(held, obs[s])
             report == Valid(s, seen[s], armedInval, obs[s], {w[i] : i \in 1..Len(w)})
  <2>1. held \in Seq(Nat) /\ armedInval \in BOOLEAN
    OBVIOUS
  <2>2. w \in Seq(Nat) /\ {w[i] : i \in 1..Len(w)} \in SUBSET Nat
    <3> HIDE DEF held
    <3> QED BY <2>1, ShiftType, Zenon
  <2>3. report \in Measurement
    <3> HIDE DEF w, armedInval
    <3> QED BY <2>1, <2>2, ReportType, Zenon
  <2>4. /\ window' = [window EXCEPT ![s] = held]
           \/ window' = [window EXCEPT ![s] = <<>>]
           \/ window' = [window EXCEPT ![s] = w]
        /\ out' = out \/ out' = [out EXCEPT ![s] = report]
        /\ pc' = [pc EXCEPT ![s] = "nil"] \/ pc' = [pc EXCEPT ![s] = "emit"]
    BY <1>5, Zenon DEF Accept
  <2>5. \/ inval' = [inval EXCEPT ![s] = armedInval]
        \/ inval' = [inval EXCEPT ![s] = TRUE]
        \/ inval' = [inval EXCEPT ![s] = FALSE]
        \/ \E unstable \in BOOLEAN : inval' = [inval EXCEPT ![s] = armedInval \/ unstable]
    BY <1>5, Zenon DEF Accept
  <2>6. Touch(inval, inval', s, BOOLEAN)
    BY <2>1, <2>5, Zenon DEF Touch
  <2> HIDE DEF held, w, report
  <2>7. Touch(window, window', s, Seq(Nat)) /\ Touch(out, out', s, Measurement)
    BY <2>1, <2>2, <2>3, <2>4, Zenon DEF Touch
  <2>8. Touch(pc, pc', s, SrcPlaces)
    BY <2>4 DEF Touch
  <2> QED BY <1>5, <2>6, <2>7, <2>8, Zenon DEF Accept, EndSample, Touch
<1>6. CASE PPSEmptyReport(s)
  <2>1. Empty(s, gen, inval[s]) \in Measurement
    BY DEF Measurement, Empty
  <2>2. Touch(pc, pc', s, SrcPlaces)
    BY <1>6 DEF PPSEmptyReport, Touch
  <2> QED BY <1>6, <2>1, <2>2, Zenon DEF PPSEmptyReport, Touch
<1>7. CASE PPSEmit(s)
  <2>1. Empty(s, 0, FALSE) \in Measurement
    BY DEF Measurement, Empty
  <2>2. Touch(pc, pc', s, SrcPlaces)
    BY <1>7 DEF PPSEmit, Touch
  <2> QED BY <1>7, <2>1, <2>2, Zenon DEF PPSEmit, Send, Touch
<1>8. CASE PPSReopen(s)
  <2>1. Touch(window, window', s, Seq(Nat)) /\ Touch(inval, inval', s, BOOLEAN)
    BY <1>8, Zenon DEF PPSReopen, Touch
  <2> QED BY <1>8, <2>1 DEF PPSReopen, Touch
<1> QED
  BY <1>1, <1>2, <1>3, <1>4, <1>5, <1>6, <1>7, <1>8, Zenon DEF PPSNext

(* acceptLine touches its own window, invalidation, message and place. *)
LEMMA AcceptLineTouch ==
    ASSUME TypeOK, NEW s \in Source, NEW g \in Nat, NEW o \in Nat, AcceptLine(s, g, o)
    PROVE  /\ Touch(pc, pc', s, SrcPlaces)
           /\ Touch(window, window', s, Seq(Nat))
           /\ Touch(inval, inval', s, BOOLEAN)
           /\ Touch(out, out', s, Measurement)
<1> DEFINE held(gap) == IF gap THEN <<>> ELSE window[s]
           inv(gap) == inval[s] \/ gap
           w(gap) == Shift(held(gap), o)
           report(gap) ==
               IF Len(w(gap)) >= NMEAMin
               THEN Valid(s, g, inv(gap), o, {w(gap)[i] : i \in 1..Len(w(gap))})
               ELSE [Empty(s, g, inv(gap)) EXCEPT !.obs = o]
<1>1. \A gap \in BOOLEAN : held(gap) \in Seq(Nat) /\ inv(gap) \in BOOLEAN
  BY DEF TypeOK
<1>2. \A gap \in BOOLEAN : /\ w(gap) \in Seq(Nat)
                           /\ {w(gap)[i] : i \in 1..Len(w(gap))} \in SUBSET Nat
  <2> HIDE DEF held
  <2> QED BY <1>1, ShiftType
<1>3. \A gap \in BOOLEAN : report(gap) \in Measurement
  <2> SUFFICES ASSUME NEW gap \in BOOLEAN PROVE report(gap) \in Measurement
    BY Zenon
  <2> HIDE DEF w, inv
  <2>1. CASE Len(w(gap)) >= NMEAMin
    <3>1. Valid(s, g, inv(gap), o, {w(gap)[i] : i \in 1..Len(w(gap))}) \in Measurement
      BY <1>1, <1>2, ReportType, Zenon
    <3> QED BY <2>1, <3>1
  <2>2. CASE ~(Len(w(gap)) >= NMEAMin)
    <3>1. [Empty(s, g, inv(gap)) EXCEPT !.obs = o] \in Measurement
      BY <1>1, ReportType, Zenon
    <3> QED BY <2>2, <3>1
  <2> QED BY <2>1, <2>2
<1>4. \/ /\ pc' = [pc EXCEPT ![s] = "tick"]
         /\ UNCHANGED out
         /\ \/ UNCHANGED <<window, inval>>
            \/ /\ window' = [window EXCEPT ![s] = <<>>]
               /\ inval' = [inval EXCEPT ![s] = TRUE]
      \/ /\ pc' = [pc EXCEPT ![s] = "emit"]
         /\ inval' = [inval EXCEPT ![s] = FALSE]
         /\ \E gap \in BOOLEAN : /\ window' = [window EXCEPT ![s] = w(gap)]
                                 /\ out' = [out EXCEPT ![s] = report(gap)]
  <2>1. CASE pc' = [pc EXCEPT ![s] = "tick"] /\ UNCHANGED <<window, inval, out>>
    BY <2>1
  <2>2. CASE gen # g /\ pc' = [pc EXCEPT ![s] = "tick"] /\ NMEAReset(s) /\ UNCHANGED out
    BY <2>2 DEF NMEAReset
  <2>3. CASE ~(pc' = [pc EXCEPT ![s] = "tick"] /\ UNCHANGED <<window, inval, out>>)
             /\ ~(gen # g /\ pc' = [pc EXCEPT ![s] = "tick"] /\ NMEAReset(s) /\ UNCHANGED out)
    <3>1. /\ pc' = [pc EXCEPT ![s] = "emit"]
          /\ \E gap \in BOOLEAN : /\ window' = [window EXCEPT ![s] = w(gap)]
                                  /\ inval' = [inval EXCEPT ![s] = FALSE]
                                  /\ out' = [out EXCEPT ![s] = report(gap)]
      BY <2>3, Zenon DEF AcceptLine
    <3> HIDE DEF w, report
    <3> QED BY <3>1, Zenon
  <2> QED BY <2>1, <2>2, <2>3, Zenon
<1> HIDE DEF w, report
<1>5. Touch(window, window', s, Seq(Nat)) /\ Touch(out, out', s, Measurement)
  <2>1. <<>> \in Seq(Nat) /\ \A gap \in BOOLEAN : w(gap) \in Seq(Nat)
    BY <1>2
  <2> QED BY <1>3, <1>4, <2>1, Zenon DEF Touch
<1>6. Touch(inval, inval', s, BOOLEAN)
  BY <1>4 DEF Touch
<1>7. Touch(pc, pc', s, SrcPlaces)
  BY <1>4 DEF Touch, SrcPlaces
<1> QED BY <1>5, <1>6, <1>7

(* Every step of an NMEA source is its own. *)
LEMMA NMEAOwnStep ==
    ASSUME TypeOK, NEW s \in NMEAs, NMEANext(s) \/ NMEAReopen(s)
    PROVE  OwnStep(s)
<1>0. s \in Source /\ Torn \in Nat
  BY DEF Source, Torn
<1>a. /\ gen \in Nat /\ world \in Nat /\ seen[s] \in Nat /\ obs[s] \in Nat
      /\ window[s] \in Seq(Nat) /\ resetReq[s] \in BOOLEAN /\ inval[s] \in BOOLEAN
      /\ lineGen[s] \in Nat /\ lineObs[s] \in Nat
  BY <1>0 DEF TypeOK
<1>b. <<>> \in Seq(Nat)
  OBVIOUS
<1> USE <1>0, <1>a, <1>b DEF OwnStep, SrcPlaces, nmeaFrame
<1>1. CASE NMEATop(s)
  <2>1. Touch(window, window', s, Seq(Nat))
    BY <1>1, Zenon DEF NMEATop, Touch
  <2>2. Touch(inval, inval', s, BOOLEAN)
    BY <1>1, Zenon DEF NMEATop, Touch
  <2> QED BY <1>1, <2>1, <2>2, Zenon DEF NMEATop, Touch
<1>2. CASE ReadChunk(s)
  <2>1. Touch(window, window', s, Seq(Nat)) /\ Touch(inval, inval', s, BOOLEAN)
    BY <1>2, Zenon DEF ReadChunk, NMEAReset, Touch
  <2>2. Touch(lineGen, lineGen', s, Nat) /\ Touch(lineObs, lineObs', s, Nat)
    BY <1>2, Zenon DEF ReadChunk, DropLine, Touch
  <2> QED BY <1>2, <2>1, <2>2 DEF ReadChunk, Touch
<1>3. CASE ReadArrival(s)
  BY <1>3, Zenon DEF ReadArrival, Touch
<1>4. CASE NMEARecheck(s)
  <2>1. Touch(window, window', s, Seq(Nat)) /\ Touch(inval, inval', s, BOOLEAN)
    BY <1>4, Zenon DEF NMEARecheck, NMEAReset, Touch
  <2>2. Touch(lineGen, lineGen', s, Nat) /\ Touch(lineObs, lineObs', s, Nat)
    BY <1>4 DEF NMEARecheck, DropLine, Touch
  <2> QED BY <1>4, <2>1, <2>2 DEF NMEARecheck, EndSample, Touch
<1>5. CASE Consume(s)
  <2>1. Touch(lineGen, lineGen', s, Nat) /\ Touch(lineObs, lineObs', s, Nat)
    BY <1>5 DEF Consume, DropLine, Touch
  <2>2. \/ AcceptLine(s, lineGen[s], lineObs[s])
        \/ AcceptLine(s, seen[s], obs[s])
        \/ pc' = [pc EXCEPT ![s] = "tick"] /\ UNCHANGED <<window, inval, out>>
    BY <1>5 DEF Consume
  <2>3. /\ Touch(pc, pc', s, SrcPlaces)
        /\ Touch(window, window', s, Seq(Nat))
        /\ Touch(inval, inval', s, BOOLEAN)
        /\ Touch(out, out', s, Measurement)
    <3>1. CASE pc' = [pc EXCEPT ![s] = "tick"] /\ UNCHANGED <<window, inval, out>>
      BY <3>1 DEF Touch
    <3> QED BY <2>2, <3>1, AcceptLineTouch
  <2> QED BY <1>5, <2>1, <2>3, Zenon DEF Consume, EndSample, Touch
<1>6. CASE NMEATick(s)
  <2>1. Touch(window, window', s, Seq(Nat)) /\ Touch(inval, inval', s, BOOLEAN)
    BY <1>6, Zenon DEF NMEATick, NMEAReset, Touch
  <2> QED BY <1>6, <2>1 DEF NMEATick, Touch
<1>7. CASE NMEAEmptyReport(s)
  <2>1. Empty(s, gen, inval[s]) \in Measurement
    BY DEF Measurement, Empty
  <2>2. Touch(pc, pc', s, SrcPlaces)
    BY <1>7 DEF NMEAEmptyReport, Touch
  <2> QED BY <1>7, <2>1, <2>2, Zenon DEF NMEAEmptyReport, Touch
<1>8. CASE NMEAEmit(s)
  <2>1. Empty(s, 0, FALSE) \in Measurement
    BY DEF Measurement, Empty
  <2>2. Touch(pc, pc', s, SrcPlaces)
    BY <1>8 DEF NMEAEmit, Touch
  <2> QED BY <1>8, <2>1, <2>2, Zenon DEF NMEAEmit, Send, Touch
<1>9. CASE NMEAReopen(s)
  <2>1. Touch(window, window', s, Seq(Nat)) /\ Touch(inval, inval', s, BOOLEAN)
    BY <1>9, Zenon DEF NMEAReopen, NMEAReset, Touch
  <2>2. Touch(lineGen, lineGen', s, Nat) /\ Touch(lineObs, lineObs', s, Nat)
    BY <1>9 DEF NMEAReopen, DropLine, Touch
  <2> QED BY <1>9, <2>1, <2>2 DEF NMEAReopen, Touch
<1> QED
  BY <1>1, <1>2, <1>3, <1>4, <1>5, <1>6, <1>7, <1>8, <1>9, Zenon DEF NMEANext

-----------------------------------------------------------------------------
(* Type correctness. *)

LEMMA InitType ==
    ASSUME Init
    PROVE  TypeOK
<1>1. PICK s \in Source : hand = Empty(s, 0, FALSE)
  BY Zenon DEF Init
<1>2. \A t \in Source : Empty(t, 0, FALSE) \in Measurement
  BY DEF Empty, Measurement, Torn
<1>3. NoEstimate \in [valid : BOOLEAN, obs : Nat, rest : SUBSET Nat]
  BY DEF NoEstimate, Torn
<1>4. hand \in Measurement /\ out \in [Source -> Measurement]
  BY <1>1, <1>2, Zenon DEF Init
<1>5. queue \in Seq(Measurement) /\ Len(queue) <= QueueCap
  BY EpochConstants DEF Init
<1>6. est \in [Source -> [valid : BOOLEAN, obs : Nat, rest : SUBSET Nat]]
  BY <1>3 DEF Init
<1>a. armed \in BOOLEAN /\ leapDue \in BOOLEAN
  BY DEF Init
<1>7. /\ gen \in Nat /\ world \in Nat \ {0}
      /\ eng \in EngPlaces /\ ret \in {"stale", "tick", "request", "handle"}
      /\ todo \in SUBSET Source /\ verdict \in {"none", "step", "panic"}
  BY DEF Init, EngPlaces, FirstEpoch
<1>8. /\ pc \in [Source -> SrcPlaces]
      /\ seen \in [Source -> Nat] /\ obs \in [Source -> Nat]
      /\ window \in [Source -> Seq(Nat)] /\ used \in [Source -> Nat]
  BY DEF Init, SrcPlaces, Torn
<1>9. /\ resetReq \in [Source -> BOOLEAN] /\ inval \in [Source -> BOOLEAN]
      /\ lineGen \in [Source -> Nat] /\ lineObs \in [Source -> Nat]
  BY DEF Init, Torn
<1> QED
  BY <1>4, <1>5, <1>6, <1>7, <1>8, <1>9, <1>a DEF TypeOK

LEMMA NextType ==
    ASSUME TypeOK, [Next]_vars
    PROVE  TypeOK'
<1>1. CASE UNCHANGED vars
  BY <1>1 DEF TypeOK, vars, clockVars, engVars, srcVars
<1>2. CASE EngineNext \/ KernelLeap
  BY <1>2, EngineType
<1>3. ASSUME NEW s \in NTPs, NTPNext(s) PROVE TypeOK'
  BY <1>3, NTPOwnStep, OwnStepType DEF Source
<1>4. ASSUME NEW s \in PPSs, PPSNext(s) \/ PPSReopen(s) PROVE TypeOK'
  BY <1>4, PPSOwnStep, OwnStepType DEF Source
<1>5. ASSUME NEW s \in NMEAs, NMEANext(s) \/ NMEAReopen(s) PROVE TypeOK'
  BY <1>5, NMEAOwnStep, OwnStepType DEF Source
<1> QED
  BY <1>1, <1>2, <1>3, <1>4, <1>5 DEF Next, Running, Halted

(* Every reachable state is well-formed; in particular no source ever puts *)
(* more into the measurement channel than it holds.                        *)
THEOREM TypeCorrect == Spec => []TypeOK
<1>1. Init => TypeOK
  BY InitType
<1>2. TypeOK /\ [Next]_vars => TypeOK'
  BY NextType
<1> QED
  BY <1>1, <1>2, PTL DEF Spec

-----------------------------------------------------------------------------
(* The epoch invariant. *)

(* Even and odd epochs alternate. *)
LEMMA Parity ==
    ASSUME NEW g \in Nat, g # 0
    PROVE  StableEpoch(g + 1) <=> ~StableEpoch(g)
BY DEF StableEpoch

LEMMA InitInv ==
    ASSUME Init
    PROVE  EpochInv
<1>1. TypeOK
  BY InitType
<1>2. BracketIsOdd /\ StepDropsEstimates /\ AcquiredInEpoch
  BY DEF Init, BracketIsOdd, InBracket, StableEpoch, FirstEpoch, StepDropsEstimates,
         AcquiredInEpoch, NoEstimate
<1>3. \A s \in Source : MessageInv(Empty(s, 0, FALSE))
  BY <1>1 DEF MessageInv, Empty, TypeOK
<1>4. \A s \in Source : SourceInv(s)
  <2> SUFFICES ASSUME NEW s \in Source PROVE SourceInv(s)
    OBVIOUS
  <2>1. out[s] = Empty(s, 0, FALSE)
    BY DEF Init
  <2>2. seen[s] = 0 /\ lineGen[s] = 0 /\ gen = 2
    BY DEF Init, FirstEpoch
  <2>3. MessageInv(out[s])
    BY <1>3, <2>1, Zenon
  <2> QED BY <2>2, <2>3 DEF SourceInv
<1>5. MessageInv(hand)
  <2>1. PICK s \in Source : hand = Empty(s, 0, FALSE)
    BY DEF Init
  <2> QED BY <1>3, <2>1, Zenon
<1>6. Len(queue) = 0
  BY DEF Init
<1> QED BY <1>1, <1>2, <1>4, <1>5, <1>6 DEF EpochInv

(* A source's step preserves the invariant if it keeps its own part of it. *)
LEMMA OwnStepInv ==
    ASSUME EpochInv, NEW s \in Source, OwnStep(s), SourceInv(s)'
    PROVE  EpochInv'
<1>1. TypeOK' /\ TypeOK
  BY OwnStepType DEF EpochInv
<1>2. UNCHANGED <<gen, world, leapDue, eng, hand, verdict, est>>
  BY DEF OwnStep, clockVars, engVars
<1>3. BracketIsOdd' /\ StepDropsEstimates' /\ AcquiredInEpoch'
  BY <1>2 DEF EpochInv, BracketIsOdd, InBracket, StepDropsEstimates, AcquiredInEpoch,
              Settled
<1>4. \A m : MessageInv(m) => MessageInv(m)'
  BY <1>2 DEF MessageInv, Settled
<1>5. MessageInv(hand)'
  BY <1>2, <1>4 DEF EpochInv, MessageInv, Settled
<1>6. ASSUME NEW t \in Source PROVE SourceInv(t)'
  <2>1. CASE t = s
    BY <2>1
  <2>2. CASE t # s
    <3>1. ASSUME NEW B, NEW f \in [Source -> B], NEW g, Touch(f, g, s, B)
          PROVE  g[t] = f[t]
      <4>1. CASE g = f
        BY <4>1
      <4>2. ASSUME NEW v \in B, g = [f EXCEPT ![s] = v] PROVE g[t] = f[t]
        BY <2>2, <4>2
      <4> QED BY <3>1, <4>1, <4>2 DEF Touch
    <3>2. /\ pc'[t] = pc[t] /\ seen'[t] = seen[t] /\ obs'[t] = obs[t]
          /\ out'[t] = out[t] /\ lineGen'[t] = lineGen[t] /\ lineObs'[t] = lineObs[t]
      BY <1>1, <3>1, Zenon DEF OwnStep, TypeOK
    <3> QED BY <1>2, <3>2 DEF EpochInv, SourceInv, MessageInv, Settled
  <2> QED BY <2>1, <2>2
<1>7. ASSUME NEW i \in 1..Len(queue') PROVE MessageInv(queue[i])'
  <2>1. CASE queue' = queue
    BY <1>2, <2>1 DEF EpochInv, MessageInv, Settled
  <2>2. CASE Send(s)
    <3>0. /\ queue \in Seq(Measurement) /\ out[s] \in Measurement
          /\ queue' = Append(queue, out[s])
      BY <1>1, <2>2 DEF Send, TypeOK
    <3>1. queue'[i] = IF i = Len(queue) + 1 THEN out[s] ELSE queue[i]
      BY <3>0
    <3>2. i = Len(queue) + 1 \/ i \in 1..Len(queue)
      BY <3>0
    <3>3. MessageInv(out[s])
      BY DEF EpochInv, SourceInv
    <3> QED BY <1>2, <3>1, <3>2, <3>3 DEF EpochInv, MessageInv, Settled
  <2> QED BY <2>1, <2>2 DEF OwnStep
<1> QED BY <1>1, <1>3, <1>5, <1>6, <1>7 DEF EpochInv

(* An empty report carries no observation. *)
LEMMA EmptyInv ==
    ASSUME gen \in Nat, NEW s, NEW g \in {0, gen}, NEW inv
    PROVE  MessageInv(Empty(s, g, inv))
<1>1. Empty(s, g, inv).gen = g /\ Empty(s, g, inv).valid = FALSE
  BY DEF Empty
<1>2. g <= gen
  OBVIOUS
<1> QED BY <1>1, <1>2, Zenon DEF MessageInv

(* What a source has to show of a step that leaves the clock alone. *)
LEMMA OwnPart ==
    ASSUME gen \in Nat, NEW s \in Source, SourceInv(s),
           UNCHANGED <<gen, world, leapDue>>,
           seen'[s] <= gen,
           pc'[s] \in {"sent", "replied", "hit"} /\ Settled /\ seen'[s] = gen => obs'[s] = world,
           \/ lineGen'[s] = 0
           \/ lineGen'[s] = lineGen[s] /\ lineObs'[s] = lineObs[s],
           out'[s] = out[s] \/ MessageInv(out'[s])
    PROVE  SourceInv(s)'
<1>1. MessageInv(out'[s])
  BY Zenon DEF SourceInv
<1>2. MessageInv(out[s])'
  BY <1>1, Zenon DEF MessageInv, Settled
<1>3. lineGen[s] <= gen /\ (Settled /\ lineGen[s] = gen => lineObs[s] = world)
  BY Zenon DEF SourceInv
<1>4. lineGen'[s] <= gen' /\ (Settled' /\ lineGen'[s] = gen' => lineObs'[s] = world')
  <2>1. CASE lineGen'[s] = 0
    <3>1. Settled' => gen' # 0
      BY DEF Settled, StableEpoch
    <3>2. 0 <= gen'
      OBVIOUS
    <3> QED BY <2>1, <3>1, <3>2, Zenon
  <2>2. CASE lineGen'[s] = lineGen[s] /\ lineObs'[s] = lineObs[s]
    BY <1>3, <2>2, Zenon DEF Settled
  <2> QED BY <2>1, <2>2, Zenon
<1>5. Settled' => Settled
  BY Zenon DEF Settled
<1> QED BY <1>2, <1>4, <1>5, Zenon DEF SourceInv

(* An NTP source keeps its own part. *)
LEMMA NTPInv ==
    ASSUME EpochInv, NEW s \in NTPs, NTPNext(s)
    PROVE  SourceInv(s)'
<1>0. s \in Source
  BY DEF Source
<1>1. /\ gen \in Nat /\ world \in Nat
      /\ pc \in [Source -> SrcPlaces] /\ out \in [Source -> Measurement]
      /\ seen \in [Source -> Nat] /\ obs \in [Source -> Nat]
      /\ lineGen \in [Source -> Nat] /\ lineObs \in [Source -> Nat]
      /\ SourceInv(s)
  BY <1>0 DEF EpochInv, TypeOK
<1>6. CASE Hit(s)
  <2>1. /\ UNCHANGED <<gen, world, leapDue, lineGen, lineObs>>
        /\ pc[s] = "hit" /\ pc'[s] \in {"emit", "nil"} /\ seen'[s] = 0
    BY <1>0, <1>1, <1>6, Zenon DEF Hit, EndSample, ntpFrame, clockVars
  <2>2. out' = out \/ \E r : out' = [out EXCEPT ![s] = Valid(s, seen[s], FALSE, obs[s], r)]
    BY <1>6, Zenon DEF Hit
  <2>3. out'[s] = out[s] \/ (out'[s].gen = seen[s] /\ out'[s].obs = obs[s])
    BY <1>0, <1>1, <2>2 DEF Valid
  <2>4. /\ seen[s] <= gen /\ MessageInv(out[s])
        /\ Settled /\ seen[s] = gen => obs[s] = world
    BY <1>1, <2>1, Zenon DEF SourceInv
  <2>5. MessageInv(out'[s])
    BY <2>3, <2>4, Zenon DEF MessageInv
  <2>6. seen'[s] <= gen
    BY <1>1, <2>1
  <2> QED BY <1>0, <1>1, <2>1, <2>5, <2>6, OwnPart
<1> USE <1>0, <1>1 DEF ntpFrame, clockVars, engVars, SourceInv, MessageInv, Settled
<1>2. CASE PollBegin(s)
  BY <1>2 DEF PollBegin
<1>3. CASE SendRequest(s)
  BY <1>3 DEF SendRequest
<1>4. CASE Reply(s)
  BY <1>4 DEF Reply, EndSample
<1>5. CASE Recheck(s)
  BY <1>5 DEF Recheck, EndSample
<1>7. CASE EmptyReport(s)
  BY <1>7 DEF EmptyReport, Empty
<1>8. CASE Emit(s)
  BY <1>8 DEF Emit, Send, Empty
<1> QED
  BY <1>2, <1>3, <1>4, <1>5, <1>6, <1>7, <1>8, Zenon DEF NTPNext

(* So does a PPS source. *)
LEMMA PPSInv ==
    ASSUME EpochInv, NEW s \in PPSs, PPSNext(s) \/ PPSReopen(s)
    PROVE  SourceInv(s)'
<1>0. s \in Source
  BY DEF Source
<1>1. /\ gen \in Nat /\ world \in Nat
      /\ pc \in [Source -> SrcPlaces] /\ out \in [Source -> Measurement]
      /\ seen \in [Source -> Nat] /\ obs \in [Source -> Nat]
      /\ lineGen \in [Source -> Nat] /\ lineObs \in [Source -> Nat]
      /\ SourceInv(s)
  BY <1>0 DEF EpochInv, TypeOK
<1>6. CASE Accept(s)
  <2>1. /\ UNCHANGED <<gen, world, leapDue, lineGen, lineObs>>
        /\ pc[s] = "hit" /\ pc'[s] \in {"emit", "nil"} /\ seen'[s] = 0
    BY <1>0, <1>1, <1>6 DEF Accept, EndSample, ppsFrame, clockVars
  <2>2. out' = out \/ \E inv, r : out' = [out EXCEPT ![s] = Valid(s, seen[s], inv, obs[s], r)]
    BY <1>6, Zenon DEF Accept
  <2>3. out'[s] = out[s] \/ (out'[s].gen = seen[s] /\ out'[s].obs = obs[s])
    BY <1>0, <1>1, <2>2 DEF Valid
  <2>4. /\ seen[s] <= gen /\ MessageInv(out[s])
        /\ Settled /\ seen[s] = gen => obs[s] = world
    BY <1>1, <2>1, Zenon DEF SourceInv
  <2>5. MessageInv(out'[s])
    BY <2>3, <2>4, Zenon DEF MessageInv
  <2>6. seen'[s] <= gen
    BY <1>1, <2>1
  <2> QED BY <1>0, <1>1, <2>1, <2>5, <2>6, OwnPart
<1>9. seen[s] <= gen
  BY <1>1, Zenon DEF SourceInv
<1>7. CASE PPSEmptyReport(s)
  <2>1. /\ UNCHANGED <<gen, world, leapDue, seen, obs, lineGen, lineObs>>
        /\ \E p \in {"emit", "losing"} : pc' = [pc EXCEPT ![s] = p]
        /\ \E i : out' = [out EXCEPT ![s] = Empty(s, gen, i)]
    BY <1>7, Zenon DEF PPSEmptyReport, ppsFrame, clockVars
  <2>2. PICK i : out' = [out EXCEPT ![s] = Empty(s, gen, i)]
    BY <2>1
  <2>3. pc'[s] \in {"emit", "losing"} /\ out'[s] = Empty(s, gen, i)
    BY <1>0, <1>1, <2>1, <2>2
  <2>4. MessageInv(out'[s])
    BY <1>1, <2>3, EmptyInv
  <2> QED BY <1>0, <1>1, <1>9, <2>1, <2>3, <2>4, OwnPart
<1>8. CASE PPSEmit(s)
  <2>1. /\ UNCHANGED <<gen, world, leapDue, seen, obs, lineGen, lineObs>>
        /\ \E p \in {"idle", "reopen"} : pc' = [pc EXCEPT ![s] = p]
        /\ out' = [out EXCEPT ![s] = Empty(s, 0, FALSE)]
    BY <1>8, Zenon DEF PPSEmit, Send, ppsFrame, clockVars
  <2>2. pc'[s] \in {"idle", "reopen"} /\ out'[s] = Empty(s, 0, FALSE)
    BY <1>0, <1>1, <2>1
  <2>3. MessageInv(out'[s])
    BY <1>1, <2>2, EmptyInv
  <2> QED BY <1>0, <1>1, <1>9, <2>1, <2>2, <2>3, OwnPart
<1> USE <1>0, <1>1 DEF ppsFrame, clockVars, engVars, SourceInv, MessageInv, Settled
<1>2. CASE PPSTop(s)
  BY <1>2 DEF PPSTop
<1>3. CASE PPSReadEpoch(s)
  BY <1>3 DEF PPSReadEpoch
<1>4. CASE Fetch(s)
  BY <1>4 DEF Fetch, EndSample
<1>5. CASE PPSRecheck(s)
  BY <1>5 DEF PPSRecheck, EndSample
<1>10. CASE PPSReopen(s)
  BY <1>10 DEF PPSReopen
<1> QED
  BY <1>2, <1>3, <1>4, <1>5, <1>6, <1>7, <1>8, <1>10, Zenon DEF PPSNext

(* And an NMEA source, whose sentence may be dated by an earlier chunk. *)
LEMMA NMEAInv ==
    ASSUME EpochInv, NEW s \in NMEAs, NMEANext(s) \/ NMEAReopen(s)
    PROVE  SourceInv(s)'
<1>0. s \in Source
  BY DEF Source
<1>1. /\ gen \in Nat /\ world \in Nat
      /\ pc \in [Source -> SrcPlaces] /\ out \in [Source -> Measurement]
      /\ seen \in [Source -> Nat] /\ obs \in [Source -> Nat]
      /\ lineGen \in [Source -> Nat] /\ lineObs \in [Source -> Nat]
      /\ SourceInv(s)
  BY <1>0 DEF EpochInv, TypeOK
<1>5. ASSUME NEW g \in Nat, NEW o \in Nat, AcceptLine(s, g, o),
             g <= gen, Settled /\ g = gen => o = world,
             UNCHANGED <<gen, world, leapDue>>
      PROVE  MessageInv(out[s])' /\ pc'[s] \in {"tick", "emit"}
  <2>1. pc'[s] \in {"tick", "emit"}
    BY <1>0, <1>1, <1>5 DEF AcceptLine
  <2> DEFINE w(gap) == Shift(IF gap THEN <<>> ELSE window[s], o)
             report(gap) ==
                 IF Len(w(gap)) >= NMEAMin
                 THEN Valid(s, g, inval[s] \/ gap, o, {w(gap)[i] : i \in 1..Len(w(gap))})
                 ELSE [Empty(s, g, inval[s] \/ gap) EXCEPT !.obs = o]
  <2>2. out' = out \/ \E gap \in BOOLEAN : out' = [out EXCEPT ![s] = report(gap)]
    BY <1>5, Zenon DEF AcceptLine
  <2>3. \A gap \in BOOLEAN : report(gap).gen = g /\ report(gap).obs = o
    <3> HIDE DEF w
    <3> QED BY DEF Valid, Empty
  <2> HIDE DEF report
  <2>4. ASSUME NEW gap \in BOOLEAN, out' = [out EXCEPT ![s] = report(gap)]
        PROVE  out'[s].gen = g /\ out'[s].obs = o
    BY <1>0, <1>1, <2>3, <2>4
  <2>6. out'[s] = out[s] \/ (out'[s].gen = g /\ out'[s].obs = o)
    BY <2>2, <2>4, Zenon
  <2>7. MessageInv(out[s])'
    BY <1>1, <1>5, <2>6 DEF SourceInv, MessageInv, Settled
  <2> QED BY <2>1, <2>7
<1>6. CASE Consume(s)
  <2>1. UNCHANGED <<gen, world, leapDue>> /\ seen'[s] = 0 /\ pc[s] = "hit"
    BY <1>0, <1>1, <1>6 DEF Consume, EndSample, nmeaFrame, clockVars
  <2>2. /\ seen[s] \in Nat /\ obs[s] \in Nat /\ seen[s] <= gen
        /\ Settled /\ seen[s] = gen => obs[s] = world
    BY <1>0, <1>1, <2>1 DEF SourceInv
  <2>3. /\ lineGen[s] \in Nat /\ lineObs[s] \in Nat /\ lineGen[s] <= gen
        /\ Settled /\ lineGen[s] = gen => lineObs[s] = world
    BY <1>0, <1>1 DEF SourceInv
  <2>4. MessageInv(out[s])' /\ pc'[s] \in {"tick", "emit"}
    <3>1. CASE AcceptLine(s, lineGen[s], lineObs[s])
      BY <1>5, <2>1, <2>3, <3>1
    <3>2. CASE AcceptLine(s, seen[s], obs[s])
      BY <1>5, <2>1, <2>2, <3>2
    <3>3. CASE pc' = [pc EXCEPT ![s] = "tick"] /\ UNCHANGED <<window, inval, out>>
      BY <1>0, <1>1, <2>1, <3>3 DEF SourceInv, MessageInv, Settled
    <3> QED BY <1>6, <3>1, <3>2, <3>3, Zenon DEF Consume
  <2>5. \/ lineGen'[s] = 0
        \/ lineGen'[s] = seen[s] /\ lineObs'[s] = obs[s]
    BY <1>0, <1>1, <1>6 DEF Consume, DropLine
  <2>6. lineGen'[s] <= gen' /\ (Settled' /\ lineGen'[s] = gen' => lineObs'[s] = world')
    <3>1. CASE lineGen'[s] = 0
      <4>1. Settled' => gen' # 0
        BY DEF Settled, StableEpoch
      <4>2. 0 <= gen'
        BY <1>1, <2>1
      <4> QED BY <3>1, <4>1, <4>2, Zenon
    <3>2. CASE lineGen'[s] = seen[s] /\ lineObs'[s] = obs[s]
      BY <2>1, <2>2, <3>2, Zenon DEF Settled
    <3> QED BY <2>5, <3>1, <3>2, Zenon
  <2>7. seen'[s] <= gen' /\ pc'[s] \notin {"sent", "replied", "hit"}
    BY <1>1, <2>1, <2>4
  <2> QED BY <2>4, <2>6, <2>7, Zenon DEF SourceInv
<1>12. /\ seen[s] <= gen
       /\ pc[s] \in {"sent", "replied", "hit"} /\ Settled /\ seen[s] = gen => obs[s] = world
  BY <1>1, Zenon DEF SourceInv
<1>2. CASE NMEATop(s)
  <2>1. /\ UNCHANGED <<gen, world, leapDue, seen, obs, out, lineGen, lineObs>>
        /\ pc' = [pc EXCEPT ![s] = "top"]
    BY <1>2, Zenon DEF NMEATop, nmeaFrame, clockVars
  <2>2. pc'[s] = "top"
    BY <1>0, <1>1, <2>1
  <2> QED BY <1>0, <1>1, <1>12, <2>1, <2>2, OwnPart
<1>3. CASE ReadChunk(s)
  <2>1. /\ UNCHANGED <<gen, world, leapDue, obs, out>>
        /\ seen' = seen \/ seen' = [seen EXCEPT ![s] = gen]
        /\ \E p \in {"read", "tick", "lost"} : pc' = [pc EXCEPT ![s] = p]
        /\ UNCHANGED <<lineGen, lineObs>> \/ lineGen' = [lineGen EXCEPT ![s] = 0]
    BY <1>3 DEF ReadChunk, DropLine, nmeaFrame, clockVars
  <2>2. /\ pc'[s] \in {"read", "tick", "lost"} /\ seen'[s] \in {seen[s], gen}
        /\ lineGen'[s] = 0 \/ (lineGen'[s] = lineGen[s] /\ lineObs'[s] = lineObs[s])
    BY <1>0, <1>1, <2>1
  <2> QED BY <1>0, <1>1, <1>12, <2>1, <2>2, OwnPart
<1>4. CASE ReadArrival(s)
  <2>1. /\ UNCHANGED <<gen, world, leapDue, seen, out, lineGen, lineObs>>
        /\ obs' = [obs EXCEPT ![s] = world]
    BY <1>4, Zenon DEF ReadArrival, nmeaFrame, clockVars
  <2>2. obs'[s] = world
    BY <1>0, <1>1, <2>1
  <2> QED BY <1>0, <1>1, <1>12, <2>1, <2>2, OwnPart
<1>10. CASE NMEARecheck(s)
  <2>1. /\ UNCHANGED <<gen, world, leapDue, out>> /\ pc[s] = "replied"
        /\ \/ UNCHANGED <<seen, obs, lineGen, lineObs>>
           \/ seen' = [seen EXCEPT ![s] = 0] /\ lineGen' = [lineGen EXCEPT ![s] = 0]
              /\ pc' = [pc EXCEPT ![s] = "idle"]
    BY <1>10 DEF NMEARecheck, DropLine, EndSample, nmeaFrame, clockVars
  <2>2. \/ UNCHANGED <<seen, obs, lineGen, lineObs>>
        \/ seen'[s] = 0 /\ lineGen'[s] = 0 /\ pc'[s] = "idle"
    BY <1>0, <1>1, <2>1
  <2> QED BY <1>0, <1>1, <1>12, <2>1, <2>2, OwnPart
<1>7. CASE NMEATick(s)
  <2>1. /\ UNCHANGED <<gen, world, leapDue, seen, obs, out, lineGen, lineObs>>
        /\ \E p \in {"idle", "nil"} : pc' = [pc EXCEPT ![s] = p]
    BY <1>7 DEF NMEATick, nmeaFrame, clockVars
  <2>2. pc'[s] \in {"idle", "nil"}
    BY <1>0, <1>1, <2>1
  <2> QED BY <1>0, <1>1, <1>12, <2>1, <2>2, OwnPart
<1>8. CASE NMEAEmptyReport(s)
  <2>1. /\ UNCHANGED <<gen, world, leapDue, seen, obs, lineGen, lineObs>>
        /\ \E p \in {"emit", "losing"} : pc' = [pc EXCEPT ![s] = p]
        /\ out' = [out EXCEPT ![s] = Empty(s, gen, inval[s])]
    BY <1>8, Zenon DEF NMEAEmptyReport, nmeaFrame, clockVars
  <2> DEFINE i == inval[s]
  <2>2. pc'[s] \in {"emit", "losing"} /\ out'[s] = Empty(s, gen, i)
    BY <1>0, <1>1, <2>1
  <2> HIDE DEF i
  <2>3. MessageInv(out'[s])
    BY <1>1, <2>2, EmptyInv
  <2> QED BY <1>0, <1>1, <1>12, <2>1, <2>2, <2>3, OwnPart
<1>9. CASE NMEAEmit(s)
  <2>1. /\ UNCHANGED <<gen, world, leapDue, seen, obs, lineGen, lineObs>>
        /\ \E p \in {"idle", "tick", "reopen"} : pc' = [pc EXCEPT ![s] = p]
        /\ out' = [out EXCEPT ![s] = Empty(s, 0, FALSE)]
    BY <1>9 DEF NMEAEmit, Send, nmeaFrame, clockVars
  <2>2. pc'[s] \in {"idle", "tick", "reopen"} /\ out'[s] = Empty(s, 0, FALSE)
    BY <1>0, <1>1, <2>1
  <2>3. MessageInv(out'[s])
    BY <1>1, <2>2, EmptyInv
  <2> QED BY <1>0, <1>1, <1>12, <2>1, <2>2, <2>3, OwnPart
<1>11. CASE NMEAReopen(s)
  <2>1. /\ UNCHANGED <<gen, world, leapDue, seen, obs, out>>
        /\ pc' = [pc EXCEPT ![s] = "idle"] /\ lineGen' = [lineGen EXCEPT ![s] = 0]
    BY <1>11, Zenon DEF NMEAReopen, DropLine, nmeaFrame, clockVars
  <2>2. pc'[s] = "idle" /\ lineGen'[s] = 0
    BY <1>0, <1>1, <2>1
  <2> QED BY <1>0, <1>1, <1>12, <2>1, <2>2, OwnPart
<1> QED
  BY <1>2, <1>3, <1>4, <1>6, <1>7, <1>8, <1>9, <1>10, <1>11, Zenon DEF NMEANext

(* What the engine does to the part of the invariant that the sources and  *)
(* the channel carry: either the epoch and the clock stay as they are, or  *)
(* the epoch is unsettled afterwards, or it is one nobody holds yet.       *)
LEMMA EngineKeepsSources ==
    ASSUME EpochInv, TypeOK', UNCHANGED srcVars,
           \/ UNCHANGED <<gen, world, leapDue>>
           \/ gen' >= gen /\ ~Settled'
           \/ gen' > gen
    PROVE  /\ \A s \in Source : SourceInv(s)'
           /\ \A m \in Measurement : MessageInv(m) => MessageInv(m)'
<1>1. /\ TypeOK /\ TypeOK'
      /\ \A s \in Source : SourceInv(s)
  BY DEF EpochInv
<1>2. gen \in Nat /\ gen' \in Nat
  BY <1>1 DEF TypeOK
<1>3. ASSUME NEW m, m.gen \in Nat, MessageInv(m)
      PROVE  m.gen <= gen' /\ (Settled' /\ m.valid /\ m.gen = gen' => m.obs = world')
  <2>1. CASE UNCHANGED <<gen, world, leapDue>>
    BY <1>3, <2>1 DEF MessageInv, Settled
  <2>2. CASE gen' >= gen /\ ~Settled'
    BY <1>2, <1>3, <2>2 DEF MessageInv
  <2>3. CASE gen' > gen
    BY <1>2, <1>3, <2>3 DEF MessageInv
  <2> QED BY <2>1, <2>2, <2>3
<1>4. ASSUME NEW s \in Source PROVE SourceInv(s)'
  <2>1. out[s] \in Measurement /\ out'[s] = out[s] /\ MessageInv(out[s])
    BY <1>1, Zenon DEF TypeOK, srcVars, SourceInv
  <2>2. MessageInv(out[s])'
    <3>1. out[s].gen \in Nat
      BY <2>1 DEF Measurement
    <3> QED BY <1>3, <2>1, <3>1, Zenon DEF MessageInv
  <2>3. /\ seen[s] \in Nat /\ lineGen[s] \in Nat
        /\ SourceInv(s)
    BY <1>1 DEF TypeOK
  <2>4. UNCHANGED <<seen, pc, obs, lineGen, lineObs>>
    BY DEF srcVars
  <2>5. seen[s] <= gen' /\ lineGen[s] <= gen'
    <3>1. seen[s] <= gen /\ lineGen[s] <= gen
      BY <2>3, Zenon DEF SourceInv
    <3>2. gen <= gen'
      BY <1>2
    <3> QED BY <1>2, <2>3, <3>1, <3>2
  <2>6. CASE UNCHANGED <<gen, world, leapDue>>
    BY <2>2, <2>3, <2>4, <2>6, Zenon DEF SourceInv, Settled
  <2>7. CASE ~Settled'
    BY <2>2, <2>4, <2>5, <2>7, Zenon DEF SourceInv
  <2>8. CASE gen' > gen
    <3>0. seen[s] <= gen /\ lineGen[s] <= gen
      BY <2>3, Zenon DEF SourceInv
    <3>1. seen[s] # gen' /\ lineGen[s] # gen'
      BY <1>2, <2>3, <2>8, <3>0
    <3> QED BY <2>2, <2>4, <2>5, <3>1, Zenon DEF SourceInv
  <2> QED BY <2>6, <2>7, <2>8
<1>5. ASSUME NEW m \in Measurement, MessageInv(m) PROVE MessageInv(m)'
  <2>1. m.gen \in Nat
    BY DEF Measurement
  <2> QED BY <1>3, <1>5, <2>1 DEF MessageInv
<1> QED BY <1>4, <1>5

(* The engine and the kernel preserve the invariant. *)
LEMMA EngineInv ==
    ASSUME EpochInv, EngineNext \/ KernelLeap
    PROVE  EpochInv'
<1>0. TypeOK /\ TypeOK'
  BY EngineType DEF EpochInv
<1>1. gen \in Nat /\ gen # 0 /\ (InBracket <=> ~StableEpoch(gen))
  BY <1>0 DEF EpochInv, BracketIsOdd, TypeOK
<1>2. StableEpoch(gen + 1) <=> ~StableEpoch(gen)
  BY <1>1, Parity
<1>3. hand \in Measurement /\ \A i \in 1..Len(queue) : queue[i] \in Measurement
  BY <1>0 DEF TypeOK
<1>4. StepDropsEstimates /\ AcquiredInEpoch
  BY DEF EpochInv
<1>5. \A s \in Source : MessageInv(Empty(s, 0, FALSE))'
  <2>1. gen' \in Nat
    BY <1>0 DEF TypeOK
  <2>2. 0 <= gen'
    BY <2>1
  <2>3. \A s \in Source : Empty(s, 0, FALSE).gen = 0 /\ Empty(s, 0, FALSE).valid = FALSE
    BY DEF Empty
  <2> QED BY <2>2, <2>3, Zenon DEF MessageInv
<1>6. ASSUME UNCHANGED srcVars,
             \/ UNCHANGED <<gen, world, leapDue>>
             \/ gen' >= gen /\ ~Settled'
             \/ gen' > gen,
             hand' = hand \/ MessageInv(hand)',
             \/ queue' = queue
             \/ \A i \in 1..Len(queue') : queue'[i] \in Measurement /\ MessageInv(queue'[i]),
             BracketIsOdd', StepDropsEstimates', AcquiredInEpoch'
      PROVE  EpochInv'
  <2>1. /\ \A s \in Source : SourceInv(s)'
        /\ \A m \in Measurement : MessageInv(m) => MessageInv(m)'
    BY <1>0, <1>6, EngineKeepsSources
  <2>2. MessageInv(hand)'
    BY <1>3, <1>6, <2>1 DEF EpochInv, MessageInv
  <2>3. \A i \in 1..Len(queue') : MessageInv(queue[i])'
    BY <1>3, <1>6, <2>1 DEF EpochInv, MessageInv
  <2> QED BY <1>0, <1>6, <2>1, <2>2, <2>3 DEF EpochInv
<1> USE DEF engFrame, clockVars, engVars
<1>10. CASE KernelLeap
  <2>1. BracketIsOdd' /\ StepDropsEstimates' /\ AcquiredInEpoch' /\ ~Settled'
    BY <1>1, <1>4, <1>10 DEF KernelLeap, BracketIsOdd, InBracket, StepDropsEstimates,
                             AcquiredInEpoch, Settled
  <2> QED BY <1>1, <1>6, <1>10, <2>1 DEF KernelLeap
<1>11. CASE Receive
  <2>1. BracketIsOdd' /\ StepDropsEstimates' /\ AcquiredInEpoch'
    BY <1>1, <1>4, <1>11 DEF Receive, BracketIsOdd, InBracket, StepDropsEstimates,
                             AcquiredInEpoch, Settled
  <2>2. queue \in Seq(Measurement) /\ queue # <<>>
    BY <1>0, <1>11 DEF TypeOK, Receive
  <2>3. /\ Len(queue) >= 1 /\ Head(queue) = queue[1]
        /\ \A i \in 1..Len(Tail(queue)) : i + 1 \in 1..Len(queue)
                                         /\ Tail(queue)[i] = queue[i + 1]
    BY <2>2
  <2>4. MessageInv(queue[1])
    BY <2>2, <2>3 DEF EpochInv
  <2>5. MessageInv(hand)'
    BY <1>11, <2>3, <2>4 DEF Receive, MessageInv, Settled
  <2>6. \A i \in 1..Len(queue') : queue'[i] \in Measurement /\ MessageInv(queue'[i])
    BY <1>3, <1>11, <2>3 DEF Receive, EpochInv
  <2> QED BY <1>6, <1>11, <2>1, <2>5, <2>6 DEF Receive
<1>12. CASE Tick
  <2>1. BracketIsOdd' /\ StepDropsEstimates' /\ AcquiredInEpoch'
    BY <1>1, <1>4, <1>12 DEF Tick, BracketIsOdd, InBracket, StepDropsEstimates,
                             AcquiredInEpoch, Settled
  <2> QED BY <1>6, <1>12, <2>1 DEF Tick
<1>8. CASE Request
  <2>1. BracketIsOdd' /\ StepDropsEstimates' /\ AcquiredInEpoch'
    BY <1>1, <1>4, <1>8 DEF Request, BracketIsOdd, InBracket, StepDropsEstimates,
                            AcquiredInEpoch, Settled
  <2> QED BY <1>6, <1>8, <2>1 DEF Request
<1>9. CASE RequestLeap
  <2>1. BracketIsOdd' /\ StepDropsEstimates' /\ AcquiredInEpoch'
    BY <1>1, <1>4, <1>9 DEF RequestLeap, BracketIsOdd, InBracket, StepDropsEstimates,
                            AcquiredInEpoch, Settled
  <2> QED BY <1>6, <1>9, <2>1 DEF RequestLeap
<1>13. CASE CrossLeap
  <2>1. BracketIsOdd' /\ StepDropsEstimates' /\ AcquiredInEpoch' /\ ~Settled'
    BY <1>1, <1>2, <1>4, <1>13 DEF CrossLeap, BracketIsOdd, InBracket,
                                   StepDropsEstimates, AcquiredInEpoch, Settled
  <2>2. gen' = gen + 1 /\ UNCHANGED <<hand, queue, srcVars>>
    BY <1>13 DEF CrossLeap
  <2> QED BY <1>1, <1>6, <2>1, <2>2
<1>14. CASE LeapClose
  <2>0. eng = "leap" /\ eng' = ret /\ gen' = gen + 1 /\ ret \in {"stale", "tick", "request", "handle"}
    BY <1>0, <1>14, Zenon DEF LeapClose, TypeOK
  <2>1. BracketIsOdd'
    BY <1>1, <1>2, <2>0 DEF BracketIsOdd, InBracket
  <2>2. \A s \in Source : ~est'[s].valid
    BY <1>14 DEF LeapClose, NoEstimate
  <2>3. StepDropsEstimates' /\ AcquiredInEpoch'
    BY <2>2 DEF StepDropsEstimates, AcquiredInEpoch
  <2> QED BY <1>1, <1>6, <1>14, <2>1, <2>3 DEF LeapClose
<1>15. CASE Discard
  <2>1. BracketIsOdd' /\ StepDropsEstimates' /\ AcquiredInEpoch'
    BY <1>1, <1>4, <1>15 DEF Discard, BracketIsOdd, InBracket, StepDropsEstimates,
                             AcquiredInEpoch, Settled
  <2>2. MessageInv(hand)'
    <3>1. hand.src \in Source /\ hand' = Empty(hand.src, 0, FALSE)
      BY <1>3, <1>15 DEF Discard, Measurement
    <3> QED BY <1>5, <3>1, Zenon DEF MessageInv
  <2> QED BY <1>6, <1>15, <2>1, <2>2 DEF Discard
<1>16. ASSUME NEW e, Decide(e), UNCHANGED <<gen, world, leapDue>>, Settled,
              \A s \in Source : e[s].valid => e[s].obs = world,
              eng' = "handle"
       PROVE  StepDropsEstimates' /\ AcquiredInEpoch'
  <2>1. CASE est' = e /\ verdict' \in {"none", "panic"}
    BY <1>16, <2>1 DEF StepDropsEstimates, AcquiredInEpoch
  <2>2. CASE est' = [s \in Source |-> NoEstimate]
    BY <2>2 DEF StepDropsEstimates, AcquiredInEpoch, NoEstimate
  <2> QED BY <1>16, <2>1, <2>2 DEF Decide
<1>17. CASE Admit
  <2>1. Settled /\ hand.gen = gen /\ UNCHANGED <<gen, world, leapDue>> /\ eng' = "handle"
    BY <1>17 DEF Admit, Stale, Settled
  <2>2. hand.valid => hand.obs = world
    BY <2>1 DEF EpochInv, MessageInv
  <2>3. \A s \in Source : Apply(hand)[s].valid => Apply(hand)[s].obs = world
    BY <1>0, <1>3, <1>4, <2>1, <2>2, Zenon DEF Apply, AcquiredInEpoch, NoEstimate, TypeOK,
                                        Measurement
  <2>4. StepDropsEstimates' /\ AcquiredInEpoch'
    BY <1>16, <1>17, <2>1, <2>3 DEF Admit
  <2>5. BracketIsOdd'
    BY <1>1, <1>17 DEF Admit, BracketIsOdd, InBracket
  <2>6. MessageInv(hand)'
    <3>1. hand.src \in Source /\ hand' = Empty(hand.src, 0, FALSE)
      BY <1>3, <1>17 DEF Admit, Measurement
    <3> QED BY <1>5, <3>1, Zenon DEF MessageInv
  <2> QED BY <1>6, <1>17, <2>4, <2>5, <2>6 DEF Admit
<1>18. CASE TickUpdate
  <2>1. Settled /\ UNCHANGED <<gen, world, leapDue>> /\ eng' = "handle"
    BY <1>1, <1>18 DEF TickUpdate, Settled, InBracket
  <2>2. StepDropsEstimates' /\ AcquiredInEpoch'
    BY <1>4, <1>16, <1>18, <2>1 DEF TickUpdate, AcquiredInEpoch
  <2>3. BracketIsOdd'
    BY <1>1, <1>18 DEF TickUpdate, BracketIsOdd, InBracket
  <2> QED BY <1>6, <1>18, <2>2, <2>3 DEF TickUpdate
<1>19. CASE Publish
  <2>1. BracketIsOdd' /\ StepDropsEstimates' /\ AcquiredInEpoch'
    BY <1>1, <1>4, <1>19 DEF Publish, BracketIsOdd, InBracket, StepDropsEstimates,
                             AcquiredInEpoch, Settled
  <2> QED BY <1>6, <1>19, <2>1 DEF Publish
<1>20. CASE StepBegin
  <2>1. \A s \in Source : ~est'[s].valid
    BY <1>4, <1>20 DEF StepBegin, StepDropsEstimates
  <2>2. StepDropsEstimates' /\ AcquiredInEpoch'
    BY <2>1 DEF StepDropsEstimates, AcquiredInEpoch
  <2>3. BracketIsOdd'
    BY <1>1, <1>2, <1>20 DEF StepBegin, BracketIsOdd, InBracket
  <2>4. gen' = gen \/ gen' = gen + 1
    BY <1>20 DEF StepBegin
  <2> QED BY <1>1, <1>6, <1>20, <2>2, <2>3, <2>4 DEF StepBegin
<1>21. CASE ClockStep
  <2>1. BracketIsOdd' /\ StepDropsEstimates' /\ ~Settled' /\ AcquiredInEpoch'
    BY <1>1, <1>4, <1>21 DEF ClockStep, BracketIsOdd, InBracket, StepDropsEstimates,
                             AcquiredInEpoch, Settled
  <2> QED BY <1>1, <1>6, <1>21, <2>1 DEF ClockStep
<1>22. CASE StepFinish
  <2>1. \A s \in Source : ~est'[s].valid
    BY <1>4, <1>22 DEF StepFinish, StepDropsEstimates
  <2>2. StepDropsEstimates' /\ AcquiredInEpoch'
    BY <2>1 DEF StepDropsEstimates, AcquiredInEpoch
  <2>3. BracketIsOdd'
    BY <1>1, <1>2, <1>22 DEF StepFinish, BracketIsOdd, InBracket
  <2> QED BY <1>1, <1>6, <1>22, <2>2, <2>3 DEF StepFinish
<1>23. CASE StepFailed
  <2>1. \A s \in Source : ~est'[s].valid
    BY <1>4, <1>23 DEF StepFailed, StepDropsEstimates
  <2>2. StepDropsEstimates' /\ AcquiredInEpoch'
    BY <2>1 DEF StepDropsEstimates, AcquiredInEpoch
  <2>3. BracketIsOdd'
    BY <1>1, <1>2, <1>23 DEF StepFailed, BracketIsOdd, InBracket
  <2> QED BY <1>1, <1>6, <1>23, <2>2, <2>3 DEF StepFailed
<1>24. CASE ResetDone
  <2>1. BracketIsOdd' /\ StepDropsEstimates' /\ AcquiredInEpoch'
    BY <1>1, <1>4, <1>24 DEF ResetDone, BracketIsOdd, InBracket, StepDropsEstimates,
                             AcquiredInEpoch, Settled
  <2> QED BY <1>6, <1>24, <2>1 DEF ResetDone
<1>25. ASSUME NEW s \in Source, LeapReset(s) \/ ResetFilter(s)
       PROVE  EpochInv'
  <2>1. UNCHANGED <<clockVars, eng, hand, verdict, est, engFrame>>
    BY <1>25 DEF LeapReset, ResetFilter
  <2>2. BracketIsOdd' /\ StepDropsEstimates' /\ AcquiredInEpoch'
    BY <1>1, <1>4, <2>1 DEF BracketIsOdd, InBracket, StepDropsEstimates,
                            AcquiredInEpoch, Settled
  <2> QED BY <1>6, <2>1, <2>2
<1> QED
  BY <1>8, <1>9, <1>10, <1>11, <1>12, <1>13, <1>14, <1>15, <1>17, <1>18, <1>19, <1>20, <1>21,
     <1>22, <1>23, <1>24, <1>25, Zenon DEF EngineNext

LEMMA NextInv ==
    ASSUME EpochInv, [Next]_vars
    PROVE  EpochInv'
<1>1. CASE UNCHANGED vars
  <2>1. TypeOK'
    BY <1>1, Zenon DEF EpochInv, TypeOK, vars, clockVars, engVars, srcVars
  <2> QED
    BY <1>1, <2>1, Zenon DEF EpochInv, BracketIsOdd, InBracket, StepDropsEstimates, SourceInv,
                      MessageInv, AcquiredInEpoch, Settled, vars, clockVars, engVars, srcVars
<1>2. CASE EngineNext \/ KernelLeap
  BY <1>2, EngineInv
<1>3. ASSUME NEW s \in NTPs, NTPNext(s) PROVE EpochInv'
  BY <1>3, NTPOwnStep, NTPInv, OwnStepInv DEF EpochInv, Source
<1>4. ASSUME NEW s \in PPSs, PPSNext(s) \/ PPSReopen(s) PROVE EpochInv'
  BY <1>4, PPSOwnStep, PPSInv, OwnStepInv DEF EpochInv, Source
<1>5. ASSUME NEW s \in NMEAs, NMEANext(s) \/ NMEAReopen(s) PROVE EpochInv'
  BY <1>5, NMEAOwnStep, NMEAInv, OwnStepInv DEF EpochInv, Source
<1> QED
  BY <1>1, <1>2, <1>3, <1>4, <1>5 DEF Next, Running, Halted

(* While the epoch is settled, every estimate the selector holds was       *)
(* acquired wholly after the last discontinuity, for every set of sources, *)
(* channel capacity and number of steps and leaps (pollOnce, accept and    *)
(* acceptLine stamp it; stale admits only the current settled epoch).      *)
THEOREM EpochSafety == Spec => []AcquiredInEpoch
<1>1. Init => EpochInv
  BY InitInv
<1>2. EpochInv /\ [Next]_vars => EpochInv'
  BY NextInv
<1>3. EpochInv => AcquiredInEpoch
  BY DEF EpochInv
<1> QED
  BY <1>1, <1>2, <1>3, PTL DEF Spec

=============================================================================
