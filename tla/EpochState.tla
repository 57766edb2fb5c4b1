----------------------------- MODULE EpochState -----------------------------
(***************************************************************************)
(* The state shared by the engine goroutine and the source goroutines in   *)
(* the clock-epoch protocol (internal/source/source.go, "Clock epochs").   *)
(*                                                                         *)
(* The engine publishes a counter, gen.  Even values are settled epochs;   *)
(* the counter is odd while a discontinuity (a clock step, or the source   *)
(* reset after a leap second) is executing.  Every source stamps what it   *)
(* emits with the value it read before it sampled.                         *)
(*                                                                         *)
(* world counts the discontinuities the system clock has really undergone. *)
(* No code reads it: it is the reference against which the observations    *)
(* that reach the discipline are judged.  An observation is represented by *)
(* the value of world while it was taken, or by Torn when a discontinuity  *)
(* fell between its two clock readings.                                    *)
(***************************************************************************)
EXTENDS Naturals, Sequences, FiniteSets

CONSTANTS
    NTPs, PPSs, NMEAs,  \* the configured sources, by kind
    QueueCap,           \* capacity of the measurement channel e.meas
    Stages,             \* samples a clock filter or pulse window holds
    StepEnabled,        \* FALSE for a configuration with [step] limit = 0
    MaxWorld            \* bound: discontinuities explored, plus one

Source == NTPs \cup PPSs \cup NMEAs
Torn == 0

ASSUME EpochConstants ==
    /\ NTPs \cap PPSs = {} /\ NTPs \cap NMEAs = {} /\ PPSs \cap NMEAs = {}
    /\ QueueCap \in Nat \ {0}
    /\ Stages \in Nat \ {0}
    /\ StepEnabled \in BOOLEAN
    /\ MaxWorld \in Nat \ {0}

VARIABLES
    gen,        \* Engine.gen
    world,      \* ghost: discontinuities of the system clock so far, plus one
    armed,      \* Engine.pendingLeap is set
    leapDue,    \* the kernel has applied it and the engine has not looked yet
    eng,        \* where the engine goroutine is
    ret,        \* where it resumes after a leap bracket
    hand,       \* the measurement it took off the channel
    todo,       \* sources it has still to Reset
    verdict,    \* what the discipline asked of the actuator
    est,        \* SourceState: the estimate the selector holds, per source
    queue,      \* e.meas
    pc, seen, obs, out,       \* per source: place, gen read, observation, message
    window, used,             \* per source: samples held, how many were reported
    resetReq, inval,          \* per source: resetRequested, pendingInvalidate
    lineGen, lineObs          \* NMEA: epoch and reading of the open sentence

clockVars == <<gen, world, armed, leapDue>>
engVars == <<eng, ret, hand, todo, verdict, est>>
srcVars == <<pc, seen, obs, out, window, used, inval, lineGen, lineObs>>
vars == <<clockVars, engVars, queue, srcVars, resetReq>>

FirstEpoch == 2
StableEpoch(g) == g # 0 /\ g % 2 = 0

(***************************************************************************)
(* discipline.Measurement, reduced to what the protocol is about.  obs is  *)
(* the observation of the exchange that produced it and rest the set of    *)
(* observations its offset was computed from.                              *)
(***************************************************************************)
Measurement == [src : Source, valid : BOOLEAN, invalidate : BOOLEAN,
                gen : Nat, obs : Nat, rest : SUBSET Nat]

Empty(s, g, inv) == [src |-> s, valid |-> FALSE, invalidate |-> inv,
                     gen |-> g, obs |-> Torn, rest |-> {}]
Valid(s, g, inv, o, r) == [src |-> s, valid |-> TRUE, invalidate |-> inv,
                           gen |-> g, obs |-> o, rest |-> r]

NoEstimate == [valid |-> FALSE, obs |-> Torn, rest |-> {}]

(* Shift x into a register of at most Stages samples, oldest first. *)
Shift(w, x) == IF Len(w) < Stages THEN Append(w, x) ELSE Append(Tail(w), x)

(* The send at the end of every source's emit: it blocks on a full channel. *)
Send(s) ==
    /\ Len(queue) < QueueCap
    /\ queue' = Append(queue, out[s])
    /\ out' = [out EXCEPT ![s] = Empty(s, 0, FALSE)]

(* A poll's local variables go out of scope once the sample is judged. *)
EndSample(s) ==
    /\ seen' = [seen EXCEPT ![s] = 0]
    /\ obs' = [obs EXCEPT ![s] = Torn]

-----------------------------------------------------------------------------

EngPlaces == {"idle", "stale", "tick", "request", "handle", "leap", "step", "stepped",
              "failed", "reset", "halted"}
SrcPlaces == {"idle", "top", "read", "sent", "replied", "hit", "nil", "emit",
              "tick", "denied", "lost", "losing", "reopen"}

(* The shape of the state: every variable holds what the code's types allow. *)
TypeOK ==
    /\ gen \in Nat
    /\ world \in Nat \ {0}
    /\ armed \in BOOLEAN /\ leapDue \in BOOLEAN
    /\ eng \in EngPlaces
    /\ ret \in {"stale", "tick", "request", "handle"}
    /\ hand \in Measurement
    /\ todo \in SUBSET Source
    /\ verdict \in {"none", "step", "panic"}
    /\ est \in [Source -> [valid : BOOLEAN, obs : Nat, rest : SUBSET Nat]]
    /\ queue \in Seq(Measurement) /\ Len(queue) <= QueueCap
    /\ pc \in [Source -> SrcPlaces]
    /\ seen \in [Source -> Nat] /\ obs \in [Source -> Nat]
    /\ out \in [Source -> Measurement]
    /\ window \in [Source -> Seq(Nat)] /\ used \in [Source -> Nat]
    /\ resetReq \in [Source -> BOOLEAN] /\ inval \in [Source -> BOOLEAN]
    /\ lineGen \in [Source -> Nat] /\ lineObs \in [Source -> Nat]

=============================================================================
