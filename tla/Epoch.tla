-------------------------------- MODULE Epoch --------------------------------
(***************************************************************************)
(* The clock-epoch protocol: the engine, the measurement channel and NTP,  *)
(* PPS and NMEA sources, running concurrently over one system clock.       *)
(***************************************************************************)
EXTENDS EpochEngine, NTPSource, PPSSource, NMEASource

Init ==
    /\ gen = FirstEpoch /\ world = 1
    /\ armed = FALSE /\ leapDue = FALSE
    /\ eng = "idle" /\ ret = "tick" /\ todo = {} /\ verdict = "none"
    /\ \E s \in Source : hand = Empty(s, 0, FALSE)
    /\ est = [s \in Source |-> NoEstimate]
    /\ queue = <<>>
    /\ pc = [s \in Source |-> "idle"]
    /\ seen = [s \in Source |-> 0] /\ obs = [s \in Source |-> Torn]
    /\ out = [s \in Source |-> Empty(s, 0, FALSE)]
    /\ window = [s \in Source |-> <<>>] /\ used = [s \in Source |-> 0]
    /\ resetReq = [s \in Source |-> FALSE] /\ inval = [s \in Source |-> FALSE]
    /\ lineGen = [s \in Source |-> 0] /\ lineObs = [s \in Source |-> Torn]

(* A failed actuator or a refused panic ends Run; nothing moves after it. *)
Halted == eng = "halted" /\ UNCHANGED vars

Running ==
    \/ EngineNext
    \/ KernelLeap
    \/ \E s \in NTPs : NTPNext(s)
    \/ \E s \in PPSs : PPSNext(s) \/ PPSReopen(s)
    \/ \E s \in NMEAs : NMEANext(s) \/ NMEAReopen(s)

Next == (eng # "halted" /\ Running) \/ Halted

Spec == Init /\ [][Next]_vars

(***************************************************************************)
(* The engine's goroutine and the sources' are scheduled, and a source's   *)
(* wait for its device or its server is bounded by a timeout (Fetch,       *)
(* ReadTimeout, the exchange's deadline).  Go's select picks among ready   *)
(* cases at random, so a queued measurement is not passed over for ever,   *)
(* and blocked senders are served in order.  Nothing bounds reopen: a      *)
(* device that was unplugged need never come back.                         *)
(***************************************************************************)
Fairness ==
    /\ WF_vars(EngineNext)
    /\ SF_vars(Receive)
    /\ \A s \in NTPs : SF_vars(NTPNext(s))
    /\ \A s \in PPSs : SF_vars(PPSNext(s))
    /\ \A s \in NMEAs : SF_vars(NMEANext(s))

FairSpec == Spec /\ Fairness

-----------------------------------------------------------------------------

(* No discontinuity is executing or waiting to be noticed. *)
Settled == StableEpoch(gen) /\ ~leapDue

(***************************************************************************)
(* While the epoch is settled, every estimate the selector holds came from *)
(* an exchange (or edge, or arrival) taken wholly after the last           *)
(* discontinuity: what a source was holding, what was queued and what was  *)
(* started while the clock moved never reaches the discipline.             *)
(***************************************************************************)
AcquiredInEpoch ==
    Settled => \A s \in Source : est[s].valid => est[s].obs = world

(***************************************************************************)
(* ... and so did every sample the estimate's offset was computed from,    *)
(* the older ones a filter or window releases included.                    *)
(***************************************************************************)
OffsetInEpoch ==
    Settled => \A s \in Source : est[s].valid => est[s].rest \subseteq {world}

(***************************************************************************)
(* Once a source has taken up the reset that followed a discontinuity, the *)
(* samples its clock filter could still report are all on this side of it. *)
(* (A sample from the other side can remain, but only as already reported.)*)
(***************************************************************************)
UnreportedInEpoch ==
    Settled /\ eng # "reset" =>
        \A s \in NTPs : ~resetReq[s] =>
            \A i \in 1..Len(window[s]) : i > used[s] => window[s][i] = world

(***************************************************************************)
(* The same of the pulse window, every sample of which enters the median:  *)
(* the pulse that had passed discardStale's check when the discontinuity   *)
(* began is the only one of the other side that accept can add to it.      *)
(***************************************************************************)
OneStrayPulse ==
    Settled /\ eng # "reset" =>
        \A s \in PPSs : ~resetReq[s] =>
            \A i, j \in 1..Len(window[s]) :
                i # j => world \in {window[s][i], window[s][j]}

(***************************************************************************)
(* Source.Reset "asks the source to empty its clock filter before the next *)
(* sample is added": a sample that arrives while a request is pending is   *)
(* the only one in the window afterwards.                                  *)
(***************************************************************************)
ResetBeforeNextSample ==
    [][\A s \in Source :
         resetReq[s] /\ window'[s] # window[s] => Len(window'[s]) <= 1]_vars

(***************************************************************************)
(* A reset asked of a reference clock is taken up, however full the        *)
(* channel is and whatever the engine is busy with: neither side can wait  *)
(* on the other for ever.  The clock whose device is gone for good is the  *)
(* exception: reopen does not look at the request, so the device must come *)
(* back every time it is lost.                                             *)
(***************************************************************************)
ResetTakenUp ==
    \A s \in PPSs \cup NMEAs :
        []<>(pc[s] # "reopen") => (resetReq[s] ~> (~resetReq[s] \/ eng = "halted"))

=============================================================================
