-------------------------- MODULE SourceLifecycle --------------------------
(***************************************************************************)
(* Stopping, restarting and shutting down sources (internal/engine,        *)
(* runSource, sourceStopped, dropQueued, sourceRestarting, stale, Run).    *)
(* Measurements and lifecycle requests reach the engine on two channels    *)
(* that it selects from, so their relative order is not the order in which *)
(* a source produced them.  The clock epoch is the subject of Epoch; here  *)
(* a measurement may be outside it at any time.                            *)
(***************************************************************************)
EXTENDS Naturals, Sequences

CONSTANTS
    Sources,
    MeasCap,        \* capacity of e.meas
    ReqCap,         \* capacity of e.reqs
    MaxRuns         \* bound: runs of one source

ASSUME LifecycleConstants ==
    /\ MeasCap \in Nat \ {0} /\ ReqCap \in Nat \ {0}
    /\ MaxRuns \in Nat \ {0}

VARIABLES
    pc,         \* where each source's goroutine is in runSource
    run,        \* which of its runs each source is in
    meas,       \* e.meas
    reqs,       \* e.reqs
    eng,        \* where the engine goroutine is
    who,        \* the stop request being handled
    n,          \* dropQueued: receives left
    keep,       \* dropQueued: the others' measurements
    err,        \* e.sourceErrors is set
    restarting, \* e.restarting
    est,        \* the run whose estimate the selector holds, 0 for none
    cancelled,  \* the run's context
    stopped,    \* ghost: the last run whose stop was handled
    alive       \* ghost: the run that delivered the last admitted measurement

source == <<pc, run>>
engine == <<eng, who, n, keep, err, restarting, est, stopped, alive>>
vars == <<source, meas, reqs, engine, cancelled>>

Measurement ==
    [source : Sources, run : 1..MaxRuns, valid : BOOLEAN]
Request == [kind : {"stop", "restart"}, source : Sources, run : 1..MaxRuns]

Init ==
    /\ pc = [s \in Sources |-> "run"]
    /\ run = [s \in Sources |-> 1]
    /\ meas = <<>> /\ reqs = <<>>
    /\ eng = "select"
    /\ who \in [kind : {"stop"}, source : Sources, run : {1}]
    /\ n = 0 /\ keep = <<>>
    /\ err = [s \in Sources |-> FALSE]
    /\ restarting = [s \in Sources |-> FALSE]
    /\ est = [s \in Sources |-> 0]
    /\ cancelled = FALSE
    /\ stopped = [s \in Sources |-> 0]
    /\ alive = [s \in Sources |-> 0]

-----------------------------------------------------------------------------
(* The source's goroutine. *)

(* Run sends a measurement, with an estimate or invalidating it, once the  *)
(* channel has room.                                                       *)
Send(s) ==
    /\ pc[s] = "run"
    /\ Len(meas) < MeasCap
    /\ \E valid \in BOOLEAN :
           meas' = Append(meas, [source |-> s, run |-> run[s], valid |-> valid])
    /\ UNCHANGED <<pc, run, reqs, engine, cancelled>>

(* Run returns, of itself or because it was cancelled. *)
Return(s) ==
    /\ pc[s] = "run"
    /\ \/ cancelled /\ pc' = [pc EXCEPT ![s] = "gone"]
       \/ ~cancelled /\ run[s] < MaxRuns /\ pc' = [pc EXCEPT ![s] = "stopped"]
    /\ UNCHANGED <<run, meas, reqs, engine, cancelled>>

(* request: hand the engine a request, or give up when shutting down. *)
Ask(s, kind, then) ==
    \/ /\ Len(reqs) < ReqCap
       /\ reqs' = Append(reqs, [kind |-> kind, source |-> s, run |-> run[s]])
       /\ then
    \/ /\ cancelled
       /\ pc' = [pc EXCEPT ![s] = "gone"]
       /\ UNCHANGED <<run, reqs>>

AskStop(s) ==
    /\ pc[s] = "stopped"
    /\ Ask(s, "stop", pc' = [pc EXCEPT ![s] = "delay"] /\ UNCHANGED run)
    /\ UNCHANGED <<meas, engine, cancelled>>

(* The backoff timer fires or the context ends. *)
Delay(s) ==
    /\ pc[s] = "delay"
    /\ \/ pc' = [pc EXCEPT ![s] = "restart"]
       \/ cancelled /\ pc' = [pc EXCEPT ![s] = "gone"]
    /\ UNCHANGED <<run, meas, reqs, engine, cancelled>>

(* Mutant: the goroutine ends instead of entering Run again. *)
AskRestartOnce(s) ==
    /\ pc[s] = "restart"
    /\ Ask(s, "restart", pc' = [pc EXCEPT ![s] = "gone"] /\ UNCHANGED run)
    /\ UNCHANGED <<meas, engine, cancelled>>

AskRestart(s) ==
    /\ pc[s] = "restart"
    /\ Ask(s, "restart", /\ pc' = [pc EXCEPT ![s] = "run"]
                         /\ run' = [run EXCEPT ![s] = @ + 1])
    /\ UNCHANGED <<meas, engine, cancelled>>

-----------------------------------------------------------------------------
(* The engine's goroutine. *)

(* handle may meet a fatal actuator error, which leaves the loop. *)
Handled == eng' \in {"select", "leave"}

(* A measurement off the channel: stale drops one from a stopped source    *)
(* that has not announced its restart, or from another clock epoch;        *)
(* otherwise noteSourceAlive clears the failure and Update applies it.     *)
Consume ==
    /\ eng = "select" /\ meas # <<>>
    /\ meas' = Tail(meas)
    /\ LET m == Head(meas)
           s == m.source
       IN  \/ /\ eng' = "select"
              /\ UNCHANGED <<err, restarting, est, alive>>
           \/ /\ ~err[s] \/ restarting[s]
              /\ restarting' = [restarting EXCEPT ![s] = FALSE]
              /\ err' = [err EXCEPT ![s] = @ /\ ~restarting[s]]
              /\ est' = [est EXCEPT ![s] = IF m.valid THEN m.run ELSE 0]
              /\ alive' = [alive EXCEPT ![s] = m.run]
              /\ Handled
    /\ UNCHANGED <<source, reqs, who, n, keep, stopped, cancelled>>

(* Mutant: sourceStopped leaves the stopped run's measurements queued. *)
StopKeepsQueue ==
    /\ eng = "select" /\ reqs # <<>> /\ Head(reqs).kind = "stop"
    /\ who' = Head(reqs)
    /\ reqs' = Tail(reqs)
    /\ err' = [err EXCEPT ![who'.source] = TRUE]
    /\ n' = 0 /\ keep' = <<>>
    /\ eng' = "refill"
    /\ UNCHANGED <<source, meas, restarting, est, stopped, alive, cancelled>>

(* sourceStopped records the failure and dropQueued reads len(e.meas). *)
Stop ==
    /\ eng = "select" /\ reqs # <<>> /\ Head(reqs).kind = "stop"
    /\ who' = Head(reqs)
    /\ reqs' = Tail(reqs)
    /\ err' = [err EXCEPT ![who'.source] = TRUE]
    /\ n' = Len(meas) /\ keep' = <<>>
    /\ eng' = "drain"
    /\ UNCHANGED <<source, meas, restarting, est, stopped, alive, cancelled>>

(* dropQueued's first loop: one receive, while the others go on sending. *)
DrainOne ==
    /\ eng = "drain"
    /\ IF n = 0 \/ meas = <<>>
       THEN eng' = "refill" /\ n' = 0 /\ UNCHANGED <<meas, keep>>
       ELSE /\ n' = n - 1
            /\ meas' = Tail(meas)
            /\ keep' = IF Head(meas).source = who.source THEN keep ELSE Append(keep, Head(meas))
            /\ UNCHANGED eng
    /\ UNCHANGED <<source, reqs, who, err, restarting, est, stopped, alive, cancelled>>

(* dropQueued's second loop: put one back, or drop it if there is no room. *)
RefillOne ==
    /\ eng = "refill" /\ keep # <<>>
    /\ keep' = Tail(keep)
    /\ meas' = IF Len(meas) < MeasCap THEN Append(meas, Head(keep)) ELSE meas
    /\ UNCHANGED <<source, reqs, eng, who, n, err, restarting, est, stopped, alive, cancelled>>

(* The rest of sourceStopped: the estimate is revoked. *)
Revoke ==
    /\ eng = "refill" /\ keep = <<>>
    /\ est' = [est EXCEPT ![who.source] = 0]
    /\ stopped' = [stopped EXCEPT ![who.source] = who.run]
    /\ Handled
    /\ UNCHANGED <<source, meas, reqs, who, n, keep, err, restarting, alive, cancelled>>

(* Mutant: the failure is cleared by the intention to restart. *)
RestartClears ==
    /\ eng = "select" /\ reqs # <<>> /\ Head(reqs).kind = "restart"
    /\ reqs' = Tail(reqs)
    /\ err' = [err EXCEPT ![Head(reqs).source] = FALSE]
    /\ restarting' = [restarting EXCEPT ![Head(reqs).source] = TRUE]
    /\ UNCHANGED <<source, meas, eng, who, n, keep, est, stopped, alive, cancelled>>

(* sourceRestarting. *)
Restarting ==
    /\ eng = "select" /\ reqs # <<>> /\ Head(reqs).kind = "restart"
    /\ reqs' = Tail(reqs)
    /\ restarting' = [restarting EXCEPT ![Head(reqs).source] = TRUE]
    /\ UNCHANGED <<source, meas, eng, who, n, keep, err, est, stopped, alive, cancelled>>

(* The daemon is told to stop; Run's context is derived from that one. *)
Cancel ==
    /\ ~cancelled
    /\ cancelled' = TRUE
    /\ UNCHANGED <<source, meas, reqs, engine>>

(* The loop ends on the context or a fatal error, and cancels the sources. *)
Leave ==
    /\ (eng = "select" /\ cancelled) \/ eng = "leave"
    /\ eng' = "wait"
    /\ cancelled' = TRUE
    /\ UNCHANGED <<source, meas, reqs, who, n, keep, err, restarting, est, stopped, alive>>

(* Mutant: Run waits for its sources however long they take. *)
DrainSourcesForever ==
    /\ eng = "wait"
    /\ \A s \in Sources : pc[s] = "gone"
    /\ eng' = "down"
    /\ UNCHANGED <<source, meas, reqs, who, n, keep, err, restarting, est, stopped, alive, cancelled>>

(* drainSources returns when every source is gone, or at its deadline. *)
DrainSources ==
    /\ eng = "wait"
    /\ eng' = "down"
    /\ UNCHANGED <<source, meas, reqs, who, n, keep, err, restarting, est, stopped, alive, cancelled>>

DropQueued == DrainOne \/ RefillOne \/ Revoke
TakeRequest == Stop \/ Restarting
AskRequest(s) == AskStop(s) \/ AskRestart(s)

Next ==
    \/ \E s \in Sources : Send(s) \/ Return(s) \/ AskStop(s) \/ Delay(s) \/ AskRestart(s)
    \/ Consume \/ Stop \/ Restarting
    \/ DrainOne \/ RefillOne \/ Revoke
    \/ Cancel \/ Leave \/ DrainSources

Spec == Init /\ [][Next]_vars

(***************************************************************************)
(* Go's select picks each ready case with positive probability, and a      *)
(* sender blocked on a channel is served in turn: strong fairness.  That   *)
(* measurements are consumed is not needed.  Run itself owes nothing: it   *)
(* may neither send nor return, even cancelled.                            *)
(***************************************************************************)
Fairness ==
    /\ WF_vars(DropQueued) /\ WF_vars(DrainSources)
    /\ SF_vars(TakeRequest) /\ SF_vars(Leave)
    /\ \A s \in Sources : WF_vars(Delay(s)) /\ SF_vars(AskRequest(s))

FairSpec == Spec /\ Fairness

-----------------------------------------------------------------------------

(* The channels stay within their capacities; so does dropQueued's hoard. *)
TypeOK ==
    /\ pc \in [Sources -> {"run", "stopped", "delay", "restart", "gone"}]
    /\ run \in [Sources -> 1..MaxRuns]
    /\ meas \in Seq(Measurement) /\ Len(meas) <= MeasCap
    /\ reqs \in Seq(Request) /\ Len(reqs) <= ReqCap
    /\ eng \in {"select", "drain", "refill", "leave", "wait", "down"}
    /\ who \in Request
    /\ n \in 0..MeasCap
    /\ keep \in Seq(Measurement) /\ Len(keep) + n <= MeasCap
    /\ err \in [Sources -> BOOLEAN] /\ restarting \in [Sources -> BOOLEAN]
    /\ est \in [Sources -> 0..MaxRuns]
    /\ cancelled \in BOOLEAN
    /\ stopped \in [Sources -> 0..MaxRuns] /\ alive \in [Sources -> 0..MaxRuns]

(* Once sourceStopped has handled the end of a run, no measurement of that *)
(* run or an earlier one revives the source: an estimate the selector      *)
(* holds is a later run's, however the two channels were interleaved.      *)
StoppedStaysDown == \A s \in Sources : est[s] # 0 => est[s] > stopped[s]

(* A recorded failure "is cleared when the restarted run actually delivers *)
(* something": a source that has stopped and shows no error has had a      *)
(* measurement of a later run admitted.                                    *)
ClearedByEvidence ==
    \A s \in Sources : ~err[s] /\ stopped[s] # 0 => alive[s] > stopped[s]

(* A source whose goroutine exits is "retried with backoff": it runs again *)
(* unless the daemon is shutting down.                                     *)
StoppedRestarts ==
    \A s \in Sources : pc[s] = "stopped" ~> (pc[s] = "run" \/ cancelled)

(* Shutdown is bounded: once cancelled or failed, the engine's Run returns *)
(* whatever the sources do.                                                *)
ShutdownCompletes == cancelled ~> eng = "down"

=============================================================================
