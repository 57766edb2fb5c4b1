----------------------------- MODULE EpochEngine -----------------------------
(***************************************************************************)
(* The engine goroutine's side of the clock-epoch protocol                 *)
(* (internal/engine/engine.go): it judges what comes off the channel,      *)
(* brackets a clock step and a leap transition with an odd epoch, and asks *)
(* every source to reset.  Selection and the loop are left open here: any  *)
(* valid estimate may drive the clock and any of them may ask for a step.  *)
(* The requests are the leap worker's; those of a source that has stopped  *)
(* are in SourceLifecycle.                                                 *)
(***************************************************************************)
EXTENDS EpochState

engFrame == <<queue, srcVars>>

(* The kernel applies the announced leap second. *)
KernelLeap ==
    /\ armed /\ ~leapDue
    /\ eng # "halted"
    /\ world < MaxWorld
    /\ world' = world + 1
    /\ leapDue' = TRUE
    /\ UNCHANGED <<gen, armed, engVars, engFrame, resetReq>>

(* Run's select takes a measurement; stale comes first. *)
Receive ==
    /\ eng = "idle"
    /\ queue # <<>>
    /\ hand' = Head(queue)
    /\ queue' = Tail(queue)
    /\ eng' = "stale"
    /\ UNCHANGED <<clockVars, ret, todo, verdict, est, srcVars, resetReq>>

(* Run's select takes the ticker instead. *)
Tick ==
    /\ eng = "idle"
    /\ eng' = "tick"
    /\ UNCHANGED <<clockVars, ret, hand, todo, verdict, est, engFrame, resetReq>>

(* Run's select takes a request of the leap worker instead. *)
Request ==
    /\ eng = "idle"
    /\ eng' = "request"
    /\ UNCHANGED <<clockVars, ret, hand, todo, verdict, est, engFrame, resetReq>>

(* crossLeap, called by stale, by the tick, by a request and again by       *)
(* handle.  When the boundary has passed it opens the bracket ...           *)
CrossLeap ==
    /\ eng \in {"stale", "tick", "request", "handle"}
    /\ leapDue
    /\ gen' = gen + 1
    /\ armed' = FALSE /\ leapDue' = FALSE
    /\ todo' = Source
    /\ ret' = eng /\ eng' = "leap"
    /\ UNCHANGED <<world, hand, verdict, est, engFrame, resetReq>>

(* Mutant: the leap bracket leaves the sources' filters alone. *)
LeapSkipsReset(s) ==
    /\ eng = "leap"
    /\ s \in todo
    /\ todo' = todo \ {s}
    /\ UNCHANGED <<clockVars, eng, ret, hand, verdict, est, engFrame, resetReq>>

(* ... resets every source inside it ... *)
LeapReset(s) ==
    /\ eng = "leap"
    /\ s \in todo
    /\ todo' = todo \ {s}
    /\ resetReq' = [resetReq EXCEPT ![s] = TRUE]
    /\ UNCHANGED <<clockVars, eng, ret, hand, verdict, est, engFrame>>

(* ... closes it and drops every estimate (System.Resync). *)
LeapClose ==
    /\ eng = "leap"
    /\ todo = {}
    /\ gen' = gen + 1
    /\ est' = [s \in Source |-> NoEstimate]
    /\ eng' = ret /\ ret' = "tick"
    /\ UNCHANGED <<world, armed, leapDue, hand, todo, verdict, engFrame, resetReq>>

(* Mutant: only an epoch ahead of the engine's own is refused. *)
StaleIfAhead(m) == m.gen > gen \/ ~StableEpoch(gen)

(* stale: exactly the current settled epoch is admitted. *)
Stale(m) == ~(m.gen = gen /\ StableEpoch(gen))

(* SourceState.apply. *)
Apply(m) ==
    [est EXCEPT ![m.src] =
        IF m.valid THEN [valid |-> TRUE, obs |-> m.obs, rest |-> m.rest]
        ELSE IF m.invalidate THEN NoEstimate
        ELSE @]

(* The discipline's answer to the estimates e: nothing, a refusal that ends  *)
(* the run, or a step, which invalidates every estimate at once.           *)
Decide(e) ==
    \/ /\ verdict' = "none"
       /\ est' = e
    \/ /\ \E s \in Source : e[s].valid
       /\ \/ /\ verdict' = "panic"
             /\ est' = e
          \/ /\ verdict' = "step"
             /\ StepEnabled /\ world < MaxWorld
             /\ est' = [s \in Source |-> NoEstimate]

Discard ==
    /\ eng = "stale" /\ ~leapDue
    /\ Stale(hand)
    /\ hand' = Empty(hand.src, 0, FALSE)
    /\ eng' = "idle"
    /\ UNCHANGED <<clockVars, ret, todo, verdict, est, engFrame, resetReq>>

Admit ==
    /\ eng = "stale" /\ ~leapDue
    /\ ~Stale(hand)
    /\ Decide(Apply(hand))
    /\ hand' = Empty(hand.src, 0, FALSE)
    /\ eng' = "handle"
    /\ UNCHANGED <<clockVars, ret, todo, engFrame, resetReq>>

(* System.Tick reselects: another source's estimate may take over. *)
TickUpdate ==
    /\ eng = "tick" /\ ~leapDue
    /\ Decide(est)
    /\ eng' = "handle"
    /\ UNCHANGED <<clockVars, ret, hand, todo, engFrame, resetReq>>

(* The rest of a request: checkLeap's applyLeap may arm a leap; the answer  *)
(* is sent, or a table is activated, which ends in handle.                 *)
RequestLeap ==
    /\ eng = "request" /\ ~leapDue
    /\ \/ UNCHANGED armed
       \/ armed' = TRUE
    /\ eng' \in {"idle", "handle"}
    /\ UNCHANGED <<gen, world, leapDue, ret, hand, todo, verdict, est, engFrame, resetReq>>

(* handle without a step: applyLeap may arm a leap and the status is       *)
(* published; a panic refusal or an actuator failure ends the run.         *)
Publish ==
    /\ eng = "handle" /\ ~leapDue
    /\ verdict # "step"
    /\ \/ UNCHANGED armed
       \/ armed' = TRUE
    /\ \/ verdict # "panic" /\ eng' = "idle"
       \/ eng' = "halted"
    /\ verdict' = "none"
    /\ UNCHANGED <<gen, world, leapDue, ret, hand, todo, est, engFrame, resetReq>>

(* handle, ActionStep: beginEpochChange, unless the amount is refused first. *)
StepBegin ==
    /\ eng = "handle" /\ ~leapDue
    /\ verdict = "step"
    /\ \/ gen' = gen + 1 /\ eng' = "step"
       \/ gen' = gen /\ eng' = "halted"
    /\ verdict' = "none"
    /\ UNCHANGED <<world, armed, leapDue, ret, hand, todo, est, engFrame, resetReq>>

(* clk.Step moves the clock, or the kernel refuses. *)
ClockStep ==
    /\ eng = "step"
    /\ \/ /\ eng' = "stepped"
          /\ world' = world + 1
       \/ /\ eng' = "failed"
          /\ UNCHANGED world
    /\ UNCHANGED <<gen, armed, leapDue, ret, hand, todo, verdict, est, engFrame, resetReq>>

(* finish, and the leap bookkeeping that follows at once: the reference    *)
(* reading is replaced, so a boundary the step passed is never "crossed".  *)
StepFinish ==
    /\ eng = "stepped"
    /\ gen' = gen + 1
    /\ leapDue' = FALSE
    /\ \/ armed' = FALSE
       \/ UNCHANGED armed
    /\ todo' = Source
    /\ eng' = "reset"
    /\ UNCHANGED <<world, ret, hand, verdict, est, engFrame, resetReq>>

(* A refused step completes its bracket too, and ends the run. *)
StepFailed ==
    /\ eng = "failed"
    /\ gen' = gen + 1
    /\ eng' = "halted"
    /\ UNCHANGED <<world, armed, leapDue, ret, hand, todo, verdict, est, engFrame, resetReq>>

(* ActionResetFilters, one source at a time, then the rest of handle. *)
ResetFilter(s) ==
    /\ eng = "reset"
    /\ s \in todo
    /\ todo' = todo \ {s}
    /\ resetReq' = [resetReq EXCEPT ![s] = TRUE]
    /\ UNCHANGED <<clockVars, eng, ret, hand, verdict, est, engFrame>>

ResetDone ==
    /\ eng = "reset"
    /\ todo = {}
    /\ \/ UNCHANGED armed
       \/ armed' = TRUE
    /\ eng' \in {"idle", "halted"}
    /\ UNCHANGED <<gen, world, leapDue, ret, hand, todo, verdict, est, engFrame, resetReq>>

EngineNext ==
    \/ Receive \/ Tick \/ Request \/ CrossLeap \/ LeapClose \/ Discard \/ Admit \/ TickUpdate
    \/ RequestLeap \/ Publish \/ StepBegin \/ ClockStep \/ StepFinish \/ StepFailed \/ ResetDone
    \/ \E s \in Source : LeapReset(s) \/ ResetFilter(s)

=============================================================================
