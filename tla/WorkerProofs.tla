---------------------------- MODULE WorkerProofs ----------------------------
(***************************************************************************)
(* The goroutines a daemon keeps working in the background.  The sources:  *)
(* their state is well typed, a stopped run never revives its source and   *)
(* only evidence clears a failure, for any number of sources, channel      *)
(* capacities and runs.  The distributor's listeners: they spend no more   *)
(* than its budgets, for any peers and any arrivals.                       *)
(***************************************************************************)
EXTENDS SourceLifecycle, Distributor, TLAPS

-----------------------------------------------------------------------------
(* The distributor's budgets.  A word never runs ahead of the clock by     *)
(* more than the burst, and it has moved by an interval for every request  *)
(* it allowed; a listener about to swap has found room for its request.    *)

DistCall == [at : {"load", "swap"}, b : Budgets, now : Nat, tries : Nat, old : Nat]

Room(b) == BurstOf(b) * PaceOf(b)

Ready(c) == c.now <= clock /\ (c.at = "swap" => ~Over(c, c.old))

DistInv ==
    /\ clock \in Nat /\ end \in [Budgets -> Nat]
    /\ call \in [Listeners -> DistCall \cup {Idle}]
    /\ spent \in [Budgets -> Seq(Nat)]
    /\ \A l \in Listeners : call[l] # Idle => Ready(call[l])
    /\ \A b \in Budgets : /\ Len(spent[b]) * PaceOf(b) <= end[b]
                          /\ end[b] <= clock + Room(b)

LEMMA BudgetTypes ==
    ASSUME NEW b PROVE PaceOf(b) \in Nat /\ BurstOf(b) \in Nat /\ Room(b) \in Nat
<1>1. PaceOf(b) \in Nat /\ BurstOf(b) \in Nat
  BY DistributorConstants DEF PaceOf, BurstOf
<1>. QED  BY <1>1 DEF Room

LEMMA IdleIsNoCall == Idle \notin DistCall
BY DEF Idle, DistCall

(* One call changes; the words it does not touch stay in bounds. *)
LEMMA CallStep ==
    ASSUME DistInv, NEW l \in Listeners, NEW c \in DistCall \cup {Idle},
           call' = [call EXCEPT ![l] = c], c # Idle => Ready(c),
           UNCHANGED <<clock, end, spent>>
    PROVE  DistInv'
<1>1. call' \in [Listeners -> DistCall \cup {Idle}]
  BY DEF DistInv
<1>2. \A m \in Listeners : call'[m] # Idle => Ready(call'[m])
  BY DEF DistInv
<1>. QED  BY <1>1, <1>2 DEF DistInv, Ready

LEMMA ClockTicksStep == ASSUME DistInv, ClockTicks PROVE DistInv'
<1>1. /\ clock' = clock + 1 /\ clock \in Nat
      /\ end' = end /\ call' = call /\ spent' = spent
  BY DEF ClockTicks, DistInv
<1>2. ASSUME NEW l \in Listeners, call[l] # Idle PROVE Ready(call[l])'
  <2>1. call[l] \in DistCall /\ Ready(call[l])
    BY <1>2 DEF DistInv
  <2>. QED  BY <1>1, <2>1 DEF Ready, DistCall
<1>3. ASSUME NEW b \in Budgets PROVE end[b] <= clock + 1 + Room(b)
  BY <1>1, <1>3, BudgetTypes DEF DistInv
<1>. QED  BY <1>1, <1>2, <1>3 DEF DistInv

LEMMA RespondStep == ASSUME DistInv, NEW l \in Listeners, Respond(l) PROVE DistInv'
<1>1. PICK k \in ExportKeys :
          call' = [call EXCEPT ![l] = [at |-> "load", b |-> k, now |-> clock,
                                       tries |-> 0, old |-> 0]]
  BY DEF Respond
<1>. DEFINE c == [at |-> "load", b |-> k, now |-> clock, tries |-> 0, old |-> 0]
<1>2. c \in DistCall /\ Ready(c)
  BY DEF DistCall, Budgets, Ready, DistInv
<1>. HIDE DEF c
<1>. QED  BY <1>1, <1>2, CallStep DEF Respond, c

LEMMA LoadStep == ASSUME DistInv, NEW l \in Listeners, Load(l) PROVE DistInv'
<1>. DEFINE c == call[l]
            d == [c EXCEPT !.at = "swap", !.old = end[c.b]]
<1>1. c \in DistCall /\ Ready(c)
  BY DEF Load, DistInv, Idle
<1>2. call' = [call EXCEPT ![l] = IF Over(c, end[c.b]) THEN Idle ELSE d]
  BY DEF Load
<1>3. end[c.b] \in Nat
  BY <1>1 DEF DistInv, DistCall
<1>4. d \in DistCall /\ d.now = c.now /\ d.b = c.b /\ d.old = end[c.b]
  BY <1>1, <1>3 DEF DistCall
<1>5. ~Over(c, end[c.b]) => Ready(d)
  BY <1>1, <1>4 DEF Ready, Over, NextEnd
<1>. HIDE DEF c, d
<1>. QED  BY <1>2, <1>4, <1>5, CallStep DEF Load

(* The swap that succeeds: the word moves by an interval. *)
LEMMA AllowedStep ==
    ASSUME DistInv, NEW l \in Listeners, call[l].at = "swap",
           end[call[l].b] = call[l].old, Allowed(l), clock' = clock
    PROVE  DistInv'
<1>. DEFINE c == call[l]
            p == PaceOf(c.b)
            e == NextEnd(c, c.old)
            d == IF c.b = Global THEN Idle
                 ELSE [c EXCEPT !.at = "load", !.b = Global, !.tries = 0, !.old = 0]
<1>1. c \in DistCall /\ c.now <= clock /\ ~Over(c, c.old)
  BY DEF DistInv, Idle, Ready
<1>2. /\ c.b \in Budgets /\ c.now \in Nat /\ c.old \in Nat /\ p \in Nat
      /\ Room(c.b) \in Nat
  BY <1>1, BudgetTypes DEF DistCall
<1>3. end' = [end EXCEPT ![c.b] = e] /\ spent' = [spent EXCEPT ![c.b] = Append(@, c.now)]
  BY DEF Allowed
<1>4. call' = [call EXCEPT ![l] = d]
  BY DEF Allowed
<1>5. e \in Nat /\ c.old + p <= e /\ e <= c.now + Room(c.b)
  <2>1. e = LaterOf(c.old, c.now) + p /\ e - c.now <= Room(c.b)
    BY <1>1, <1>2 DEF NextEnd, Over, Room, LaterOf
  <2>. HIDE DEF e, p, c
  <2>. QED  BY <1>2, <2>1 DEF LaterOf
<1>6. d # Idle => d \in DistCall /\ Ready(d)
  BY <1>1 DEF DistCall, Ready, Budgets
<1>7. call' \in [Listeners -> DistCall \cup {Idle}]
  BY <1>4, <1>6 DEF DistInv
<1>8. \A m \in Listeners : call'[m] # Idle => Ready(call'[m])
  <2>. HIDE DEF d
  <2>. QED  BY <1>4, <1>6 DEF DistInv
<1>9. Len(spent'[c.b]) = Len(spent[c.b]) + 1 /\ Len(spent[c.b]) \in Nat
  BY <1>2, <1>3 DEF DistInv
<1>10. (Len(spent[c.b]) + 1) * p = Len(spent[c.b]) * p + p
  BY <1>2, <1>9
<1>11. end[c.b] = c.old /\ Len(spent[c.b]) * p <= c.old
  BY <1>2 DEF DistInv
<1>12. Len(spent'[c.b]) * p <= end'[c.b]
  <2>. DEFINE k == Len(spent[c.b]) * p
  <2>1. end'[c.b] = e
    BY <1>2, <1>3 DEF DistInv
  <2>2. k \in Nat
    BY <1>2, <1>9
  <2>3. k <= c.old
    BY <1>11
  <2>4. Len(spent'[c.b]) * p = k + p
    BY <1>9, <1>10
  <2>. HIDE DEF e, p, c, k
  <2>. QED  BY <1>2, <1>5, <2>1, <2>2, <2>3, <2>4
<1>13. end'[c.b] <= clock + Room(c.b)
  <2>1. end'[c.b] = e /\ clock \in Nat
    BY <1>2, <1>3 DEF DistInv
  <2>. HIDE DEF e, p, c
  <2>. QED  BY <1>1, <1>2, <1>5, <2>1
<1>14. end' \in [Budgets -> Nat] /\ spent' \in [Budgets -> Seq(Nat)]
  BY <1>2, <1>3, <1>5 DEF DistInv
<1>15. \A b \in Budgets : b # c.b => end'[b] = end[b] /\ spent'[b] = spent[b]
  BY <1>3 DEF DistInv
<1>. HIDE DEF c, e, d
<1>16. \A b \in Budgets : Len(spent'[b]) * PaceOf(b) <= end'[b] /\ end'[b] <= clock + Room(b)
  BY <1>12, <1>13, <1>15 DEF DistInv
<1>. HIDE DEF p
<1>17. clock' \in Nat
  BY DEF DistInv
<1>. QED  BY <1>7, <1>8, <1>14, <1>16, <1>17 DEF DistInv, Ready

LEMMA SwapStep == ASSUME DistInv, NEW l \in Listeners, Swap(l) PROVE DistInv'
<1>. DEFINE c == call[l]
            tries == c.tries + 1
            d == [c EXCEPT !.at = "load", !.tries = tries, !.old = 0]
<1>1. CASE end[c.b] = c.old
  BY <1>1, AllowedStep DEF Swap
<1>2. CASE end[c.b] # c.old
  <2>1. call' = [call EXCEPT ![l] = IF tries = MaxTries THEN Idle ELSE d]
    BY <1>2 DEF Swap
  <2>2. c \in DistCall /\ Ready(c)
    BY DEF Swap, DistInv, Idle
  <2>3. d \in DistCall /\ d.at = "load" /\ d.now = c.now
    <3>1. tries \in Nat
      BY <2>2 DEF DistCall
    <3>. HIDE DEF tries, c
    <3>. QED  BY <2>2, <3>1 DEF DistCall
  <2>4. Ready(d)
    BY <2>2, <2>3 DEF Ready
  <2>5. UNCHANGED <<clock, end, spent>>
    BY <1>2 DEF Swap
  <2>. HIDE DEF c, d
  <2>. QED  BY <2>1, <2>3, <2>4, <2>5, CallStep
<1>. QED  BY <1>1, <1>2

LEMMA DistInitial == DistInit => DistInv
<1>. SUFFICES ASSUME DistInit PROVE DistInv
  OBVIOUS
<1>1. \A b \in Budgets : Len(spent[b]) = 0 /\ end[b] = 0
  BY DEF DistInit
<1>. QED  BY <1>1, BudgetTypes DEF DistInit, DistInv

LEMMA DistInvariant == DistSpec => []DistInv
<1>1. DistInv /\ [DistNext]_distVars => DistInv'
  <2>. SUFFICES ASSUME DistInv, [DistNext]_distVars PROVE DistInv'
    OBVIOUS
  <2>1. CASE UNCHANGED distVars
    BY <2>1 DEF distVars, DistInv, Ready
  <2>. QED  BY <2>1, ClockTicksStep, RespondStep, LoadStep, SwapStep DEF DistNext
<1>. QED  BY <1>1, DistInitial, PTL DEF DistSpec

(* However many listeners spend from a budget, and however late each comes *)
(* with the reading it took, budget.allow grants no more than the burst    *)
(* and one request per interval.                                           *)
THEOREM BudgetIsKept == DistSpec => []BudgetKept
<1>1. DistInv => BudgetKept
  <2>. SUFFICES ASSUME DistInv, NEW b \in Budgets
                PROVE  Len(spent[b]) * PaceOf(b) <= clock + Room(b)
    BY DEF BudgetKept, Room
  <2>1. Len(spent[b]) * PaceOf(b) \in Nat
    BY BudgetTypes DEF DistInv
  <2>. QED  BY <2>1, BudgetTypes DEF DistInv
<1>. QED  BY <1>1, DistInvariant, PTL

-----------------------------------------------------------------------------
(* The source lifecycle: the inductive invariant. *)

(* The goroutine of s is past its run r: it sends nothing more of it. *)
Past(s, r) == run[s] > r \/ (run[s] = r /\ pc[s] \in {"delay", "restart", "gone"})

(* A run that ends is not the last one. *)
RunsLeft == \A s \in Sources : pc[s] \in {"stopped", "delay", "restart"} => run[s] < MaxRuns

(* A stop that was asked for or handled is of a run that is past, *)
StopsArePast ==
    /\ \A s \in Sources : Past(s, stopped[s])
    /\ \A i \in 1..Len(reqs) : reqs[i].kind = "stop" => Past(reqs[i].source, reqs[i].run)

(* so what is queued, or put aside by dropQueued, is of a later run. *)
QueuedIsLater ==
    /\ \A i \in 1..Len(meas) : meas[i].run > stopped[meas[i].source]
    /\ \A i \in 1..Len(keep) : keep[i].run > stopped[keep[i].source]

(* While dropQueued runs, what it has not yet looked at (the first n) is   *)
(* the only place where the stopped run's measurements can be.             *)
Dropping ==
    /\ eng \in {"drain", "refill"} =>
           /\ err[who.source] /\ Past(who.source, who.run)
           /\ \A i \in 1..Len(keep) : keep[i].source # who.source
           /\ \A i \in 1..Len(meas) :
                  i > n /\ meas[i].source = who.source => meas[i].run > who.run
    /\ eng = "refill" => n = 0

LifecycleInv ==
    /\ TypeOK /\ RunsLeft /\ StopsArePast /\ QueuedIsLater /\ Dropping
    /\ StoppedStaysDown /\ ClearedByEvidence

-----------------------------------------------------------------------------
(* Channels as sequences. *)

(* A send leaves what is queued where it is. *)
LEMMA AppendFacts ==
    ASSUME NEW S, NEW q \in Seq(S), NEW x \in S
    PROVE  /\ Append(q, x) \in Seq(S) /\ Len(Append(q, x)) = Len(q) + 1
           /\ \A i \in 1..Len(q) : Append(q, x)[i] = q[i]
           /\ Append(q, x)[Len(q) + 1] = x
OBVIOUS

(* A receive takes the first and moves the others up. *)
LEMMA TailFacts ==
    ASSUME NEW S, NEW q \in Seq(S), q # <<>>
    PROVE  /\ Tail(q) \in Seq(S) /\ Len(Tail(q)) = Len(q) - 1 /\ Len(q) \in Nat \ {0}
           /\ \A i \in 1..Len(Tail(q)) : i + 1 \in 1..Len(q) /\ Tail(q)[i] = q[i + 1]
           /\ Head(q) = q[1] /\ Head(q) \in S
OBVIOUS

(* What the two channels and the hoard hold. *)
LEMMA QueueFacts ==
    ASSUME TypeOK
    PROVE  /\ Len(meas) \in Nat /\ \A i \in 1..Len(meas) : meas[i] \in Measurement
           /\ Len(reqs) \in Nat /\ \A i \in 1..Len(reqs) : reqs[i] \in Request
           /\ n \in Nat
<1>1. meas \in Seq(Measurement) /\ reqs \in Seq(Request) /\ n \in 0..MeasCap
  BY DEF TypeOK
<1>2. Len(meas) \in Nat /\ \A i \in 1..Len(meas) : meas[i] \in Measurement
  BY <1>1
<1>3. Len(reqs) \in Nat /\ \A i \in 1..Len(reqs) : reqs[i] \in Request
  BY <1>1
<1> QED BY <1>1, <1>2, <1>3, LifecycleConstants

-----------------------------------------------------------------------------
(* The sources' steps. *)

(* Where a source goes, it stays past what it was past. *)
LEMMA PastKept ==
    ASSUME TypeOK, NEW s \in Sources, NEW t \in Sources, NEW r \in Nat, Past(t, r),
           Return(s) \/ AskStop(s) \/ Delay(s) \/ AskRestart(s)
    PROVE  Past(t, r)'
<1>0. run[t] \in Nat /\ run[t] >= r
  <2>1. run[t] \in 1..MaxRuns
    BY DEF TypeOK
  <2>2. run[t] \in Nat
    BY <2>1, LifecycleConstants
  <2> QED BY <2>2 DEF Past
<1> USE DEF TypeOK, Past
<1>1. CASE Return(s)
  BY <1>1 DEF Return
<1>2. CASE AskStop(s)
  BY <1>2 DEF AskStop, Ask
<1>3. CASE Delay(s)
  BY <1>3 DEF Delay
<1>4. CASE AskRestart(s)
  <2>1. \/ pc' = [pc EXCEPT ![s] = "run"] /\ run' = [run EXCEPT ![s] = @ + 1]
        \/ pc' = [pc EXCEPT ![s] = "gone"] /\ run' = run
    BY <1>4 DEF AskRestart, Ask
  <2>2. pc[s] = "restart"
    BY <1>4 DEF AskRestart
  <2>3. CASE pc' = [pc EXCEPT ![s] = "run"] /\ run' = [run EXCEPT ![s] = @ + 1]
    <3>1. CASE t = s
      <4>1. run'[t] = run[t] + 1
        BY <2>3, <3>1
      <4>2. run'[t] > r
        BY <1>0, <4>1
      <4> QED BY <4>2
    <3>2. CASE t # s
      <4>1. run'[t] = run[t] /\ pc'[t] = pc[t]
        BY <2>3, <3>2
      <4> QED BY <4>1
    <3> QED BY <3>1, <3>2
  <2>4. CASE pc' = [pc EXCEPT ![s] = "gone"] /\ run' = run
    BY <2>2, <2>4
  <2> QED BY <2>1, <2>3, <2>4
<1> QED BY <1>1, <1>2, <1>3, <1>4

(* A measurement is sent of the run under way, which nobody has stopped. *)
LEMMA SendInv ==
    ASSUME LifecycleInv, NEW s \in Sources, Send(s)
    PROVE  LifecycleInv'
<1> DEFINE rec(v) == [source |-> s, run |-> run[s], valid |-> v]
<1>0. TypeOK
  BY DEF LifecycleInv
<1>1. PICK v \in BOOLEAN : meas' = Append(meas, rec(v))
  BY DEF Send, TypeOK, LifecycleInv
<1>2. rec(v) \in Measurement
  <2>1. run[s] \in 1..MaxRuns
    BY <1>0 DEF TypeOK
  <2> QED BY <2>1 DEF Measurement
<1> DEFINE m == rec(v)
<1>3. m.source = s /\ m.run = run[s]
  OBVIOUS
<1> HIDE DEF m
<1>4. /\ meas' \in Seq(Measurement) /\ Len(meas') = Len(meas) + 1
      /\ \A i \in 1..Len(meas) : meas'[i] = meas[i]
      /\ meas'[Len(meas) + 1] = m
  BY <1>0, <1>1, <1>2, AppendFacts DEF TypeOK, m
<1>5. Len(meas) \in Nat /\ Len(meas) < MeasCap /\ pc[s] = "run"
  BY <1>0 DEF Send, TypeOK
<1>6. TypeOK'
  <2>1. Len(meas') <= MeasCap
    BY <1>4, <1>5, LifecycleConstants
  <2> QED BY <1>0, <1>4, <2>1 DEF Send, TypeOK, engine
<1>7. RunsLeft' /\ StopsArePast' /\ StoppedStaysDown' /\ ClearedByEvidence'
  BY DEF Send, engine, LifecycleInv, RunsLeft, StopsArePast, Past, StoppedStaysDown,
         ClearedByEvidence
<1>8. \A i \in 1..Len(meas') : i \in 1..Len(meas) \/ i = Len(meas) + 1
  BY <1>4, <1>5
<1>9. run[s] > stopped[s]
  BY <1>5 DEF LifecycleInv, StopsArePast, Past
<1>10. QueuedIsLater'
  BY <1>3, <1>4, <1>8, <1>9 DEF Send, engine, LifecycleInv, QueuedIsLater
<1>11. Dropping'
  BY <1>0, <1>3, <1>4, <1>5, <1>8 DEF Send, engine, LifecycleInv, Dropping, Past, TypeOK
<1> QED BY <1>6, <1>7, <1>10, <1>11 DEF LifecycleInv

(* The parts of the invariant a source's own steps cannot touch, or only   *)
(* through what it is past.                                                *)
LEMMA SourceKeeps ==
    ASSUME LifecycleInv, NEW s \in Sources,
           Return(s) \/ AskStop(s) \/ Delay(s) \/ AskRestart(s)
    PROVE  /\ \A t \in Sources : Past(t, stopped[t])'
           /\ QueuedIsLater' /\ Dropping' /\ StoppedStaysDown' /\ ClearedByEvidence'
<1>1. UNCHANGED <<meas, engine, cancelled>>
  BY DEF Return, AskStop, Delay, AskRestart
<1>2. TypeOK
  BY DEF LifecycleInv
<1>3. \A t \in Sources : \A r \in Nat : Past(t, r) => Past(t, r)'
  BY <1>2, PastKept
<1>4. \A t \in Sources : Past(t, stopped[t])'
  <2> SUFFICES ASSUME NEW t \in Sources PROVE Past(t, stopped[t])'
    OBVIOUS
  <2>1. stopped[t] \in Nat /\ stopped' = stopped /\ Past(t, stopped[t])
    BY <1>1, <1>2 DEF engine, TypeOK, LifecycleInv, StopsArePast
  <2> QED BY <1>3, <2>1 DEF Past
<1>5. QueuedIsLater' /\ StoppedStaysDown' /\ ClearedByEvidence'
  BY <1>1 DEF engine, LifecycleInv, QueuedIsLater, StoppedStaysDown, ClearedByEvidence
<1>6. Past(who.source, who.run) => Past(who.source, who.run)'
  <2>1. who.source \in Sources /\ who.run \in Nat /\ who' = who
    BY <1>1, <1>2 DEF engine, TypeOK, Request
  <2> QED BY <1>3, <2>1 DEF Past
<1>7. Dropping'
  BY <1>1, <1>6 DEF engine, LifecycleInv, Dropping
<1> QED BY <1>4, <1>5, <1>7

(* A request that is sent; the one to stop comes from a run that is past. *)
LEMMA AskInv ==
    ASSUME LifecycleInv, NEW s \in Sources, AskStop(s) \/ AskRestart(s)
    PROVE  LifecycleInv'
<1>0. TypeOK /\ RunsLeft
  BY DEF LifecycleInv
<1>1. UNCHANGED <<meas, engine, cancelled>>
  BY DEF AskStop, AskRestart
<1>2. PICK k \in {"stop", "restart"} :
          \/ /\ reqs' = Append(reqs, [kind |-> k, source |-> s, run |-> run[s]])
             /\ Len(reqs) < ReqCap
             /\ IF k = "stop" THEN pc' = [pc EXCEPT ![s] = "delay"] /\ run' = run
                ELSE pc' = [pc EXCEPT ![s] = "run"] /\ run' = [run EXCEPT ![s] = @ + 1]
          \/ pc' = [pc EXCEPT ![s] = "gone"] /\ UNCHANGED <<run, reqs>>
  BY DEF AskStop, AskRestart, Ask
<1>3. run[s] < MaxRuns /\ run[s] \in 1..MaxRuns
  BY <1>0 DEF AskStop, AskRestart, RunsLeft, TypeOK
<1>4. /\ run' \in [Sources -> 1..MaxRuns]
      /\ pc' \in [Sources -> {"run", "stopped", "delay", "restart", "gone"}]
  <2>1. run[s] + 1 \in 1..MaxRuns
    BY <1>3, LifecycleConstants
  <2> QED BY <1>0, <1>2, <2>1 DEF TypeOK
<1>5. RunsLeft'
  BY <1>0, <1>2, <1>3 DEF TypeOK, RunsLeft
<1> DEFINE q == [kind |-> k, source |-> s, run |-> run[s]]
<1>6. CASE pc' = [pc EXCEPT ![s] = "gone"] /\ UNCHANGED <<run, reqs>>
  <2>1. TypeOK'
    BY <1>0, <1>1, <1>4, <1>6 DEF TypeOK, engine
  <2>2. ASSUME NEW i \in 1..Len(reqs'), reqs'[i].kind = "stop"
        PROVE  Past(reqs[i].source, reqs[i].run)'
    <3>1. reqs' = reqs /\ i \in 1..Len(reqs) /\ reqs \in Seq(Request)
      BY <1>0, <1>6, <2>2 DEF TypeOK
    <3>2. reqs[i] \in Request
      BY <1>0, <3>1, QueueFacts
    <3>3. reqs[i].source \in Sources /\ reqs[i].run \in Nat
      BY <3>2 DEF Request
    <3>4. Past(reqs[i].source, reqs[i].run)
      BY <2>2, <3>1 DEF LifecycleInv, StopsArePast
    <3> QED BY <1>0, <3>1, <3>3, <3>4, PastKept DEF Past
  <2> QED BY <1>5, <2>1, <2>2, SourceKeeps DEF LifecycleInv, StopsArePast
<1>7. CASE /\ reqs' = Append(reqs, q) /\ Len(reqs) < ReqCap
           /\ IF k = "stop" THEN pc' = [pc EXCEPT ![s] = "delay"] /\ run' = run
              ELSE pc' = [pc EXCEPT ![s] = "run"] /\ run' = [run EXCEPT ![s] = @ + 1]
  <2>1. q \in Request /\ q.source = s /\ q.run = run[s] /\ q.kind = k
    BY <1>3 DEF Request
  <2> HIDE DEF q
  <2>2. /\ reqs' \in Seq(Request) /\ Len(reqs') = Len(reqs) + 1 /\ Len(reqs) \in Nat
        /\ \A i \in 1..Len(reqs) : reqs'[i] = reqs[i]
        /\ reqs'[Len(reqs) + 1] = q
    <3>1. reqs \in Seq(Request)
      BY <1>0, Zenon DEF TypeOK
    <3>2. reqs' = Append(reqs, q)
      BY <1>7, Zenon
    <3> QED BY <2>1, <3>1, <3>2, AppendFacts
  <2>3. Len(reqs') <= ReqCap
    <3>1. Len(reqs) < ReqCap
      BY <1>7, Zenon
    <3> QED BY <2>2, <3>1, LifecycleConstants
  <2>4. TypeOK'
    BY <1>0, <1>1, <1>4, <2>2, <2>3 DEF TypeOK, engine
  <2>5. ASSUME NEW i \in 1..Len(reqs'), reqs'[i].kind = "stop"
        PROVE  Past(reqs[i].source, reqs[i].run)'
    <3>1. CASE i \in 1..Len(reqs)
      <4>1. reqs'[i] = reqs[i] /\ reqs[i] \in Request
        BY <1>0, <2>2, <3>1, QueueFacts
      <4>2. reqs[i].source \in Sources /\ reqs[i].run \in Nat
        BY <4>1 DEF Request
      <4>3. Past(reqs[i].source, reqs[i].run)
        BY <2>5, <3>1, <4>1 DEF LifecycleInv, StopsArePast
      <4> QED BY <1>0, <4>1, <4>2, <4>3, PastKept DEF Past
    <3>2. CASE i = Len(reqs) + 1
      <4>1. reqs'[i] = q /\ k = "stop"
        BY <2>1, <2>2, <2>5, <3>2
      <4>2. pc'[s] = "delay" /\ run'[s] = run[s]
        BY <1>0, <1>7, <4>1 DEF TypeOK
      <4> QED BY <2>1, <4>1, <4>2 DEF Past
    <3> QED BY <2>2, <3>1, <3>2
  <2> QED BY <1>5, <2>4, <2>5, SourceKeeps DEF LifecycleInv, StopsArePast
<1> QED BY <1>2, <1>6, <1>7

(* The end of a run, and the backoff after it. *)
LEMMA ReturnInv ==
    ASSUME LifecycleInv, NEW s \in Sources, Return(s) \/ Delay(s)
    PROVE  LifecycleInv'
<1>0. TypeOK /\ RunsLeft
  BY DEF LifecycleInv
<1>1. UNCHANGED <<run, meas, reqs, engine, cancelled>>
  BY DEF Return, Delay
<1>2. TypeOK' /\ RunsLeft'
  BY <1>0, <1>1 DEF Return, Delay, TypeOK, RunsLeft, engine
<1>3. ASSUME NEW i \in 1..Len(reqs'), reqs'[i].kind = "stop"
      PROVE  Past(reqs[i].source, reqs[i].run)'
  <2>1. reqs'[i] = reqs[i] /\ reqs[i].source \in Sources /\ reqs[i].run \in Nat
    <3>1. reqs' = reqs /\ i \in 1..Len(reqs) /\ reqs \in Seq(Request)
      BY <1>0, <1>1, <1>3 DEF TypeOK
    <3>2. reqs[i] \in Request
      BY <3>1
    <3> QED BY <3>1, <3>2 DEF Request
  <2>2. Past(reqs[i].source, reqs[i].run)
    BY <1>1, <1>3 DEF LifecycleInv, StopsArePast
  <2> QED BY <1>0, <2>1, <2>2, PastKept DEF Past
<1> QED BY <1>2, <1>3, SourceKeeps DEF LifecycleInv, StopsArePast

-----------------------------------------------------------------------------
(* The engine's steps. *)

(* A measurement off the channel is of a later run than the last stopped. *)
LEMMA ConsumeInv ==
    ASSUME LifecycleInv, Consume
    PROVE  LifecycleInv'
<1> DEFINE m == Head(meas)
           s == m.source
<1>0. TypeOK
  BY DEF LifecycleInv
<1>1. /\ meas' = Tail(meas) /\ eng = "select"
      /\ UNCHANGED <<source, reqs, who, n, keep, stopped, cancelled>>
      /\ \/ eng' = "select" /\ UNCHANGED <<err, restarting, est, alive>>
         \/ /\ restarting' = [restarting EXCEPT ![s] = FALSE]
            /\ err' = [err EXCEPT ![s] = @ /\ ~restarting[s]]
            /\ est' = [est EXCEPT ![s] = IF m.valid THEN m.run ELSE 0]
            /\ alive' = [alive EXCEPT ![s] = m.run]
            /\ eng' \in {"select", "leave"}
  BY DEF Consume, Handled
<1>2. /\ meas' \in Seq(Measurement) /\ Len(meas') = Len(meas) - 1 /\ Len(meas) \in Nat \ {0}
      /\ \A i \in 1..Len(meas') : i + 1 \in 1..Len(meas) /\ meas'[i] = meas[i + 1]
      /\ m = meas[1] /\ m \in Measurement
  BY <1>0, TailFacts DEF Consume, TypeOK
<1>3. m.run > stopped[s] /\ s \in Sources /\ m.run \in 1..MaxRuns
  BY <1>2 DEF LifecycleInv, QueuedIsLater, Measurement
<1> HIDE DEF m, s
<1>4. TypeOK'
  <2>1. /\ est' \in [Sources -> 0..MaxRuns] /\ alive' \in [Sources -> 0..MaxRuns]
    <3> DEFINE e == IF m.valid THEN m.run ELSE 0
    <3>1. e \in 0..MaxRuns /\ m.run \in 0..MaxRuns
      BY <1>3, LifecycleConstants
    <3>2. \/ est' = est /\ alive' = alive
          \/ /\ est' = [est EXCEPT ![s] = e] /\ alive' = [alive EXCEPT ![s] = m.run]
       BY <1>1
    <3> HIDE DEF e
    <3>3. est' \in [Sources -> 0..MaxRuns]
      BY <1>0, <3>1, <3>2 DEF TypeOK
    <3>4. alive' \in [Sources -> 0..MaxRuns]
      BY <1>0, <3>1, <3>2 DEF TypeOK
    <3> QED BY <3>3, <3>4
  <2>2. err' \in [Sources -> BOOLEAN] /\ restarting' \in [Sources -> BOOLEAN]
    BY <1>0, <1>1, <1>3 DEF TypeOK
  <2>3. Len(meas') <= MeasCap
    BY <1>0, <1>2, LifecycleConstants DEF TypeOK
  <2>4. eng' \in {"select", "drain", "refill", "leave", "wait", "down"}
    BY <1>1
  <2> QED BY <1>0, <1>1, <1>2, <2>1, <2>2, <2>3, <2>4 DEF TypeOK, source
<1>5. RunsLeft' /\ StopsArePast'
  BY <1>1 DEF LifecycleInv, RunsLeft, StopsArePast, Past, source
<1>6. QueuedIsLater'
  BY <1>1, <1>2 DEF LifecycleInv, QueuedIsLater
<1>7. Dropping'
  BY <1>1 DEF Dropping
<1>8. StoppedStaysDown'
  BY <1>0, <1>1, <1>3 DEF LifecycleInv, StoppedStaysDown, TypeOK
<1>9. ClearedByEvidence'
  BY <1>0, <1>1, <1>3 DEF LifecycleInv, ClearedByEvidence, TypeOK
<1> QED BY <1>4, <1>5, <1>6, <1>7, <1>8, <1>9 DEF LifecycleInv

(* A request is taken: the run of one to stop is past. *)
LEMMA RequestInv ==
    ASSUME LifecycleInv, Stop \/ Restarting
    PROVE  LifecycleInv'
<1> DEFINE q == Head(reqs)
<1>0. TypeOK
  BY DEF LifecycleInv
<1>1. /\ reqs' = Tail(reqs) /\ reqs # <<>> /\ eng = "select"
      /\ UNCHANGED <<source, meas, est, stopped, alive, cancelled>>
  BY DEF Stop, Restarting
<1>2. /\ reqs' \in Seq(Request) /\ Len(reqs') = Len(reqs) - 1 /\ Len(reqs) \in Nat \ {0}
      /\ \A i \in 1..Len(reqs') : i + 1 \in 1..Len(reqs) /\ reqs'[i] = reqs[i + 1]
      /\ q = reqs[1] /\ q \in Request
  BY <1>0, <1>1, TailFacts DEF TypeOK
<1>3. q.source \in Sources /\ (q.kind = "stop" => Past(q.source, q.run))
  BY <1>2 DEF Request, LifecycleInv, StopsArePast
<1>4. Len(reqs') <= ReqCap
  BY <1>0, <1>2, LifecycleConstants DEF TypeOK
<1>5. RunsLeft' /\ StoppedStaysDown'
  BY <1>1 DEF LifecycleInv, RunsLeft, source, StoppedStaysDown
<1>6. StopsArePast'
  BY <1>1, <1>2 DEF LifecycleInv, StopsArePast, Past, source
<1>7. CASE Stop
  <2>1. /\ who' = q /\ q.kind = "stop" /\ n' = Len(meas) /\ keep' = <<>> /\ eng' = "drain"
        /\ err' = [err EXCEPT ![q.source] = TRUE] /\ restarting' = restarting
    BY <1>7 DEF Stop
  <2>2. TypeOK'
    <3>1. n' \in 0..MeasCap /\ keep' \in Seq(Measurement) /\ Len(keep') + n' <= MeasCap
      BY <1>0, <2>1, LifecycleConstants DEF TypeOK
    <3>2. err' \in [Sources -> BOOLEAN]
      BY <1>0, <1>3, <2>1 DEF TypeOK
    <3> QED BY <1>0, <1>1, <1>2, <1>4, <2>1, <3>1, <3>2 DEF TypeOK, source
  <2>3. QueuedIsLater' /\ ClearedByEvidence'
    <3>1. \A s \in Sources : err[s] => err'[s]
      BY <1>0, <1>3, <2>1 DEF TypeOK
    <3>2. ClearedByEvidence'
      BY <1>1, <3>1 DEF LifecycleInv, ClearedByEvidence
    <3>3. QueuedIsLater'
      BY <1>1, <2>1 DEF LifecycleInv, QueuedIsLater
    <3> QED BY <3>2, <3>3
  <2>4. Dropping'
    <3>1. err'[who'.source] /\ Past(who.source, who.run)'
      BY <1>0, <1>1, <1>3, <2>1 DEF TypeOK, Past, source
    <3> QED BY <1>0, <1>1, <2>1, <3>1 DEF Dropping, TypeOK
  <2> QED BY <1>5, <1>6, <2>2, <2>3, <2>4 DEF LifecycleInv
<1>8. CASE Restarting
  <2>1. UNCHANGED <<eng, who, n, keep, err>>
        /\ restarting' = [restarting EXCEPT ![q.source] = TRUE]
    BY <1>8 DEF Restarting
  <2>2. TypeOK'
    BY <1>0, <1>1, <1>2, <1>3, <1>4, <2>1 DEF TypeOK, source
  <2>3. QueuedIsLater' /\ ClearedByEvidence' /\ Dropping'
    BY <1>1, <2>1 DEF LifecycleInv, QueuedIsLater, ClearedByEvidence, Dropping
  <2> QED BY <1>5, <1>6, <2>2, <2>3 DEF LifecycleInv
<1> QED BY <1>7, <1>8

(* dropQueued's first loop sorts the first n; what is behind them stays. *)
LEMMA DrainInv ==
    ASSUME LifecycleInv, DrainOne
    PROVE  LifecycleInv'
<1>0. TypeOK /\ Dropping
  BY DEF LifecycleInv
<1>1. /\ eng = "drain"
      /\ UNCHANGED <<source, reqs, who, err, restarting, est, stopped, alive, cancelled>>
  BY DEF DrainOne
<1>2. RunsLeft' /\ StopsArePast' /\ StoppedStaysDown' /\ ClearedByEvidence'
  BY <1>1 DEF LifecycleInv, RunsLeft, StopsArePast, Past, source, StoppedStaysDown,
              ClearedByEvidence
<1>3. CASE n = 0 \/ meas = <<>>
  <2>1. eng' = "refill" /\ n' = 0 /\ meas' = meas /\ keep' = keep
    BY <1>3 DEF DrainOne
  <2>2. TypeOK'
    BY <1>0, <1>1, <2>1, LifecycleConstants DEF TypeOK, source
  <2>3. QueuedIsLater'
    BY <1>1, <2>1 DEF LifecycleInv, QueuedIsLater
  <2>4. \A i \in 1..Len(meas) : meas[i].source = who.source => meas[i].run > who.run
    <3>1. TAKE i \in 1..Len(meas)
    <3>2. n = 0
      <4>1. meas # <<>>
        BY <1>0, QueueFacts
      <4> QED BY <1>3, <4>1
    <3>3. i > n
      BY <1>0, <3>2, QueueFacts
    <3> QED BY <1>0, <1>1, <3>3 DEF Dropping
  <2>5. Dropping'
    BY <1>0, <1>1, <2>1, <2>4 DEF Dropping, Past, source
  <2> QED BY <1>2, <2>2, <2>3, <2>5 DEF LifecycleInv
<1>4. CASE n # 0 /\ meas # <<>>
  <2> DEFINE m == Head(meas)
  <2>1. /\ n' = n - 1 /\ meas' = Tail(meas) /\ eng' = eng
        /\ \/ keep' = keep
           \/ m.source # who.source /\ keep' = Append(keep, m)
    BY <1>4 DEF DrainOne
  <2>2. /\ meas' \in Seq(Measurement) /\ Len(meas') = Len(meas) - 1 /\ Len(meas) \in Nat \ {0}
        /\ \A i \in 1..Len(meas') : i + 1 \in 1..Len(meas) /\ meas'[i] = meas[i + 1]
        /\ m = meas[1] /\ m \in Measurement
    BY <1>0, <1>4, <2>1, TailFacts DEF TypeOK
  <2>3. m.run > stopped[m.source]
    BY <2>2 DEF LifecycleInv, QueuedIsLater
  <2>4. /\ Append(keep, m) \in Seq(Measurement) /\ Len(Append(keep, m)) = Len(keep) + 1
        /\ \A i \in 1..Len(keep) : Append(keep, m)[i] = keep[i]
        /\ Append(keep, m)[Len(keep) + 1] = m /\ Len(keep) \in Nat
    BY <1>0, <2>2, AppendFacts DEF TypeOK
  <2> HIDE DEF m
  <2>5. /\ keep' \in Seq(Measurement) /\ Len(keep') \in Len(keep)..(Len(keep) + 1)
        /\ \A i \in 1..Len(keep') :
               \/ i \in 1..Len(keep) /\ keep'[i] = keep[i]
               \/ keep'[i] = m /\ m.source # who.source
    <3>1. CASE keep' = keep
      <4>1. keep \in Seq(Measurement)
        BY <1>0, Zenon DEF TypeOK
      <4> QED BY <2>4, <3>1, <4>1
    <3>2. CASE m.source # who.source /\ keep' = Append(keep, m)
      <4>1. \A i \in 1..(Len(keep) + 1) : i \in 1..Len(keep) \/ i = Len(keep) + 1
        BY <2>4
      <4> QED BY <2>4, <3>2, <4>1
    <3> QED BY <2>1, <3>1, <3>2
  <2>6. n \in 1..MeasCap /\ n' \in 0..MeasCap /\ Len(keep') + n' <= MeasCap
        /\ Len(meas') <= MeasCap
    BY <1>0, <1>4, <2>1, <2>2, <2>4, <2>5, LifecycleConstants DEF TypeOK
  <2>7. TypeOK'
    BY <1>0, <1>1, <2>1, <2>2, <2>5, <2>6 DEF TypeOK, source
  <2>8. QueuedIsLater'
    BY <1>1, <2>2, <2>3, <2>5 DEF LifecycleInv, QueuedIsLater
  <2>9. \A i \in 1..Len(meas') :
            i > n' /\ meas'[i].source = who.source => meas'[i].run > who.run
    <3>1. TAKE i \in 1..Len(meas')
    <3>2. i > n' => i + 1 > n
      BY <2>1, <2>6, <2>2
    <3> QED BY <1>0, <1>1, <2>2, <3>2 DEF Dropping
  <2>10. Dropping'
    BY <1>0, <1>1, <2>1, <2>5, <2>9 DEF Dropping, Past, source
  <2> QED BY <1>2, <2>7, <2>8, <2>10 DEF LifecycleInv
<1> QED BY <1>3, <1>4

(* dropQueued's second loop puts back only what is of other sources. *)
LEMMA RefillInv ==
    ASSUME LifecycleInv, RefillOne
    PROVE  LifecycleInv'
<1> DEFINE m == Head(keep)
<1>0. TypeOK /\ Dropping
  BY DEF LifecycleInv
<1>1. /\ eng = "refill" /\ keep # <<>> /\ keep' = Tail(keep)
      /\ meas' = meas \/ (Len(meas) < MeasCap /\ meas' = Append(meas, m))
      /\ UNCHANGED <<source, reqs, eng, who, n, err, restarting, est, stopped, alive, cancelled>>
  BY DEF RefillOne
<1>2. /\ keep' \in Seq(Measurement) /\ Len(keep') = Len(keep) - 1 /\ Len(keep) \in Nat \ {0}
      /\ \A i \in 1..Len(keep') : i + 1 \in 1..Len(keep) /\ keep'[i] = keep[i + 1]
      /\ m = keep[1] /\ m \in Measurement
  <2>1. keep \in Seq(Measurement) /\ keep # <<>> /\ keep' = Tail(keep)
    BY <1>0, <1>1, Zenon DEF TypeOK
  <2> QED BY <2>1, TailFacts
<1>3. m.run > stopped[m.source] /\ m.source # who.source
  BY <1>0, <1>1, <1>2 DEF LifecycleInv, QueuedIsLater, Dropping
<1>4. /\ Append(meas, m) \in Seq(Measurement) /\ Len(Append(meas, m)) = Len(meas) + 1
      /\ \A i \in 1..Len(meas) : Append(meas, m)[i] = meas[i]
      /\ Append(meas, m)[Len(meas) + 1] = m /\ Len(meas) \in Nat
  BY <1>0, <1>2, AppendFacts DEF TypeOK
<1> HIDE DEF m
<1>5. /\ meas' \in Seq(Measurement) /\ Len(meas') <= MeasCap
      /\ \A i \in 1..Len(meas') :
             (i \in 1..Len(meas) /\ meas'[i] = meas[i]) \/ meas'[i] = m
  <2>1. CASE meas' = meas
    BY <1>0, <1>4, <2>1 DEF TypeOK
  <2>2. CASE Len(meas) < MeasCap /\ meas' = Append(meas, m)
    <3>1. \A i \in 1..(Len(meas) + 1) : i \in 1..Len(meas) \/ i = Len(meas) + 1
      BY <1>4
    <3>2. Len(meas) + 1 <= MeasCap
      BY <1>4, <2>2, LifecycleConstants
    <3> QED BY <1>4, <2>2, <3>1, <3>2
  <2> QED BY <1>1, <2>1, <2>2
<1>6. TypeOK'
  BY <1>0, <1>1, <1>2, <1>5, LifecycleConstants DEF TypeOK, source
<1>7. RunsLeft' /\ StopsArePast' /\ StoppedStaysDown' /\ ClearedByEvidence'
  BY <1>1 DEF LifecycleInv, RunsLeft, StopsArePast, Past, source, StoppedStaysDown,
              ClearedByEvidence
<1>8. QueuedIsLater'
  BY <1>1, <1>2, <1>3, <1>5 DEF LifecycleInv, QueuedIsLater
<1>9. Dropping'
  BY <1>0, <1>1, <1>2, <1>3, <1>5 DEF Dropping, Past, source
<1> QED BY <1>6, <1>7, <1>8, <1>9 DEF LifecycleInv

(* With the queue sorted through, the run that is revoked is not in it. *)
LEMMA RevokeInv ==
    ASSUME LifecycleInv, Revoke
    PROVE  LifecycleInv'
<1>0. TypeOK /\ Dropping
  BY DEF LifecycleInv
<1>1. /\ eng = "refill" /\ keep = <<>> /\ eng' \in {"select", "leave"}
      /\ est' = [est EXCEPT ![who.source] = 0]
      /\ stopped' = [stopped EXCEPT ![who.source] = who.run]
      /\ UNCHANGED <<source, meas, reqs, who, n, keep, err, restarting, alive, cancelled>>
  BY DEF Revoke, Handled
<1>2. who.source \in Sources /\ who.run \in 1..MaxRuns /\ n = 0
      /\ err[who.source] /\ Past(who.source, who.run)
  BY <1>0, <1>1 DEF TypeOK, Request, Dropping
<1>3. TypeOK'
  <2>1. who.run \in 0..MaxRuns /\ 0 \in 0..MaxRuns
    BY <1>2, LifecycleConstants
  <2>2. est' \in [Sources -> 0..MaxRuns] /\ stopped' \in [Sources -> 0..MaxRuns]
    BY <1>0, <1>1, <2>1 DEF TypeOK
  <2> QED BY <1>0, <1>1, <2>2 DEF TypeOK, source
<1>4. \A s \in Sources : stopped'[s] = IF s = who.source THEN who.run ELSE stopped[s]
  BY <1>0, <1>1, <1>2 DEF TypeOK
<1>5. \A s \in Sources : est'[s] = IF s = who.source THEN 0 ELSE est[s]
  BY <1>0, <1>1, <1>2 DEF TypeOK
<1>6. RunsLeft'
  BY <1>1 DEF LifecycleInv, RunsLeft, source
<1>7. StopsArePast'
  <2>1. \A s \in Sources : Past(s, stopped[s])'
    BY <1>1, <1>2, <1>4 DEF LifecycleInv, StopsArePast, Past, source
  <2> QED BY <1>1, <2>1 DEF LifecycleInv, StopsArePast, Past, source
<1>8. QueuedIsLater'
  <2>1. \A i \in 1..Len(meas) : meas[i].run > stopped'[meas[i].source]
    <3>1. TAKE i \in 1..Len(meas)
    <3>2. i > n /\ meas[i].source \in Sources
      <4>1. meas[i] \in Measurement
        BY <1>0, QueueFacts
      <4>2. i \in Nat /\ i > 0
        BY <1>0, QueueFacts
      <4> QED BY <1>2, <4>1, <4>2 DEF Measurement
    <3>3. meas[i].source = who.source => meas[i].run > who.run
      BY <1>0, <1>1, <3>2 DEF Dropping
    <3> QED BY <1>4, <3>2, <3>3 DEF LifecycleInv, QueuedIsLater
  <2>2. Len(keep') = 0
    BY <1>1
  <2> QED BY <1>1, <2>1, <2>2 DEF QueuedIsLater
<1>9. Dropping'
  BY <1>1 DEF Dropping
<1>10. StoppedStaysDown' /\ ClearedByEvidence'
  BY <1>1, <1>2, <1>4, <1>5 DEF LifecycleInv, StoppedStaysDown, ClearedByEvidence
<1> QED BY <1>3, <1>6, <1>7, <1>8, <1>9, <1>10 DEF LifecycleInv

(* Shutting down leaves what the invariant speaks of as it is. *)
LEMMA ShutdownInv ==
    ASSUME LifecycleInv, Cancel \/ Leave \/ DrainSources \/ UNCHANGED vars
    PROVE  LifecycleInv'
<1>1. /\ UNCHANGED <<source, meas, reqs, who, n, keep, err, restarting, est, stopped, alive>>
      /\ eng' = eng \/ eng' \in {"wait", "down"}
      /\ cancelled' = cancelled \/ cancelled' = TRUE
  BY DEF Cancel, Leave, DrainSources, vars, engine
<1>2. TypeOK'
  BY <1>1 DEF LifecycleInv, TypeOK, source
<1>3. Dropping'
  BY <1>1 DEF LifecycleInv, Dropping, Past, source
<1>4. RunsLeft' /\ StopsArePast' /\ StoppedStaysDown' /\ ClearedByEvidence' /\ QueuedIsLater'
  BY <1>1 DEF LifecycleInv, RunsLeft, StopsArePast, Past, source, StoppedStaysDown,
              ClearedByEvidence, QueuedIsLater
<1> QED BY <1>2, <1>3, <1>4 DEF LifecycleInv

-----------------------------------------------------------------------------

(* The invariant holds of every reachable state: types and capacities, and *)
(* nothing queued is of a run whose stop sourceStopped has handled.        *)
THEOREM LifecycleSafe == Spec => []LifecycleInv
<1>1. Init => LifecycleInv
  <2> SUFFICES ASSUME Init PROVE LifecycleInv
    OBVIOUS
  <2>1. TypeOK
    <3>1. who \in Request
      <4>1. 1 \in 1..MaxRuns
        BY LifecycleConstants
      <4> QED BY <4>1 DEF Init, Request
    <3>2. /\ 0 \in 0..MaxRuns /\ 1 \in 1..MaxRuns /\ 0 \in 0..MeasCap
      BY LifecycleConstants
    <3>3. /\ run \in [Sources -> 1..MaxRuns]
          /\ est \in [Sources -> 0..MaxRuns] /\ stopped \in [Sources -> 0..MaxRuns]
          /\ alive \in [Sources -> 0..MaxRuns]
      BY <3>2 DEF Init
    <3>4. /\ meas \in Seq(Measurement) /\ Len(meas) <= MeasCap
          /\ reqs \in Seq(Request) /\ Len(reqs) <= ReqCap
          /\ keep \in Seq(Measurement) /\ Len(keep) + n <= MeasCap
      BY LifecycleConstants DEF Init
    <3> QED BY <3>1, <3>2, <3>3, <3>4 DEF Init, TypeOK
  <2>2. RunsLeft /\ StopsArePast /\ QueuedIsLater /\ Dropping
    BY DEF Init, RunsLeft, StopsArePast, QueuedIsLater, Dropping, Past
  <2>3. StoppedStaysDown /\ ClearedByEvidence
    BY DEF Init, StoppedStaysDown, ClearedByEvidence
  <2> QED BY <2>1, <2>2, <2>3 DEF LifecycleInv
<1>2. LifecycleInv /\ [Next]_vars => LifecycleInv'
  <2> SUFFICES ASSUME LifecycleInv, [Next]_vars PROVE LifecycleInv'
    OBVIOUS
  <2>1. ASSUME NEW s \in Sources, Send(s) PROVE LifecycleInv'
    BY <2>1, SendInv
  <2>2. ASSUME NEW s \in Sources, Return(s) \/ Delay(s) PROVE LifecycleInv'
    BY <2>2, ReturnInv
  <2>3. ASSUME NEW s \in Sources, AskStop(s) \/ AskRestart(s) PROVE LifecycleInv'
    BY <2>3, AskInv
  <2> QED BY <2>1, <2>2, <2>3, ConsumeInv, RequestInv, DrainInv, RefillInv, RevokeInv,
             ShutdownInv DEF Next
<1> QED BY <1>1, <1>2, PTL DEF Spec

(* However measurements and requests were interleaved, no measurement of a *)
(* stopped run revives its source.                                         *)
THEOREM StopIsFinal == Spec => []StoppedStaysDown
<1>1. LifecycleInv => StoppedStaysDown
  BY DEF LifecycleInv
<1> QED BY <1>1, LifecycleSafe, PTL

(* A source's failure is cleared by a measurement of a later run, never by *)
(* the intention to restart it.                                            *)
THEOREM EvidenceClears == Spec => []ClearedByEvidence
<1>1. LifecycleInv => ClearedByEvidence
  BY DEF LifecycleInv
<1> QED BY <1>1, LifecycleSafe, PTL

=============================================================================
