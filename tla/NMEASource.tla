----------------------------- MODULE NMEASource -----------------------------
(***************************************************************************)
(* The GPS/NMEA reference clock (internal/refclock/nmea.go).  A chunk's    *)
(* arrival time is read between two reads of the epoch counter; a sentence *)
(* belongs to the chunk that delivered its '$', which may be an earlier    *)
(* one than the chunk that completes it.                                   *)
(***************************************************************************)
EXTENDS EpochState

CONSTANT NMEAMin    \* sentences before the window is Valid (4 in the code)

ASSUME NMEAMinAssumption == NMEAMin \in Nat \ {0}

nmeaFrame == <<clockVars, engVars, used>>

(* resetWindow: empty the window and arm one invalidation. *)
NMEAReset(s) ==
    /\ window' = [window EXCEPT ![s] = <<>>]
    /\ inval' = [inval EXCEPT ![s] = TRUE]

(* haveLine = false. *)
DropLine(s) ==
    /\ lineGen' = [lineGen EXCEPT ![s] = 0]
    /\ lineObs' = [lineObs EXCEPT ![s] = Torn]

(* Mutant: the loop waits for bytes without consuming the request. *)
NMEATopIgnoresReset(s) ==
    /\ pc[s] = "idle"
    /\ pc' = [pc EXCEPT ![s] = "top"]
    /\ UNCHANGED <<nmeaFrame, queue, seen, obs, out, window, inval, resetReq,
                   lineGen, lineObs>>

(* The top of Run's loop consumes a reset request, then waits for bytes. *)
NMEATop(s) ==
    /\ pc[s] = "idle"
    /\ pc' = [pc EXCEPT ![s] = "top"]
    /\ window' = [window EXCEPT ![s] = IF resetReq[s] THEN <<>> ELSE @]
    /\ inval' = [inval EXCEPT ![s] = @ \/ resetReq[s]]
    /\ resetReq' = [resetReq EXCEPT ![s] = FALSE]
    /\ UNCHANGED <<nmeaFrame, queue, seen, obs, out, lineGen, lineObs>>

(* ReadTimeout delivers bytes and the epoch is read; or it times out; or   *)
(* the device fails (deviceLost drops the sentence and the window).        *)
ReadChunk(s) ==
    /\ pc[s] = "top"
    /\ \/ /\ pc' = [pc EXCEPT ![s] = "read"]
          /\ seen' = [seen EXCEPT ![s] = gen]
          /\ UNCHANGED <<window, inval, lineGen, lineObs>>
       \/ /\ pc' = [pc EXCEPT ![s] = "tick"]
          /\ UNCHANGED <<seen, window, inval, lineGen, lineObs>>
       \/ /\ pc' = [pc EXCEPT ![s] = "lost"]
          /\ NMEAReset(s)
          /\ DropLine(s)
          /\ UNCHANGED seen
    /\ UNCHANGED <<nmeaFrame, queue, obs, out, resetReq>>

(* The wall-clock reading that dates the chunk. *)
ReadArrival(s) ==
    /\ pc[s] = "read"
    /\ pc' = [pc EXCEPT ![s] = "replied"]
    /\ obs' = [obs EXCEPT ![s] = world]
    /\ UNCHANGED <<nmeaFrame, queue, seen, out, window, inval, resetReq,
                   lineGen, lineObs>>

(* The second read of the epoch; discardChunk drops sentence and window. *)
NMEARecheck(s) ==
    /\ pc[s] = "replied"
    /\ \/ /\ gen = seen[s] /\ StableEpoch(gen)
          /\ pc' = [pc EXCEPT ![s] = "hit"]
          /\ UNCHANGED <<seen, obs, window, inval, lineGen, lineObs>>
       \/ /\ ~(gen = seen[s] /\ StableEpoch(gen))
          /\ pc' = [pc EXCEPT ![s] = "idle"]
          /\ NMEAReset(s)
          /\ DropLine(s)
          /\ EndSample(s)
    /\ UNCHANGED <<nmeaFrame, queue, out, resetReq>>

(* acceptLine for a complete sentence dated (g, o).  A sentence that is    *)
(* not a usable fix, or out of chronological order, is dropped; one whose  *)
(* epoch has passed takes the window with it; any other joins the window,  *)
(* which a long gap or a new era has emptied first.                        *)
AcceptLine(s, g, o) ==
    \/ /\ pc' = [pc EXCEPT ![s] = "tick"]
       /\ UNCHANGED <<window, inval, out>>
    \/ /\ gen # g
       /\ pc' = [pc EXCEPT ![s] = "tick"]
       /\ NMEAReset(s)
       /\ UNCHANGED out
    \/ /\ gen = g
       /\ \E gap \in BOOLEAN :
            LET w == Shift(IF gap THEN <<>> ELSE window[s], o)
                inv == inval[s] \/ gap
            IN  /\ window' = [window EXCEPT ![s] = w]
                /\ inval' = [inval EXCEPT ![s] = FALSE]
                /\ out' = [out EXCEPT ![s] =
                     IF Len(w) >= NMEAMin
                     THEN Valid(s, g, inv, o, {w[i] : i \in 1..Len(w)})
                     ELSE [Empty(s, g, inv) EXCEPT !.obs = o]]
       /\ pc' = [pc EXCEPT ![s] = "emit"]

(* consume: the chunk opens a sentence, completes the open one (and may    *)
(* open the next), or holds a whole one.                                   *)
Consume(s) ==
    /\ pc[s] = "hit"
    /\ \/ /\ pc' = [pc EXCEPT ![s] = "tick"]
          /\ lineGen' = [lineGen EXCEPT ![s] = seen[s]]
          /\ lineObs' = [lineObs EXCEPT ![s] = obs[s]]
          /\ UNCHANGED <<window, inval, out>>
       \/ /\ lineGen[s] # 0
          /\ AcceptLine(s, lineGen[s], lineObs[s])
          /\ \/ DropLine(s)
             \/ /\ lineGen' = [lineGen EXCEPT ![s] = seen[s]]
                /\ lineObs' = [lineObs EXCEPT ![s] = obs[s]]
       \/ /\ AcceptLine(s, seen[s], obs[s])
          /\ DropLine(s)
    /\ EndSample(s)
    /\ UNCHANGED <<nmeaFrame, queue, resetReq>>

(* tick: a missed slot is reported with an empty measurement, and an empty *)
(* reach register drops the window.                                        *)
NMEATick(s) ==
    /\ pc[s] = "tick"
    /\ \/ /\ pc' = [pc EXCEPT ![s] = "idle"]
          /\ UNCHANGED <<window, inval>>
       \/ /\ pc' = [pc EXCEPT ![s] = "nil"]
          /\ \/ UNCHANGED <<window, inval>>
             \/ window[s] # <<>> /\ NMEAReset(s)
    /\ UNCHANGED <<nmeaFrame, queue, seen, obs, out, resetReq, lineGen, lineObs>>

(* emptyMeasurement reads the epoch; emit clears pendingInvalidate into it. *)
NMEAEmptyReport(s) ==
    /\ pc[s] \in {"nil", "lost"}
    /\ pc' = [pc EXCEPT ![s] = IF @ = "lost" THEN "losing" ELSE "emit"]
    /\ out' = [out EXCEPT ![s] = Empty(s, gen, inval[s])]
    /\ inval' = [inval EXCEPT ![s] = FALSE]
    /\ UNCHANGED <<nmeaFrame, queue, seen, obs, window, resetReq, lineGen, lineObs>>

(* A sentence's report is followed by tick, an empty one by the loop's top, *)
(* and that of a lost device by reopen.                                     *)
NMEAEmit(s) ==
    /\ pc[s] \in {"emit", "losing"}
    /\ Send(s)
    /\ pc' = [pc EXCEPT ![s] = IF @ = "losing" THEN "reopen"
                              ELSE IF out[s].obs = Torn THEN "idle" ELSE "tick"]
    /\ UNCHANGED <<nmeaFrame, seen, obs, window, inval, resetReq, lineGen, lineObs>>

(* reopen: the device is back.  Until then it tries again, for ever. *)
NMEAReopen(s) ==
    /\ pc[s] = "reopen"
    /\ pc' = [pc EXCEPT ![s] = "idle"]
    /\ NMEAReset(s)
    /\ DropLine(s)
    /\ UNCHANGED <<nmeaFrame, queue, seen, obs, out, resetReq>>

NMEANext(s) == NMEATop(s) \/ ReadChunk(s) \/ ReadArrival(s) \/ NMEARecheck(s)
               \/ Consume(s) \/ NMEATick(s) \/ NMEAEmptyReport(s) \/ NMEAEmit(s)

=============================================================================
