------------------------------ MODULE PPSSource ------------------------------
(***************************************************************************)
(* The PPS reference clock (internal/refclock/pps.go): fetch a kernel      *)
(* edge timestamp between two reads of the epoch counter, add it to a      *)
(* window of offsets and report the window's median once per poll slot.    *)
(* Every local reset of the window arms one Invalidate.                    *)
(***************************************************************************)
EXTENDS EpochState

ppsFrame == <<clockVars, engVars, used, lineGen, lineObs>>

(* The top of Run's loop consumes a reset request. *)
PPSTop(s) ==
    /\ pc[s] = "idle"
    /\ pc' = [pc EXCEPT ![s] = "top"]
    /\ window' = [window EXCEPT ![s] = IF resetReq[s] THEN <<>> ELSE @]
    /\ inval' = [inval EXCEPT ![s] = @ \/ resetReq[s]]
    /\ resetReq' = [resetReq EXCEPT ![s] = FALSE]
    /\ UNCHANGED <<ppsFrame, queue, seen, obs, out>>

PPSReadEpoch(s) ==
    /\ pc[s] = "top"
    /\ pc' = [pc EXCEPT ![s] = "read"]
    /\ seen' = [seen EXCEPT ![s] = gen]
    /\ UNCHANGED <<ppsFrame, queue, obs, out, window, inval, resetReq>>

(* Fetch: the kernel stamps an edge; or it times out, which re-primes the  *)
(* window once reach is zero; or the device is lost (deviceLost).          *)
Fetch(s) ==
    /\ pc[s] = "read"
    /\ \/ /\ pc' = [pc EXCEPT ![s] = "replied"]
          /\ obs' = [obs EXCEPT ![s] = world]
          /\ UNCHANGED <<seen, window, inval>>
       \/ /\ pc' = [pc EXCEPT ![s] = "nil"]
          /\ UNCHANGED <<window, inval>>
          /\ EndSample(s)
       \/ /\ \E place \in {"nil", "lost"} : pc' = [pc EXCEPT ![s] = place]
          /\ window' = [window EXCEPT ![s] = <<>>]
          /\ inval' = [inval EXCEPT ![s] = TRUE]
          /\ EndSample(s)
    /\ UNCHANGED <<ppsFrame, queue, out, resetReq>>

(* The second read of the epoch.  discardStale drops the pulse and the window. *)
PPSRecheck(s) ==
    /\ pc[s] = "replied"
    /\ \/ /\ gen = seen[s] /\ StableEpoch(gen)
          /\ pc' = [pc EXCEPT ![s] = "hit"]
          /\ UNCHANGED <<seen, obs, window, inval>>
       \/ /\ ~(gen = seen[s] /\ StableEpoch(gen))
          /\ pc' = [pc EXCEPT ![s] = "nil"]
          /\ window' = [window EXCEPT ![s] = <<>>]
          /\ inval' = [inval EXCEPT ![s] = TRUE]
          /\ EndSample(s)
    /\ UNCHANGED <<ppsFrame, queue, out, resetReq>>

(* Mutant: the request is consumed, but the window is kept. *)
AcceptKeepsWindow(s) ==
    /\ pc[s] = "hit"
    /\ pc' = [pc EXCEPT ![s] = "nil"]
    /\ window' = [window EXCEPT ![s] = Shift(window[s], obs[s])]
    /\ resetReq' = [resetReq EXCEPT ![s] = FALSE]
    /\ inval' = [inval EXCEPT ![s] = @ \/ resetReq[s]]
    /\ EndSample(s)
    /\ UNCHANGED <<ppsFrame, queue, out>>

(* accept: consume a reset request, then judge the edge.  It is rejected   *)
(* (a run of rejections, or a restarted sequence counter, re-primes the    *)
(* window), or it joins the window; at the end of a poll slot the window   *)
(* is reported, valid when it is stable and an invalidation when it is     *)
(* not.  emit clears pendingInvalidate into the message.                   *)
Accept(s) ==
    /\ pc[s] = "hit"
    /\ LET held == IF resetReq[s] THEN <<>> ELSE window[s]
           armedInval == inval[s] \/ resetReq[s]
           w == Shift(held, obs[s])
       IN  \/ /\ pc' = [pc EXCEPT ![s] = "nil"]
              /\ \/ /\ window' = [window EXCEPT ![s] = held]
                    /\ inval' = [inval EXCEPT ![s] = armedInval]
                 \/ /\ window' = [window EXCEPT ![s] = <<>>]
                    /\ inval' = [inval EXCEPT ![s] = TRUE]
                 \/ /\ window' = [window EXCEPT ![s] = w]
                    /\ \E unstable \in BOOLEAN :
                         inval' = [inval EXCEPT ![s] = armedInval \/ unstable]
              /\ UNCHANGED out
           \/ /\ pc' = [pc EXCEPT ![s] = "emit"]
              /\ window' = [window EXCEPT ![s] = w]
              /\ inval' = [inval EXCEPT ![s] = FALSE]
              /\ out' = [out EXCEPT ![s] =
                    Valid(s, seen[s], armedInval, obs[s], {w[i] : i \in 1..Len(w)})]
    /\ resetReq' = [resetReq EXCEPT ![s] = FALSE]
    /\ EndSample(s)
    /\ UNCHANGED <<ppsFrame, queue>>

(* emit, when nothing was measured: the current epoch is stamped. *)
PPSEmptyReport(s) ==
    /\ pc[s] \in {"nil", "lost"}
    /\ pc' = [pc EXCEPT ![s] = IF @ = "lost" THEN "losing" ELSE "emit"]
    /\ out' = [out EXCEPT ![s] = Empty(s, gen, inval[s])]
    /\ inval' = [inval EXCEPT ![s] = FALSE]
    /\ UNCHANGED <<ppsFrame, queue, seen, obs, window, resetReq>>

PPSEmit(s) ==
    /\ pc[s] \in {"emit", "losing"}
    /\ Send(s)
    /\ pc' = [pc EXCEPT ![s] = IF @ = "losing" THEN "reopen" ELSE "idle"]
    /\ UNCHANGED <<ppsFrame, seen, obs, window, inval, resetReq>>

(* reopen: the device is back.  Until then it tries again, for ever. *)
PPSReopen(s) ==
    /\ pc[s] = "reopen"
    /\ pc' = [pc EXCEPT ![s] = "idle"]
    /\ window' = [window EXCEPT ![s] = <<>>]
    /\ inval' = [inval EXCEPT ![s] = TRUE]
    /\ UNCHANGED <<ppsFrame, queue, seen, obs, out, resetReq>>

PPSNext(s) == PPSTop(s) \/ PPSReadEpoch(s) \/ Fetch(s) \/ PPSRecheck(s)
              \/ Accept(s) \/ PPSEmptyReport(s) \/ PPSEmit(s)

=============================================================================
