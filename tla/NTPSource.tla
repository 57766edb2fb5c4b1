------------------------------ MODULE NTPSource ------------------------------
(***************************************************************************)
(* The NTP client source (internal/source/ntp.go): one poll is an exchange *)
(* bracketed by two reads of the epoch counter, a pass through the clock   *)
(* filter and a blocking send to the engine.  Each step below ends where   *)
(* the goroutine next reads or writes something it shares.                 *)
(***************************************************************************)
EXTENDS EpochState

ntpFrame == <<clockVars, engVars, inval, lineGen, lineObs>>

(* Run and ensureResolved, up to pollOnce's first read of the epoch.  A      *)
(* resolution that moves to another address empties the filter             *)
(* (resetEndpointState); one that yields no address skips the exchange.    *)
PollBegin(s) ==
    /\ pc[s] = "idle"
    /\ \/ /\ pc' = [pc EXCEPT ![s] = "read"]
          /\ seen' = [seen EXCEPT ![s] = gen]
          /\ \/ UNCHANGED <<window, used>>
             \/ /\ window' = [window EXCEPT ![s] = <<>>]
                /\ used' = [used EXCEPT ![s] = 0]
       \/ /\ pc' = [pc EXCEPT ![s] = "nil"]
          /\ UNCHANGED <<seen, window, used>>
    /\ UNCHANGED <<ntpFrame, queue, obs, out, resetReq>>

(* exchange: the request leaves and T1 is read. *)
SendRequest(s) ==
    /\ pc[s] = "read"
    /\ pc' = [pc EXCEPT ![s] = "sent"]
    /\ obs' = [obs EXCEPT ![s] = world]
    /\ UNCHANGED <<ntpFrame, queue, seen, out, window, used, resetReq>>

(* exchange: a reply arrives and T4 is read, or the poll fails (a timeout, *)
(* an unreachable address, a bad MAC, a bogus packet, a kiss).             *)
Reply(s) ==
    /\ pc[s] = "sent"
    /\ \/ /\ pc' = [pc EXCEPT ![s] = "replied"]
          /\ obs' = [obs EXCEPT ![s] = IF obs[s] = world THEN world ELSE Torn]
          /\ UNCHANGED seen
       \/ /\ pc' = [pc EXCEPT ![s] = "nil"]
          /\ EndSample(s)
    /\ UNCHANGED <<ntpFrame, queue, out, window, used, resetReq>>

(* pollOnce's second read of the epoch: the sample goes on only if it is    *)
(* the same settled value (discardStale otherwise).                        *)
Recheck(s) ==
    /\ pc[s] = "replied"
    /\ \/ /\ gen = seen[s] /\ StableEpoch(gen)
          /\ pc' = [pc EXCEPT ![s] = "hit"]
          /\ UNCHANGED <<seen, obs>>
       \/ /\ ~(gen = seen[s] /\ StableEpoch(gen))
          /\ pc' = [pc EXCEPT ![s] = "nil"]
          /\ EndSample(s)
    /\ UNCHANGED <<ntpFrame, queue, out, window, used, resetReq>>

(* How many of the samples held have been reported once a new one is in. *)
Reported(w, u) == IF Len(w) = Stages /\ u > 0 THEN u - 1 ELSE u

(* Mutant: the reset request is consumed and the filter keeps its samples. *)
HitKeepsSamples(s) ==
    /\ pc[s] = "hit"
    /\ LET done == Reported(window[s], used[s])
           w == Shift(window[s], obs[s])
       IN  /\ window' = [window EXCEPT ![s] = w]
           /\ \/ /\ \E best \in (done + 1)..Len(w) :
                       /\ used' = [used EXCEPT ![s] = best]
                       /\ out' = [out EXCEPT ![s] =
                                    Valid(s, seen[s], FALSE, obs[s], {w[best]})]
                 /\ pc' = [pc EXCEPT ![s] = "emit"]
              \/ /\ done > 0
                 /\ used' = [used EXCEPT ![s] = done]
                 /\ pc' = [pc EXCEPT ![s] = "nil"]
                 /\ UNCHANGED out
    /\ resetReq' = [resetReq EXCEPT ![s] = FALSE]
    /\ EndSample(s)
    /\ UNCHANGED <<ntpFrame, queue>>

(* hit: consume a reset request, then add the sample to the filter.  Which *)
(* sample the filter picks is left open; one that was reported before is   *)
(* not reported again.  A stratum change empties the filter as well.       *)
Hit(s) ==
    /\ pc[s] = "hit"
    /\ \E restratum \in BOOLEAN :
         LET cleared == resetReq[s] \/ restratum
             held == IF cleared THEN <<>> ELSE window[s]
             done == IF cleared THEN 0 ELSE Reported(window[s], used[s])
             w == Shift(held, obs[s])
         IN  /\ window' = [window EXCEPT ![s] = w]
             /\ \E best \in 1..Len(w) :
                  \/ /\ best > done
                     /\ used' = [used EXCEPT ![s] = best]
                     /\ out' = [out EXCEPT ![s] =
                                  Valid(s, seen[s], FALSE, obs[s], {w[best]})]
                     /\ pc' = [pc EXCEPT ![s] = "emit"]
                  \/ /\ best <= done
                     /\ used' = [used EXCEPT ![s] = done]
                     /\ pc' = [pc EXCEPT ![s] = "nil"]
                     /\ UNCHANGED out
    /\ resetReq' = [resetReq EXCEPT ![s] = FALSE]
    /\ EndSample(s)
    /\ UNCHANGED <<ntpFrame, queue>>

(* Nothing was measured: the report carries the epoch that is current now. *)
EmptyReport(s) ==
    /\ pc[s] = "nil"
    /\ pc' = [pc EXCEPT ![s] = "emit"]
    /\ out' = [out EXCEPT ![s] = Empty(s, gen, FALSE)]
    /\ UNCHANGED <<ntpFrame, queue, seen, obs, window, used, resetReq>>

(* emit: the blocking send, then the sleep until the next poll.  The empty *)
(* report of an authenticated DENY is the association's last.              *)
Emit(s) ==
    /\ pc[s] = "emit"
    /\ Send(s)
    /\ \/ pc' = [pc EXCEPT ![s] = "idle"]
       \/ ~out[s].valid /\ pc' = [pc EXCEPT ![s] = "denied"]
    /\ UNCHANGED <<ntpFrame, seen, obs, window, used, resetReq>>

NTPNext(s) == PollBegin(s) \/ SendRequest(s) \/ Reply(s) \/ Recheck(s)
              \/ Hit(s) \/ EmptyReport(s) \/ Emit(s)

=============================================================================
