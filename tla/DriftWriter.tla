---------------------------- MODULE DriftWriter ----------------------------
(***************************************************************************)
(* The drift file (internal/engine/engine.go, driftWriter and writeDrift): *)
(* the engine offers frequency candidates to a worker through a channel of *)
(* one slot; the worker replaces the file by write, fsync, rename and a    *)
(* sync of the directory.  The process may be killed and the machine may   *)
(* lose power at any point.                                                *)
(*                                                                         *)
(* A candidate is the ordinal of the offer it was made in; 0 is no value.  *)
(***************************************************************************)
EXTENDS Naturals

CONSTANT MaxOffers      \* bound: candidates explored

ASSUME DriftConstants == MaxOffers \in Nat \ {0}

VARIABLES
    offered,    \* candidates accepted by maybeWriteDrift so far
    slot,       \* w.work, capacity 1
    eng,        \* the engine: where it is in offer and close
    wrk,        \* the worker: where it is in run and writeDrift
    hold,       \* the candidate the worker is writing
    dir,        \* the candidate the drift file's name refers to
    survivors,  \* the candidates it may refer to after a power loss
    success,    \* ghost: the newest candidate a write reported success for
    excused     \* ghost: a write has failed or a process was ended

vars == <<offered, slot, eng, wrk, hold, dir, survivors, success, excused>>

Init ==
    /\ offered = 0 /\ slot = 0
    /\ eng = "run"
    /\ wrk = "recv" /\ hold = 0
    /\ dir = 0 /\ survivors = {0}
    /\ success = 0 /\ excused = FALSE

(* offer's first select: send, or find the slot taken. *)
TrySend(c, sent) ==
    IF slot = 0
    THEN slot' = c /\ eng' = sent
    ELSE slot' = slot /\ eng' = IF sent = "run" THEN "full" ELSE "finalFull"

(* maybeWriteDrift accepts a settled frequency and offers it, periodically *)
(* or once more (final) on the way out.                                    *)
Offer(final) ==
    /\ eng = "run"
    /\ offered < MaxOffers
    /\ offered' = offered + 1
    /\ TrySend(offered', IF final THEN "final" ELSE "run")
    /\ UNCHANGED <<wrk, hold, dir, survivors, success, excused>>

(* Mutant: the superseded candidate is dropped and the new one not sent. *)
SupersedeDropsBoth ==
    /\ eng \in {"full", "finalFull"}
    /\ eng' = IF eng = "full" THEN "run" ELSE "final"
    /\ slot' = 0
    /\ UNCHANGED <<offered, wrk, hold, dir, survivors, success, excused>>

(* offer's second select drops the superseded candidate and tries again;   *)
(* if the worker has just taken it, offer returns.                         *)
Supersede ==
    /\ eng \in {"full", "finalFull"}
    /\ LET after == IF eng = "full" THEN "run" ELSE "final"
           again == IF eng = "full" THEN "retry" ELSE "finalRetry"
       IN  eng' = IF slot # 0 THEN again ELSE after
    /\ slot' = 0
    /\ UNCHANGED <<offered, wrk, hold, dir, survivors, success, excused>>

Retry ==
    /\ eng \in {"retry", "finalRetry"}
    /\ TrySend(offered, IF eng = "retry" THEN "run" ELSE "final")
    /\ UNCHANGED <<offered, wrk, hold, dir, survivors, success, excused>>

(* Run leaves without a final candidate when the frequency is not settled. *)
Leave ==
    /\ eng = "run"
    /\ eng' = "final"
    /\ UNCHANGED <<offered, slot, wrk, hold, dir, survivors, success, excused>>

(* close: close the channel, then wait for the worker or the deadline. *)
Close ==
    /\ eng = "final"
    /\ eng' = "closing"
    /\ UNCHANGED <<offered, slot, wrk, hold, dir, survivors, success, excused>>

(* Mutant: close does not wait for the worker to finish. *)
CloseReturnsEarly ==
    /\ eng = "closing"
    /\ eng' = "closed"
    /\ UNCHANGED <<offered, slot, wrk, hold, dir, survivors, success, excused>>

CloseReturns ==
    /\ eng = "closing"
    /\ \/ wrk = "done" /\ eng' = "closed"
       \/ eng' = "deadline"
    /\ UNCHANGED <<offered, slot, wrk, hold, dir, survivors, success, excused>>

-----------------------------------------------------------------------------

(* The worker's range loop: take a candidate, or end on a closed channel. *)
Take ==
    /\ wrk = "recv"
    /\ \/ slot # 0 /\ hold' = slot /\ slot' = 0 /\ wrk' = "temp"
       \/ slot = 0 /\ eng \in {"closing", "deadline"} /\ wrk' = "done" /\ UNCHANGED <<hold, slot>>
    /\ UNCHANGED <<offered, eng, dir, survivors, success, excused>>

(* Create, write, fsync, close and chmod the temporary, then rename it over *)
(* the drift file; any of them may fail, and the temporary is removed.     *)
Rename ==
    /\ wrk = "temp"
    /\ \/ /\ dir' = hold /\ survivors' = survivors \cup {hold}
          /\ wrk' = "sync" /\ UNCHANGED <<hold, excused>>
       \/ /\ wrk' = "recv" /\ hold' = 0 /\ excused' = TRUE
          /\ UNCHANGED <<dir, survivors>>
    /\ UNCHANGED <<offered, slot, eng, success>>

(* Mutant: the write is reported good although the directory did not sync. *)
SyncDirUnchecked ==
    /\ wrk = "sync"
    /\ \/ survivors' = {dir}
       \/ UNCHANGED survivors
    /\ success' = hold
    /\ wrk' = "recv" /\ hold' = 0
    /\ UNCHANGED <<offered, slot, eng, dir, excused>>

(* Sync the directory; a failure is reported as a failed write. *)
SyncDir ==
    /\ wrk = "sync"
    /\ \/ survivors' = {dir} /\ success' = hold /\ UNCHANGED excused
       \/ excused' = TRUE /\ UNCHANGED <<survivors, success>>
    /\ wrk' = "recv" /\ hold' = 0
    /\ UNCHANGED <<offered, slot, eng, dir>>

(* The process ends, by itself after close or killed at any point, and a   *)
(* new one starts; the machine may have lost power in between.             *)
Restart ==
    /\ eng' = "run" /\ slot' = 0
    /\ wrk' = "recv" /\ hold' = 0
    /\ \/ UNCHANGED <<dir, survivors>>
       \/ dir' \in survivors /\ survivors' = {dir'}
    /\ excused' = TRUE
    /\ UNCHANGED <<offered, success>>

Next ==
    \/ \E final \in BOOLEAN : Offer(final)
    \/ Supersede \/ Retry \/ Leave \/ Close \/ CloseReturns
    \/ Take \/ Rename \/ SyncDir
    \/ Restart

Spec == Init /\ [][Next]_vars

-----------------------------------------------------------------------------

(* Candidates are ordinals of offers already made, and the worker writes   *)
(* only values it was given.                                               *)
TypeOK ==
    /\ offered \in 0..MaxOffers
    /\ slot \in 0..offered /\ hold \in 0..offered
    /\ eng \in {"run", "full", "retry", "final", "finalFull", "finalRetry",
                "closing", "closed", "deadline"}
    /\ wrk \in {"recv", "temp", "sync", "done"}
    /\ wrk \in {"temp", "sync"} <=> hold # 0
    /\ dir \in 0..offered
    /\ survivors \in SUBSET (0..offered)
    /\ success \in 0..offered
    /\ excused \in BOOLEAN

(* A write that reported success is durable: whatever instant the power    *)
(* fails at, the file holds that frequency or a newer one, never an older. *)
DurableSuccess == \A v \in survivors : v >= success

(* When close reports that the worker finished, nothing it was given is    *)
(* left behind: no candidate is pending and no write is in flight.         *)
CloseDrains == eng = "closed" => slot = 0 /\ hold = 0

(* offer does not block, so a candidate is lost when the worker takes the  *)
(* pending one between its two selects; but no more than that one.  When   *)
(* offer has returned, the newest or the one before is pending, being      *)
(* written, or in the file, unless a write failed or the process ended.    *)
OfferLosesOne ==
    eng \in {"run", "final", "closing"} /\ ~excused =>
        \E v \in {slot, hold, dir} : v + 1 >= offered

=============================================================================
