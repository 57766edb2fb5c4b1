----------------------------- MODULE LeapInstall -----------------------------
(***************************************************************************)
(* Installing leap-second tables (internal/leap/updater.go, store.go) with *)
(* the engine that approves and activates them, over a disk that forgets   *)
(* and a process that dies.                                                *)
(*                                                                         *)
(* The updater's goroutine is a program counter: between two of its steps  *)
(* the engine looks at the clock, the shutdown begins, or everything       *)
(* stops.  Timers (the retry of a save or of an activation, the next job)  *)
(* are open choices, as they depend on jitter.                             *)
(***************************************************************************)
EXTENDS LeapEngine

CONSTANTS
    Seed,           \* the mode is "nist" or "iers": LastCheck is kept
    Checkpoint,     \* checkpointInterval
    MaxCrash        \* bound: how often the process dies

(* Record: a table and the instant it was accepted at. *)
Accepted == [obj : Object, acc : Nat]

ASSUME InstallConstants ==
    /\ Seed \in BOOLEAN /\ Checkpoint \in Nat /\ MaxCrash \in Nat
    /\ None \notin Accepted

VARIABLES
    st,         \* Updater.state
    dirty, committed,   \* Updater.dirty, Updater.committed
    retry,      \* the operations that failed and wait for their timer: "save"
                \* (nextPersist is set), "activate" (so is nextActivation)
    upc,        \* where the goroutine is
    then,       \* where it goes when the save in progress succeeds or fails
    known,      \* v.Known of the iteration
    inflight,   \* an acquisition job is running
    cand,       \* the record install is offering
    ctx,        \* the context is cancelled
    file,       \* the state a reader of the directory finds
    survivors,  \* the states a power loss may leave
    found,      \* ghost: the anchor of the file as this process loaded it
    crashes

updVars == <<st, dirty, committed, retry, upc, then, known, inflight, cand, ctx>>
diskVars == <<file, survivors, found>>
vars == <<engineVars, updVars, diskVars, crashes>>

Empty == [act |-> None, pend |-> None, bound |-> 0, exec |-> 0, last |-> 0]

ObjectOf(r) == IF r = None THEN None ELSE r.obj

(* State.Anchor *)
Anchor(x) == IF x.pend # None THEN x.pend.obj ELSE ObjectOf(x.act)

(* loadState accepts x. *)
Loads(x) ==
    /\ x.act # None /\ x.pend # None
       => CheckUpdate(x.act.obj, x.pend.obj, x.pend.acc)
    /\ \A r \in {x.act, x.pend} \ {None} : r.acc <= x.bound /\ Covers(r.obj, r.acc)
    /\ x.exec <= x.bound /\ x.last <= x.bound

Down == upc = "down"

-----------------------------------------------------------------------------

Init ==
    /\ wall = 1 /\ lost = 0 /\ lastWall = 1
    /\ active = None /\ anchor = None /\ approved = None
    /\ utcBound = 0 /\ startBound = 0 /\ executed = 0 /\ pendingLeap = None
    /\ view = [known |-> FALSE, bound |-> 0, exec |-> 0]
    /\ st = Empty /\ dirty = FALSE /\ committed = TRUE /\ retry = {}
    /\ upc = "down" /\ then = <<>> /\ known = FALSE
    /\ inflight = FALSE /\ cand = None /\ ctx = FALSE
    /\ file = Empty /\ survivors = {Empty} /\ found = None /\ crashes = 0

(* Back to Run's loop: the locals of an iteration are gone. *)
Loop == upc' = "loop" /\ then' = <<>> /\ cand' = None /\ known' = FALSE

Goto(l) == upc' = l /\ then' = <<>> /\ UNCHANGED <<cand, known>>

(* save() is about to run; ok and err are where its caller goes on. *)
GotoSave(ok, err) == upc' = "save" /\ then' = <<ok, err>> /\ UNCHANGED <<cand, known>>

(* checkpoint *)
Checkpointed(x, force) ==
    LET did == view.exec > x.exec
        over == x.act # None /\ view.bound >= x.act.obj.expiry
                             /\ x.bound < x.act.obj.expiry
        due == force \/ did \/ over \/ view.bound - x.bound >= Checkpoint
    IN  [x EXCEPT !.exec = Later(view.exec, x.exec),
                  !.bound = IF due THEN Later(view.bound, x.bound) ELSE x.bound]

(* The head of Run's loop, up to the save of a checkpoint.  A snapshot older *)
(* than thirty seconds does not say that UTC is known.                       *)
Top ==
    /\ upc = "loop" /\ ~ctx
    /\ known' \in {FALSE, view.known}
    /\ st' = Checkpointed(st, FALSE)
    /\ dirty' = (dirty \/ st' # st)
    /\ \/ dirty' /\ upc' = "save" /\ then' = <<"try", "try">>
       \/ (dirty' => "save" \in retry) /\ upc' = "try" /\ then' = <<>>
    /\ UNCHANGED <<engineVars, diskVars, crashes, committed, retry, inflight,
                   cand, ctx>>

Pending == known /\ st.pend # None /\ committed

(* A pending table that is committed is offered again. *)
TryPending ==
    /\ upc = "try" /\ Pending
    /\ Goto("reapprove")
    /\ UNCHANGED <<engineVars, diskVars, crashes, st, dirty, committed, retry, inflight, ctx>>

(* The rest of the iteration: an acquisition job may start. *)
Iterated ==
    /\ \/ upc = "try" /\ (Pending => "activate" \in retry)
       \/ upc = "start"
    /\ Loop
    /\ inflight' \in {inflight, inflight \/ (known /\ ~dirty)}
    /\ UNCHANGED <<engineVars, diskVars, crashes, st, dirty, committed, retry, ctx>>

(* The job brought nothing: it failed, or the table is unchanged. *)
JobFailed ==
    /\ upc = "loop" /\ inflight /\ inflight' = FALSE
    /\ UNCHANGED <<engineVars, diskVars, crashes, st, dirty, committed, retry, upc, then,
                   known, cand, ctx>>

NotModified ==
    /\ upc = "loop" /\ inflight /\ inflight' = FALSE
    /\ Goto("checked")
    /\ UNCHANGED <<engineVars, diskVars, crashes, st, dirty, committed, retry, ctx>>

(* The job brought o: install, up to the request for approval. *)
Install(o) ==
    LET now == Later(wall, view.bound)
    IN  /\ upc = "loop" /\ inflight /\ inflight' = FALSE
        /\ view.known /\ CheckUpdate(Anchor(st), o, now)
        /\ ~(st.pend = None /\ ObjectOf(st.act) = o)
        /\ cand' = [obj |-> o, acc |-> now]
        /\ upc' = "approve" /\ UNCHANGED <<then, known>>
        /\ UNCHANGED <<engineVars, diskVars, crashes, st, dirty, committed, retry, ctx>>

(* What the survivors may say.  Where a table is required that reaches the *)
(* kernel alone (leap of ApplyLeap), of which this module does not speak.  *)
Indicated == IF LeapRequired THEN {"none"} ELSE Indications

(***************************************************************************)
(* leapRequest: the engine runs the closure and answers ok.  After a       *)
(* cancellation the closure may find the context dead and do nothing, and  *)
(* the caller may stop listening to one that did not.                      *)
(***************************************************************************)
Answer(ok, heard) == heard = ok \/ (ctx /\ ~heard)

AskApproval(o, heard) ==
    \/ ctx /\ ~heard /\ UNCHANGED engineVars
    \/ \E ok \in BOOLEAN, s \in SyncStates, li \in Indicated :
           ApproveLeap(o, ok, s, li) /\ Answer(ok, heard)

AskActivation(o, heard) ==
    \/ ctx /\ ~heard /\ UNCHANGED engineVars
    \/ \E ok \in BOOLEAN, s \in SyncStates, li \in Indicated :
           ActivateLeap(o, ok, s, li) /\ Answer(ok, heard)

(* install: approved, the table is pending and is to be saved. *)
Approve(heard) ==
    /\ upc = "approve"
    /\ AskApproval(cand.obj, heard)
    /\ IF heard
       THEN /\ st' = [st EXCEPT !.pend = cand, !.bound = cand.acc]
            /\ committed' = FALSE /\ dirty' = TRUE
            /\ GotoSave("reapprove", "loop")
       ELSE Loop /\ UNCHANGED <<st, committed, dirty>>
    /\ UNCHANGED <<diskVars, crashes, retry, inflight, ctx>>

(* activate was called by install (cand is set) or by the loop. *)
NotActivated ==
    IF cand = None THEN Goto("start") /\ retry' = retry \cup {"activate"}
                   ELSE Loop /\ UNCHANGED retry

Reapprove(heard) ==
    /\ upc = "reapprove"
    /\ AskApproval(st.pend.obj, heard)
    /\ IF heard THEN Goto("activate") /\ UNCHANGED retry ELSE NotActivated
    /\ UNCHANGED <<diskVars, crashes, st, dirty, committed, inflight, ctx>>

Activate(heard) ==
    /\ upc = "activate"
    /\ AskActivation(st.pend.obj, heard)
    /\ IF heard
       THEN /\ st' = [st EXCEPT !.act = st.pend, !.pend = None]
            /\ dirty' = TRUE
            /\ IF cand = None THEN GotoSave("start", "start")
                              ELSE GotoSave("checked", "loop")
            /\ UNCHANGED retry
       ELSE NotActivated /\ UNCHANGED <<st, dirty>>
    /\ UNCHANGED <<diskVars, crashes, committed, inflight, ctx>>

(* A seed's body was evaluated without an error. *)
Checked ==
    /\ upc = "checked"
    /\ IF Seed /\ view.known
       THEN /\ st' = [st EXCEPT !.last = wall,
                                !.bound = Later(wall, Later(view.bound, st.bound))]
            /\ dirty' = TRUE
       ELSE UNCHANGED <<st, dirty>>
    /\ Loop
    /\ UNCHANGED <<engineVars, diskVars, crashes, committed, retry, inflight, ctx>>

(* The deferred function of Run. *)
Final ==
    /\ upc = "loop" /\ ctx
    /\ st' = Checkpointed(st, TRUE)
    /\ dirty' = (dirty \/ st' # st)
    /\ IF dirty' THEN GotoSave("stopped", "stopped") ELSE Goto("stopped")
    /\ UNCHANGED <<engineVars, diskVars, crashes, committed, retry, inflight, ctx>>

-----------------------------------------------------------------------------

(* Where the caller of save goes on. *)
Return(l) == IF l = "loop" THEN Loop ELSE Goto(l)

(* Store.write fails before the rename, or in the sync of the directory. *)
SaveFails ==
    /\ upc \in {"save", "renamed"}
    /\ dirty' = TRUE
    /\ retry' = retry \cup {"save"} \cup (IF then[2] = "start" THEN {"activate"} ELSE {})
    /\ Return(then[2])
    /\ UNCHANGED <<engineVars, diskVars, crashes, st, committed, inflight, ctx>>

(* Mutant: the write ends with the rename. *)
RenameOnly ==
    /\ upc = "save"
    /\ file' = st /\ survivors' = survivors \cup {st}
    /\ dirty' = FALSE /\ committed' = TRUE /\ retry' = retry \ {"save"}
    /\ Return(then[1])
    /\ UNCHANGED <<engineVars, crashes, found, st, inflight, ctx>>

Rename ==
    /\ upc = "save"
    /\ file' = st /\ survivors' = survivors \cup {st}
    /\ upc' = "renamed"
    /\ UNCHANGED <<engineVars, crashes, found, st, dirty, committed, retry, then,
                   known, inflight, cand, ctx>>

SyncDir ==
    /\ upc = "renamed"
    /\ survivors' = {file}
    /\ dirty' = FALSE /\ committed' = TRUE /\ retry' = retry \ {"save"}
    /\ Return(then[1])
    /\ UNCHANGED <<engineVars, crashes, found, file, st, inflight, ctx>>

-----------------------------------------------------------------------------

(* One second passes, and no more before the engine looks (it ticks every *)
(* second); the engine looks.                                             *)
Tick ==
    /\ ~Down /\ wall = lastWall /\ wall < MaxTime
    /\ wall' = wall + 1
    /\ UNCHANGED <<lost, boundaryVars, tableVars, view, updVars, diskVars, crashes>>

EngineLook ==
    /\ ~Down
    /\ \E s \in SyncStates, li \in Indicated : Look(s, li)
    /\ UNCHANGED <<updVars, diskVars, crashes>>

Cancel ==
    /\ ~Down /\ ~ctx
    /\ ctx' = TRUE
    /\ UNCHANGED <<engineVars, diskVars, crashes, st, dirty, committed, retry, upc,
                   then, known, inflight, cand>>

(* A process that is gone leaves the directory as it shows; a power loss  *)
(* leaves any of the survivors.                                           *)
Killed == UNCHANGED <<file, survivors>>

PowerLost == \E x \in survivors : file' = x /\ survivors' = {x}

(* The process dies, or exits after its updater stopped. *)
Crash ==
    /\ ~Down /\ crashes < MaxCrash
    /\ crashes' = crashes + 1
    /\ Killed \/ PowerLost
    /\ found' = None
    /\ wall' = 1 /\ lost' = 0 /\ lastWall' = 1
    /\ active' = None /\ anchor' = None /\ approved' = None
    /\ utcBound' = 0 /\ startBound' = 0 /\ executed' = 0 /\ pendingLeap' = None
    /\ view' = [known |-> FALSE, bound |-> 0, exec |-> 0]
    /\ st' = Empty /\ dirty' = FALSE /\ committed' = TRUE /\ retry' = {}
    /\ upc' = "down" /\ then' = <<>> /\ known' = FALSE
    /\ inflight' = FALSE /\ cand' = None /\ ctx' = FALSE

(***************************************************************************)
(* OpenStore, Load, NewUpdater and engine.New.  OpenStore syncs the parent *)
(* of the directory and Load nothing: after a kill between a rename and    *)
(* the sync of the directory, what is loaded may still be undone.          *)
(***************************************************************************)
Restart(w) ==
    /\ upc = "down" /\ Loads(file)
    /\ st' = file /\ dirty' = FALSE /\ committed' = TRUE /\ UNCHANGED retry
    /\ found' = Anchor(file)
    /\ upc' = "loop"
    /\ active' = ObjectOf(file.act) /\ anchor' = Anchor(file)
    /\ utcBound' = file.bound /\ startBound' = file.bound /\ executed' = file.exec
    /\ wall' = w /\ lastWall' = w /\ lost' = 0
    /\ view' = [known |-> FALSE, bound |-> file.bound, exec |-> file.exec]
    /\ UNCHANGED <<approved, pendingLeap, then, known, inflight,
                   cand, ctx, file, survivors, crashes>>

Next ==
    \/ Top \/ TryPending \/ Iterated \/ JobFailed \/ NotModified
    \/ Checked \/ Final \/ SaveFails \/ Rename \/ SyncDir
    \/ Tick \/ EngineLook \/ Cancel \/ Crash
    \/ \E o \in Object : Install(o)
    \/ \E heard \in BOOLEAN : Approve(heard) \/ Reapprove(heard) \/ Activate(heard)
    \/ \E w \in 1..MaxTime : Restart(w)

Spec == Init /\ [][Next]_vars

-----------------------------------------------------------------------------

(* a is b or an earlier table of its lineage. *)
Trails(a, b) == a = None \/ a = b \/ (b # None /\ NoRollback(a, b))

(***************************************************************************)
(* A table the engine serves by survives the death of the process, and     *)
(* also a power loss, whichever state that leaves ("approval -> durable    *)
(* commit -> applicability recheck", install), unless the process found it *)
(* in the file when it started: nothing it loads has it synced, though     *)
(* activate says "already durable as pending".                             *)
(***************************************************************************)
ActivatedIsDurable ==
    /\ Trails(active, Anchor(file))
    /\ \A x \in survivors : Trails(active, Anchor(x)) \/ Trails(active, found)

(***************************************************************************)
(* Where a table is required, the table in force announces the leap that   *)
(* is armed: neither an update that was approved before the boundary was   *)
(* armed nor a restart between its save and its activation takes an armed  *)
(* leap out of the table.                                                  *)
(***************************************************************************)
ArmedInTable ==
    pendingLeap # None /\ active # None => pendingLeap \in active.trans

(***************************************************************************)
(* The daemon starts from whatever it has saved: loadState refuses none of *)
(* the states a crash may leave.                                           *)
(***************************************************************************)
SavedStateLoads == \A x \in survivors : Loads(x)

(* The anchor every one of the states S has at least. *)
WeakestOf(S) ==
    LET As == {Anchor(x) : x \in S}
    IN  IF None \in As THEN None
        ELSE CHOOSE a \in As : \A b \in As : a = b \/ NoRollback(a, b)

Weakest == WeakestOf(survivors)

Authority ==
    INSTANCE LeapAuthority WITH durable <- Weakest, onFile <- Anchor(file),
                                loaded <- found, inForce <- active, up <- ~Down

(***************************************************************************)
(* The updater, the store and the engine together implement the abstract   *)
(* leap authority: the table no crash can take back is only replaced by a  *)
(* later one of its lineage, and the one in force leads it only where the  *)
(* process loaded a file that was not synced.                              *)
(***************************************************************************)
Implements == Authority!AuthSpec

=============================================================================
