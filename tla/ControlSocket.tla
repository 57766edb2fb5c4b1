---------------------------- MODULE ControlSocket ----------------------------
(***************************************************************************)
(* The control socket as daemons that share one socket path start, serve,  *)
(* stop and are killed: internal/control/server.go, with the part of       *)
(* cmd/carillon/main.go that starts it beside the engine and closes it.    *)
(***************************************************************************)
EXTENDS Naturals

CONSTANTS
    Daemons, NoDaemon,
    MaxWaiting,         \* maxConcurrentClients
    MaxStarts           \* bound: processes started

ASSUME ControlConstants == NoDaemon \notin Daemons

VARIABLES
    leapCache,          \* leap acquisition is on, and its cache is locked too
    lock,               \* who holds the flock on path.lock
    path,               \* whose socket the name in the file system is, or NoDaemon
    ln,                 \* daemon -> its listener is open
    bound,              \* daemon -> the listener has still to unlink the name
    main,               \* daemon -> where runDaemon is
    serving,            \* daemon -> where Serve is
    engineRuns,         \* daemon -> eng.Run has not returned
    stopping,           \* daemon -> ctx is done
    waiting,            \* daemon -> connections being handled
    starts

ctlVars == <<leapCache, lock, path, ln, bound, main, serving, engineRuns, stopping, waiting,
             starts>>

CtlInit ==
    /\ leapCache \in BOOLEAN
    /\ lock = NoDaemon /\ path = NoDaemon /\ starts = 0
    /\ ln = [d \in Daemons |-> FALSE] /\ bound = ln
    /\ engineRuns = ln /\ stopping = ln
    /\ main = [d \in Daemons |-> "off"]
    /\ serving = [d \in Daemons |-> "no"]
    /\ waiting = [d \in Daemons |-> 0]

Released(d) == IF lock = d THEN NoDaemon ELSE lock

-----------------------------------------------------------------------------
(* Listen *)

Locks(d) ==
    /\ main[d] = "off" /\ starts < MaxStarts
    /\ starts' = starts + 1 /\ lock' = d
    /\ main' = [main EXCEPT ![d] = "inspect"]
    /\ UNCHANGED <<leapCache, path, ln, bound, serving, engineRuns, stopping, waiting>>

(* OpenStore's flock on the leap cache is kept until the process exits. *)
CacheFree == leapCache => \A e \in Daemons : main[e] = "off"

(* Mutants: the lock is shared; the leap cache is opened without its lock. *)
LockPathShared(d) == CacheFree /\ Locks(d)
LockPathOnly(d) == lock = NoDaemon /\ Locks(d)

(* lockPath, after OpenStore: a held lock is an error, and the process     *)
(* exits.                                                                  *)
LockPath(d) == CacheFree /\ lock = NoDaemon /\ Locks(d)

(* clearAbandonedSocket, up to the probe: a name that is not there, or     *)
(* whose socket refuses the connection, goes on; a live one is ErrInUse.   *)
Inspect(d) ==
    /\ main[d] = "inspect"
    /\ LET live == path # NoDaemon /\ ln[path]
       IN  /\ main' = [main EXCEPT ![d] = IF live THEN "off"
                                          ELSE IF path = NoDaemon THEN "bind" ELSE "remove"]
           /\ lock' = IF live THEN Released(d) ELSE lock
    /\ UNCHANGED <<leapCache, path, ln, bound, serving, engineRuns, stopping, waiting, starts>>

RemoveStale(d) ==
    /\ main[d] = "remove"
    /\ path' = NoDaemon
    /\ main' = [main EXCEPT ![d] = "bind"]
    /\ UNCHANGED <<leapCache, lock, ln, bound, serving, engineRuns, stopping, waiting, starts>>

(* net.Listen and the chmod, then runDaemon starts Serve and the engine. *)
Bind(d) ==
    /\ main[d] = "bind" /\ path = NoDaemon
    /\ path' = d
    /\ ln' = [ln EXCEPT ![d] = TRUE] /\ bound' = [bound EXCEPT ![d] = TRUE]
    /\ main' = [main EXCEPT ![d] = "run"]
    /\ serving' = [serving EXCEPT ![d] = "accept"]
    /\ engineRuns' = [engineRuns EXCEPT ![d] = TRUE]
    /\ UNCHANGED <<leapCache, lock, stopping, waiting, starts>>

(* The name is taken, or net.Listen fails, or the chmod: then the name that *)
(* was just bound is closed and removed again.                              *)
BindFails(d) ==
    /\ main[d] = "bind"
    /\ main' = [main EXCEPT ![d] = "off"] /\ lock' = Released(d)
    /\ UNCHANGED <<leapCache, path, ln, bound, serving, engineRuns, stopping, waiting, starts>>

-----------------------------------------------------------------------------
(* Serve *)

(* Accept and the admission bound. *)
Accept(d) ==
    /\ serving[d] = "accept" /\ ln[d] /\ path = d
    /\ waiting[d] < MaxWaiting
    /\ waiting' = [waiting EXCEPT ![d] = @ + 1]
    /\ UNCHANGED <<leapCache, lock, path, ln, bound, main, serving, engineRuns, stopping, starts>>

(* handle returns: answered, timed out, the client gone, or hctx done.     *)
HandlerReturns(d) ==
    /\ waiting[d] > 0
    /\ waiting' = [waiting EXCEPT ![d] = @ - 1]
    /\ UNCHANGED <<leapCache, lock, path, ln, bound, main, serving, engineRuns, stopping, starts>>

(* A signal, or another auxiliary that failed, ends ctx. *)
Stop(d) ==
    /\ main[d] = "run" /\ ~stopping[d]
    /\ stopping' = [stopping EXCEPT ![d] = TRUE]
    /\ UNCHANGED <<leapCache, lock, path, ln, bound, main, serving, engineRuns, waiting, starts>>

(* ln.Close, once: the net package unlinks the name it was bound to. *)
ClosesListener(d) ==
    /\ path' = IF bound[d] THEN NoDaemon ELSE path
    /\ bound' = [bound EXCEPT ![d] = FALSE]
    /\ ln' = [ln EXCEPT ![d] = FALSE]

(* Serve's goroutine on ctx.Done. *)
CloseOnDone(d) ==
    /\ stopping[d] /\ ln[d] /\ ClosesListener(d)
    /\ UNCHANGED <<leapCache, lock, main, serving, engineRuns, stopping, waiting, starts>>

(* Accept fails: the listener was closed, or fatally. *)
AcceptFails(d) ==
    /\ serving[d] = "accept"
    /\ serving' = [serving EXCEPT ![d] = "finish"]
    /\ UNCHANGED <<leapCache, lock, path, ln, bound, main, engineRuns, stopping, waiting, starts>>

(* finish: the handlers have returned; the name and the lock go, and an    *)
(* error makes main stop.                                                  *)
FinishServe(d) ==
    /\ serving[d] = "finish" /\ waiting[d] = 0
    /\ path' = NoDaemon /\ lock' = Released(d)
    /\ serving' = [serving EXCEPT ![d] = "done"]
    /\ stopping' = [stopping EXCEPT ![d] = TRUE]
    /\ UNCHANGED <<leapCache, ln, bound, main, engineRuns, waiting, starts>>

-----------------------------------------------------------------------------
(* The rest of runDaemon *)

(* eng.Run returns, stopped or on an error of its own: it has saved the     *)
(* drift and restored the frequency, and ctx ends if it had not.            *)
EngineReturns(d) ==
    /\ engineRuns[d]
    /\ engineRuns' = [engineRuns EXCEPT ![d] = FALSE]
    /\ stopping' = [stopping EXCEPT ![d] = TRUE]
    /\ UNCHANGED <<leapCache, lock, path, ln, bound, main, serving, waiting, starts>>

(* aux.wait is over, by its deadline if not by Serve; the deferred Close    *)
(* closes the listener, removes the name and releases the lock.             *)
CloseServer(d) ==
    /\ main[d] = "run" /\ stopping[d] /\ ~engineRuns[d]
    /\ main' = [main EXCEPT ![d] = "exit"]
    /\ path' = NoDaemon /\ lock' = Released(d)
    /\ ln' = [ln EXCEPT ![d] = FALSE] /\ bound' = [bound EXCEPT ![d] = FALSE]
    /\ UNCHANGED <<leapCache, serving, engineRuns, stopping, waiting, starts>>

(* The process is gone, and the kernel drops its lock and its listener. *)
Gone(d) ==
    /\ lock' = Released(d)
    /\ ln' = [ln EXCEPT ![d] = FALSE] /\ bound' = [bound EXCEPT ![d] = FALSE]
    /\ main' = [main EXCEPT ![d] = "off"]
    /\ serving' = [serving EXCEPT ![d] = "no"]
    /\ engineRuns' = [engineRuns EXCEPT ![d] = FALSE]
    /\ stopping' = [stopping EXCEPT ![d] = FALSE]
    /\ waiting' = [waiting EXCEPT ![d] = 0]
    /\ UNCHANGED <<leapCache, path, starts>>

Exit(d) == main[d] = "exit" /\ Gone(d)
Killed(d) == main[d] \notin {"off", "exit"} /\ Gone(d)

CtlNext ==
    \E d \in Daemons :
        \/ LockPath(d) \/ Inspect(d) \/ RemoveStale(d) \/ Bind(d) \/ BindFails(d)
        \/ Accept(d) \/ HandlerReturns(d) \/ Stop(d) \/ CloseOnDone(d)
        \/ AcceptFails(d) \/ FinishServe(d)
        \/ EngineReturns(d) \/ CloseServer(d) \/ Exit(d) \/ Killed(d)

CtlSpec == CtlInit /\ [][CtlNext]_ctlVars

-----------------------------------------------------------------------------

(***************************************************************************)
(* The lock, not the socket's name, decides who serves: a daemon accepts   *)
(* or still handles connections only while it holds the lock, and the name *)
(* a starting daemon is about to remove is nobody's live socket.           *)
(***************************************************************************)
SoleServer ==
    \A d \in Daemons :
        /\ main[d] = "run" /\ (serving[d] = "accept" \/ waiting[d] > 0) => lock = d
        /\ main[d] = "remove" /\ path # NoDaemon => ~ln[path]

(***************************************************************************)
(* internal/control/server.go, Listen: the lock is "held for the daemon's  *)
(* lifetime" and "is what makes the daemon single-instance", the           *)
(* alternative being "two clock owners".                                   *)
(***************************************************************************)
OneClockOwner ==
    \A d, e \in Daemons : engineRuns[d] /\ engineRuns[e] => d = e

(***************************************************************************)
(* With leap acquisition on, the lock on its cache outlives the engine, so *)
(* a successor's engine never runs beside it.                              *)
(***************************************************************************)
OneOwnerWithCache == leapCache => OneClockOwner

=============================================================================
