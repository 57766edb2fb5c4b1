---------------------------- MODULE LeapAuthority ----------------------------
(***************************************************************************)
(* What the leap-second updater promises, without its steps: a durable     *)
(* table that is only ever replaced by a later one of the same lineage,    *)
(* and a table in force that, while the daemon runs, never goes back and   *)
(* leads the durable one no further than the file the daemon started from. *)
(* LeapInstall implements this specification.                              *)
(***************************************************************************)
EXTENDS LeapTable

VARIABLES
    durable,    \* the table no crash can take back, or None
    onFile,     \* the table whoever opens the file finds
    loaded,     \* the one the running daemon found there when it started
    inForce,    \* the table the engine serves by, or None
    up          \* the daemon is running

authVars == <<durable, onFile, loaded, inForce, up>>

AuthInit ==
    durable = None /\ onFile = None /\ loaded = None /\ inForce = None /\ up = FALSE

(* A later table of the same lineage: dates grow and the baseline stays. *)
Trails(o, d) == o = None \/ o = d \/ (d # None /\ NoRollback(o, d))

Replace ==
    \E o \in Object :
        up /\ Trails(onFile, o) /\ onFile' = o /\ UNCHANGED <<durable, loaded, inForce, up>>

Commit ==
    up /\ Trails(durable, onFile) /\ durable' = onFile
       /\ UNCHANGED <<onFile, loaded, inForce, up>>

Serve ==
    \E o \in Object :
        /\ up /\ Trails(inForce, o) /\ (Trails(o, durable) \/ Trails(o, loaded))
        /\ inForce' = o /\ UNCHANGED <<durable, onFile, loaded, up>>

(* The daemon ends.  A power loss takes the file back, not below durable. *)
Stop ==
    /\ up /\ up' = FALSE /\ inForce' = None /\ loaded' = None
    /\ \/ UNCHANGED <<durable, onFile>>
       \/ \E d \in Object \cup {None} :
              /\ Trails(durable, d) /\ Trails(d, onFile)
              /\ durable' = d /\ onFile' = d

Start ==
    \E o \in Object \cup {None} :
        /\ ~up /\ up' = TRUE /\ loaded' = onFile
        /\ Trails(o, onFile) /\ inForce' = o /\ UNCHANGED <<durable, onFile>>

AuthNext == Replace \/ Commit \/ Serve \/ Stop \/ Start

AuthSpec == AuthInit /\ [][AuthNext]_authVars

=============================================================================
