------------------------------ MODULE Recorder ------------------------------
(***************************************************************************)
(* The statistics writer (internal/stats/writer.go): the engine and the    *)
(* reference clocks hand it snapshots and pulses over bounded queues and   *)
(* never wait; it writes one row per loop update and per pulse into files  *)
(* kept by UTC day, and removes days older than the retention.             *)
(***************************************************************************)
EXTENDS Naturals, Sequences

CONSTANTS
    Days, KeepDays,         \* the days the wall clock may read; Config.KeepDays
    SnapCap, PulseCap,      \* the capacities of r.ch and r.pulses
    MaxRows, MaxFaults      \* bounds: kind -> rows of it, and steps that fail

Kinds == {"loop", "pps"}

ASSUME RecorderConstants ==
    /\ Days \subseteq Nat \ {0} /\ KeepDays \in Nat
    /\ SnapCap \in Nat /\ PulseCap \in Nat
    /\ MaxRows \in [Kinds -> Nat] /\ MaxFaults \in Nat

VARIABLES
    today,                  \* the wall clock's day
    snaps, pulses,          \* r.ch, r.pulses
    made,                   \* rows offered so far, by kind
    accepted,               \* ghost: the pulses offered while Run takes any
    dropped,                \* pulses counted in r.pulsesDropped
    lastUpdates, horizon,   \* horizon = 0 while ~haveHorizon
    open,                   \* the day of the open file of each kind, 0 for none
    buf, disk,              \* rows in the open files' buffers, rows in files
    dirs,                   \* the day directories
    unwritten,              \* ghost: rows whose write or flush failed
    faults,                 \* steps in which a file operation failed
    engineUp, rec           \* the engine runs; where Run is

recVars == <<today, snaps, pulses, made, accepted, dropped, lastUpdates, horizon, open, buf,
             disk, dirs, unwritten, faults, engineUp, rec>>

Row(k, n) == [kind |-> k, n |-> n, day |-> today]

RecInit ==
    /\ today \in Days
    /\ snaps = <<>> /\ pulses = <<>>
    /\ made = [k \in Kinds |-> 0]
    /\ accepted = {} /\ dropped = {} /\ lastUpdates = 0 /\ horizon = 0
    /\ open = [k \in Kinds |-> 0]
    /\ buf = {} /\ disk = {} /\ dirs = {} /\ unwritten = {} /\ faults = 0
    /\ engineUp = TRUE /\ rec = "run"

-----------------------------------------------------------------------------
(* The callers. *)

files == <<open, buf, disk, dirs, unwritten, faults>>

(* External: the wall clock is set, or midnight passes. *)
ClockSet ==
    /\ today' \in Days \ {today}
    /\ UNCHANGED <<snaps, pulses, made, accepted, dropped, lastUpdates, horizon, files, engineUp, rec>>

(* Record, from the engine: an update may be new, the clock may be synced. *)
RecordSnapshot ==
    /\ engineUp /\ made["loop"] < MaxRows["loop"]
    /\ \E synced, update \in BOOLEAN :
           LET n == made["loop"] + (IF update THEN 1 ELSE 0)
               st == [row |-> Row("loop", n), synced |-> synced]
           IN  /\ made' = [made EXCEPT !["loop"] = n]
               /\ snaps' = IF Len(snaps) < SnapCap THEN Append(snaps, st) ELSE snaps
    /\ UNCHANGED <<today, pulses, accepted, dropped, lastUpdates, horizon, files, engineUp, rec>>

(* Pulse, from a reference clock's goroutine, which may have been abandoned *)
(* at the engine's drain deadline and outlive both Runs.                    *)
RecordPulse ==
    /\ made["pps"] < MaxRows["pps"]
    /\ LET p == Row("pps", made["pps"] + 1)
       IN  /\ made' = [made EXCEPT !["pps"] = @ + 1]
           /\ accepted' = IF rec = "done" THEN accepted ELSE accepted \cup {p}
           /\ IF Len(pulses) < PulseCap
              THEN pulses' = Append(pulses, p) /\ UNCHANGED dropped
              ELSE dropped' = dropped \cup {p} /\ UNCHANGED pulses
    /\ UNCHANGED <<today, snaps, lastUpdates, horizon, files, engineUp, rec>>

(* The engine's Run returns and main cancels the statistics context. *)
StopStats ==
    /\ engineUp /\ engineUp' = FALSE
    /\ UNCHANGED <<today, snaps, pulses, made, accepted, dropped, lastUpdates, horizon, files, rec>>

-----------------------------------------------------------------------------
(* The files, as the record d of open, buf, disk, dirs and unwritten.  In  *)
(* a step the operations of the set bad fail: the flush of a kind's file,  *)
(* "make" (the old file's close, the directory) or "open" (the new file).  *)

Operations == Kinds \cup {"make", "open"}

OfKind(k, R) == {r \in R : r.kind = k}

(* closeDaily, flush: the buffered rows of kind k reach the file, which    *)
(* may be in a directory already removed, or are lost.                     *)
Flushed(d, k, bad) ==
    LET mine == OfKind(k, d.buf)
    IN  [d EXCEPT !.buf = @ \ mine,
                  !.disk = IF k \in bad THEN @ ELSE @ \cup {r \in mine : r.day \in d.dirs},
                  !.unwritten = IF k \in bad THEN @ \cup mine ELSE @]

FlushAll(d, bad) == Flushed(Flushed(d, "loop", bad), "pps", bad)

(* closeFiles, whose error is discarded. *)
Closed(d, bad) == [FlushAll(d, bad) EXCEPT !.open = [k \in Kinds |-> 0]]

(* Mutant: retention runs from the date of the row being written. *)
KeptFromRow(h, row) == IF row.day > KeepDays THEN row.day - KeepDays ELSE 0

(* pruneTrusted, prune: the first day kept; none is removed before a       *)
(* horizon is known, or where keep_days = 0 keeps everything.              *)
KeptFrom(h, row) == IF KeepDays > 0 /\ h > KeepDays THEN h - KeepDays ELSE 0

Pruned(d, cut) ==
    [d EXCEPT !.dirs = {x \in @ : x >= cut}, !.disk = {r \in @ : r.day >= cut}]

(* write: rotate to the row's day, make its directory, prune, open.  The   *)
(* open fails, too, when the row's own day has just been removed.  After   *)
(* an error all files are closed.                                          *)
Written(d, h, row, bad) ==
    LET k == row.kind
        rotated == [Flushed(d, k, bad) EXCEPT !.open[k] = 0]
        made1 == [rotated EXCEPT !.dirs = @ \cup {row.day}]
        kept == Pruned(made1, KeptFrom(h, row))
        opened == [kept EXCEPT !.open[k] = row.day, !.buf = @ \cup {row}]
        failed(x) == [Closed(x, bad) EXCEPT !.unwritten = @ \cup {row}]
    IN  IF d.open[k] = row.day
        THEN IF k \in bad THEN failed(d) ELSE [d EXCEPT !.buf = @ \cup {row}]
        ELSE IF k \in bad \/ "make" \in bad THEN failed(rotated)
        ELSE IF "open" \in bad \/ row.day \notin kept.dirs THEN failed(kept)
        ELSE opened

Disk == [open |-> open, buf |-> buf, disk |-> disk, dirs |-> dirs, unwritten |-> unwritten]

Becomes(d) ==
    /\ open' = d.open /\ buf' = d.buf /\ disk' = d.disk /\ dirs' = d.dirs
    /\ unwritten' = d.unwritten

(* The file operations of a step may fail. *)
Attempt(bad) == IF bad = {} THEN UNCHANGED faults ELSE faults < MaxFaults /\ faults' = faults + 1

-----------------------------------------------------------------------------
(* Run *)

(* process: the horizon advances first, then a new update writes its row.  *)
(* A failed row is tried again with the next snapshot of the same update.  *)
Process ==
    /\ rec # "done" /\ snaps # <<>>
    /\ LET st == Head(snaps)
           h == IF st.synced /\ st.row.day > horizon THEN st.row.day ELSE horizon
       IN  /\ snaps' = Tail(snaps) /\ horizon' = h
           /\ IF st.row.n = lastUpdates THEN UNCHANGED <<files, lastUpdates>>
              ELSE \E bad \in SUBSET Operations :
                       LET d == Written(Disk, h, st.row, bad)
                       IN  /\ Attempt(bad) /\ Becomes(d)
                           /\ lastUpdates' = IF st.row \in d.buf THEN st.row.n ELSE lastUpdates
    /\ UNCHANGED <<today, pulses, made, accepted, dropped, engineUp, rec>>

WritePulse ==
    /\ rec # "done" /\ pulses # <<>>
    /\ pulses' = Tail(pulses)
    /\ \E bad \in SUBSET Operations :
           Attempt(bad) /\ Becomes(Written(Disk, horizon, Head(pulses), bad))
    /\ UNCHANGED <<today, snaps, made, accepted, dropped, lastUpdates, horizon, engineUp, rec>>

(* The minute's flush; a failed one, or a failed row of the server's       *)
(* counters before it, closes the files.                                   *)
FlushTick ==
    /\ rec = "run" /\ buf # {}
    /\ \E bad \in SUBSET Operations :
           /\ Attempt(bad)
           /\ Becomes(IF bad = {} THEN FlushAll(Disk, bad) ELSE Closed(Disk, bad))
    /\ UNCHANGED <<today, snaps, pulses, made, accepted, dropped, lastUpdates, horizon, engineUp, rec>>

(* Mutant: Run ends as soon as it is cancelled. *)
FinishAtOnce ==
    /\ rec = "run" /\ ~engineUp
    /\ rec' = "done"
    /\ \E bad \in SUBSET Operations : Attempt(bad) /\ Becomes(Closed(Disk, bad))
    /\ UNCHANGED <<today, snaps, pulses, made, accepted, dropped, lastUpdates, horizon, engineUp>>

(* Cancelled, Run takes what is queued until both queues are empty.        *)
Finish ==
    /\ rec = "run" /\ ~engineUp /\ snaps = <<>> /\ pulses = <<>>
    /\ rec' = "done"
    /\ \E bad \in SUBSET Operations : Attempt(bad) /\ Becomes(Closed(Disk, bad))
    /\ UNCHANGED <<today, snaps, pulses, made, accepted, dropped, lastUpdates, horizon, engineUp>>

RecNext ==
    \/ ClockSet \/ RecordSnapshot \/ RecordPulse \/ StopStats
    \/ Process \/ WritePulse \/ FlushTick \/ Finish

-----------------------------------------------------------------------------

RecSpec == RecInit /\ [][RecNext]_recVars

-----------------------------------------------------------------------------

(* Older than the retention, at a time the discipline vouched for. *)
Expired(day) == KeepDays > 0 /\ day + KeepDays < horizon

(***************************************************************************)
(* "One row per accepted pulse, or an explicit count of what was lost", as *)
(* far as the files work: a pulse is on its way, in the file of its day,   *)
(* expired with that day, counted as dropped, or lost with an operation    *)
(* that failed on its own file, never by rotation, retention, another      *)
(* file's failure or the drain that ends Run.                              *)
(***************************************************************************)
PulseAccounted ==
    \A p \in accepted :
        \/ Expired(p.day)
        \/ p \in disk \cup dropped
        \/ p \in unwritten /\ faults > 0
        \/ rec # "done" /\ p \in buf \cup {pulses[i] : i \in DOMAIN pulses}

(***************************************************************************)
(* Retention never removes a day that is still within KeepDays of a time   *)
(* the discipline vouched for, whatever dates the wall clock or the rows   *)
(* carry: the rows of the open files' days keep their directory.           *)
(***************************************************************************)
DaysKept == \A k \in Kinds :
    open[k] # 0 /\ ~Expired(open[k]) => open[k] \in dirs

=============================================================================
