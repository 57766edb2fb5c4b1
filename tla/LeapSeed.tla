------------------------------ MODULE LeapSeed ------------------------------
(***************************************************************************)
(* Asking a publisher for the leap table over HTTPS: the schedule of Run   *)
(* in internal/leap/updater.go with the bookkeeping of seed.json           *)
(* (store.go) and one conditional request (seed.go), across restarts.      *)
(* Installing the table itself is LeapInstall's.                           *)
(***************************************************************************)
EXTENDS Naturals

CONSTANTS
    Floor,              \* seedRetryFloor
    Daily, Jitter,      \* 24 hours, and the 10% it varies by
    MaxBackoff,         \* six hours in errorBackoff
    RetryAfters,        \* what Retry-After may ask for
    MaxVersion,         \* bound: bodies the publisher ever has
    MaxSeedTime         \* bound on the clock

ASSUME SeedConstants ==
    /\ Floor \in Nat /\ Daily \in Nat /\ Jitter \in Nat /\ MaxBackoff \in Nat
    /\ RetryAfters \subseteq Nat /\ MaxSeedTime \in Nat
    /\ Floor + Jitter <= Daily /\ Floor <= MaxBackoff

VARIABLES
    time,               \* UTC, and the monotonic clock
    online,             \* the publisher's current body; its validators name it
    held,               \* the body the durable state has at least, 0 for none
    seedFile,               \* seed.json: the last attempt and the validators
    checked,            \* state.json's LastCheck
    job,                \* "down", "idle", "asked" or, evaluated, "saving"
    mem,                \* seedState; unsaved LastCheck; nextJob; backoff; initialSchedule
    sent,               \* the validators of the request in flight
    asked               \* ghost: when the publisher was last asked and the gap before;
                        \* saved, the record is in seed.json; lost, a later process
                        \* has it not; excused, the one before had been lost

seedVars == <<time, online, held, seedFile, checked, job, mem, sent, asked>>

Max2(x, y) == IF x >= y THEN x ELSE y
Less(x, y) == IF x >= y THEN x - y ELSE 0
Never == MaxSeedTime + 1

Boot == [attempt |-> seedFile.attempt, validators |-> seedFile.validators, checked |-> checked,
         dirty |-> FALSE, next |-> 0, backoff |-> 0, initial |-> TRUE]

SeedInit ==
    /\ time = 0 /\ online = 1 /\ held = 0
    /\ seedFile = [attempt |-> Never, validators |-> 0] /\ checked = Never
    /\ job = "down" /\ mem = Boot /\ sent = 0
    /\ asked = [at |-> Never, gap |-> Never, saved |-> TRUE, lost |-> FALSE,
                excused |-> FALSE]

(* External: time, and a new edition of the table. *)
SeedTick ==
    /\ time < MaxSeedTime /\ time' = time + 1
    /\ UNCHANGED <<online, held, seedFile, checked, job, mem, sent, asked>>

Publication ==
    /\ online < MaxVersion /\ online' = online + 1
    /\ UNCHANGED <<time, held, seedFile, checked, job, mem, sent, asked>>

(* NewUpdater: what LoadSeed cannot read is forgotten. *)
StartUpdater(readable) ==
    /\ job = "down" /\ job' = "idle"
    /\ mem' = IF readable THEN Boot ELSE [Boot EXCEPT !.attempt = Never, !.validators = 0]
    /\ asked' = [asked EXCEPT !.lost = @ \/ ~asked.saved \/ ~readable]
    /\ UNCHANGED <<time, online, held, seedFile, checked, sent>>

(* The process ends at any point. *)
EndProcess ==
    /\ job # "down" /\ job' = "down" /\ mem' = Boot /\ sent' = 0
    /\ UNCHANGED <<time, online, held, seedFile, checked, asked>>

(* Mutant: a restart forgets when the publisher was last asked. *)
AfterFloorForgotten(t) == t

(* The error floor, kept across process lifetimes. *)
AfterFloor(t) == IF mem.attempt = Never THEN t ELSE Max2(t, mem.attempt + Floor)

(* UTC is known for the first time: a table that is held and current puts   *)
(* the first request a day after it was checked, or else accepted.          *)
FirstSchedule ==
    /\ job = "idle" /\ mem.initial
    /\ \E current \in {FALSE, held > 0}, since \in 0..time, j \in 0..(2 * Jitter) :
           LET daily == IF current THEN Max2(time, Less(since + Daily + j, Jitter)) ELSE 0
           IN  /\ mem.checked = Never \/ since = mem.checked
               /\ mem' = [mem EXCEPT !.initial = FALSE, !.next = AfterFloor(daily)]
    /\ UNCHANGED <<time, online, held, seedFile, checked, job, sent, asked>>

(* The loop's save of the state. *)
SaveState ==
    /\ job = "idle" /\ mem.dirty
    /\ checked' = mem.checked /\ mem' = [mem EXCEPT !.dirty = FALSE]
    /\ UNCHANGED <<time, online, held, seedFile, job, sent, asked>>

(* saveSeed: a failure, before the rename or after it, is logged only. *)
SaveSeed(s, ok) == seedFile' \in {s} \cup (IF ok THEN {} ELSE {seedFile})

(* A job starts; the attempt is recorded before it is made. *)
StartJob(ok) ==
    /\ job = "idle" /\ ~mem.initial /\ ~mem.dirty /\ time >= mem.next
    /\ job' = "asked" /\ sent' = mem.validators
    /\ mem' = [mem EXCEPT !.attempt = time]
    /\ SaveSeed([attempt |-> time, validators |-> mem.validators], ok)
    /\ asked' = [at |-> time, gap |-> IF asked.at = Never THEN Never ELSE time - asked.at,
                 saved |-> ok, lost |-> FALSE, excused |-> asked.lost]
    /\ UNCHANGED <<time, online, held, checked>>

-----------------------------------------------------------------------------
(* fetchSeed's outcomes. *)

Backoff(b) == IF b = 0 THEN Floor ELSE IF 2 * b > MaxBackoff THEN MaxBackoff ELSE 2 * b

(* A refusal, or a body that is rejected: only positive jitter is added to  *)
(* the longest of the backoff, a client error's day and a Retry-After.      *)
JobFails ==
    /\ job = "asked" /\ job' = "idle" /\ sent' = 0
    /\ \E retry \in RetryAfters \cup {0}, client \in BOOLEAN, j \in 0..Jitter :
           LET b == Backoff(mem.backoff)
               wait == Max2(Max2(b, retry), IF client THEN Daily ELSE 0)
           IN  mem' = [mem EXCEPT !.backoff = b, !.next = time + wait + j]
    /\ UNCHANGED <<time, online, held, seedFile, checked, asked>>

(* 304: only to a conditional request, by validators that are current. *)
JobNotModified ==
    /\ job = "asked" /\ sent # 0 /\ sent = online
    /\ job' = "saving"
    /\ UNCHANGED <<time, online, held, seedFile, checked, mem, sent, asked>>

(* Mutant: the new validators are on seedFile before the body is installed. *)
JobBodyValidatorsFirst ==
    /\ job = "asked"
    /\ job' = "saving" /\ sent' = online
    /\ seedFile' = [seedFile EXCEPT !.validators = online]
    /\ \/ held' = Max2(held, online)
       \/ UNCHANGED held
    /\ UNCHANGED <<time, online, checked, mem, asked>>

(* 200: the body is installed, which makes it durable. *)
JobBody ==
    /\ job = "asked"
    /\ job' = "saving" /\ sent' = online
    /\ held' = Max2(held, online)
    /\ UNCHANGED <<time, online, seedFile, checked, mem, asked>>

(* The rest of the turn: LastCheck, the validators of the body just          *)
(* evaluated, and the next day's job.                                        *)
JobDone(ok) ==
    /\ job = "saving" /\ job' = "idle" /\ sent' = 0
    /\ IF sent = mem.validators
       THEN UNCHANGED <<seedFile, asked>>
       ELSE /\ SaveSeed([attempt |-> mem.attempt, validators |-> sent], ok)
            /\ asked' = [asked EXCEPT !.saved = @ \/ ok]
    /\ \E known \in BOOLEAN, j \in 0..(2 * Jitter) :
           mem' = [mem EXCEPT !.checked = IF known THEN time ELSE @, !.dirty = @ \/ known,
                              !.validators = sent, !.backoff = 0,
                              !.next = Less(time + Daily + j, Jitter)]
    /\ UNCHANGED <<time, online, held, checked>>

SeedNext ==
    \/ SeedTick \/ Publication \/ EndProcess
    \/ FirstSchedule \/ SaveState
    \/ JobFails \/ JobNotModified \/ JobBody
    \/ \E ok \in BOOLEAN : StartUpdater(ok) \/ StartJob(ok) \/ JobDone(ok)

SeedSpec == SeedInit /\ [][SeedNext]_seedVars

-----------------------------------------------------------------------------

(***************************************************************************)
(* seedRetryFloor separates any two requests to a publisher: always within *)
(* one process, whatever becomes of seed.json, and over restarts unless    *)
(* the record of the attempt could not be saved, or not be read again.     *)
(* ("Whatever happened in between, restarts included", says its comment.)  *)
(***************************************************************************)
SeedFloor == asked.excused \/ asked.gap = Never \/ asked.gap >= Floor

(***************************************************************************)
(* The validators that make the next request conditional describe a body   *)
(* that is held, or an older one: no crash leaves a daemon that is told    *)
(* "not modified" about a table it does not have.                          *)
(***************************************************************************)
ValidatorsHeld == seedFile.validators <= held /\ mem.validators <= held

=============================================================================
