---------------------------- MODULE DaemonProofs ----------------------------
(***************************************************************************)
(* What a daemon keeps on disk and shares with other daemons.  A drift     *)
(* write that reported success is durable, for any number of offers,       *)
(* crashes and power losses, and close leaves nothing behind; the control  *)
(* socket's lock decides who serves, and with leap acquisition on there is *)
(* one clock owner, for any number of daemons and restarts; the statistics *)
(* recorder accounts for every pulse and deletes no day it promises to     *)
(* keep, for any retention and any rotation of the files; seed.json keeps  *)
(* the attempts on the leap publisher apart, over any restarts.            *)
(***************************************************************************)
EXTENDS DriftWriter, ControlSocket, Recorder, LeapSeed, TLAPS

-----------------------------------------------------------------------------
(* Asking the publisher.  The last attempt is the same in memory as in the *)
(* publisher's log, and in seed.json once it is saved there, because it is *)
(* recorded before it is made; only a process that could not read it, or   *)
(* that follows one that could not save it, has lost it.  A job that is    *)
(* scheduled by what was not lost is scheduled a floor after it; and the   *)
(* validators in hand never describe a body that is not held.              *)

SeedMem == [attempt : Nat, validators : Nat, checked : Nat, dirty : BOOLEAN,
            next : Nat, backoff : Nat, initial : BOOLEAN]

SeedTypes ==
    /\ time \in 0..MaxSeedTime /\ online \in Nat /\ held \in Nat
    /\ seedFile \in [attempt : Nat, validators : Nat] /\ checked \in Nat
    /\ job \in {"down", "idle", "asked", "saving"}
    /\ mem \in SeedMem /\ sent \in Nat
    /\ asked \in [at : Nat, gap : Nat, saved : BOOLEAN, lost : BOOLEAN, excused : BOOLEAN]

SeedInv ==
    /\ SeedTypes
    /\ asked.saved => seedFile.attempt = asked.at
    /\ job # "down" /\ ~asked.lost => mem.attempt = asked.at
    /\ asked.at # Never => asked.at <= time
    /\ mem.backoff = 0 \/ Floor <= mem.backoff
    /\ job = "idle" /\ ~mem.initial /\ ~asked.lost /\ asked.at # Never
           => asked.at + Floor <= mem.next
    /\ job \in {"asked", "saving"} => ~asked.lost
    /\ SeedFloor
    /\ ValidatorsHeld
    /\ job = "asked" => sent = mem.validators
    /\ job = "saving" => sent <= held

LEMMA SeedNumbers ==
    /\ Floor \in Nat /\ Daily \in Nat /\ Jitter \in Nat /\ MaxBackoff \in Nat
    /\ MaxSeedTime \in Nat /\ Never \in Nat /\ RetryAfters \subseteq Nat
    /\ Floor + Jitter <= Daily /\ Floor <= MaxBackoff
BY SeedConstants DEF Never

LEMMA BootFields ==
    ASSUME SeedInv
    PROVE  /\ Boot \in SeedMem
           /\ Boot.attempt = seedFile.attempt /\ Boot.validators = seedFile.validators
           /\ Boot.backoff = 0 /\ Boot.initial
BY DEF SeedInv, SeedTypes, Boot, SeedMem

LEMMA SeedInitial == SeedInit => SeedInv
<1>. SUFFICES ASSUME SeedInit PROVE SeedInv
  OBVIOUS
<1>1. /\ time = 0 /\ online = 1 /\ held = 0 /\ sent = 0 /\ job = "down"
      /\ seedFile = [attempt |-> Never, validators |-> 0] /\ checked = Never
      /\ asked = [at |-> Never, gap |-> Never, saved |-> TRUE, lost |-> FALSE,
                  excused |-> FALSE]
  BY DEF SeedInit
<1>2. /\ mem \in SeedMem /\ mem.attempt = Never /\ mem.validators = 0 /\ mem.backoff = 0
  BY <1>1, SeedNumbers DEF SeedInit, Boot, SeedMem
<1>. QED  BY <1>1, <1>2, SeedNumbers DEF SeedInv, SeedTypes, SeedFloor, ValidatorsHeld

LEMMA SeedAmbient ==
    ASSUME SeedInv, SeedTick \/ Publication \/ UNCHANGED seedVars PROVE SeedInv'
<1>. USE SeedNumbers DEF SeedInv, SeedTypes, SeedFloor, ValidatorsHeld
<1>1. CASE SeedTick
  BY <1>1 DEF SeedTick
<1>2. CASE Publication
  BY <1>2 DEF Publication
<1>3. CASE UNCHANGED seedVars
  BY <1>3 DEF seedVars
<1>. QED  BY <1>1, <1>2, <1>3

LEMMA StartUpdaterStep ==
    ASSUME SeedInv, NEW readable \in BOOLEAN, StartUpdater(readable) PROVE SeedInv'
<1>1. /\ job' = "idle"
      /\ mem' = IF readable THEN Boot ELSE [Boot EXCEPT !.attempt = Never, !.validators = 0]
      /\ UNCHANGED <<time, online, held, seedFile, checked, sent>>
  BY DEF StartUpdater
<1>. DEFINE l == asked.lost \/ ~asked.saved \/ ~readable
<1>2. asked' = [asked EXCEPT !.lost = l]
  BY Zenon DEF StartUpdater
<1>3. l \in BOOLEAN /\ (~l => readable /\ asked.saved)
  OBVIOUS
<1>. HIDE DEF l
<1>4. /\ asked' \in [at : Nat, gap : Nat, saved : BOOLEAN, lost : BOOLEAN, excused : BOOLEAN]
      /\ asked'.at = asked.at /\ asked'.gap = asked.gap /\ (asked'.saved => asked.saved)
      /\ (asked.excused => asked'.excused) /\ (asked'.lost => l) /\ (l => asked'.lost)
  BY <1>2, <1>3 DEF SeedInv, SeedTypes
<1>5. /\ mem' \in SeedMem /\ mem'.validators \in {0, seedFile.validators}
      /\ mem'.backoff = 0 /\ mem'.initial
      /\ readable => mem'.attempt = seedFile.attempt
  BY <1>1, BootFields, SeedNumbers DEF SeedMem
<1>6. ~asked'.lost => mem'.attempt = asked'.at
  BY <1>3, <1>4, <1>5 DEF SeedInv
<1>. QED  BY <1>1, <1>4, <1>5, <1>6, SeedNumbers
          DEF SeedInv, SeedTypes, SeedFloor, ValidatorsHeld

LEMMA EndProcessStep == ASSUME SeedInv, EndProcess PROVE SeedInv'
<1>1. /\ mem' = Boot /\ job' = "down" /\ sent' = 0
      /\ UNCHANGED <<time, online, held, seedFile, checked, asked>>
  BY DEF EndProcess
<1>2. /\ mem' \in SeedMem /\ mem'.validators = seedFile.validators /\ mem'.backoff = 0
  BY <1>1, BootFields
<1>. QED  BY <1>1, <1>2, SeedNumbers DEF SeedInv, SeedTypes, SeedFloor, ValidatorsHeld

LEMMA FirstScheduleStep == ASSUME SeedInv, FirstSchedule PROVE SeedInv'
<1>1. PICK sure \in {FALSE, held > 0}, since \in 0..time, j \in 0..(2 * Jitter) :
          mem' = [mem EXCEPT !.initial = FALSE,
                     !.next = AfterFloor(IF sure THEN Max2(time, Less(since + Daily + j, Jitter))
                                                    ELSE 0)]
  BY DEF FirstSchedule
<1>. DEFINE daily == IF sure THEN Max2(time, Less(since + Daily + j, Jitter)) ELSE 0
            n == AfterFloor(daily)
<1>2. daily \in Nat
  <2>1. Less(since + Daily + j, Jitter) \in Nat /\ time \in Nat
    BY <1>1, SeedNumbers DEF Less, SeedInv, SeedTypes
  <2>. QED  BY <2>1 DEF Max2
<1>. HIDE DEF daily
<1>3. n \in Nat /\ (~asked.lost /\ asked.at # Never => asked.at + Floor <= n)
  <2>1. /\ mem.attempt \in Nat /\ (~asked.lost => mem.attempt = asked.at)
        /\ asked.at \in Nat
    BY DEF FirstSchedule, SeedInv, SeedTypes, SeedMem
  <2>. QED  BY <1>2, <2>1, SeedNumbers DEF AfterFloor, Max2
<1>4. mem' = [mem EXCEPT !.initial = FALSE, !.next = n]
  BY <1>1 DEF daily
<1>. HIDE DEF n
<1>5. /\ mem' \in SeedMem /\ mem'.attempt = mem.attempt /\ mem'.validators = mem.validators
      /\ mem'.backoff = mem.backoff /\ mem'.next = n
  BY <1>3, <1>4 DEF SeedInv, SeedTypes, SeedMem
<1>6. UNCHANGED <<time, online, held, seedFile, checked, job, sent, asked>>
  BY DEF FirstSchedule
<1>. QED  BY <1>3, <1>5, <1>6 DEF SeedInv, SeedTypes, SeedFloor, ValidatorsHeld

LEMMA SaveStateStep == ASSUME SeedInv, SaveState PROVE SeedInv'
<1>1. /\ checked' = mem.checked /\ mem' = [mem EXCEPT !.dirty = FALSE]
      /\ UNCHANGED <<time, online, held, seedFile, job, sent, asked>>
  BY DEF SaveState
<1>2. /\ mem' \in SeedMem /\ mem'.attempt = mem.attempt /\ mem'.validators = mem.validators
      /\ mem'.backoff = mem.backoff /\ mem'.next = mem.next /\ mem.checked \in Nat
  BY <1>1 DEF SeedInv, SeedTypes, SeedMem
<1>3. mem'.initial = mem.initial
  BY <1>1 DEF SeedInv, SeedTypes, SeedMem
<1>4. job = "idle" /\ ~mem'.initial /\ ~asked.lost /\ asked.at # Never
          => asked.at + Floor <= mem.next
  BY <1>3 DEF SeedInv
<1>. QED  BY <1>1, <1>2, <1>4 DEF SeedInv, SeedTypes, SeedFloor, ValidatorsHeld

LEMMA SaveSeedFields ==
    ASSUME SeedTypes, NEW s \in [attempt : Nat, validators : Nat], NEW ok \in BOOLEAN,
           SaveSeed(s, ok), s.validators <= held, seedFile.validators <= held
    PROVE  /\ seedFile' \in [attempt : Nat, validators : Nat]
           /\ ok => seedFile' = s
           /\ seedFile' = s \/ seedFile' = seedFile
           /\ seedFile'.validators <= held
BY DEF SaveSeed, SeedTypes

(* The gap that the publisher sees is at least the floor. *)
LEMMA StartJobStep ==
    ASSUME SeedInv, NEW ok \in BOOLEAN, StartJob(ok) PROVE SeedInv'
<1>. DEFINE g == IF asked.at = Never THEN Never ELSE time - asked.at
            s == [attempt |-> time, validators |-> mem.validators]
<1>1. /\ time \in Nat /\ time <= MaxSeedTime /\ time # Never
  BY SeedNumbers DEF SeedInv, SeedTypes, Never
<1>2. job = "idle" /\ ~mem.initial /\ mem.next <= time /\ mem.next \in Nat
  BY <1>1 DEF StartJob, SeedInv, SeedTypes, SeedMem
<1>3. g \in Nat /\ (asked.lost \/ g = Never \/ Floor <= g)
  <2>1. CASE asked.at = Never
    BY <2>1, SeedNumbers
  <2>2. CASE asked.at # Never
    BY <1>1, <1>2, <2>2, SeedNumbers DEF SeedInv, SeedTypes
  <2>. QED  BY <2>1, <2>2
<1>4. /\ job' = "asked" /\ sent' = mem.validators /\ mem' = [mem EXCEPT !.attempt = time]
      /\ SaveSeed(s, ok)
      /\ asked' = [at |-> time, gap |-> g, saved |-> ok, lost |-> FALSE,
                   excused |-> asked.lost]
      /\ UNCHANGED <<time, online, held, checked>>
  BY DEF StartJob
<1>. HIDE DEF g
<1>5. /\ mem' \in SeedMem /\ mem'.attempt = time /\ mem'.validators = mem.validators
      /\ mem'.backoff = mem.backoff /\ mem.validators \in Nat
  BY <1>1, <1>4 DEF SeedInv, SeedTypes, SeedMem
<1>6. s \in [attempt : Nat, validators : Nat] /\ s.attempt = time /\ s.validators <= held
  BY <1>1, <1>5 DEF SeedInv, ValidatorsHeld
<1>. HIDE DEF s
<1>7. /\ seedFile' \in [attempt : Nat, validators : Nat] /\ (ok => seedFile'.attempt = time)
      /\ seedFile'.validators <= held
  BY <1>4, <1>6, SaveSeedFields DEF SeedInv, ValidatorsHeld
<1>8. /\ asked' \in [at : Nat, gap : Nat, saved : BOOLEAN, lost : BOOLEAN, excused : BOOLEAN]
      /\ asked'.at = time /\ asked'.gap = g /\ (asked'.saved => ok) /\ ~asked'.lost
      /\ (asked.lost => asked'.excused)
  BY <1>1, <1>3, <1>4 DEF SeedInv, SeedTypes
<1>. QED  BY <1>1, <1>3, <1>4, <1>5, <1>7, <1>8
          DEF SeedInv, SeedTypes, SeedFloor, ValidatorsHeld

LEMMA JobFailsStep == ASSUME SeedInv, JobFails PROVE SeedInv'
<1>. DEFINE b == Backoff(mem.backoff)
            W(retry, client) == Max2(Max2(b, retry), IF client THEN Daily ELSE 0)
<1>1. PICK retry \in RetryAfters \cup {0}, client \in BOOLEAN, j \in 0..Jitter :
          mem' = [mem EXCEPT !.backoff = b, !.next = time + W(retry, client) + j]
  BY DEF JobFails
<1>2. b \in Nat /\ Floor <= b
  BY SeedNumbers DEF Backoff, SeedInv, SeedTypes, SeedMem
<1>. HIDE DEF b
<1>. DEFINE n == time + W(retry, client) + j
<1>3. n \in Nat /\ time + Floor <= n
  <2>1. retry \in Nat /\ j \in Nat /\ time \in Nat
    BY <1>1, SeedNumbers DEF SeedInv, SeedTypes
  <2>2. W(retry, client) \in Nat /\ Floor <= W(retry, client)
    BY <1>2, <2>1, SeedNumbers DEF Max2
  <2>. HIDE DEF W
  <2>. QED  BY <2>1, <2>2, SeedNumbers
<1>4. mem' = [mem EXCEPT !.backoff = b, !.next = n]
  BY <1>1
<1>. HIDE DEF n
<1>5. /\ mem' \in SeedMem /\ mem'.attempt = mem.attempt /\ mem'.validators = mem.validators
      /\ mem'.backoff = b /\ mem'.next = n
  BY <1>2, <1>3, <1>4 DEF SeedInv, SeedTypes, SeedMem
<1>6. /\ job' = "idle" /\ sent' = 0
      /\ UNCHANGED <<time, online, held, seedFile, checked, asked>>
  BY DEF JobFails
<1>7. asked.at # Never => asked.at + Floor <= n
  BY <1>3, SeedNumbers DEF SeedInv, SeedTypes
<1>8. ~asked.lost /\ mem.attempt = asked.at
  BY DEF JobFails, SeedInv
<1>. QED  BY <1>2, <1>5, <1>6, <1>7, <1>8 DEF SeedInv, SeedTypes, SeedFloor, ValidatorsHeld

LEMMA JobAnswerStep == ASSUME SeedInv, JobNotModified \/ JobBody PROVE SeedInv'
<1>1. CASE JobNotModified
  BY <1>1 DEF JobNotModified, SeedInv, SeedTypes, SeedFloor, ValidatorsHeld
<1>2. CASE JobBody
  <2>1. /\ job' = "saving" /\ sent' = online /\ held' = Max2(held, online)
        /\ UNCHANGED <<time, online, seedFile, checked, mem, asked>>
    BY <1>2 DEF JobBody
  <2>2. held' \in Nat /\ held <= held' /\ online <= held' /\ held \in Nat /\ online \in Nat
    BY <2>1 DEF Max2, SeedInv, SeedTypes
  <2>3. /\ job = "asked" /\ ~asked.lost /\ mem.attempt = asked.at
        /\ mem.validators \in Nat /\ seedFile.validators \in Nat
    BY <1>2 DEF JobBody, SeedInv, SeedTypes, SeedMem
  <2>. QED  BY <2>1, <2>2, <2>3 DEF SeedInv, SeedTypes, SeedFloor, ValidatorsHeld
<1>. QED  BY <1>1, <1>2

LEMMA JobDoneStep ==
    ASSUME SeedInv, NEW ok \in BOOLEAN, JobDone(ok) PROVE SeedInv'
<1>1. PICK timed \in BOOLEAN, j \in 0..(2 * Jitter) :
          mem' = [mem EXCEPT !.checked = IF timed THEN time ELSE @, !.dirty = @ \/ timed,
                             !.validators = sent, !.backoff = 0,
                             !.next = Less(time + Daily + j, Jitter)]
  BY DEF JobDone
<1>. DEFINE c == IF timed THEN time ELSE mem.checked
            d == mem.dirty \/ timed
            n == Less(time + Daily + j, Jitter)
<1>2. n \in Nat /\ time + Floor <= n
  BY <1>1, SeedNumbers DEF Less, SeedInv, SeedTypes
<1>3. c \in Nat /\ d \in BOOLEAN
  BY DEF SeedInv, SeedTypes, SeedMem
<1>4. mem' = [mem EXCEPT !.checked = c, !.dirty = d, !.validators = sent, !.backoff = 0,
                         !.next = n]
  BY <1>1, Zenon
<1>. HIDE DEF c, d, n
<1>5. /\ mem' \in SeedMem /\ mem'.attempt = mem.attempt /\ mem'.validators = sent
      /\ mem'.backoff = 0 /\ mem'.next = n
  BY <1>2, <1>3, <1>4 DEF SeedInv, SeedTypes, SeedMem
<1>6. /\ job = "saving" /\ job' = "idle" /\ sent' = 0
      /\ UNCHANGED <<time, online, held, checked>>
  BY DEF JobDone
<1>7. /\ seedFile' \in [attempt : Nat, validators : Nat] /\ seedFile'.validators <= held
      /\ asked' \in [at : Nat, gap : Nat, saved : BOOLEAN, lost : BOOLEAN, excused : BOOLEAN]
      /\ asked'.at = asked.at /\ asked'.gap = asked.gap
      /\ (asked.excused => asked'.excused) /\ ~asked'.lost
      /\ asked'.saved => seedFile'.attempt = asked.at
  <2>. DEFINE s == [attempt |-> mem.attempt, validators |-> sent]
  <2>1. CASE sent = mem.validators
    BY <1>6, <2>1 DEF JobDone, SeedInv, SeedTypes, ValidatorsHeld
  <2>2. CASE sent # mem.validators
    <3>. DEFINE v == asked.saved \/ ok
    <3>1. SaveSeed(s, ok) /\ asked' = [asked EXCEPT !.saved = v]
      BY <2>2, Zenon DEF JobDone
    <3>2. s \in [attempt : Nat, validators : Nat] /\ s.validators <= held
          /\ s.attempt = asked.at
      BY <1>6 DEF SeedInv, SeedTypes, SeedMem
    <3>. HIDE DEF s
    <3>3. /\ seedFile' \in [attempt : Nat, validators : Nat] /\ (ok => seedFile' = s)
          /\ seedFile' = s \/ seedFile' = seedFile
          /\ seedFile'.validators <= held
      BY <3>1, <3>2, SaveSeedFields DEF SeedInv, ValidatorsHeld
    <3>4. v \in BOOLEAN /\ (v => asked.saved \/ ok)
      OBVIOUS
    <3>. HIDE DEF v
    <3>5. /\ asked' \in [at : Nat, gap : Nat, saved : BOOLEAN, lost : BOOLEAN,
                          excused : BOOLEAN]
          /\ asked'.at = asked.at /\ asked'.gap = asked.gap /\ (asked'.saved => v)
          /\ (asked.excused => asked'.excused) /\ (asked'.lost => asked.lost)
      BY <3>1, <3>4 DEF SeedInv, SeedTypes
    <3>. QED  BY <1>6, <3>2, <3>3, <3>4, <3>5 DEF SeedInv
  <2>. QED  BY <2>1, <2>2
<1>8. asked.at # Never => asked.at + Floor <= n
  BY <1>2, SeedNumbers DEF SeedInv, SeedTypes
<1>9. job = "saving" => mem.attempt = asked.at
  BY DEF SeedInv
<1>. QED  BY <1>5, <1>6, <1>7, <1>8, <1>9 DEF SeedInv, SeedTypes, SeedFloor, ValidatorsHeld

LEMMA SeedInvariant == SeedSpec => []SeedInv
<1>1. SeedInv /\ [SeedNext]_seedVars => SeedInv'
  BY SeedAmbient, StartUpdaterStep, EndProcessStep, FirstScheduleStep, SaveStateStep, StartJobStep,
     JobFailsStep, JobAnswerStep, JobDoneStep DEF SeedNext
<1>. QED  BY <1>1, SeedInitial, PTL DEF SeedSpec

(* Run asks the publisher no two times within seedRetryFloor, for any     *)
(* backoff, jitter and Retry-After: in one process always, and over any    *)
(* number of restarts unless the record of the attempt was not saved or    *)
(* not read, because it is put into seed.json before the request is made.  *)
THEOREM FloorIsKept == SeedSpec => []SeedFloor
BY SeedInvariant, PTL DEF SeedInv

(* Wherever the process ends, the validators in seed.json describe a body  *)
(* that state.json holds or an older one: they are saved after the body.   *)
THEOREM ValidatorsAreHeld == SeedSpec => []ValidatorsHeld
BY SeedInvariant, PTL DEF SeedInv

-----------------------------------------------------------------------------
(* The drift file. *)

(***************************************************************************)
(* The inductive invariant.  Candidates move from the slot to the worker   *)
(* to the file in the order they were offered, so the one being written is *)
(* never older than anything the file has held; a candidate that may still *)
(* surface after a power loss is at least the last reported success.       *)
(***************************************************************************)
DriftInv ==
    /\ TypeOK
    /\ wrk = "temp" => hold > dir
    /\ wrk = "sync" => hold = dir
    /\ wrk = "done" => slot = 0 /\ eng \in {"closing", "closed", "deadline"}
    /\ eng = "closed" => wrk = "done"
    /\ eng \in {"retry", "finalRetry", "full", "finalFull"} =>
           offered > slot /\ offered > hold /\ offered > dir
    /\ slot # 0 => slot > dir /\ slot > hold
    /\ dir \in survivors
    /\ \A v \in survivors : v >= success

LEMMA DriftInitial == Init => DriftInv
<1>. SUFFICES ASSUME Init PROVE DriftInv
  OBVIOUS
<1>1. excused \in BOOLEAN
  BY Zenon DEF Init
<1>2. TypeOK
  BY <1>1, DriftConstants DEF Init, TypeOK
<1>3. wrk = "recv" /\ hold = 0 /\ slot = 0 /\ eng = "run" /\ dir = 0
        /\ survivors = {0} /\ success = 0
  BY Zenon DEF Init
<1>. QED  BY <1>2, <1>3 DEF DriftInv

(***************************************************************************)
(* What offer leaves where.  Only the engine fills the slot, so what is    *)
(* pending when it looks is the newest candidate or, between its two       *)
(* selects, the one before; and whichever of the two the worker has taken  *)
(* it still holds or has put in the file, unless something failed.         *)
(***************************************************************************)
OfferInv ==
    /\ eng \in {"retry", "finalRetry"} => slot = 0
    /\ eng \in {"full", "finalFull"} => slot = 0 \/ slot + 1 = offered
    /\ eng \in {"run", "final", "closing"} => slot = 0 \/ slot = offered
    /\ ~excused /\ eng \in {"run", "final", "closing", "full", "finalFull"} =>
           \E v \in {slot, hold, dir} : v + 1 >= offered

(* Offering, superseding, retrying and closing touch only the slot. *)
LEMMA EngineStep ==
    ASSUME DriftInv,
           (\E final \in BOOLEAN : Offer(final)) \/ Supersede \/ Retry \/ Leave \/ Close \/ CloseReturns
    PROVE  DriftInv'
<1>1. ASSUME NEW final \in BOOLEAN, Offer(final) PROVE DriftInv'
  <2>. DEFINE tag == IF final THEN "final" ELSE "run"
  <2>1. tag \in {"run", "final"}
    OBVIOUS
  <2>2. TrySend(offered', tag)
    BY <1>1 DEF Offer
  <2>3. /\ eng = "run" /\ offered < MaxOffers /\ offered' = offered + 1
        /\ UNCHANGED <<wrk, hold, dir, survivors, success, excused>>
    BY <1>1 DEF Offer
  <2>4. TypeOK'
    <3>. HIDE DEF tag
    <3>. QED  BY <2>1, <2>2, <2>3, DriftConstants DEF TrySend, DriftInv, TypeOK
  <2>. HIDE DEF tag
  <2>. QED  BY <2>1, <2>2, <2>3, <2>4 DEF TrySend, DriftInv, TypeOK
<1>2. CASE Supersede
  BY <1>2 DEF Supersede, DriftInv, TypeOK
<1>3. CASE Retry
  BY <1>3 DEF Retry, TrySend, DriftInv, TypeOK
<1>4. CASE Leave
  BY <1>4 DEF Leave, DriftInv, TypeOK
<1>5. CASE Close
  BY <1>5 DEF Close, DriftInv, TypeOK
<1>6. CASE CloseReturns
  BY <1>6 DEF CloseReturns, DriftInv, TypeOK
<1>. QED  BY <1>1, <1>2, <1>3, <1>4, <1>5, <1>6

(* The worker's steps and a restart, whatever the power loss kept. *)
LEMMA WorkerStep ==
    ASSUME DriftInv, Take \/ Rename \/ SyncDir \/ Restart
    PROVE  DriftInv'
<1>1. CASE Take
  <2>1. CASE slot # 0 /\ hold' = slot /\ slot' = 0 /\ wrk' = "temp"
    BY <1>1, <2>1 DEF Take, DriftInv, TypeOK
  <2>2. CASE slot = 0 /\ eng \in {"closing", "deadline"} /\ wrk' = "done" /\ UNCHANGED <<hold, slot>>
    BY <1>1, <2>2 DEF Take, DriftInv, TypeOK
  <2>. QED  BY <1>1, <2>1, <2>2 DEF Take
<1>2. CASE Rename
  <2>1. CASE dir' = hold /\ survivors' = survivors \cup {hold} /\ wrk' = "sync"
             /\ UNCHANGED <<hold, excused>>
    <3>1. hold >= success
      BY <1>2 DEF Rename, DriftInv, TypeOK
    <3>2. \A v \in survivors' : v >= success'
      BY <1>2, <2>1, <3>1 DEF Rename, DriftInv
    <3>3. TypeOK'
      BY <1>2, <2>1 DEF Rename, DriftInv, TypeOK
    <3>. QED  BY <1>2, <2>1, <3>2, <3>3 DEF Rename, DriftInv, TypeOK
  <2>2. CASE wrk' = "recv" /\ hold' = 0 /\ excused' = TRUE /\ UNCHANGED <<dir, survivors>>
    BY <1>2, <2>2 DEF Rename, DriftInv, TypeOK
  <2>. QED  BY <1>2, <2>1, <2>2 DEF Rename
<1>3. CASE SyncDir
  <2>1. CASE survivors' = {dir} /\ success' = hold /\ UNCHANGED excused
    BY <1>3, <2>1 DEF SyncDir, DriftInv, TypeOK
  <2>2. CASE excused' = TRUE /\ UNCHANGED <<survivors, success>>
    BY <1>3, <2>2 DEF SyncDir, DriftInv, TypeOK
  <2>. QED  BY <1>3, <2>1, <2>2 DEF SyncDir
<1>4. CASE Restart
  <2>1. excused' \in BOOLEAN
    BY <1>4, Zenon DEF Restart
  <2>2. /\ eng' = "run" /\ slot' = 0 /\ wrk' = "recv" /\ hold' = 0
        /\ offered' = offered /\ success' = success
    BY <1>4, Zenon DEF Restart
  <2>3. dir' \in survivors' /\ survivors' \subseteq survivors
    BY <1>4 DEF Restart, DriftInv
  <2>4. TypeOK'
    BY <2>1, <2>2, <2>3 DEF DriftInv, TypeOK
  <2>. QED  BY <2>2, <2>3, <2>4 DEF DriftInv
<1>. QED  BY <1>1, <1>2, <1>3, <1>4

LEMMA DriftInductive == DriftInv /\ [Next]_vars => DriftInv'
<1>. SUFFICES ASSUME DriftInv, [Next]_vars PROVE DriftInv'
  OBVIOUS
<1>1. CASE UNCHANGED vars
  BY <1>1 DEF vars, DriftInv, TypeOK
<1>2. CASE Next
  BY <1>2, EngineStep, WorkerStep DEF Next
<1>. QED  BY <1>1, <1>2

LEMMA DriftInvariant == Spec => []DriftInv
BY DriftInitial, DriftInductive, PTL DEF Spec

(* writeDrift: "a successful write is durable". *)
THEOREM DriftDurable == Spec => []DurableSuccess
<1>1. DriftInv => DurableSuccess
  BY DEF DriftInv, DurableSuccess
<1>. QED  BY <1>1, DriftInvariant, PTL

(* driftWriter.close reports true only once everything offered is settled. *)
THEOREM DriftClose == Spec => []CloseDrains
<1>1. DriftInv => CloseDrains
  BY DEF DriftInv, TypeOK, CloseDrains
<1>. QED  BY <1>1, DriftInvariant, PTL

LEMMA OfferStep == DriftInv /\ OfferInv /\ [Next]_vars => OfferInv'
<1>. SUFFICES ASSUME DriftInv, OfferInv, [Next]_vars PROVE OfferInv'
  OBVIOUS
<1>. USE DEF DriftInv, TypeOK
<1>1. ASSUME NEW final \in BOOLEAN, Offer(final) PROVE OfferInv'
  <2>. DEFINE tag == IF final THEN "final" ELSE "run"
  <2>1. /\ tag \in {"run", "final"} /\ TrySend(offered', tag)
        /\ eng = "run" /\ offered' = offered + 1
        /\ UNCHANGED <<wrk, hold, dir, survivors, success, excused>>
    BY <1>1 DEF Offer
  <2>. HIDE DEF tag
  <2>. QED  BY <2>1 DEF TrySend, OfferInv
<1>2. CASE Supersede
  BY <1>2 DEF Supersede, OfferInv
<1>3. CASE Retry
  BY <1>3 DEF Retry, TrySend, OfferInv
<1>4. CASE Leave \/ Close \/ CloseReturns
  BY <1>4 DEF Leave, Close, CloseReturns, OfferInv
<1>5. CASE Take
  BY <1>5 DEF Take, OfferInv
<1>6. CASE Rename
  BY <1>6 DEF Rename, OfferInv
<1>7. CASE SyncDir
  BY <1>7 DEF SyncDir, OfferInv
<1>8. CASE Restart
  BY <1>8 DEF Restart, OfferInv
<1>9. CASE UNCHANGED vars
  BY <1>9 DEF vars, OfferInv
<1>. QED  BY <1>1, <1>2, <1>3, <1>4, <1>5, <1>6, <1>7, <1>8, <1>9 DEF Next

(* driftWriter.offer never blocks and loses at most the candidate that     *)
(* raced with the worker, however many are offered.                        *)
THEOREM OfferLoses == Spec => []OfferLosesOne
<1>1. Init => OfferInv
  BY DEF Init, OfferInv
<1>2. OfferInv => OfferLosesOne
  BY DEF OfferInv, OfferLosesOne
<1>. QED  BY <1>1, <1>2, OfferStep, DriftInvariant, PTL DEF Spec

-----------------------------------------------------------------------------
(* The control socket. *)

(* The types of the variables. *)
CtlTypeOK ==
    /\ leapCache \in BOOLEAN
    /\ lock \in Daemons \cup {NoDaemon} /\ path \in Daemons \cup {NoDaemon}
    /\ ln \in [Daemons -> BOOLEAN] /\ bound \in [Daemons -> BOOLEAN]
    /\ engineRuns \in [Daemons -> BOOLEAN] /\ stopping \in [Daemons -> BOOLEAN]
    /\ main \in [Daemons -> {"off", "inspect", "remove", "bind", "run", "exit"}]
    /\ serving \in [Daemons -> {"no", "accept", "finish", "done"}]
    /\ waiting \in [Daemons -> Nat]

(* Whoever starts or serves holds the lock; connections are only handled   *)
(* between the two; and an engine belongs to a daemon that is running.     *)
Holding(d) ==
    /\ main[d] \in {"inspect", "remove", "bind"} => lock = d
    /\ main[d] = "run" /\ serving[d] \in {"accept", "finish"} => lock = d
    /\ serving[d] \in {"no", "done"} => waiting[d] = 0
    /\ engineRuns[d] => main[d] = "run"
    /\ main[d] \notin {"run", "exit"} => serving[d] = "no"
    /\ main[d] = "remove" /\ path # NoDaemon => ~ln[path]

(* The leap cache's lock, from OpenStore to the end of the process. *)
OneProcess == leapCache => \A d, e \in Daemons : main[d] # "off" /\ main[e] # "off" => d = e

CtlInv == CtlTypeOK /\ (\A d \in Daemons : Holding(d)) /\ OneProcess

(* Every step keeps the types. *)
LEMMA CtlTypes ==
    ASSUME CtlTypeOK, NEW d \in Daemons,
           \/ LockPath(d) \/ Inspect(d) \/ RemoveStale(d) \/ Bind(d) \/ BindFails(d)
           \/ Accept(d) \/ HandlerReturns(d) \/ Stop(d) \/ CloseOnDone(d)
           \/ AcceptFails(d) \/ FinishServe(d)
           \/ EngineReturns(d) \/ CloseServer(d) \/ Exit(d) \/ Killed(d)
    PROVE  CtlTypeOK'
<1> USE DEF CtlTypeOK, Released
<1>1. CASE LockPath(d)
  BY <1>1 DEF LockPath, Locks
<1>2. CASE Inspect(d)
  BY <1>2 DEF Inspect
<1>3. CASE RemoveStale(d)
  BY <1>3 DEF RemoveStale
<1>4. CASE Bind(d)
  BY <1>4 DEF Bind
<1>14. CASE BindFails(d)
  BY <1>14 DEF BindFails
<1>5. CASE Accept(d)
  BY <1>5 DEF Accept
<1>6. CASE HandlerReturns(d)
  BY <1>6 DEF HandlerReturns
<1>7. CASE Stop(d)
  BY <1>7 DEF Stop
<1>8. CASE CloseOnDone(d)
  BY <1>8 DEF CloseOnDone, ClosesListener
<1>9. CASE AcceptFails(d)
  BY <1>9 DEF AcceptFails
<1>10. CASE FinishServe(d)
  BY <1>10 DEF FinishServe
<1>11. CASE EngineReturns(d)
  BY <1>11 DEF EngineReturns
<1>12. CASE CloseServer(d)
  BY <1>12 DEF CloseServer
<1>13. CASE Exit(d) \/ Killed(d)
  <2>1. Gone(d)
    BY <1>13 DEF Exit, Killed
  <2>2. leapCache' \in BOOLEAN /\ lock' \in Daemons \cup {NoDaemon}
        /\ path' \in Daemons \cup {NoDaemon}
    BY <2>1 DEF Gone
  <2>3. /\ ln' \in [Daemons -> BOOLEAN] /\ bound' \in [Daemons -> BOOLEAN]
        /\ engineRuns' \in [Daemons -> BOOLEAN] /\ stopping' \in [Daemons -> BOOLEAN]
    BY <2>1 DEF Gone
  <2>4. /\ main' \in [Daemons -> {"off", "inspect", "remove", "bind", "run", "exit"}]
        /\ serving' \in [Daemons -> {"no", "accept", "finish", "done"}]
        /\ waiting' \in [Daemons -> Nat]
    BY <2>1 DEF Gone
  <2> QED BY <2>2, <2>3, <2>4
<1> QED BY <1>1, <1>2, <1>3, <1>4, <1>5, <1>6, <1>7, <1>8, <1>9, <1>10, <1>11, <1>12, <1>13,
       <1>14

(* What a step of daemon d does to what any daemon holds. *)
LEMMA CtlHolding ==
    ASSUME CtlInv, NEW d \in Daemons, NEW e \in Daemons,
           \/ LockPath(d) \/ Inspect(d) \/ RemoveStale(d) \/ Bind(d) \/ BindFails(d)
           \/ Accept(d) \/ HandlerReturns(d) \/ Stop(d) \/ CloseOnDone(d)
           \/ AcceptFails(d) \/ FinishServe(d)
           \/ EngineReturns(d) \/ CloseServer(d) \/ Exit(d) \/ Killed(d)
    PROVE  Holding(e)'
<1> USE ControlConstants DEF CtlTypeOK, Released, Holding
<1>0. Holding(d) /\ Holding(e) /\ CtlTypeOK
  BY DEF CtlInv
<1>1. CASE LockPath(d)
  BY <1>0, <1>1 DEF LockPath, Locks
<1>2. CASE Inspect(d)
  BY <1>0, <1>2 DEF Inspect
<1>3. CASE RemoveStale(d)
  BY <1>0, <1>3 DEF RemoveStale
<1>4. CASE Bind(d)
  BY <1>0, <1>4 DEF Bind
<1>14. CASE BindFails(d)
  <2>1. /\ main[d] = "bind" /\ main' = [main EXCEPT ![d] = "off"] /\ lock = d
        /\ UNCHANGED <<path, ln, serving, engineRuns, waiting>>
    BY <1>0, <1>14 DEF BindFails
  <2>2. CASE e = d
    BY <1>0, <2>1, <2>2
  <2>3. CASE e # d
    <3>1. main'[e] = main[e]
      BY <1>0, <2>1, <2>3
    <3>2. /\ main[e] \notin {"inspect", "remove", "bind"}
          /\ ~(main[e] = "run" /\ serving[e] \in {"accept", "finish"})
      BY <1>0, <2>1, <2>3
    <3> QED BY <1>0, <2>1, <3>1, <3>2
  <2> QED BY <2>2, <2>3
<1>5. CASE Accept(d)
  BY <1>0, <1>5 DEF Accept
<1>6. CASE HandlerReturns(d)
  <2>1. /\ waiting[d] > 0 /\ (e # d => waiting'[e] = waiting[e])
        /\ UNCHANGED <<lock, path, ln, main, serving, engineRuns>>
    BY <1>0, <1>6 DEF HandlerReturns
  <2>2. serving[d] \notin {"no", "done"}
    BY <1>0, <2>1
  <2> QED BY <1>0, <2>1, <2>2
<1>7. CASE Stop(d)
  BY <1>0, <1>7 DEF Stop
<1>8. CASE CloseOnDone(d)
  BY <1>0, <1>8 DEF CloseOnDone, ClosesListener
<1>9. CASE AcceptFails(d)
  BY <1>0, <1>9 DEF AcceptFails
<1>10. CASE FinishServe(d)
  BY <1>0, <1>10 DEF FinishServe
<1>11. CASE EngineReturns(d)
  BY <1>0, <1>11 DEF EngineReturns
<1>12. CASE CloseServer(d)
  BY <1>0, <1>12 DEF CloseServer
<1>13. CASE Exit(d) \/ Killed(d)
  <2>1. Gone(d)
    BY <1>13, Zenon DEF Exit, Killed
  <2>2. CASE e = d
    BY <1>0, <2>1, <2>2 DEF Gone
  <2>3. CASE e # d
    BY <1>0, <2>1, <2>3 DEF Gone
  <2> QED BY <2>2, <2>3
<1> QED BY <1>1, <1>2, <1>3, <1>4, <1>5, <1>6, <1>7, <1>8, <1>9, <1>10, <1>11, <1>12, <1>13,
       <1>14

(* A process starts only when the cache is free, and no step revives one. *)
LEMMA CtlOneProcess ==
    ASSUME CtlInv, NEW d \in Daemons,
           \/ LockPath(d) \/ Inspect(d) \/ RemoveStale(d) \/ Bind(d) \/ BindFails(d)
           \/ Accept(d) \/ HandlerReturns(d) \/ Stop(d) \/ CloseOnDone(d)
           \/ AcceptFails(d) \/ FinishServe(d)
           \/ EngineReturns(d) \/ CloseServer(d) \/ Exit(d) \/ Killed(d)
    PROVE  OneProcess'
<1>1. CASE LockPath(d)
  BY <1>1 DEF CtlInv, OneProcess, CtlTypeOK, LockPath, Locks, CacheFree
<1>2. CASE ~LockPath(d)
  <2>1. leapCache' = leapCache /\ \A e \in Daemons : main'[e] # "off" => main[e] # "off"
    BY <1>2 DEF CtlInv, CtlTypeOK, Inspect, RemoveStale, Bind, BindFails, Accept, HandlerReturns,
                Stop, CloseOnDone, AcceptFails, FinishServe, EngineReturns, CloseServer, Exit,
                Killed, Gone
  <2> QED BY <2>1 DEF CtlInv, OneProcess
<1> QED BY <1>1, <1>2

-----------------------------------------------------------------------------

(* The invariant holds in every reachable state. *)
THEOREM CtlSafe == CtlSpec => []CtlInv
<1>1. CtlInit => CtlInv
  BY ControlConstants DEF CtlInit, CtlInv, CtlTypeOK, Holding, OneProcess
<1>2. CtlInv /\ [CtlNext]_ctlVars => CtlInv'
  <2> SUFFICES ASSUME CtlInv, [CtlNext]_ctlVars PROVE CtlInv'
    OBVIOUS
  <2>1. CASE CtlNext
    BY <2>1, CtlTypes, CtlHolding, CtlOneProcess DEF CtlNext, CtlInv
  <2>2. CASE UNCHANGED ctlVars
    BY <2>2 DEF ctlVars, CtlInv, CtlTypeOK, Holding, OneProcess
  <2> QED BY <2>1, <2>2
<1> QED BY <1>1, <1>2, PTL DEF CtlSpec

(***************************************************************************)
(* A daemon accepts or still handles connections only while it holds the   *)
(* lock, and never removes a live socket (Listen, Serve).                  *)
(***************************************************************************)
THEOREM LockDecides == CtlSpec => []SoleServer
<1>1. CtlInv => SoleServer
  <2> SUFFICES ASSUME CtlInv, NEW d \in Daemons
               PROVE  /\ main[d] = "run" /\ (serving[d] = "accept" \/ waiting[d] > 0) => lock = d
                      /\ main[d] = "remove" /\ path # NoDaemon => ~ln[path]
    BY DEF SoleServer
  <2>1. Holding(d)
    BY DEF CtlInv
  <2>2. serving[d] \in {"no", "accept", "finish", "done"} /\ waiting[d] \in Nat
    BY DEF CtlInv, CtlTypeOK
  <2>3. waiting[d] > 0 => serving[d] \in {"accept", "finish"}
    BY <2>1, <2>2 DEF Holding
  <2> QED BY <2>1, <2>3, Zenon DEF Holding
<1> QED BY <1>1, CtlSafe, PTL

(* With the leap cache locked, two engines never run at once (OpenStore). *)
THEOREM CacheMakesSingle == CtlSpec => []OneOwnerWithCache
<1>1. CtlInv => OneOwnerWithCache
  BY DEF CtlInv, CtlTypeOK, Holding, OneProcess, OneOwnerWithCache, OneClockOwner
<1> QED BY <1>1, CtlSafe, PTL

-----------------------------------------------------------------------------
(* The statistics recorder. *)

Rows == [kind : Kinds, n : Nat, day : Nat \ {0}]
Stored == [open : [Kinds -> Nat], buf : SUBSET Rows, disk : SUBSET Rows,
           dirs : SUBSET Nat, unwritten : SUBSET Rows]

Past(day, h) == KeepDays > 0 /\ day + KeepDays < h

(***************************************************************************)
(* Of the files d under the horizon h: a buffered row, and an open file,   *)
(* belong to a day whose directory is there, unless that day has expired;  *)
(* otherwise a later flush would lose the row silently.                    *)
(***************************************************************************)
Sound(d, h) ==
    /\ d \in Stored
    /\ \A r \in d.buf : r.day \in d.dirs \/ Past(r.day, h)
    /\ \A k \in Kinds : d.open[k] # 0 => d.open[k] \in d.dirs \/ Past(d.open[k], h)

(* The row p is in the files d, or is accounted for. *)
Has(d, h, p) == Past(p.day, h) \/ p \in d.disk \/ p \in d.unwritten \/ p \in d.buf

(* The files d may become e without losing a row. *)
Keeps(d, e, h) == Sound(e, h) /\ \A p \in Rows : Has(d, h, p) => Has(e, h, p)

(* closeDaily, flush: rows leave the buffer for the file or are lost. *)
FlushesTo(d, e, k, bad, h) ==
    /\ Keeps(d, e, h)
    /\ e.buf = d.buf \ OfKind(k, d.buf)
    /\ e.open = d.open /\ e.dirs = d.dirs
    /\ bad = {} => e.unwritten = d.unwritten

LEMMA FlushKeeps ==
    ASSUME NEW h \in Nat, NEW d, Sound(d, h), NEW k \in Kinds, NEW bad
    PROVE  FlushesTo(d, Flushed(d, k, bad), k, bad, h)
<1>. DEFINE mine == OfKind(k, d.buf)
            e == Flushed(d, k, bad)
<1>0. d \in Stored /\ mine \subseteq d.buf
  BY DEF Sound, OfKind
<1>. DEFINE kept == IF k \in bad THEN d.disk ELSE d.disk \cup {r \in mine : r.day \in d.dirs}
            gone == IF k \in bad THEN d.unwritten \cup mine ELSE d.unwritten
<1>1. e = [d EXCEPT !.buf = d.buf \ mine, !.disk = kept, !.unwritten = gone]
  BY Zenon DEF Flushed
<1>2. kept \in SUBSET Rows /\ gone \in SUBSET Rows
  BY <1>0 DEF Stored
<1>3. ASSUME NEW r \in mine PROVE r \in kept \/ r \in gone \/ Past(r.day, h)
  BY <1>0, <1>3 DEF Sound
<1>4. d.disk \subseteq kept /\ d.unwritten \subseteq gone
  OBVIOUS
<1>8. bad = {} => gone = d.unwritten
  OBVIOUS
<1>. HIDE DEF mine, kept, gone
<1>5. /\ e.buf = d.buf \ mine /\ e.disk = kept /\ e.unwritten = gone
      /\ e.open = d.open /\ e.dirs = d.dirs /\ e \in Stored
  BY <1>0, <1>1, <1>2 DEF Stored
<1>. HIDE DEF e
<1>6. Sound(e, h)
  BY <1>5 DEF Sound
<1>7. ASSUME NEW p \in Rows, Has(d, h, p) PROVE Has(e, h, p)
  BY <1>3, <1>4, <1>5, <1>7, Zenon DEF Has
<1>9. FlushesTo(d, e, k, bad, h)
  BY <1>5, <1>6, <1>7, <1>8, Zenon DEF FlushesTo, Keeps, mine
<1>. QED  BY <1>9, Zenon DEF e

LEMMA KeepsTwice ==
    ASSUME NEW h, NEW d, NEW e, NEW f, Keeps(d, e, h), Keeps(e, f, h)
    PROVE  Keeps(d, f, h)
BY Zenon DEF Keeps

(* flush of both files, and closeFiles. *)
LEMMA CloseKeeps ==
    ASSUME NEW h \in Nat, NEW d, Sound(d, h), NEW bad
    PROVE  /\ Keeps(d, FlushAll(d, bad), h)
           /\ Keeps(d, Closed(d, bad), h) /\ Closed(d, bad).buf = {}
           /\ bad = {} => /\ FlushAll(d, bad).unwritten = d.unwritten
                          /\ Closed(d, bad).unwritten = d.unwritten
<1>. DEFINE e == Flushed(d, "loop", bad)
            f == Flushed(e, "pps", bad)
            g == [f EXCEPT !.open = [k \in Kinds |-> 0]]
<1>0. "loop" \in Kinds /\ "pps" \in Kinds
  BY DEF Kinds
<1>1. f = FlushAll(d, bad) /\ g = Closed(d, bad)
  BY Zenon DEF FlushAll, Closed
<1>2. /\ Keeps(d, e, h) /\ e.buf = d.buf \ OfKind("loop", d.buf)
      /\ bad = {} => e.unwritten = d.unwritten
  <2>1. FlushesTo(d, e, "loop", bad, h)
    BY <1>0, FlushKeeps, Zenon
  <2>. QED  BY <2>1, Zenon DEF FlushesTo
<1>3. Sound(e, h)
  BY <1>2, Zenon DEF Keeps
<1>. HIDE DEF e
<1>4. /\ Keeps(e, f, h) /\ f.buf = e.buf \ OfKind("pps", e.buf)
      /\ bad = {} => f.unwritten = e.unwritten
  <2>1. FlushesTo(e, f, "pps", bad, h)
    BY <1>0, <1>3, FlushKeeps, Zenon
  <2>. QED  BY <2>1, Zenon DEF FlushesTo
<1>5. Keeps(d, f, h)
  BY <1>2, <1>4, KeepsTwice
<1>6. Sound(f, h) /\ f \in Stored
  BY <1>5, Zenon DEF Keeps, Sound
<1>7. f.buf = {}
  <2>1. \A r \in d.buf : r.kind \in {"loop", "pps"}
    BY DEF Sound, Stored, Rows, Kinds
  <2>. QED  BY <1>2, <1>4, <2>1 DEF OfKind
<1>. HIDE DEF f
<1>8. /\ g \in Stored /\ g.buf = f.buf /\ g.disk = f.disk /\ g.unwritten = f.unwritten
      /\ g.dirs = f.dirs /\ \A k \in Kinds : g.open[k] = 0
  BY <1>6 DEF Stored
<1>. HIDE DEF g
<1>9. Keeps(f, g, h)
  BY <1>7, <1>8 DEF Keeps, Sound, Has
<1>. QED  BY <1>1, <1>2, <1>4, <1>5, <1>7, <1>8, <1>9, KeepsTwice

(* prune: what is removed is older than the retention. *)
LEMMA PruneKeeps ==
    ASSUME NEW h \in Nat, NEW d, Sound(d, h), NEW row
    PROVE  Keeps(d, Pruned(d, KeptFrom(h, row)), h)
<1>. DEFINE cut == KeptFrom(h, row)
            e == Pruned(d, cut)
<1>0. d \in Stored
  BY DEF Sound
<1>1. cut \in Nat /\ \A day \in Nat : day < cut => Past(day, h)
  BY RecorderConstants DEF KeptFrom, Past
<1>. HIDE DEF cut
<1>2. /\ e \in Stored /\ e.open = d.open /\ e.buf = d.buf /\ e.unwritten = d.unwritten
      /\ e.dirs = {x \in d.dirs : x >= cut} /\ e.disk = {r \in d.disk : r.day >= cut}
  BY <1>0 DEF Stored, Pruned
<1>. HIDE DEF e
<1>3. ASSUME NEW x \in Nat, x \in d.dirs PROVE x \in e.dirs \/ Past(x, h)
  BY <1>1, <1>2, <1>3
<1>4. Sound(e, h)
  <2>1. \A r \in d.buf : r.day \in Nat
    BY <1>0 DEF Stored, Rows
  <2>2. \A k \in Kinds : d.open[k] \in Nat
    BY <1>0 DEF Stored
  <2>. QED  BY <1>2, <1>3, <2>1, <2>2, Zenon DEF Sound
<1>5. ASSUME NEW p \in Rows, Has(d, h, p) PROVE Has(e, h, p)
  <2>1. p.day \in Nat
    BY DEF Rows
  <2>2. p \in d.disk => p \in e.disk \/ Past(p.day, h)
    BY <1>1, <1>2, <2>1
  <2>. QED  BY <1>2, <1>5, <2>2, Zenon DEF Has
<1>. QED  BY <1>4, <1>5 DEF Keeps, e, cut

(* write loses no other row; and where nothing fails it loses its own only *)
(* if retention has removed the row's day, which has expired.              *)
LEMMA WriteKeeps ==
    ASSUME NEW h \in Nat, NEW d, Sound(d, h), NEW row \in Rows, NEW bad
    PROVE  /\ Keeps(d, Written(d, h, row, bad), h) /\ Has(Written(d, h, row, bad), h, row)
           /\ bad = {} => \A x \in Written(d, h, row, bad).unwritten :
                              x \in d.unwritten \/ Past(x.day, h)
<1>. DEFINE k == row.kind
            flushed == Flushed(d, k, bad)
            rotated == [flushed EXCEPT !.open[k] = 0]
            made1 == [rotated EXCEPT !.dirs = @ \cup {row.day}]
            kept == Pruned(made1, KeptFrom(h, row))
            opened == [kept EXCEPT !.open[k] = row.day, !.buf = @ \cup {row}]
            failed(x) == [Closed(x, bad) EXCEPT !.unwritten = @ \cup {row}]
            added == [d EXCEPT !.buf = @ \cup {row}]
<1>0. d \in Stored /\ k \in Kinds /\ row.day \in Nat /\ row.day # 0
  BY DEF Sound, Rows
<1>1. \/ d.open[k] = row.day /\ Written(d, h, row, bad) = added
      \/ bad # {} /\ Written(d, h, row, bad) = failed(d)
      \/ bad # {} /\ Written(d, h, row, bad) = failed(rotated)
      \/ bad # {} /\ Written(d, h, row, bad) = failed(kept)
      \/ row.day \notin kept.dirs /\ Written(d, h, row, bad) = failed(kept)
      \/ row.day \in kept.dirs /\ Written(d, h, row, bad) = opened
  BY Zenon DEF Written
<1>2. ASSUME d.open[k] = row.day PROVE  /\ Keeps(d, added, h) /\ Has(added, h, row)
                                         /\ added.unwritten = d.unwritten
  <2>1. /\ added \in Stored /\ added.open = d.open /\ added.disk = d.disk
        /\ added.dirs = d.dirs /\ added.unwritten = d.unwritten /\ added.buf = d.buf \cup {row}
    BY <1>0 DEF Stored
  <2>2. row.day \in d.dirs \/ Past(row.day, h)
    BY <1>0, <1>2, Zenon DEF Sound
  <2>. HIDE DEF added, k
  <2>3. Sound(added, h)
    BY <2>1, <2>2, Zenon DEF Sound
  <2>. QED  BY <2>1, <2>3, Zenon DEF Keeps, Has
<1>3. Keeps(d, flushed, h) /\ (bad = {} => flushed.unwritten = d.unwritten)
  <2>1. FlushesTo(d, flushed, k, bad, h)
    BY <1>0, FlushKeeps, Zenon
  <2>. QED  BY <2>1, Zenon DEF FlushesTo
<1>4. Sound(flushed, h) /\ flushed \in Stored
  BY <1>3, Zenon DEF Keeps, Sound
<1>. HIDE DEF flushed
<1>5. /\ rotated \in Stored /\ rotated.buf = flushed.buf /\ rotated.disk = flushed.disk
      /\ rotated.dirs = flushed.dirs /\ rotated.unwritten = flushed.unwritten
      /\ \A x \in Kinds : rotated.open[x] \in {0, flushed.open[x]}
  BY <1>0, <1>4 DEF Stored
<1>. HIDE DEF rotated
<1>6. Sound(rotated, h)
  <2>. HIDE DEF k
  <2>. QED  BY <1>4, <1>5 DEF Sound
<1>7. Keeps(d, rotated, h)
  BY <1>3, <1>5, <1>6, Zenon DEF Keeps, Has
<1>8. /\ made1 \in Stored /\ made1.buf = rotated.buf /\ made1.disk = rotated.disk
      /\ made1.unwritten = rotated.unwritten /\ made1.open = rotated.open
      /\ rotated.dirs \subseteq made1.dirs
  BY <1>0, <1>5 DEF Stored
<1>. HIDE DEF made1
<1>9. Sound(made1, h)
  BY <1>6, <1>8, Zenon DEF Sound
<1>10. Keeps(rotated, made1, h) /\ Keeps(made1, kept, h)
  BY <1>8, <1>9, PruneKeeps, Zenon DEF Keeps, Has
<1>11. Keeps(d, kept, h)
  BY <1>7, <1>10, KeepsTwice
<1>12. Sound(kept, h) /\ kept \in Stored
  BY <1>11, Zenon DEF Keeps, Sound
<1>15. /\ bad = {} => kept.unwritten = d.unwritten
       /\ row.day \notin kept.dirs => Past(row.day, h)
  <2>. DEFINE cut == KeptFrom(h, row)
  <2>1. kept.unwritten = made1.unwritten /\ kept.dirs = {x \in made1.dirs : x >= cut}
    BY <1>8 DEF Pruned, Stored
  <2>2. row.day \in made1.dirs
    BY <1>5, <1>8 DEF made1, Stored
  <2>3. row.day < cut => Past(row.day, h)
    BY <1>0, RecorderConstants DEF KeptFrom, Past
  <2>4. cut \in Nat
    BY RecorderConstants DEF KeptFrom
  <2>. HIDE DEF cut, kept
  <2>5. bad = {} => kept.unwritten = d.unwritten
    BY <1>3, <1>5, <1>8, <2>1, Zenon
  <2>6. row.day \notin kept.dirs => ~(row.day >= cut)
    BY <2>1, <2>2, Zenon
  <2>. DEFINE x == row.day
  <2>7. x \in Nat
    BY <1>0, Zenon
  <2>. HIDE DEF x
  <2>8. ~(x >= cut) => x < cut
    BY <2>4, <2>7
  <2>. QED  BY <2>3, <2>5, <2>6, <2>8, Zenon DEF x
<1>. HIDE DEF kept
<1>13. ASSUME NEW x, Keeps(d, x, h)
       PROVE  /\ Keeps(d, failed(x), h) /\ Has(failed(x), h, row)
              /\ bad = {} => failed(x).unwritten = x.unwritten \cup {row}
  <2>. DEFINE c == Closed(x, bad)
              y == [c EXCEPT !.unwritten = @ \cup {row}]
  <2>1. Keeps(x, c, h) /\ (bad = {} => c.unwritten = x.unwritten)
    BY <1>13, CloseKeeps, Zenon DEF Keeps
  <2>2. Keeps(d, c, h)
    BY <1>13, <2>1, KeepsTwice
  <2>3. Sound(c, h) /\ c \in Stored
    BY <2>2, Zenon DEF Keeps, Sound
  <2>. HIDE DEF c
  <2>4. /\ y \in Stored /\ y.open = c.open /\ y.buf = c.buf /\ y.disk = c.disk
        /\ y.dirs = c.dirs /\ y.unwritten = c.unwritten \cup {row}
    BY <2>3 DEF Stored
  <2>. HIDE DEF y
  <2>5. Sound(y, h)
    BY <2>3, <2>4, Zenon DEF Sound
  <2>6. Keeps(d, y, h) /\ Has(y, h, row)
    BY <2>2, <2>4, <2>5, Zenon DEF Keeps, Has
  <2>. QED  BY <2>1, <2>4, <2>6 DEF y, c
<1>14. ASSUME row.day \in kept.dirs
       PROVE  /\ Keeps(d, opened, h) /\ Has(opened, h, row)
              /\ opened.unwritten = kept.unwritten
  <2>1. /\ opened \in Stored /\ opened.buf = kept.buf \cup {row} /\ opened.disk = kept.disk
        /\ opened.dirs = kept.dirs /\ opened.unwritten = kept.unwritten
        /\ \A x \in Kinds : opened.open[x] \in {row.day, kept.open[x]}
    BY <1>0, <1>12 DEF Stored
  <2>. HIDE DEF opened, k
  <2>2. Sound(opened, h)
    BY <1>12, <1>14, <2>1 DEF Sound
  <2>. QED  BY <1>11, <2>1, <2>2, Zenon DEF Keeps, Has
<1>. HIDE DEF added, opened, failed, k
<1>16. Keeps(d, d, h)
  BY DEF Keeps
<1>. DEFINE w == Written(d, h, row, bad)
<1>17. CASE d.open[k] = row.day /\ w = added
  BY <1>2, <1>17, Zenon
<1>18. CASE bad # {} /\ w = failed(d)
  BY <1>13, <1>16, <1>18, Zenon
<1>19. CASE bad # {} /\ (w = failed(rotated) \/ w = failed(kept))
  BY <1>7, <1>11, <1>13, <1>19, Zenon
<1>20. CASE row.day \notin kept.dirs /\ w = failed(kept)
  <2>1. Keeps(d, w, h) /\ Has(w, h, row)
    BY <1>11, <1>13, <1>20, Zenon
  <2>2. ASSUME bad = {} PROVE w.unwritten = d.unwritten \cup {row}
    BY <1>11, <1>13, <1>15, <1>20, <2>2, Zenon
  <2>3. Past(row.day, h)
    BY <1>15, <1>20
  <2>. QED  BY <2>1, <2>2, <2>3, Zenon
<1>21. CASE row.day \in kept.dirs /\ w = opened
  BY <1>14, <1>15, <1>21, Zenon
<1>. QED  BY <1>1, <1>17, <1>18, <1>19, <1>20, <1>21, Zenon

(* Of the files d under the horizon h: a row that could not be written had *)
(* expired.  So it is as long as no operation has failed.                  *)
Faultless(d, h) == \A r \in d.unwritten : Past(r.day, h)

(***************************************************************************)
(* The inductive invariant: the files are sound, so that no flush can lose *)
(* a row but by its own failure, and faultless until one fails.            *)
(***************************************************************************)
RecInv ==
    /\ today \in Days /\ made \in [Kinds -> Nat] /\ horizon \in Nat /\ faults \in Nat
    /\ pulses \in Seq(Rows) /\ accepted \in SUBSET Rows
    /\ snaps \in Seq([row : Rows, synced : BOOLEAN])
    /\ Sound(Disk, horizon)
    /\ faults = 0 => Faultless(Disk, horizon)
    /\ PulseAccounted

(* The pulse p is in the files d, or was, or is counted, or still queued. *)
Accounted(d, h, p) ==
    Has(d, h, p) \/ p \in dropped \/ \E i \in DOMAIN pulses : p = pulses[i]

AllAccounted == \A p \in accepted : Accounted(Disk, horizon, p)

(* What PulseAccounted says before the recorder has ended. *)
LEMMA AccountedFor ==
    /\ PulseAccounted => AllAccounted
    /\ rec # "done" /\ AllAccounted /\ faults \in Nat
           /\ (faults = 0 => Faultless(Disk, horizon)) => PulseAccounted
<1>1. Disk.disk = disk /\ Disk.buf = buf /\ Disk.unwritten = unwritten
  BY DEF Disk
<1>2. \A p : p \in {pulses[i] : i \in DOMAIN pulses} <=> \E i \in DOMAIN pulses : p = pulses[i]
  BY Zenon
<1>3. \A p : Has(Disk, horizon, p) <=> \/ Expired(p.day) \/ p \in disk \/ p \in unwritten \/ p \in buf
  BY <1>1, Zenon DEF Has, Past, Expired
<1>4. faults \in Nat => faults = 0 \/ faults > 0
  OBVIOUS
<1>5. Faultless(Disk, horizon) => \A p \in unwritten : Expired(p.day)
  BY <1>1, Zenon DEF Faultless, Past, Expired
<1>. QED  BY <1>2, <1>3, <1>4, <1>5, Zenon DEF PulseAccounted, Accounted, AllAccounted

(* What becomes of the files is what the operators say. *)
LEMMA BecomesDisk ==
    ASSUME NEW d \in Stored, Becomes(d) PROVE Disk' = d
<1>1. d = [open |-> d.open, buf |-> d.buf, disk |-> d.disk, dirs |-> d.dirs, unwritten |-> d.unwritten]
  BY DEF Stored
<1>. QED  BY <1>1, Zenon DEF Becomes, Disk

(* A later horizon expires more. *)
LEMMA HorizonMoves ==
    ASSUME NEW h \in Nat, NEW i \in Nat, h <= i, NEW d, Sound(d, h)
    PROVE  /\ Keeps(d, d, i) /\ \A p \in Rows : Has(d, h, p) => Has(d, i, p)
           /\ Faultless(d, h) => Faultless(d, i)
<1>1. \A day \in Nat : Past(day, h) => Past(day, i)
  BY RecorderConstants DEF Past
<1>2. (\A r \in Rows : r.day \in Nat) /\ d \in Stored
  BY DEF Rows, Sound
<1>3. /\ d.buf \subseteq Rows /\ d.unwritten \subseteq Rows
      /\ \A k \in Kinds : d.open[k] \in Nat
  BY <1>2 DEF Stored
<1>4. Sound(d, i)
  BY <1>1, <1>2, <1>3, Zenon DEF Sound
<1>5. Faultless(d, h) => Faultless(d, i)
  BY <1>1, <1>2, <1>3, Zenon DEF Faultless
<1>. QED  BY <1>1, <1>2, <1>4, <1>5, Zenon DEF Keeps, Has

LEMMA RecInitial == RecInit => RecInv
<1>. SUFFICES ASSUME RecInit PROVE RecInv
  OBVIOUS
<1>1. Disk = [open |-> [k \in Kinds |-> 0], buf |-> {}, disk |-> {}, dirs |-> {}, unwritten |-> {}]
  BY DEF RecInit, Disk
<1>2. Disk \in Stored
  BY <1>1 DEF Stored
<1>3. Sound(Disk, horizon) /\ Faultless(Disk, horizon)
  BY <1>1, <1>2 DEF Sound, Faultless
<1>4. /\ today \in Days /\ made \in [Kinds -> Nat] /\ horizon \in Nat
      /\ pulses \in Seq(Rows) /\ accepted \in SUBSET Rows
      /\ snaps \in Seq([row : Rows, synced : BOOLEAN])
      /\ faults \in Nat /\ PulseAccounted
  BY DEF RecInit, PulseAccounted
<1>. QED  BY <1>3, <1>4 DEF RecInv

(* What is in a queue is its head or in its tail. *)
LEMMA HeadOrTail ==
    ASSUME NEW S, NEW q \in Seq(S), q # <<>>, NEW i \in DOMAIN q
    PROVE  q[i] = Head(q) \/ \E j \in DOMAIN Tail(q) : Tail(q)[j] = q[i]
<1>1. CASE i = 1
  BY <1>1
<1>2. CASE i # 1
  <2>1. i - 1 \in DOMAIN Tail(q) /\ Tail(q)[i - 1] = q[i]
    BY <1>2
  <2>. QED  BY <2>1, Zenon
<1>. QED  BY <1>1, <1>2

(* A step of the recorder that loses no row, the queue's head included. *)
LEMMA RecKeeps ==
    ASSUME RecInv, rec # "done", rec' = rec, UNCHANGED <<today, made, accepted, dropped, engineUp>>,
           NEW e, Keeps(Disk, e, horizon'), Becomes(e),
           faults' \in Nat, faults' = 0 => Faultless(e, horizon'),
           horizon' \in Nat, horizon <= horizon',
           snaps' = snaps \/ (snaps # <<>> /\ snaps' = Tail(snaps)),
           \/ pulses' = pulses
           \/ pulses # <<>> /\ pulses' = Tail(pulses) /\ Has(e, horizon', Head(pulses))
    PROVE  RecInv'
<1>1. /\ pulses \in Seq(Rows) /\ snaps \in Seq([row : Rows, synced : BOOLEAN])
      /\ horizon \in Nat /\ accepted \in SUBSET Rows /\ Sound(Disk, horizon)
  BY DEF RecInv
<1>2. Sound(e, horizon') /\ e \in Stored
  BY Zenon DEF Keeps, Sound
<1>3. Disk' = e
  BY <1>2, BecomesDisk
<1>4. pulses' \in Seq(Rows) /\ snaps' \in Seq([row : Rows, synced : BOOLEAN])
  <2>1. ASSUME NEW S, NEW q \in Seq(S), q # <<>> PROVE Tail(q) \in Seq(S)
    BY <2>1
  <2>. QED  BY <1>1, <2>1, Zenon
<1>5. ASSUME NEW p \in accepted PROVE Accounted(Disk, horizon, p)'
  <2>1. p \in Rows /\ Accounted(Disk, horizon, p)
    BY <1>1, AccountedFor DEF RecInv, AllAccounted
  <2>2. Has(Disk, horizon, p) => Has(e, horizon', p)
    BY <1>1, <2>1, HorizonMoves, Zenon DEF Keeps
  <2>3. (\E i \in DOMAIN pulses : p = pulses[i]) =>
            (\E i \in DOMAIN pulses' : p = pulses'[i]) \/ Has(e, horizon', p)
    <3>1. CASE pulses' = pulses
      BY <3>1
    <3>2. CASE pulses # <<>> /\ pulses' = Tail(pulses) /\ Has(e, horizon', Head(pulses))
      BY <1>1, <3>2, HeadOrTail, Zenon
    <3>. QED  BY <3>1, <3>2
  <2>. QED  BY <1>3, <2>1, <2>2, <2>3, Zenon DEF Accounted, Has, Past
<1>6. PulseAccounted'
  <2>1. rec' # "done" /\ AllAccounted'
    BY <1>5 DEF AllAccounted
  <2>2. (rec # "done" /\ AllAccounted /\ faults \in Nat
           /\ (faults = 0 => Faultless(Disk, horizon)) => PulseAccounted)'
    BY AccountedFor, PTL
  <2>3. (faults = 0 => Faultless(Disk, horizon))'
    BY <1>3, Zenon DEF Faultless, Past
  <2>. QED  BY <2>1, <2>2, <2>3, Zenon
<1>7. faults' = 0 => Faultless(Disk, horizon)'
  BY <1>3, Zenon DEF Faultless, Past
<1>. QED  BY <1>1, <1>2, <1>3, <1>4, <1>6, <1>7, Zenon DEF RecInv

LEMMA RecStep ==
    ASSUME RecInv, RecNext PROVE RecInv'
<1>1. /\ today \in Days /\ made \in [Kinds -> Nat] /\ horizon \in Nat
      /\ pulses \in Seq(Rows) /\ accepted \in SUBSET Rows
      /\ snaps \in Seq([row : Rows, synced : BOOLEAN])
      /\ Sound(Disk, horizon) /\ PulseAccounted
      /\ faults \in Nat /\ (faults = 0 => Faultless(Disk, horizon))
  BY DEF RecInv
<1>2. Disk.open = open /\ Disk.buf = buf /\ Disk.disk = disk /\ Disk.dirs = dirs
      /\ Disk.unwritten = unwritten
  BY DEF Disk
<1>3. ASSUME UNCHANGED files PROVE Becomes(Disk) /\ faults' = faults /\ Disk' = Disk
  BY <1>2, <1>3, Zenon DEF files, Becomes, Disk
<1>14. ASSUME UNCHANGED files, horizon' = horizon
       PROVE  (faults = 0 => Faultless(Disk, horizon))'
  BY <1>1, <1>3, <1>14, Zenon DEF Faultless, Past
<1>15. ASSUME NEW bad, Attempt(bad)
       PROVE  faults' \in Nat /\ (faults' = 0 => faults = 0 /\ bad = {})
  BY <1>1, <1>15 DEF Attempt
<1>4. ASSUME NEW k \in Kinds, NEW n \in Nat PROVE Row(k, n) \in Rows
  BY <1>1, RecorderConstants DEF Row, Rows
<1>5. CASE ClockSet
  <2>1. today' \in Days /\ UNCHANGED <<snaps, pulses, made, accepted, dropped, horizon, files, engineUp, rec>>
    BY <1>5, Zenon DEF ClockSet
  <2>2. /\ Disk' = Disk /\ PulseAccounted' /\ faults' = faults
        /\ (faults = 0 => Faultless(Disk, horizon))'
    BY <1>1, <1>14, <2>1, Zenon DEF files, Disk, PulseAccounted, Expired
  <2>. QED  BY <1>1, <2>1, <2>2, Zenon DEF RecInv
<1>6. CASE StopStats
  <2>1. engineUp' = FALSE /\ UNCHANGED <<today, snaps, pulses, made, accepted, dropped, horizon, files, rec>>
    BY <1>6, Zenon DEF StopStats
  <2>2. /\ Disk' = Disk /\ PulseAccounted' /\ faults' = faults
        /\ (faults = 0 => Faultless(Disk, horizon))'
    BY <1>1, <1>14, <2>1, Zenon DEF files, Disk, PulseAccounted, Expired
  <2>. QED  BY <1>1, <2>1, <2>2, Zenon DEF RecInv
<1>7. CASE RecordSnapshot
  <2>1. UNCHANGED <<today, pulses, accepted, dropped, horizon, files, engineUp, rec>>
    BY <1>7, Zenon DEF RecordSnapshot
  <2>2. /\ Disk' = Disk /\ PulseAccounted' /\ faults' = faults
        /\ (faults = 0 => Faultless(Disk, horizon))'
    BY <1>1, <1>14, <2>1, Zenon DEF files, Disk, PulseAccounted, Expired
  <2>3. PICK synced \in BOOLEAN, update \in BOOLEAN :
          LET n == made["loop"] + (IF update THEN 1 ELSE 0)
              st == [row |-> Row("loop", n), synced |-> synced]
          IN  /\ made' = [made EXCEPT !["loop"] = n]
              /\ snaps' = IF Len(snaps) < SnapCap THEN Append(snaps, st) ELSE snaps
    BY <1>7, Zenon DEF RecordSnapshot
  <2>. DEFINE n == made["loop"] + (IF update THEN 1 ELSE 0)
              st == [row |-> Row("loop", n), synced |-> synced]
  <2>4. n \in Nat /\ "loop" \in Kinds
    BY <1>1 DEF Kinds
  <2>5. made' = [made EXCEPT !["loop"] = n]
        /\ snaps' = IF Len(snaps) < SnapCap THEN Append(snaps, st) ELSE snaps
    BY <2>3
  <2>. HIDE DEF n
  <2>6. st \in [row : Rows, synced : BOOLEAN]
    BY <1>4, <2>4
  <2>. HIDE DEF st
  <2>7. made' \in [Kinds -> Nat] /\ snaps' \in Seq([row : Rows, synced : BOOLEAN])
    <3>1. ASSUME NEW S, NEW q \in Seq(S), NEW x \in S PROVE Append(q, x) \in Seq(S)
      BY <3>1
    <3>2. snaps' \in Seq([row : Rows, synced : BOOLEAN])
      BY <1>1, <2>5, <2>6, <3>1, Zenon
    <3>. QED  BY <1>1, <2>4, <2>5, <3>2
  <2>. QED  BY <1>1, <2>1, <2>2, <2>7, Zenon DEF RecInv
<1>8. CASE RecordPulse
  <2>. DEFINE p == Row("pps", made["pps"] + 1)
  <2>1. /\ UNCHANGED <<today, snaps, horizon, files, engineUp, rec>>
        /\ made' = [made EXCEPT !["pps"] = @ + 1]
        /\ accepted' = IF rec = "done" THEN accepted ELSE accepted \cup {p}
        /\ \/ pulses' = Append(pulses, p) /\ dropped' = dropped
           \/ pulses' = pulses /\ dropped' = dropped \cup {p}
    BY <1>8, Zenon DEF RecordPulse
  <2>2. p \in Rows /\ made' \in [Kinds -> Nat]
    <3>1. "pps" \in Kinds /\ made["pps"] + 1 \in Nat
      BY <1>1 DEF Kinds
    <3>2. p \in Rows
      BY <1>4, <3>1
    <3>. QED  BY <1>1, <2>1, <3>1, <3>2
  <2>. HIDE DEF p
  <2>3. /\ Disk' = Disk /\ rec' = rec /\ faults' = faults
        /\ (faults = 0 => Faultless(Disk, horizon))'
    BY <1>1, <1>14, <2>1, Zenon DEF files, Disk
  <2>4. pulses' \in Seq(Rows) /\ accepted' \in SUBSET Rows
    <3>1. accepted' = accepted \/ accepted' = accepted \cup {p}
      BY <2>1, Zenon
    <3>2. accepted' \in SUBSET Rows
      BY <1>1, <2>2, <3>1
    <3>3. pulses' = Append(pulses, p) \/ pulses' = pulses
      BY <2>1, Zenon
    <3>4. Append(pulses, p) \in Seq(Rows)
      BY <1>1, <2>2
    <3>. QED  BY <1>1, <3>2, <3>3, <3>4, Zenon
  <2>7. CASE rec = "done"
    <3>1. /\ accepted' = accepted /\ dropped \subseteq dropped' /\ rec' = "done"
          /\ UNCHANGED <<disk, unwritten, faults, horizon, buf>>
      BY <2>1, <2>7, Zenon DEF files
    <3>2. PulseAccounted'
      BY <1>1, <2>7, <3>1, Zenon DEF PulseAccounted, Expired
    <3>. QED  BY <1>1, <2>1, <2>2, <2>3, <2>4, <3>2, Zenon DEF RecInv
  <2>8. SUFFICES ASSUME rec # "done" PROVE RecInv'
    BY <2>7
  <2>5. ASSUME NEW q \in accepted' PROVE Accounted(Disk, horizon, q)'
    <3>1. q \in accepted => Accounted(Disk, horizon, q)
      BY <1>1, AccountedFor DEF AllAccounted
    <3>2. (\E i \in DOMAIN pulses : q = pulses[i]) => (\E i \in DOMAIN pulses' : q = pulses'[i])
      <4>1. CASE pulses' = Append(pulses, p)
        <5>1. pulses \in Seq(Rows) /\ p \in Rows
          BY <1>1, <2>2
        <5>2. \A i \in DOMAIN pulses :
                i \in DOMAIN Append(pulses, p) /\ Append(pulses, p)[i] = pulses[i]
          BY <5>1
        <5>. QED  BY <4>1, <5>2, Zenon
      <4>. QED  BY <2>1, <4>1, Zenon
    <3>3. q = p => q \in dropped' \/ \E i \in DOMAIN pulses' : q = pulses'[i]
      <4>1. CASE pulses' = Append(pulses, p)
        <5>1. Len(pulses) + 1 \in DOMAIN pulses' /\ pulses'[Len(pulses) + 1] = p
          BY <1>1, <2>2, <4>1
        <5>. QED  BY <5>1
      <4>. QED  BY <2>1, <4>1, Zenon
    <3>. QED  BY <2>1, <2>3, <2>8, <3>1, <3>2, <3>3, Zenon DEF Accounted, Has, Past
  <2>6. PulseAccounted'
    <3>1. AllAccounted'
      BY <2>5 DEF AllAccounted
    <3>2. (rec # "done" /\ AllAccounted /\ faults \in Nat
             /\ (faults = 0 => Faultless(Disk, horizon)) => PulseAccounted)'
      BY AccountedFor, PTL
    <3>. QED  BY <1>1, <2>3, <2>8, <3>1, <3>2, Zenon
  <2>. QED  BY <1>1, <2>1, <2>2, <2>3, <2>4, <2>6, Zenon DEF RecInv
<1>9. ASSUME NEW S, NEW q \in Seq(S), q # <<>> PROVE Head(q) \in S
  BY <1>9
<1>10. CASE Process
  <2>. DEFINE st == Head(snaps)
              h == IF st.synced /\ st.row.day > horizon THEN st.row.day ELSE horizon
  <2>1. /\ UNCHANGED <<today, pulses, made, accepted, dropped, engineUp, rec>>
        /\ rec # "done" /\ snaps # <<>> /\ snaps' = Tail(snaps) /\ horizon' = h
        /\ \/ UNCHANGED files
           \/ \E bad : Attempt(bad) /\ Becomes(Written(Disk, h, st.row, bad))
    BY <1>10, Zenon DEF Process
  <2>2. st \in [row : Rows, synced : BOOLEAN]
    BY <1>1, <1>9, <2>1, Zenon
  <2>3. st.row \in Rows /\ h \in Nat /\ horizon <= h
    <3>. DEFINE row == st.row
    <3>1. row \in Rows
      BY <2>2
    <3>2. row.day \in Nat
      BY <3>1 DEF Rows
    <3>3. (h = row.day /\ row.day > horizon) \/ h = horizon
      BY Zenon
    <3>. HIDE DEF h, row
    <3>4. h \in Nat /\ horizon <= h
      BY <1>1, <3>2, <3>3
    <3>. QED  BY <3>1, <3>4 DEF row
  <2>. HIDE DEF h, st
  <2>4. /\ Sound(Disk, h) /\ Keeps(Disk, Disk, h)
        /\ faults = 0 => Faultless(Disk, h)
    BY <1>1, <2>3, HorizonMoves, Zenon DEF Keeps
  <2>5. CASE UNCHANGED files
    <3>1. Becomes(Disk) /\ faults' \in Nat /\ (faults' = 0 => Faultless(Disk, h))
      BY <1>1, <1>3, <2>4, <2>5, Zenon
    <3>. QED  BY <2>1, <2>3, <2>4, <3>1, RecKeeps
  <2>6. ASSUME NEW bad, Attempt(bad), Becomes(Written(Disk, h, st.row, bad)) PROVE RecInv'
    <3>. DEFINE e == Written(Disk, h, st.row, bad)
    <3>1. /\ Keeps(Disk, e, h)
          /\ bad = {} => \A x \in e.unwritten : x \in Disk.unwritten \/ Past(x.day, h)
      BY <2>3, <2>4, WriteKeeps
    <3>. HIDE DEF e
    <3>3. faults' \in Nat /\ (faults' = 0 => Faultless(e, h))
      BY <1>15, <2>4, <2>6, <3>1, Zenon DEF Faultless
    <3>2. Becomes(e)
      BY <2>6 DEF e
    <3>. QED  BY <2>1, <2>3, <3>1, <3>2, <3>3, RecKeeps
  <2>. QED  BY <2>1, <2>5, <2>6
<1>11. CASE WritePulse
  <2>1. /\ UNCHANGED <<today, snaps, made, accepted, dropped, horizon, engineUp, rec>>
        /\ rec # "done" /\ pulses # <<>> /\ pulses' = Tail(pulses)
    BY <1>11, Zenon DEF WritePulse
  <2>2. PICK bad : Attempt(bad) /\ Becomes(Written(Disk, horizon, Head(pulses), bad))
    BY <1>11, Zenon DEF WritePulse
  <2>3. Head(pulses) \in Rows
    BY <1>1, <1>9, <2>1, Zenon
  <2>. DEFINE e == Written(Disk, horizon, Head(pulses), bad)
  <2>4. /\ Keeps(Disk, e, horizon) /\ Has(e, horizon, Head(pulses))
        /\ bad = {} => \A x \in e.unwritten : x \in Disk.unwritten \/ Past(x.day, horizon)
    BY <1>1, <2>3, WriteKeeps
  <2>. HIDE DEF e
  <2>5. Becomes(e)
    BY <2>2, Zenon DEF e
  <2>6. horizon <= horizon
    BY <1>1
  <2>7. faults' \in Nat /\ (faults' = 0 => Faultless(e, horizon))
    BY <1>1, <1>15, <2>2, <2>4, Zenon DEF Faultless
  <2>. QED  BY <1>1, <2>1, <2>4, <2>5, <2>6, <2>7, RecKeeps
<1>12. CASE FlushTick
  <2>1. /\ UNCHANGED <<today, snaps, pulses, made, accepted, dropped, horizon, engineUp, rec>>
        /\ rec # "done"
    BY <1>12, Zenon DEF FlushTick
  <2>2. PICK bad : /\ Attempt(bad)
                   /\ Becomes(IF bad = {} THEN FlushAll(Disk, bad) ELSE Closed(Disk, bad))
    BY <1>12, Zenon DEF FlushTick
  <2>. DEFINE e == IF bad = {} THEN FlushAll(Disk, bad) ELSE Closed(Disk, bad)
  <2>3. Keeps(Disk, e, horizon) /\ (bad = {} => e.unwritten = Disk.unwritten)
    BY <1>1, CloseKeeps, Zenon
  <2>. HIDE DEF e
  <2>4. Becomes(e)
    BY <2>2, Zenon DEF e
  <2>5. horizon <= horizon
    BY <1>1
  <2>6. faults' \in Nat /\ (faults' = 0 => Faultless(e, horizon))
    BY <1>1, <1>15, <2>2, <2>3, Zenon DEF Faultless
  <2>. QED  BY <1>1, <2>1, <2>3, <2>4, <2>5, <2>6, RecKeeps
<1>13. CASE Finish
  <2>1. /\ UNCHANGED <<today, snaps, pulses, made, accepted, dropped, horizon, engineUp>>
        /\ rec # "done" /\ ~engineUp /\ pulses = <<>>
    BY <1>13, Zenon DEF Finish
  <2>2. PICK bad : Attempt(bad) /\ Becomes(Closed(Disk, bad))
    BY <1>13, Zenon DEF Finish
  <2>. DEFINE e == Closed(Disk, bad)
  <2>3. /\ Keeps(Disk, e, horizon) /\ e.buf = {} /\ Becomes(e)
        /\ bad = {} => e.unwritten = Disk.unwritten
    BY <1>1, <2>2, CloseKeeps
  <2>. HIDE DEF e
  <2>4. Sound(e, horizon) /\ e \in Stored
    BY <2>3, Zenon DEF Keeps, Sound
  <2>5. Disk' = e
    BY <2>3, <2>4, BecomesDisk
  <2>8. /\ faults' \in Nat /\ (faults' = 0 => Faultless(e, horizon))
        /\ (faults = 0 => Faultless(Disk, horizon))'
    BY <1>1, <1>15, <2>1, <2>2, <2>3, <2>5, Zenon DEF Faultless, Past
  <2>9. faults' = 0 \/ faults' > 0
    BY <2>8
  <2>6. ASSUME NEW p \in accepted
        PROVE  \/ Expired(p.day)' \/ p \in (disk \cup dropped)'
               \/ p \in unwritten' /\ faults' > 0
    <3>1. Has(Disk, horizon, p) \/ p \in dropped
      <4>1. Accounted(Disk, horizon, p)
        BY <1>1, AccountedFor DEF AllAccounted
      <4>2. ~\E i \in DOMAIN pulses : p = pulses[i]
        BY <2>1
      <4>. QED  BY <4>1, <4>2, Zenon DEF Accounted
    <3>2. Has(Disk, horizon, p) => Past(p.day, horizon) \/ p \in e.disk \/ p \in e.unwritten
      BY <1>1, <2>3, Zenon DEF Keeps, Has
    <3>3. p \in e.unwritten => Past(p.day, horizon) \/ faults' > 0
      BY <2>8, <2>9, Zenon DEF Faultless
    <3>. QED  BY <2>1, <2>3, <3>1, <3>2, <3>3, Zenon DEF Becomes, Past, Expired
  <2>7. PulseAccounted'
    BY <2>1, <2>6, Zenon DEF PulseAccounted
  <2>. QED  BY <1>1, <2>1, <2>4, <2>5, <2>7, <2>8, Zenon DEF RecInv
<1>. QED
  BY <1>5, <1>6, <1>7, <1>8, <1>10, <1>11, <1>12, <1>13, Zenon DEF RecNext

LEMMA RecInvariant == RecSpec => []RecInv
<1>1. RecInv /\ UNCHANGED recVars => RecInv'
  <2>. SUFFICES ASSUME RecInv, UNCHANGED recVars PROVE RecInv'
    OBVIOUS
  <2>1. UNCHANGED <<today, snaps, pulses, made, accepted, dropped, horizon, open, buf, disk,
                    dirs, unwritten, faults, engineUp, rec>>
    BY DEF recVars
  <2>2. Disk' = Disk /\ PulseAccounted' /\ (faults = 0 => Faultless(Disk, horizon))'
    BY <2>1, Zenon DEF RecInv, Disk, PulseAccounted, Expired, Faultless, Past
  <2>. QED  BY <2>1, <2>2, Zenon DEF RecInv
<1>2. RecInv /\ [RecNext]_recVars => RecInv'
  BY <1>1, RecStep
<1>. QED  BY <1>2, RecInitial, PTL DEF RecSpec

(* Every pulse a reference clock handed to the running recorder is queued, *)
(* in the file of its day, expired with it, counted as dropped or lost     *)
(* with a failed operation on its file, however clock, queues and disk     *)
(* behave (Pulse, write, prune, flush, Run's drain).                       *)
THEOREM PulsesAreAccounted == RecSpec => []PulseAccounted
<1>1. RecInv => PulseAccounted
  BY DEF RecInv
<1>. QED  BY <1>1, RecInvariant, PTL

(* prune never removes the directory of an open file's day before that day *)
(* has expired at a time the discipline vouched for.                       *)
THEOREM DaysAreKept == RecSpec => []DaysKept
<1>1. RecInv => DaysKept
  <2>1. Disk.open = open /\ Disk.dirs = dirs
    BY DEF Disk
  <2>. QED  BY <2>1, Zenon DEF RecInv, Sound, DaysKept, Expired, Past
<1>. QED  BY <1>1, RecInvariant, PTL

=============================================================================
