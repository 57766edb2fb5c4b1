# Carillon: a TLA+ verification of the time daemon

Carillon is an NTP daemon in Go. One *engine* goroutine owns the system clock.
Source goroutines (NTP associations, PPS and NMEA reference clocks) measure the
clock's error and send measurements to it over a channel. The engine selects
among them, slews or steps the clock, arms leap seconds in the kernel, keeps a
drift file and publishes a status snapshot. The NTP server, the control socket,
the statistics recorder and the monitoring endpoint read that snapshot. A leap
table updater acquires, stores and hands over leap-second tables.

This directory models the concurrent core of that program, checks it with TLC
on small instances, and proves the central results with TLAPS for every value
of the constants.

## Inventory

| part | code | state and operations | what runs concurrently | model |
|---|---|---|---|---|
| clock epochs | `source/source.go`, `engine/engine.go` | counter `gen`; `beginEpochChange`, `stale`, `crossLeap`, step and reset in `handle` | engine with every source and the kernel | `EpochState`, `EpochEngine`, `Epoch` |
| NTP source | `source/ntp.go` | poll loop, clock filter, reset request | its goroutine with the engine | `NTPSource` |
| PPS source | `refclock/pps.go` | pulse window, pending invalidation | same | `PPSSource` |
| NMEA source | `refclock/nmea.go` | sentence framing, window | same | `NMEASource` |
| source lifecycle | `engine/engine.go` | `runSource`, `sourceStopped`, `dropQueued`, `sourceRestarting`, shutdown | engine with every source, two channels | `SourceLifecycle` |
| drift file | `engine/engine.go` | `offer`, worker, `writeDrift`, `close` | engine with the worker; power loss | `DriftWriter` |
| discipline state machine | `discipline/system.go` | `Update`, `Resync`, `Tick`, `reselect` | none (engine goroutine); any order of events | `Discipline` |
| clock loop | `discipline/loop.go` | phase owed and applied, slew log | none; the kernel runs the last word | `PhaseLoop` |
| selection | `discipline/select.go` | intersection, cluster, PPS agreement | none (a function) | `Selection` |
| leap tables and update rule | `leap/leap.go`, `leap/object.go` | `CheckUpdate`, `Indicator` | none (functions) | `LeapTable` |
| leap, engine side | `engine/leap.go`, `engine/engine.go` | arm, cross, approve, activate, publish | engine with the kernel and the updater | `LeapEngine`, `LeapBoundary` |
| leap updater and store | `leap/updater.go`, `leap/store.go` | `Run`, `install`, `activate`, `save`, `loadState` | updater, engine; failing saves, power loss | `LeapInstall` implements `LeapAuthority` |
| HTTPS seeding | `leap/updater.go`, `leap/seed.go`, `leap/store.go` | schedule, `seed.json`, conditional request | restarts and crashes | `LeapSeed` |
| table transfer | `leap/fetch.go`, `leap/wire.go` | `fetch`, `exchange`, `Reply` | client, network, distributor | `LeapFetch` |
| distributor budgets | `leap/distributor.go` | `allow` (compare and swap) | listeners | `Distributor` |
| NTP responder, rate limiter | `server/responder.go`, `server/ratelimit.go` | `Handle`, `allow`, `expire`, `evictOldest` | none (one listener's goroutine); any requests, signed or not | `Responder` |
| NTP listener | `server/listener.go`, `server/broadcast.go` | broadcast cache | the host's interfaces | `Listener` |
| recorder | `stats/writer.go` | bounded queues, daily files, retention | engine, sources, writer | `Recorder` |
| control socket | `control/server.go`, `cmd/carillon/main.go` | lock, socket name, accept loop, shutdown | two daemons; clients | `ControlSocket` |
| monitor, codec, drivers, configuration, `carillonctl` | | no state of their own worth modelling | | not modelled |

`PROJECT.json` lists every part with its status, and the hazards (what can go
wrong that a test would hardly reach) at the lines where they bite.

## The clock-epoch protocol (`EpochState`, `NTPSource`, `PPSSource`, `NMEASource`, `EpochEngine`, `Epoch`)

A measurement taken before the clock was stepped is wrong by the step. The
engine therefore publishes a counter: even in a settled epoch, odd while a
discontinuity executes. A source reads it before and after a sample, discards
the sample unless both reads gave the same even value, and stamps what it sends;
`stale` admits only the current even value. After a discontinuity the engine
also asks each source to empty its filter (`Reset`).

*State.* `gen` is `Engine.gen`; `queue` is `e.meas`; `resetReq`, `inval`,
`window` are the sources' `resetRequested`, `pendingInvalidate` and filter or
window; `est` is the estimate each `SourceState` holds. The ghost `world` counts
the discontinuities the clock has really undergone. An observation is
represented by the value of `world` when it was taken (`Torn` if a discontinuity
fell between its two clock readings), which is exactly what the properties need
to tell apart.

*Actions.* Each source's loop is cut where it reads or writes something shared:
`NTPSource` follows `Run`, `pollOnce`, `exchange`, `hit`, `emit`; `PPSSource`
follows `Run`, `accept`, `emit`; `NMEASource` follows `Run`, `consume`,
`acceptLine`, `tick`, `emit`. A reference clock that loses its device waits in
`reopen` until the device is back (`PPSReopen`, `NMEAReopen`). `EpochEngine` follows
`Run`'s select, all three of its branches (a measurement, the ticker, a request of the
leap worker: `Request`, `RequestLeap`), `stale`, `crossLeap` and `handle`, with one action
per `Reset` call, so that a source can run between any two of them. A refused step and an
actuator failure end the run (`halted`). The requests of a source that stops or restarts
are `SourceLifecycle`'s.

*Abstractions.* Which sample the filter prefers, whether a window is stable,
which source is selected and whether it asks for a step or is refused are open
choices: the code's decision is always among them. Poll slots, addresses,
kiss codes and the texts of sentences are left out; a poll that fails for any
reason is one that measures nothing. Detecting a leap from two clock readings is
abstracted as `leapDue` (`LeapBoundary` models it). A chunk of NMEA input holds at most one complete
sentence. Steps that touch nothing shared are merged with the next that does:
`stale`'s leap check with the admission that follows it, and the reading after
`finish` with `finish`. The leap a kernel applies between those is noticed at
the next check, which the model has too. Generation 0 (sources that do not
stamp) is never produced by a running engine and is left out.

## The drift file (`DriftWriter`)

The engine offers frequencies to a worker through a channel of one slot;
`writeDrift` replaces the file by write, fsync, rename and a sync of the
directory. A candidate is the ordinal of its offer, so "older" and "newer" are
numbers. `dir` is what the file's name refers to now and `survivors` what it may
refer to after a power loss: a rename adds a value to it, a successful directory
sync reduces it to the current one. Each of `offer`'s two selects is a step of
its own, every system call may fail, and `Restart` ends the process at any point.
Whether a frequency is settled enough to be offered is an open choice.

## Source lifecycle (`SourceLifecycle`)

A source whose `Run` returns tells the engine on `e.reqs`, waits, announces its
restart there and runs again, while its measurements travel on `e.meas`.
`sourceStopped` records the failure, removes the stopped run's measurements from
the queue and revokes the estimate. `dropQueued` is modelled one channel operation
at a time because the other sources keep sending. The engine's end (`Leave`,
`DrainSources`) and the cancellation of the sources are included; a source may
ignore cancellation. The backoff's length is left out (a delay is just a delay),
and so is the epoch test of `stale`, which appears as an open refusal.

## The discipline (`Discipline`, `Selection`, `PhaseLoop`)

`Discipline` is the state machine UNSYNCED, SETTLING, SYNCED, HOLDOVER. Its events
are the three ways into `system.go`: `Measure` (`Update`), `Resync` and `Tick`, each
with the whole of `reselect`: losing the system source (`Lose`), an estimate already
used (`Unchanged`), and the loop's verdict (`Answered`: ignored, panic, step, slew).
`src` holds what `apply`, `invalidate` and `candidate` keep of each source. Any subset
of the candidates may survive and the offset is one of three classes (within the step
threshold, beyond it, beyond panic), so what the numbers would decide is always among
the choices. Counters stop at the largest value the code compares them with. `Silence`
is the end of all producers, for the liveness property. The ghosts `jumped` and `heard`
count the estimates received between two steps.

`Selection` computes `SelectAt` over sequences of candidates in whole units: the edge
scan of `intersect`, `cluster`, the agreement a pulse needs with a source that numbers
seconds, the preferred and the nearest survivor. The sorted list of edges is the set of
edges with its order (`Before`), and a scan stops at the first edge at which enough
intervals are open; edges that sort alike are passed together, which moves neither that
edge's value nor the midpoints before it. The scan is compared with definitions that
do not scan: the hull of the points covered by all but `f` intervals. Squared means
replace square roots, which orders them alike. The leap vote and the combination of
offsets are left out.

`PhaseLoop` is the accounting of phase: `Pending`, the slew log, `slewed` and the word
the kernel runs, through `Update`, `step` and `Tick`. Time, phase and frequency are
whole units. The new base frequency and the size of a transient are open choices. The
ghosts `rate` and `moved` are what the kernel really did.

## Leap seconds (`LeapTable`, `LeapEngine`, `LeapBoundary`, `LeapInstall`, `LeapAuthority`)

`LeapTable` holds tables (dates, expiry, base, transitions) and `CheckUpdate`, the rule
by which one may replace another. `LeapEngine` is the engine's side: `applyLeap` arms
the boundary a table or the survivors announce, `crossLeap` notices that the kernel has
leapt, `checkLeap` and the two requests approve and activate a table, and `view` is the
snapshot the updater reads. Only the difference of the two clocks since the last look
matters to the code, so the monotonic clock appears as `lost`.

`LeapBoundary` composes it with the kernel (external: it repeats or skips the last
second of a day when told to, then waits) and with clock steps.

`LeapInstall` composes it with the updater and the store. The updater's goroutine is a
program counter over `Run`, `install`, `activate` and `save`; a save is a rename and a
directory sync, either of which may fail. `file` is what a reader finds and
`survivors` what a power loss may leave. `Crash` ends the process anywhere: a kill leaves
`file` as it is, a power loss replaces it by one of the survivors. `Restart` loads `file`
and, like the code, syncs nothing; the ghost `found` remembers what it loaded. Timers are
open choices because they carry jitter.

`LeapAuthority` is what all this promises, in five variables: the table no crash can take
back (`durable`), the one a reader of the file finds (`onFile`), the one the daemon found
when it started (`loaded`), the one in force (`inForce`), and whether the daemon runs
(`up`). `Replace` and `Commit` move the first two forward in their lineage; `Serve` puts a
table in force that is durable or was loaded; `Stop` may take the file back, though not
below `durable`; `Start` loads it. The refinement maps `durable` to the weakest anchor of
the survivors, `onFile` to the anchor of `file` and `loaded` to `found`.

## Acquiring tables (`LeapSeed`, `LeapFetch`, `Distributor`)

`LeapSeed` is the schedule of requests to an HTTPS publisher with the two files that
survive a restart: the last attempt and the validators in `seed.json`, the last check in
`state.json`. A body is its edition number and its validators name it. UTC is known and
runs forward. A save of `seed.json` may fail, leaving the old file or the new one, and a
start may find the file unreadable; the code logs both and goes on. The ghost `asked`
remembers the last request, and whether a later process can know of it.

`LeapFetch` is the transfer of a table in chunks over a network that loses, repeats,
delays and reorders (`wire` is a set of datagrams that may arrive once, again or never),
while the distributor may replace its table. A byte is named by its table and its
position, so a misplaced one is visible.

`Distributor` cuts `allow` at its atomic operations: a load, then a compare-and-swap of
the word, up to `MaxTries` times, first for the key and then for all keys.

## The server (`Responder`, `Listener`)

`Responder` is one listener's `Handle` in its order: form of the packet, required or
optional authentication, the failing request's own bucket, the service bucket, then a kiss,
the time, or the drop of a verified request whose leap extension is malformed or refused;
with `rateLimiter` (refill, expiry of idle entries, eviction at the limit, one kiss per
interval). Each listener has its own limiter, so one is enough. Times and tokens are whole
units, and the contents of a reply are left out. Two ghosts carry the properties: a bucket
counts the verified requests it was charged by (`signed`), and `watch` keeps, for one key
the constant `Watched` names, when it was granted a request, when it was last used and
which keys were used after it. `watch` outlives the bucket's idle expiry, so a bucket that
is dropped and made again is held to the same account.

`Listener` is the check `serve` makes before the handler: whether the destination is a
broadcast address of the host, by a cache that may be stale or fail to be refreshed.

## The recorder (`Recorder`)

`Record` and `Pulse` never block; `Run` writes rows into the file of their day, flushes
and prunes. In each step any of its file operations may fail: the flush of either file,
making the directory, opening the new file (`MaxFaults` steps have a failure). A failed
operation closes every file, and the error of that close is discarded. `Pulse` may be called
by a reference clock that outlived the engine, even after `Run` has ended; such a pulse stays
queued for ever and is not among those the recorder `accepted`. Loop rows and PPS rows are
modelled; event, source and server rows take the same path.

## The control socket (`ControlSocket`)

Daemons that share a path start, serve, stop and are killed. `lock` is the flock on the
sibling file, `path` whose socket the name is, and `bound` whether a listener still has
to unlink the name when it closes (Go does so by name). A start may fail after the lock is
taken, in `net.Listen` or in the `chmod` that follows (`BindFails`), and then leaves neither
lock nor name behind. `leapCache` says whether leap
acquisition is on, in which case the store's lock is held to the end of the process.

## Runs

| run | instance | result |
|---|---|---|
| `epoch_ntp` | one NTP source, steps and leaps, two discontinuities, filter 2, channel 2 | `AcquiredInEpoch`, `UnreportedInEpoch` hold |
| `epoch_leap` | the same with steps disabled | `OffsetInEpoch`, `ResetBeforeNextSample` hold |
| `epoch_pps` | one PPS source, two discontinuities, window 2, channel 2 | `OneStrayPulse` holds |
| `epoch_nmea` | one NMEA source, one discontinuity, channel 1, fair | `ResetTakenUp` holds |
| `lifecycle` | two sources, two runs each, channels 1 and 1, fair | `StoppedStaysDown`, `ClearedByEvidence`, `StoppedRestarts`, `ShutdownCompletes` hold |
| `leap_install` | an announcement and its withdrawal, seconds 1 to 3, one kill or power loss, no seeding | `ActivatedIsDurable`, `ArmedInTable` hold; `Implements` (refinement of `LeapAuthority`) holds |
| `discipline` | two sources, step limit 2, two settling updates, no holdover time | `ServedIsTrusted`, `TrustIsEarned`, `SecondStepEvidence`, `ReasonTellsWhy`, `SilenceEndsService` hold |
| `components` | eleven components, see below | all invariants hold |
| `epoch_step_gap` | one NTP source, one step | `OffsetInEpoch` is violated |
| `epoch_nmea_reset` | one NMEA source, one leap | `ResetBeforeNextSample` is violated |
| `leap_reload` | an announcement, its withdrawal and a renewal, one crash, seeding | `SavedStateLoads` is violated |
| `control_overlap` | two daemons | `OneClockOwner` is violated |

`components` (`MCComponents`) explores eleven components that share no state in one
run: `focus` is chosen once, and only the component it names moves. It is the union of
eleven separate explorations, not a product, and it checks:

| component | instance | invariants |
|---|---|---|
| `DriftWriter` | five offers | `DurableSuccess`, `CloseDrains`, `OfferLosesOne` |
| `LeapBoundary` | days of four seconds, an insertion or a deletion, looks up to two seconds apart, any step | `ArmedLeapNoticed`, `LeapsOnce` |
| `Selection` | one to four sources, two sources with a pulse | `IntersectIsMarzullo`, `MajorityRules`, `PulseVouched` |
| `PhaseLoop` | three instants, two offsets, two frequencies | `AppliedIsExact`, `PhaseChargedOnce` |
| `Recorder` | days 1 and 3 kept for one, queues of one, two steps with failures | `PulseAccounted`, `DaysKept` |
| `ControlSocket` | two daemons, four starts | `SoleServer`, `OneOwnerWithCache` |
| `Responder` | a client that must use a key and one that need not, burst 2, table of 2, expiry after 1, four instants | `GrantsBounded`, `PeerUnstarved`, `ForgottenLast` |
| `Distributor` | two listeners, two keys, two tries | `BudgetKept` |
| `Listener` | one address, a refresh every two units, four units of time | `BroadcastRefused` |
| `LeapSeed` | a day of three units, four units of time, two editions | `SeedFloor`, `ValidatorsHeld` |
| `LeapFetch` | tables of one and of three chunks, the last one short | `ChunksInPlace` |

The types of the variables are not a matter of a run: `TypeOK` is proved for the epoch
protocol (`TypeCorrect`), and elsewhere they are part of the inductive invariants.

*Bounds.* `MaxWorld` bounds discontinuities; two are enough for an observation to
be one or two epochs old and for a second bracket to meet what the first left
behind. A filter of two samples distinguishes the newest from an older one, and a
channel of one or two slots is both full and empty within a few steps. One source
of each kind is explored at a time: the product of two is beyond a short run, and
the theorems below cover every set of sources. `MaxOffers`, `MaxRuns`, `MaxTime`,
`MaxCrash`, `MaxMono`, `MaxRows`, `MaxFaults`, `MaxStarts`, `MaxWaiting`, `MaxNow`,
`MaxClock`, `MaxWhen`, `MaxVersion`, `MaxSeedTime` and `MaxSent` bound
counters and clocks the code does not bound; each instance passes the interesting
point at least once (a leap before and after the end of a day, a table
that is full, a budget that refills, a deadline that passes). `leap_install` leaves out
what `Checked` does after a seed answered (`Seed`): the date of that check, the bound it
raises and the save that follows. TLC also finds its three
properties to hold with `Seed = TRUE` (2,806,286 states) and with a second crash, which may
fall into the recovery from the first (1,147,522 states); each takes minutes and is not among
the runs. `leap_reload` has `Seed = TRUE` but stops at its counterexample. The theorems hold for either value of `Seed` and any `MaxCrash`. `LeapSeed`
was also explored with a day of four units over six (848,291 states; both invariants hold).
The days of `Recorder` pass the cutoff of the retention without falling on it; `DaysAreKept`
covers that case. The runs
without deadlock detection are of systems that may stop: a daemon that has shut down
or refused a step, or a clock at its bound.

*Fairness.* Goroutines are scheduled. A source's wait is bounded by a timeout
(`Fetch`, `ReadTimeout`, the exchange's deadline) or by room in a channel, whose
blocked senders Go serves in turn; except in `reopen`, which retries without limit
until the device is back, and of which no fairness is assumed. `select` chooses at random
among ready cases, so no ready case is passed over for ever. These give weak fairness to the
engine and strong fairness to sends and receives. `ResetTakenUp` accordingly speaks of a
source that does not stay in `reopen` for ever: a reset asked of one whose device never
returns is never taken up, and its window is empty in any case. In `SourceLifecycle` it is assumed of
requests only, in whichever of its two requests a source is; that a measurement is ever
received is not needed, and nothing is assumed of a source's `Run`: it may hang. In `Discipline` only `Tick` is fair: the
engine's ticker calls it every second as long as `Run` has not ended.

## Where code and comments disagree

Shown by a run:

1. *Step gap* (`epoch_step_gap`). `handle` settles the epoch before it resets the
   filters, so an exchange that fits between the two can make the filter release a
   pre-step sample under the new epoch. `crossLeap` resets inside its bracket, and
   `epoch_leap` shows that this is enough.
2. *NMEA reset* (`epoch_nmea_reset`). The reset request is looked at only before the
   blocking read, so the first sentence afterwards joins the old window.
3. *Saved state refused* (`leap_reload`). `install` checks a table against the pending
   one, `loadState` checks it against the active one. When the pending table withdrew a
   leap whose time then passed, its successor is accepted, saved, and refused by the next
   start. `docs/leap-distribution.md` says a pending generation can be superseded without
   discarding the durable record.
4. *Two clock owners* (`control_overlap`). `Serve` releases the lock when its accept loop
   ends, which a fatal accept error or a shutdown brings about while the engine still
   runs. `Listen`'s comment says the lock is held for the daemon's lifetime. With leap
   acquisition on, the cache's lock covers the gap (`OneOwnerWithCache`, proved).

Read from the source while modelling, with a weaker property that does hold where one
is named:

* *PPS window.* A pulse that passed the epoch check before the bracket can be added to the
  window the reset has just emptied (`pps.go:251` says it is dropped). `OneStrayPulse`: at
  most one, and the report made from it is refused.
* *Drift offer.* `offer` gives up if the worker takes the pending candidate between its two
  selects (`engine.go:1318`: "replacing any pending one"). `OfferLosesOne`: no more than
  the newest is lost.
* *Order of the others.* A source that sends while `dropQueued` holds its earlier
  measurement aside has the two swapped (`engine.go:860`: "preserving the order of the
  others").
* *Settling.* `DESIGN.md`, section 6.5, draws the first update as UNSYNCED to SETTLING;
  `reselect` goes to SYNCED at once when the criterion is already met.
* *Settling after synchronization.* `reselect` has a branch that enters HOLDOVER from
  SETTLING ("Settling *after* a spell of synchronization ... still has applicable
  synchronization to coast on", `system.go:372`), and
  `review/2026/09/FIXES_ASTRA6_XHIGH.md:959` says that "settling after a spell of
  synchronization still may" hold over. No behaviour reaches it: a step clears
  `everSynced`, and without one the settling criterion stays met (`TrustIsEarned`), so a
  source that returns leads straight to SYNCED. The subtest named for the case (`astra6_review_test.go:300`)
  goes through that return, not through SETTLING. `ServedIsTrusted` states what holds, and
  its second conjunct that the branch is dead; the model keeps the branch.
* *A leap without a file.* `docs/leap-distribution.md:342` says measurements are reset when
  the kernel executes the event; one the kernel executes after the engine withdrew its own
  boundary is not noticed by `crossedAnnouncedLeapAt`. `ArmedLeapNoticed` is about armed
  boundaries.
* *Unsynced directory entry.* `updater.go:202` calls the object "already durable as
  pending" at activation. That is so after a successful save; a state loaded by a
  restarted process after its predecessor was killed between rename and directory sync
  has not been synced, and a power loss may still undo it while it is in force.
  `ActivatedIsDurable` excepts exactly the table the process found in the file.
* *The seed floor.* `updater.go:452` calls `seedRetryFloor` the shortest interval between
  two requests "whatever happened in between, restarts included". A restart knows of the
  last attempt only from `seed.json`; where that could not be saved, or is unreadable at the
  start, the next request may follow at once. `SeedFloor` excepts these.
* *A row or a count.* `writer.go:195` promises "one row per accepted pulse, or an explicit
  count of what was lost", and `source.go:53` "either a pulse is written or its loss is
  counted". The count covers a full queue only: a row whose write or flush fails leaves
  neither, only a log line, at most one a minute, and none where `closeFiles` discards the
  error. `PulseAccounted` excepts pulses with a failed operation on their own file.
* *An expired bucket.* A bucket that is dropped after sixty idle seconds comes back full.
  Where the burst takes longer than that to refill (the configuration allows any
  `rate_limit_pps` above zero and any `rate_burst` up to 10^9), expiry grants tokens the
  rate does not. `GrantsBounded` has the hypothesis that it does not take longer, which the
  defaults (8 a second, 16) meet.

## What is proved

Every safety property of a passing run is also a theorem, for every value of the
constants (of five, under a hypothesis that the run's instance satisfies and that is
explained below). The assumptions are those named in the
modules (`ASSUME`), which TLC evaluates on every instance. Of the library's induction
theorems only the least element of a set of numbers is used; what recursion over a finite
set computes is derived from it (below, `Selection`). Where a property
is not inductive, what had to be added to it is the argument, and is given here.

### The clock epochs (`EpochProofs`, `FilterProofs`)

Assumed: `EpochConstants` and `NMEAMinAssumption` (disjoint kinds of sources, positive
capacities).

* `TypeCorrect`: `Spec => []TypeOK`. Each source action changes only its own
  entry of the per-source functions (`Touch`, `OwnStep`), so the three kinds share
  one argument.
* `EpochSafety`: `Spec => []AcquiredInEpoch`. The property is not inductive: it says
  nothing of samples still in a source's hands, in the channel or in the engine's.
  `EpochInv` adds that `gen` is odd exactly inside a bracket, that whatever is
  stamped with the current settled `gen` (in hand, queued, about to be sent, or the
  sentence an NMEA source is assembling) was observed in the current `world` unless
  a kernel leap has not been noticed yet, and that no stamp is ahead of `gen`. A
  step drops the estimates before it moves the clock. Each action preserves it, one
  lemma per kind of source and one for the engine.
* `FiltersAreClean` (`UnreportedInEpoch`) and `PulsesAreClean` (`OneStrayPulse`). Only the
  sample that was past its second read of the epoch when the discontinuity began can join
  a filter after it. It does so in the step that takes up the reset, so it enters alone
  and, in a clock filter, as reported (`FilterInv`).
* `ResetComesFirst`: `NMEAs = {} => (Spec => ResetBeforeNextSample)`, an action property.
  The hypothesis is needed: `epoch_nmea_reset` is the counterexample with an NMEA source.
* `OffsetsAreClean`: without reference clocks and with steps disabled,
  `Spec => []OffsetInEpoch`. The hypotheses are needed: `epoch_step_gap` is the
  counterexample with a step, and `OneStrayPulse` is all that holds of a pulse window.
  `OffsetInv` follows the older samples of a filter into the messages computed from them.

### Sources and discipline (`WorkerProofs`, `ServiceProofs`, `LoopProofs`)

Assumed: `LifecycleConstants`, `DisciplineConstants`, `LoopConstants` (finitely many
sources; any thresholds, capacities, phases and frequencies within the limit).

* `StopIsFinal`: `Spec => []StoppedStaysDown` and `EvidenceClears`:
  `Spec => []ClearedByEvidence`. An estimate in the selector says nothing about what is
  still queued. `LifecycleInv` adds that a stop asked for or handled is of a run whose
  goroutine is past it, that what is queued or put aside is of a later run than the one
  handled, and, while `dropQueued` runs, that the stopped run's measurements can only be
  among those it has not looked at. The channels are handled by lemmas on sequences
  (append, tail, filter).
* `ServiceIsTrusted`, `TrustEarned`, `StepsNeedEvidence`, `ReasonIsTrue`:
  `ServedIsTrusted`, `TrustIsEarned`, `SecondStepEvidence` and `ReasonTellsWhy` hold in
  every reachable state. `DisciplineInv` adds that a resync is only under way where there
  is synchronization to resume, and that the sources' own counts of estimates since the
  last step never exceed the estimates received (two sources that have any make two).
  There is one lemma per way through `reselect`.
* `PhaseIsChargedOnce` (`PhaseChargedOnce`) and `AppliedWasMoved` (`AppliedIsExact`). What a
  charge debits is what the kernel moved only because the motion is straight between
  accounting points; the log can be interpolated only because each of its points tells the
  sum up to it and the points are in order; and what was dropped from the log is older than
  the span. `LoopInv` says these three things. The point from which the log is kept is a
  least element (`LeastElement`).

### Selection (`AnswerProofs`)

Assumed: `SelectionConstants` (the inputs are finite sequences of candidates with whole
offsets and natural distances and jitters; nothing bounds their number or their values).

The invariant itself is short (`SelInv`: the result is pending or is `SelectAt` of the
candidates); the argument is about the operators.

* `ScanComputesMarzullo` (`IntersectIsMarzullo`). An interval is open after an edge if it
  has begun and has not ended; counting those that have begun and subtracting those that
  have ended, a subset, gives the intervals that contain the edge's value (`OpenUpCounts`,
  `OpenDownCounts`). If any point is covered often enough, the least such point is a low
  endpoint, so the scan from below stops there and not before (`CoveredEnds`, `ScanUp`);
  likewise the greatest from above. The midpoints the two scans passed are then those outside
  the interval (`MidpointsOutside`): with a non-empty interval none is counted twice. So a
  scan succeeds exactly for the agreeable allowances (`ScanIs`), and the least of them is
  the one the loop stops at.
* `SelectionHasMajority` (`MajorityRules`). The interval found covers a point that all but a
  minority contain, and every interval that contains that point meets it. `cluster` discards
  one survivor at a time and never below its minimum (`ClusterKeeps`).
* `PulsesAreVouched` (`PulseVouched`). A pulse joins the survivors only through
  `ppsAgreement` with one of them, and clustering has ended by then.

`Cluster` and `Spread` are recursive functions on the subsets of a finite set. That they
satisfy their equations, and induction over those subsets, follow from the least-element
theorem applied to cardinalities (`LeastNumber`, `Descent`, `SubsetInduction`): a set of
subsets without a smallest member is empty, so the induction needs no operator parameter.

### Leap seconds (`LeapProofs`; `WorkerProofs`, `DaemonProofs`, `AnswerProofs`)

Assumed: `TableConstants` (the tables are well formed), `EngineConstants`,
`InstallConstants`, `BoundaryConstants`, `SeedConstants` (the daily interval less its jitter
is no shorter than the floor, and neither is the longest backoff), `FetchConstants`,
`DistributorConstants`.

* `InForceIsDurable` (`ActivatedIsDurable`). `InstallInv`: a state reaches the disk only
  from memory, whose anchor only moves forward, so the file and every survivor trail the
  anchor in memory; while nothing is uncommitted the file agrees with it, and so do the
  survivors unless memory still has the anchor that was loaded (`OrderInv`); and only then is a table put in force. The
  program counter's part of it (`PlaceInv`) says from which places that is so.
* `ArmedIsAnnounced`: `LeapRequired => (Spec => []ArmedInTable)`. The hypothesis is needed:
  without a required table `applyLeap` arms what the survivors of the selection announce,
  whatever table arrives later.
* `InstallRefinesAuthority`: `Spec => Implements`. The initial states map to initial
  states, and each step to a replacement, a commit, a service, a stop, a start or a stutter
  of `LeapAuthority`. The mapping takes the weakest of the survivors' anchors, which exists
  because the survivors are in one lineage.
* `ExecutedOnce`: `LeapRequired => (BoundarySpec => []LeapsOnce)`, and `ArmedIsNoticed`:
  `LeapRequired /\ MaxGap <= 2 => (BoundarySpec => []ArmedLeapNoticed)`. After every look an
  armed boundary lies ahead of the clock and the kernel is told of no other
  (`BoundaryInv`). Both hypotheses are the code's: `config/leap.go` requires a table of
  every configuration with a server or a reference clock, and
  `crossedAnnouncedLeapAt` looks two seconds back, while the engine's ticker looks every
  second. Without a required table neither holds: a clock that is stepped far back leaves
  UTC unestablished, and the kernel is still told what the survivors announce.
* `BudgetIsKept` (`BudgetKept`, in `WorkerProofs`). A word is never ahead of the clock by more than the burst and
  has moved an interval for every request it allowed. The compare-and-swap makes the reading
  a listener decided on the current one.
* `FloorIsKept` (`SeedFloor`) and `ValidatorsAreHeld` (`ValidatorsHeld`), in `DaemonProofs`. An attempt is
  recorded in `seed.json` before it is made, so a restart that can read it knows of it, and a
  scheduled job lies a floor after it. Within a process the record in memory is enough,
  whatever becomes of the file.
* `PrefixIsAssembled` (`ChunksInPlace`, in `AnswerProofs`). Whatever is on the wire is the part of its table that
  its header says, and the request in flight asks for the first missing byte.

### The server and the daemon's files (`ServiceProofs`, `DaemonProofs`)

Assumed: `ResponderConstants`, `ListenerConstants`, `DriftConstants`, `RecorderConstants`,
`ControlConstants`.

* `RateIsBounded` (`GrantsBounded`) and `PeerIsUnstarved` (`PeerUnstarved`). What a bucket
  still holds and what it granted since any earlier grant is at most the burst and the
  refill since; a bucket that has expired would have been full, by the hypothesis, so a new
  one changes nothing. The bucket of a key is charged by requests that verify only. An
  address that need not use a key has its verification metered by a bucket failing requests
  spend too; of it only the first half of `PeerUnstarved` speaks.
* `TailIsForgotten` (`ForgottenLast`). `ratelimit.go:9` says that under a flood of forged
  addresses "the heavy hitters stay tracked and the one-shot tail is what gets dropped". The
  table is in the order of last use and its keys are distinct, and what is in front of a
  bucket is what was used after it; so a bucket at the end of a full table has a table's
  worth of other keys used since.
* `BroadcastsAreRefused` (`BroadcastRefused`).
* `DriftDurable`: `Spec => []DurableSuccess` and `DriftClose`:
  `Spec => []CloseDrains`. `DriftInv` adds that candidates move from the slot to the
  worker to the file in the order they were offered, so a rename never installs one
  older than a reported success. `OfferLoses` (`OfferLosesOne`) needs more: only the engine
  fills the slot, so between the two selects what is pending is the newest candidate or
  the one before (`OfferInv`).
* `PulsesAreAccounted` (`PulseAccounted`) and `DaysAreKept` (`DaysKept`). `RecInv`: an open
  file's day has its directory unless it has expired, so a flush cannot lose a row unless it
  fails, and a failure on one file takes no row of the other; when the recorder has ended,
  nothing it accepted is still queued or buffered.
* `LockDecides`: `CtlSpec => []SoleServer`, and `CacheMakesSingle`:
  `CtlSpec => []OneOwnerWithCache`, for any number of daemons. `CtlInv` adds that whoever
  starts or serves holds the lock, that connections are handled only in between, that an
  engine belongs to a running daemon, and that with the leap cache on one process exists
  at a time.

## What is only model-checked

* The liveness properties (`ResetTakenUp`, `StoppedRestarts`, `ShutdownCompletes`,
  `SilenceEndsService`) need fairness, which is out of the prover's reach.
* The four properties of the violation runs, which are false. What remains true of the
  first two is proved (`OffsetsAreClean`, `ResetComesFirst`), and of the last
  (`CacheMakesSingle`).

## Not modelled

* NTP polling: intervals, burst, reach, kiss codes, re-resolution of addresses. It is
  arithmetic over timers and jitter in one goroutine.
* The statistics of filters and windows: ranking by delay, dispersion, spike gate, median
  deviation. They are floating-point code; the models leave their verdict open.
* `majorityLeap` and the combination of offsets in `select.go`.
* The gains and time constants of the loop; `noteFrequency` and `frequencySettled` (whether
  a frequency is worth saving is an open choice in `DriftWriter`).
* Tables from a local file; the leap report.
* Event, source and server rows of the recorder.
* The contents of a reply, and the closure in `main.go` that ages the status it is made
  from: one comparison in the reader's goroutine.
* The control protocol's requests and answers; the server's counters (the wrapping drop
  counter among them), receive-buffer sizing and martian list; the monitor, the packet codec and cryptography, drivers, configuration and the command-line
  client: rendering, parsing and system calls without state of their own.
