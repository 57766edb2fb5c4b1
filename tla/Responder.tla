------------------------------ MODULE Responder ------------------------------
(***************************************************************************)
(* One NTP listener answering requests: Handle of                          *)
(* internal/server/responder.go with the rate limiter of ratelimit.go.     *)
(***************************************************************************)
EXTENDS Naturals, Sequences, FiniteSets

CONSTANTS
    Clients,                \* addresses that are served
    RequireKey,             \* client -> the key its prefix requires, or NoKey
    Keys, NoKey,            \* h.keys
    Rate, Burst,            \* tokens per tick, and at most
    MaxClients,             \* table entries
    KoD,                    \* h.kod
    KodInterval, IdleExpiry,    \* in ticks
    Watched,                \* the bucket whose history the ghost watch keeps
    MaxNow                  \* bound on the monotonic clock

ASSUME ResponderConstants ==
    /\ RequireKey \in [Clients -> Keys \cup {NoKey}]
    /\ Rate \in Nat /\ Burst \in Nat \ {0} /\ MaxClients \in Nat \ {0}
    /\ IdleExpiry \in Nat /\ MaxNow \in Nat

VARIABLES
    tick,                   \* the monotonic clock
    table,                  \* the buckets, most recently used first
    watch,                  \* ghost: what Watched was granted, when it was last
                            \* used, and which keys were used after that
    outcome                 \* what became of the last request

srvVars == <<tick, table, watch, outcome>>

-----------------------------------------------------------------------------
(* rateLimiter.  signed is a ghost: the verified requests that came to the *)
(* bucket, up to Burst.  lastSeen always equals updated.                   *)

ServiceKey(a, k) == [addr |-> a, key |-> k, space |-> "service"]
CryptoKey(a) == [addr |-> a, key |-> NoKey, space |-> "crypto"]

Fresh(k, now) == [key |-> k, tokens |-> Burst, updated |-> now, kod |-> MaxNow + 1,
                  signed |-> 0]

Tracked(t) == {t[i].key : i \in DOMAIN t}

(* expire: from the least recently used end, up to one that is not idle *)
Live(t, now) ==
    LET ends == {n \in 0..Len(t) : n = 0 \/ now - t[n].updated <= IdleExpiry}
    IN  SubSeq(t, 1, CHOOSE n \in ends : \A m \in ends : m <= n)

(* Mutant: room is made at the front, where the most recently used is. *)
EvictNewest(live) == IF Len(live) >= MaxClients THEN SubSeq(live, 2, Len(live)) ELSE live

(* evictOldest, when the table is full *)
EvictOldest(live) == IF Len(live) >= MaxClients THEN SubSeq(live, 1, Len(live) - 1) ELSE live

AtMost(n, cap) == IF n <= cap THEN n ELSE cap

(* Mutant: the interval that was credited is credited again. *)
RefillAgain(b, now) ==
    [b EXCEPT !.tokens = AtMost(@ + Rate * (now - b.updated), Burst)]

Refill(b, now) ==
    [b EXCEPT !.tokens = AtMost(@ + Rate * (now - b.updated), Burst), !.updated = now]

(* The bucket of key k, found or made, and the rest of the table. *)
Lookup(t, k, now) ==
    LET live == Live(t, now)
        mine == {i \in DOMAIN live : live[i].key = k}
        n == CHOOSE i \in mine : TRUE
    IN  IF mine # {}
        THEN [bucket |-> Refill(live[n], now),
              rest |-> SubSeq(live, 1, n - 1) \o SubSeq(live, n + 1, Len(live))]
        ELSE [bucket |-> Fresh(k, now), rest |-> EvictOldest(live)]

(* The ghost: what Watched was granted is kept until its bucket is evicted *)
(* for room, over any number of idle expiries.                             *)
Note(w, k, now, ok, evicted) ==
    IF k = Watched
    THEN [grants |-> IF ok THEN Append(w.grants, now) ELSE w.grants,
          last |-> now, since |-> {}]
    ELSE [grants |-> IF evicted THEN <<>> ELSE w.grants, last |-> w.last,
          since |-> IF w.last > MaxNow THEN {} ELSE w.since \cup {k}]

(* allow: the verdict, and the limiter after it. *)
Allow(s, k, now, verified) ==
    LET found == Lookup(s.table, k, now)
        seen == [found.bucket EXCEPT !.signed = IF verified THEN AtMost(@ + 1, Burst) ELSE @]
        ok == seen.tokens >= 1
        kiss == seen.kod > MaxNow \/ now - seen.kod >= KodInterval
        after == IF ok THEN [seen EXCEPT !.tokens = @ - 1]
                 ELSE IF kiss THEN [seen EXCEPT !.kod = now] ELSE seen
        evicted == Watched \in Tracked(Live(s.table, now)) \ Tracked(found.rest)
    IN  [ok |-> ok, kod |-> ~ok /\ kiss,
         table |-> <<after>> \o found.rest,
         watch |-> Note(s.watch, k, now, ok, evicted)]

-----------------------------------------------------------------------------
(* What Handle tells apart in a request it serves: who sent it, and its MAC *)
(* trailer: one that verifies under a key, one that does not, a crypto-NAK  *)
(* or none.                                                                 *)
Requests == [from : Clients, mac : Keys \cup {"bad", "nak", "none"}]

(* verify *)
Verified(r) == IF r.mac \in Keys THEN r.mac ELSE NoKey

(* What became of r, and whether it is of a peer: an address that must use *)
(* a key, and did.                                                         *)
Outcome(r, kind) ==
    [kind |-> kind,
     peer |-> RequireKey[r.from] # NoKey /\ Verified(r) = RequireKey[r.from]]
Quiet == [kind |-> "none", peer |-> FALSE]

Limiter == [table |-> table, watch |-> watch]

(* The limiter as a call of allow left it. *)
Limited(a) == table' = a.table /\ watch' = a.watch

(* A datagram that is undecodable, of another mode, martian or not allowed. *)
Unusable == outcome' = Quiet /\ UNCHANGED <<table, watch>>

(* Mutant: the service bucket is the one of the address alone. *)
LimitKeyByAddress(r) == ServiceKey(r.from, NoKey)

(* The service bucket follows the identity that was verified. *)
LimitKey(r) == ServiceKey(r.from, Verified(r))

(* The end of Handle: the service bucket, then a kiss or the time.  A leap  *)
(* extension that does not decode, or that the distributor refuses, makes   *)
(* a verified request be dropped after it has spent its token.              *)
Serve(s, r) ==
    LET a == Allow(s, LimitKey(r), tick, Verified(r) # NoKey)
    IN  /\ Limited(a)
        /\ \/ a.ok /\ outcome' = Outcome(r, "time")
           \/ a.ok /\ Verified(r) # NoKey /\ outcome' = Outcome(r, "extension")
           \/ ~a.ok /\ outcome' = Outcome(r, IF KoD /\ a.kod THEN "rate" ELSE "limited")

(* A MAC that does not verify, from an address that must use a key. *)
Fails(r) ==
    LET a == Allow(Limiter, CryptoKey(r.from), tick, FALSE)
    IN  Limited(a) /\ outcome' = Outcome(r, IF a.ok THEN "nak" ELSE "none")

(* Handle, for an address whose prefix requires a key: always verified. *)
HandleRequired(r) ==
    /\ RequireKey[r.from] # NoKey
    /\ \/ r.mac = "bad" /\ Fails(r)
       \/ /\ r.mac # "bad" /\ Verified(r) # RequireKey[r.from]
          /\ outcome' = Outcome(r, "none") /\ UNCHANGED <<table, watch>>
       \/ Verified(r) = RequireKey[r.from] /\ Serve(Limiter, r)

(* Handle, for any other address: verification itself is metered. *)
HandleOptional(r) ==
    /\ RequireKey[r.from] = NoKey
    /\ IF r.mac = "none" THEN Serve(Limiter, r)
       ELSE LET a == Allow(Limiter, CryptoKey(r.from), tick, FALSE)
            IN  IF ~a.ok THEN Limited(a) /\ outcome' = Outcome(r, "limited")
                ELSE IF r.mac = "bad" THEN Limited(a) /\ outcome' = Outcome(r, "nak")
                ELSE Serve(a, r)

Handle ==
    /\ \/ Unusable
       \/ \E r \in Requests : HandleRequired(r) \/ HandleOptional(r)
    /\ UNCHANGED tick

Passes ==
    /\ tick < MaxNow /\ tick' = tick + 1
    /\ outcome' = Quiet
    /\ UNCHANGED <<table, watch>>

SrvInit ==
    /\ tick = 0 /\ table = <<>>
    /\ watch = [grants |-> <<>>, last |-> MaxNow + 1, since |-> {}]
    /\ outcome = Quiet

SrvNext == Handle \/ Passes

SrvSpec == SrvInit /\ [][SrvNext]_srvVars

-----------------------------------------------------------------------------

(***************************************************************************)
(* In no interval is a client allowed more than the burst and the rate     *)
(* over that interval: refusals, retries, the crypto budget and a bucket   *)
(* that expires and is made again mint no tokens.  Where an idle bucket is *)
(* dropped before it would be full again, it would mint some: hence the    *)
(* hypothesis, which the default rate, burst and expiry meet.  A bucket    *)
(* evicted for room is forgotten with its history.                         *)
(***************************************************************************)
GrantsBounded ==
    Burst <= Rate * (IdleExpiry + 1) =>
        \A i, j \in DOMAIN watch.grants :
            i <= j => j - i + 1 <= Burst + Rate * (watch.grants[j] - watch.grants[i])

(***************************************************************************)
(* A client whose requests verify is refused only for what it asked        *)
(* itself: no number of unsigned or failing requests from its address      *)
(* takes a token from the bucket it is served from, and the limiter        *)
(* refuses a peer only after a burst of the peer's own verified requests.  *)
(* The second half is about addresses that must use a key; at any other    *)
(* address verification waits for a token of the crypto bucket, which      *)
(* failing requests spend too.                                             *)
(***************************************************************************)
PeerUnstarved ==
    /\ \A i \in DOMAIN table :
           table[i].signed > 0 => table[i].tokens + table[i].signed >= Burst
    /\ outcome.peer /\ outcome.kind \in {"limited", "rate"} => table[1].signed >= Burst

(***************************************************************************)
(* "the heavy hitters stay tracked and the one-shot tail is what gets      *)
(* dropped": a bucket used within the expiry is gone only if at least      *)
(* MaxClients other keys were used after it.                               *)
(***************************************************************************)
ForgottenLast ==
    watch.last <= tick /\ tick - watch.last <= IdleExpiry /\ Watched \notin Tracked(table)
        => Cardinality(watch.since) >= MaxClients

=============================================================================
