--------------------------- MODULE ServiceProofs ----------------------------
(***************************************************************************)
(* What is served.  The synchronization state, for any number of sources   *)
(* and any configuration: it is trusted, trust is earned, a further step   *)
(* rests on two estimates, and the reason tells why.  And the NTP server,  *)
(* for any number of clients, keys and interfaces: what its listener lets  *)
(* through, what its rate limiter grants, refuses and forgets.             *)
(***************************************************************************)
EXTENDS Discipline, Responder, Listener, FiniteSetTheorems, WellFoundedInduction, TLAPS

-----------------------------------------------------------------------------
(* Sequences. *)

LEMMA Joined ==
    ASSUME NEW S, NEW a \in Seq(S), NEW b \in Seq(S)
    PROVE  /\ a \o b \in Seq(S) /\ Len(a \o b) = Len(a) + Len(b)
           /\ \A i \in 1..(Len(a) + Len(b)) :
                 (a \o b)[i] = IF i <= Len(a) THEN a[i] ELSE b[i - Len(a)]
OBVIOUS

LEMMA PartOf ==
    ASSUME NEW S, NEW t \in Seq(S), NEW m \in Nat \ {0}, NEW n \in Int, n <= Len(t)
    PROVE  SubSeq(t, m, n) \in Seq(S)
OBVIOUS

LEMMA WiderSeq == ASSUME NEW S, NEW T, S \subseteq T PROVE Seq(S) \subseteq Seq(T)
OBVIOUS


-----------------------------------------------------------------------------
(* The listener's broadcast cache.  What an enumeration found stays true   *)
(* until the interfaces change.                                            *)

LisInv ==
    /\ when \in Nat /\ refreshed \in Nat /\ changed \in Nat
    /\ refreshed <= when /\ changed <= when
    /\ haveOnce /\ changed < refreshed => known = casts
    /\ BroadcastRefused

LEMMA DatagramStep == ASSUME LisInv, Datagram PROVE LisInv'
<1>1. PICK dst \in Addresses, ok \in BOOLEAN :
          /\ IF haveOnce /\ when - refreshed < Refresh
             THEN ok /\ UNCHANGED <<known, refreshed, haveOnce, failedSince>>
             ELSE LookUp(dst, ok)
          /\ passed' = {dst} \ known'
  BY DEF Datagram
<1>2. casts' = casts /\ changed' = changed /\ when' = when
  BY DEF Datagram
<1>3. CASE haveOnce /\ when - refreshed < Refresh
  <2>1. /\ known' = known /\ refreshed' = refreshed
        /\ haveOnce' = haveOnce /\ failedSince' = failedSince
    BY <1>1, <1>3
  <2>2. ASSUME passed' \cap casts # {} PROVE changed >= refreshed /\ when - changed < Refresh
    <3>1. known # casts
      BY <1>1, <2>1, <2>2
    <3>2. changed >= refreshed
      BY <1>3, <3>1 DEF LisInv
    <3>. QED  BY <1>3, <3>2, ListenerConstants DEF LisInv
  <2>. QED  BY <1>2, <2>1, <2>2 DEF LisInv, BroadcastRefused
<1>4. CASE ~(haveOnce /\ when - refreshed < Refresh) /\ ok
  <2>1. known' = casts /\ refreshed' = when
    BY <1>1, <1>4 DEF LookUp
  <2>2. passed' \cap casts' = {}
    BY <1>1, <1>2, <2>1
  <2>. QED  BY <1>2, <2>1, <2>2 DEF LisInv, BroadcastRefused
<1>5. CASE ~(haveOnce /\ when - refreshed < Refresh) /\ ~ok
  <2>1. failedSince' /\ known' = known /\ refreshed' = refreshed /\ haveOnce' = haveOnce
    BY <1>1, <1>5 DEF LookUp
  <2>2. ASSUME passed' \cap casts # {}, haveOnce PROVE changed >= refreshed
    <3>1. known # casts
      BY <1>1, <2>1, <2>2
    <3>. QED  BY <2>2, <3>1 DEF LisInv
  <2>. QED  BY <1>2, <2>1, <2>2 DEF LisInv, BroadcastRefused
<1>. QED  BY <1>3, <1>4, <1>5

LEMMA LisInvariant == LisSpec => []LisInv
<1>1. LisInit => LisInv
  <2>. SUFFICES ASSUME LisInit PROVE LisInv
    OBVIOUS
  <2>1. when = 1 /\ refreshed = 0 /\ changed = 0 /\ passed \cap casts = {}
    BY DEF LisInit
  <2>. QED  BY <2>1 DEF LisInv, BroadcastRefused
<1>2. LisInv /\ [LisNext]_lisVars => LisInv'
  <2>. SUFFICES ASSUME LisInv, [LisNext]_lisVars PROVE LisInv'
    OBVIOUS
  <2>1. CASE Reconfigured
    <3>1. changed' = when /\ when' = when /\ refreshed' = refreshed
      BY <2>1 DEF Reconfigured
    <3>. QED  BY <3>1, ListenerConstants DEF LisInv, BroadcastRefused
  <2>2. CASE TimePasses
    <3>1. /\ when' = when + 1 /\ passed' = {} /\ casts' = casts /\ known' = known
          /\ refreshed' = refreshed /\ haveOnce' = haveOnce /\ changed' = changed
      BY <2>2 DEF TimePasses
    <3>2. haveOnce' /\ changed' < refreshed' => known' = casts'
      BY <3>1 DEF LisInv
    <3>. QED  BY <3>1, <3>2 DEF LisInv, BroadcastRefused
  <2>3. CASE UNCHANGED lisVars
    BY <2>3 DEF lisVars, LisInv, BroadcastRefused
  <2>. QED  BY <2>1, <2>2, <2>3, DatagramStep DEF LisNext
<1>. QED  BY <1>1, <1>2, PTL DEF LisSpec

(* For any addresses and any reconfigurations, isBroadcast lets a datagram *)
(* to a broadcast address through only in the refresh after a change, or   *)
(* while the interfaces cannot be read.                                    *)
THEOREM BroadcastsAreRefused == LisSpec => []BroadcastRefused
BY LisInvariant, PTL DEF LisInv

-----------------------------------------------------------------------------
(* The responder's buckets.  A bucket of a verified identity is only short *)
(* of the burst by what that identity asked for.                           *)

BucketKey == [addr : Clients, key : Keys \cup {NoKey}, space : {"service", "crypto"}]

Bucket == [key : BucketKey, tokens : Nat, updated : Nat, kod : Nat, signed : Nat]

Good(now) ==
    {b \in Bucket :
        /\ b.updated <= now /\ b.tokens <= Burst
        /\ IF b.key.key = NoKey THEN b.signed = 0 ELSE Burst <= b.tokens + b.signed}

(* Whatever Watched was granted since one of its grants, and may be granted *)
(* at once, is covered by the burst and the rate since that grant.  That    *)
(* outlives a bucket dropped for idleness if such a bucket is full again.   *)

Full == Burst <= Rate * (IdleExpiry + 1)

Bounded(g) == \A i, j \in 1..Len(g) : i <= j => j - i + 1 <= Burst + Rate * (g[j] - g[i])

Covered(g, tokens, updated) ==
    \A i \in 1..Len(g) : Len(g) - i + 1 + tokens <= Burst + Rate * (updated - g[i])

(* The keys used since Watched was are the ones ahead of it in the table. *)

Apart(t) == \A i, j \in 1..Len(t) : t[i].key = t[j].key => i = j

Before(t, i) == {t[j].key : j \in 1..(i - 1)}

Followed(t, w, now) ==
    /\ w.grants \in Seq(Nat) /\ w.last \in Nat /\ IsFiniteSet(w.since)
    /\ w.last <= now \/ MaxNow < w.last
    /\ Full => Bounded(w.grants)
    /\ \A i \in 1..Len(t) : t[i].key = Watched =>
          /\ w.last = t[i].updated /\ w.since = Before(t, i)
          /\ Full => Covered(w.grants, t[i].tokens, t[i].updated)
    /\ Watched \notin Tracked(t) =>
          /\ w.last <= now /\ now - w.last <= IdleExpiry => MaxClients <= Cardinality(w.since)
          /\ Full => Covered(w.grants, Burst, now)

Sound(s, now) == s.table \in Seq(Good(now)) /\ Apart(s.table) /\ Followed(s.table, s.watch, now)

RefusedItself ==
    outcome.peer /\ outcome.kind \in {"limited", "rate"} => table[1].signed >= Burst

SrvInv ==
    /\ tick \in Nat /\ tick <= MaxNow
    /\ Sound(Limiter, tick)
    /\ RefusedItself

LEMMA FreshGood ==
    ASSUME NEW k \in BucketKey, NEW now \in Nat
    PROVE  LET b == Fresh(k, now)
           IN  b \in Good(now) /\ b.key = k /\ b.updated = now /\ b.tokens = Burst
<1>. DEFINE b == Fresh(k, now)
<1>1. b \in Bucket
  BY ResponderConstants DEF Fresh, Bucket
<1>2. b.key = k /\ b.tokens = Burst /\ b.updated = now /\ b.signed = 0
  BY DEF Fresh
<1>. HIDE DEF b
<1>3. b \in Good(now)
  BY <1>1, <1>2, ResponderConstants DEF Good
<1>. QED  BY <1>2, <1>3 DEF b

(* Time that passes mints no more tokens than the rate. *)
LEMMA CoverGrows ==
    ASSUME NEW g \in Seq(Nat), NEW n \in Nat, NEW m \in Nat, NEW u \in Nat, NEW now \in Nat,
           u <= now, m <= n + Rate * (now - u), Covered(g, n, u)
    PROVE  Covered(g, m, now)
<1>. SUFFICES ASSUME NEW i \in 1..Len(g)
              PROVE  Len(g) - i + 1 + m <= Burst + Rate * (now - g[i])
  BY DEF Covered
<1>. DEFINE x == Rate * (now - u)
            y == Rate * (u - g[i])
            z == Rate * (now - g[i])
<1>1. g[i] \in Nat /\ Len(g) \in Nat
  OBVIOUS
<1>2. x \in Int /\ y \in Int /\ z \in Int /\ z = x + y
  BY <1>1, ResponderConstants
<1>3. Len(g) - i + 1 + n <= Burst + y
  BY DEF Covered
<1>4. m <= n + x
  OBVIOUS
<1>. HIDE DEF x, y, z
<1>5. Len(g) - i + 1 + m <= Burst + z
  BY <1>1, <1>2, <1>3, <1>4, ResponderConstants
<1>. QED  BY <1>5 DEF z

LEMMA RefillGood ==
    ASSUME NEW now \in Nat, NEW b \in Good(now)
    PROVE  LET r == Refill(b, now) IN
           /\ r \in Good(now) /\ r.key = b.key /\ r.updated = now
           /\ r.tokens <= b.tokens + Rate * (now - b.updated)
<1>. DEFINE n == AtMost(b.tokens + Rate * (now - b.updated), Burst)
            r == [b EXCEPT !.tokens = n, !.updated = now]
<1>1. b \in Bucket /\ b.updated \in Nat /\ b.tokens \in Nat /\ b.updated <= now /\ b.tokens <= Burst
  BY DEF Good, Bucket
<1>2. Rate * (now - b.updated) \in Nat
  BY <1>1, ResponderConstants
<1>3. n \in Nat /\ n <= Burst /\ b.tokens <= n /\ n <= b.tokens + Rate * (now - b.updated)
  <2>. DEFINE x == Rate * (now - b.updated)
  <2>. HIDE DEF x
  <2>1. x \in Nat /\ n = AtMost(b.tokens + x, Burst)
    BY <1>2 DEF x
  <2>. HIDE DEF n
  <2>2. n \in Nat /\ n <= Burst /\ b.tokens <= n /\ n <= b.tokens + x
    BY <1>1, <2>1, ResponderConstants DEF AtMost
  <2>. QED  BY <2>2 DEF x
<1>4. Refill(b, now) = r
  BY DEF Refill
<1>. HIDE DEF n
<1>5. r \in Bucket /\ r.key = b.key /\ r.tokens = n /\ r.updated = now /\ r.signed = b.signed
  BY <1>1, <1>3 DEF Bucket
<1>6. IF r.key.key = NoKey THEN r.signed = 0 ELSE Burst <= r.tokens + r.signed
  <2>1. b.signed \in Nat
    BY <1>1 DEF Bucket
  <2>. QED  BY <1>1, <1>3, <1>5, <2>1, ResponderConstants DEF Good
<1>. HIDE DEF r
<1>7. r \in Good(now)
  BY <1>3, <1>5, <1>6 DEF Good
<1>. QED  BY <1>3, <1>4, <1>5, <1>7

(* A set of natural numbers up to n has a greatest one. *)
LEMMA GreatestElement ==
    ASSUME NEW n \in Nat, NEW S \in SUBSET (0..n), S # {}
    PROVE  \E k \in S : \A j \in S : j <= k
<1>. DEFINE R == OpToRel(<, Nat)
            T == {n - k : k \in S}
<1>1. IsWellFoundedOn(R, Nat)
  BY NatLessThanWellFounded, Zenon
<1>2. \A j, k \in Nat : j < k => <<j, k>> \in R
  BY DEF OpToRel
<1>3. T \subseteq Nat /\ T # {}
  <2>1. \A k \in S : n - k \in Nat
    OBVIOUS
  <2>2. PICK k \in S : TRUE
    OBVIOUS
  <2>3. n - k \in T
    BY <2>2, Zenon
  <2>. QED  BY <2>1, <2>3, Zenon
<1>. HIDE DEF R
<1>4. PICK k \in S : \A j \in S : ~(<<n - j, n - k>> \in R)
  <2>. HIDE DEF T
  <2>1. PICK d \in T : \A c \in T : ~(<<c, d>> \in R)
    BY <1>1, <1>3, WFMin, Zenon
  <2>. QED  BY <2>1, Zenon DEF T
<1>5. ASSUME NEW j \in S PROVE j <= k
  <2>1. n - j \in Nat /\ n - k \in Nat /\ j \in Int /\ k \in Int
    OBVIOUS
  <2>2. ~(n - j < n - k)
    BY <1>2, <1>4, <2>1, Zenon
  <2>. QED  BY <2>1, <2>2
<1>. QED  BY <1>5

(* expire keeps the front of the table, and drops only what is idle. *)
LEMMA LivePart ==
    ASSUME NEW S, NEW t \in Seq(S), NEW now
    PROVE  LET kept == Live(t, now) IN
           /\ kept \in Seq(S) /\ Len(kept) <= Len(t)
           /\ \A i \in 1..Len(kept) : kept[i] = t[i]
           /\ \A i \in 1..Len(t) : i > Len(kept) => ~(now - t[i].updated <= IdleExpiry)
<1>. DEFINE ends == {n \in 0..Len(t) : n = 0 \/ now - t[n].updated <= IdleExpiry}
            last == CHOOSE n \in ends : \A m \in ends : m <= n
            kept == SubSeq(t, 1, last)
<1>1. Len(t) \in Nat /\ 0 \in ends /\ ends \in SUBSET (0..Len(t))
  OBVIOUS
<1>2. Live(t, now) = kept
  BY DEF Live
<1>3. \A n \in 1..Len(t) : now - t[n].updated <= IdleExpiry => n \in ends
  OBVIOUS
<1>. HIDE DEF ends
<1>4. last \in ends /\ \A m \in ends : m <= last
  BY <1>1, GreatestElement, Zenon
<1>. HIDE DEF last
<1>5. last \in Nat /\ last <= Len(t)
  BY <1>1, <1>4
<1>6. kept \in Seq(S) /\ Len(kept) = last /\ \A i \in 1..last : kept[i] = t[i]
  BY <1>5
<1>. HIDE DEF kept
<1>. QED  BY <1>1, <1>2, <1>3, <1>4, <1>5, <1>6

(* As many keys are ahead of a bucket as buckets are. *)
LEMMA CountBefore ==
    ASSUME NEW S, NEW t \in Seq(S), Apart(t), NEW i \in 1..Len(t)
    PROVE  IsFiniteSet(Before(t, i)) /\ Cardinality(Before(t, i)) = i - 1
<1>. DEFINE A == 1..(i - 1)
            f == [j \in A |-> t[j].key]
<1>1. i - 1 \in Nat /\ A \subseteq 1..Len(t)
  OBVIOUS
<1>2. IsFiniteSet(A) /\ Cardinality(A) = i - 1
  BY <1>1, FS_Interval
<1>3. f \in Bijection(A, Before(t, i))
  <2>1. f \in [A -> Before(t, i)] /\ \A y \in Before(t, i) : \E j \in A : f[j] = y
    BY DEF Before
  <2>2. \A j, k \in A : f[j] = f[k] => j = k
    BY <1>1 DEF Apart
  <2>3. DOMAIN f = A
    OBVIOUS
  <2>. HIDE DEF f, A
  <2>4. IsInjective(f)
    BY <2>2, <2>3, Zenon DEF IsInjective
  <2>. QED  BY <2>1, <2>4, Zenon DEF Bijection, Injection, Surjection
<1>4. ExistsBijection(A, Before(t, i))
  BY <1>3, Zenon DEF ExistsBijection
<1>. QED  BY <1>2, <1>4, FS_Bijection

(* The front of a sound table is sound: an idle bucket that is dropped is *)
(* full by now.                                                           *)
LEMMA LiveSound ==
    ASSUME NEW now \in Nat, NEW s, Sound(s, now)
    PROVE  LET kept == Live(s.table, now) IN
           kept \in Seq(Good(now)) /\ Apart(kept) /\ Followed(kept, s.watch, now)
<1>. DEFINE t == s.table
            w == s.watch
            kept == Live(t, now)
            S == Good(now)
<1>1. t \in Seq(S) /\ Apart(t) /\ Followed(t, w, now)
  BY DEF Sound
<1>2. /\ kept \in Seq(S) /\ Len(kept) \in Nat /\ Len(t) \in Nat /\ Len(kept) <= Len(t)
      /\ \A i \in 1..Len(kept) : i \in 1..Len(t) /\ kept[i] = t[i]
      /\ \A i \in 1..Len(t) : i > Len(kept) => ~(now - t[i].updated <= IdleExpiry)
  BY <1>1, LivePart
<1>. HIDE DEF t, w, kept
<1>3. Apart(kept)
  BY <1>1, <1>2 DEF Apart
<1>4. \A i \in 1..Len(kept) : Before(kept, i) = Before(t, i)
  BY <1>2 DEF Before
<1>5. ASSUME Watched \notin Tracked(kept)
      PROVE  /\ w.last <= now /\ now - w.last <= IdleExpiry => MaxClients <= Cardinality(w.since)
             /\ Full => Covered(w.grants, Burst, now)
  <2>1. CASE Watched \notin Tracked(t)
    BY <1>1, <2>1 DEF Followed
  <2>2. CASE Watched \in Tracked(t)
    <3>1. PICK i \in 1..Len(t) : t[i].key = Watched
      BY <1>1, <2>2 DEF Tracked
    <3>2. ~(i \in 1..Len(kept))
      BY <1>2, <1>5, <3>1 DEF Tracked
    <3>. DEFINE b == t[i]
    <3>3. /\ b.updated \in Nat /\ b.tokens \in Nat /\ b.updated <= now
          /\ ~(now - b.updated <= IdleExpiry)
      <4>1. b \in S
        BY <1>1
      <4>. QED  BY <1>2, <3>2, <4>1 DEF S, Good, Bucket
    <3>4. /\ w.last = b.updated /\ w.grants \in Seq(Nat)
          /\ Full => Covered(w.grants, b.tokens, b.updated)
      BY <1>1, <3>1 DEF Followed
    <3>. HIDE DEF b
    <3>5. Full => Burst <= b.tokens + Rate * (now - b.updated)
      <4>. SUFFICES ASSUME Full PROVE Burst <= b.tokens + Rate * (now - b.updated)
        OBVIOUS
      <4>. DEFINE d == now - b.updated - (IdleExpiry + 1)
                  x == Rate * (IdleExpiry + 1)
                  y == Rate * d
                  z == Rate * (now - b.updated)
      <4>1. d \in Nat
        BY <3>3, ResponderConstants
      <4>2. z = x + y /\ x \in Int
        <5>1. now - b.updated = (IdleExpiry + 1) + d /\ IdleExpiry + 1 \in Nat
          BY <3>3, ResponderConstants
        <5>. HIDE DEF d
        <5>2. \A m \in Nat : Rate * (m + d) = Rate * m + Rate * d /\ Rate * m \in Int
          BY <4>1, ResponderConstants
        <5>. QED  BY <5>1, <5>2
      <4>3. y \in Nat
        <5>. HIDE DEF d
        <5>. QED  BY <4>1, ResponderConstants
      <4>4. Burst <= x
        BY DEF Full
      <4>. HIDE DEF x, y, z
      <4>5. Burst <= b.tokens + z
        BY <3>3, <4>2, <4>3, <4>4, ResponderConstants
      <4>. QED  BY <4>5 DEF z
    <3>6. Full => Covered(w.grants, Burst, now)
      BY <3>3, <3>4, <3>5, CoverGrows, ResponderConstants
    <3>. QED  BY <3>3, <3>4, <3>6
  <2>. QED  BY <2>1, <2>2
<1>6. \A i \in 1..Len(kept) : kept[i].key = Watched =>
          /\ w.last = kept[i].updated /\ w.since = Before(kept, i)
          /\ Full => Covered(w.grants, kept[i].tokens, kept[i].updated)
  BY <1>1, <1>2, <1>4 DEF Followed
<1>7. Followed(kept, w, now)
  BY <1>1, <1>5, <1>6 DEF Followed
<1>. QED  BY <1>2, <1>3, <1>7 DEF kept, t, w

(* What is left beside the bucket of k: the order is kept, and a bucket is *)
(* missing only if it was the last of a full table.                        *)
Beside(kept, k, rest) ==
    /\ \A q \in 1..Len(rest) : rest[q].key # k
    /\ Apart(rest)
    /\ \A q \in 1..Len(rest) : \E p \in 1..Len(kept) :
          rest[q] = kept[p] /\ Before(rest, q) \cup {k} = Before(kept, p) \cup {k}
    /\ \A p \in 1..Len(kept) :
          \/ kept[p].key = k \/ kept[p].key \in Tracked(rest)
          \/ p = Len(kept) /\ MaxClients <= p /\ k \notin Tracked(kept)

LEMMA Without ==
    ASSUME NEW S, NEW kept \in Seq(S), Apart(kept), NEW n \in 1..Len(kept)
    PROVE  LET rest == SubSeq(kept, 1, n - 1) \o SubSeq(kept, n + 1, Len(kept))
           IN  rest \in Seq(S) /\ Beside(kept, kept[n].key, rest)
<1>. DEFINE a == SubSeq(kept, 1, n - 1)
            b == SubSeq(kept, n + 1, Len(kept))
            rest == a \o b
            l == Len(kept)
            k == kept[n].key
<1>1. l \in Nat /\ n \in Nat /\ 1 <= n /\ n <= l
  OBVIOUS
<1>2. a \in Seq(S) /\ Len(a) = n - 1 /\ \A i \in 1..(n - 1) : a[i] = kept[i]
  OBVIOUS
<1>3. b \in Seq(S) /\ Len(b) = l - n /\ \A i \in 1..(l - n) : b[i] = kept[n + i]
  OBVIOUS
<1>. HIDE DEF a, b
<1>4. /\ rest \in Seq(S) /\ Len(rest) = (n - 1) + (l - n)
      /\ \A i \in 1..((n - 1) + (l - n)) : rest[i] = IF i <= n - 1 THEN a[i] ELSE b[i - (n - 1)]
  <2>1. /\ a \o b \in Seq(S) /\ Len(a \o b) = Len(a) + Len(b)
        /\ \A i \in 1..(Len(a) + Len(b)) :
              (a \o b)[i] = IF i <= Len(a) THEN a[i] ELSE b[i - Len(a)]
    BY <1>2, <1>3, Joined
  <2>. QED  BY <1>2, <1>3, <2>1
<1>. HIDE DEF rest
<1>5. /\ Len(rest) = l - 1
      /\ \A i \in 1..(l - 1) : rest[i] = IF i <= n - 1 THEN kept[i] ELSE kept[i + 1]
  <2>. HIDE DEF l
  <2>1. Len(rest) = l - 1
    BY <1>1, <1>4
  <2>2. ASSUME NEW i \in 1..(l - 1) PROVE rest[i] = IF i <= n - 1 THEN kept[i] ELSE kept[i + 1]
    <3>1. i \in 1..((n - 1) + (l - n))
      BY <1>1
    <3>2. CASE i <= n - 1
      BY <1>1, <1>2, <1>4, <3>1, <3>2
    <3>3. CASE ~(i <= n - 1)
      <4>1. i - (n - 1) \in 1..(l - n) /\ n + (i - (n - 1)) = i + 1
        BY <1>1, <3>3
      <4>2. b[i - (n - 1)] = kept[i + 1]
        BY <1>3, <4>1
      <4>. QED  BY <1>4, <3>1, <3>3, <4>2
    <3>. QED  BY <3>2, <3>3
  <2>. QED  BY <2>1, <2>2
<1>6. \A i, j \in 1..l : kept[i].key = kept[j].key => i = j
  BY DEF Apart
<1>. HIDE DEF l
<1>7. /\ \A q \in 1..Len(rest) : rest[q].key # k
      /\ Apart(rest)
  <2>. DEFINE pos(i) == IF i <= n - 1 THEN i ELSE i + 1
  <2>1. \A i \in 1..(l - 1) : pos(i) \in 1..l /\ pos(i) # n /\ rest[i] = kept[pos(i)]
    BY <1>1, <1>5
  <2>2. \A i, j \in 1..(l - 1) : pos(i) = pos(j) => i = j
    BY <1>1
  <2>. HIDE DEF pos
  <2>3. Len(rest) = l - 1 /\ n \in 1..l
    BY <1>1, <1>5
  <2>4. \A q \in 1..(l - 1) : rest[q].key # k
    BY <1>6, <2>1, <2>3
  <2>5. \A i, j \in 1..(l - 1) : rest[i].key = rest[j].key => i = j
    BY <1>6, <2>1, <2>2
  <2>. QED  BY <2>3, <2>4, <2>5 DEF Apart
<1>8. ASSUME NEW q \in 1..Len(rest)
      PROVE  \E p \in 1..l :
                rest[q] = kept[p] /\ Before(rest, q) \cup {k} = Before(kept, p) \cup {k}
  <2>1. CASE q <= n - 1
    <3>1. q \in 1..l /\ rest[q] = kept[q]
      BY <1>1, <1>5, <2>1
    <3>2. Before(rest, q) = Before(kept, q)
      BY <1>1, <1>5, <2>1 DEF Before
    <3>. QED  BY <3>1, <3>2
  <2>2. CASE ~(q <= n - 1)
    <3>1. q + 1 \in 1..l /\ rest[q] = kept[q + 1]
      BY <1>1, <1>5, <2>2
    <3>2. ASSUME NEW j \in 1..(q - 1) PROVE rest[j].key \in Before(kept, q + 1)
      <4>1. CASE j <= n - 1
        BY <1>1, <1>5, <4>1 DEF Before
      <4>2. CASE ~(j <= n - 1)
        <5>1. rest[j] = kept[j + 1] /\ j + 1 \in 1..((q + 1) - 1)
          BY <1>1, <1>5, <4>2
        <5>. QED  BY <5>1 DEF Before
      <4>. QED  BY <4>1, <4>2
    <3>3. ASSUME NEW j \in 1..((q + 1) - 1) PROVE kept[j].key \in Before(rest, q) \cup {k}
      <4>1. CASE j = n
        BY <4>1
      <4>2. CASE j < n
        <5>1. j \in 1..(q - 1) /\ rest[j] = kept[j]
          BY <1>1, <1>5, <2>2, <4>2
        <5>. QED  BY <5>1 DEF Before
      <4>3. CASE j > n
        <5>1. j - 1 \in 1..(q - 1) /\ rest[j - 1] = kept[j]
          BY <1>1, <1>5, <2>2, <4>3
        <5>. QED  BY <5>1 DEF Before
      <4>. QED  BY <1>1, <4>1, <4>2, <4>3
    <3>4. Before(rest, q) \subseteq Before(kept, q + 1)
      BY <3>2 DEF Before
    <3>5. Before(kept, q + 1) \subseteq Before(rest, q) \cup {k}
      BY <3>3 DEF Before
    <3>. QED  BY <3>1, <3>4, <3>5
  <2>. QED  BY <2>1, <2>2
<1>9. ASSUME NEW p \in 1..l, kept[p].key # k PROVE kept[p].key \in Tracked(rest)
  <2>0. DOMAIN rest = 1..(l - 1)
    BY <1>4, <1>5
  <2>1. CASE p < n
    <3>1. p \in 1..(l - 1) /\ rest[p] = kept[p]
      BY <1>1, <1>5, <2>1
    <3>. QED  BY <2>0, <3>1 DEF Tracked
  <2>2. CASE p > n
    <3>1. p - 1 \in 1..(l - 1) /\ rest[p - 1] = kept[p]
      BY <1>1, <1>5, <2>2
    <3>. QED  BY <2>0, <3>1 DEF Tracked
  <2>3. p # n
    BY <1>9
  <2>. QED  BY <1>1, <2>1, <2>2, <2>3
<1>. QED  BY <1>4, <1>7, <1>8, <1>9 DEF Beside, rest, a, b, l

LEMMA EvictedBeside ==
    ASSUME NEW S, NEW kept \in Seq(S), Apart(kept), NEW k, k \notin Tracked(kept)
    PROVE  EvictOldest(kept) \in Seq(S) /\ Beside(kept, k, EvictOldest(kept))
<1>. DEFINE rest == EvictOldest(kept)
            l == Len(kept)
<1>1. l \in Nat /\ \A i \in 1..l : kept[i].key # k
  BY DEF Tracked
<1>2. /\ rest \in Seq(S) /\ Len(rest) \in Nat /\ DOMAIN rest = 1..Len(rest)
      /\ Len(rest) = l \/ (Len(rest) = l - 1 /\ MaxClients <= l)
      /\ \A i \in 1..Len(rest) : rest[i] = kept[i]
  <2>1. CASE l >= MaxClients
    <3>1. l >= 1
      BY <1>1, <2>1, ResponderConstants
    <3>2. rest = SubSeq(kept, 1, l - 1)
      BY <2>1 DEF EvictOldest
    <3>3. l - 1 \in Nat /\ l - 1 <= Len(kept)
      BY <1>1, <3>1
    <3>4. SubSeq(kept, 1, l - 1) \in Seq(S)
      BY <3>3, PartOf
    <3>. DEFINE m == l - 1
    <3>. HIDE DEF m
    <3>5. m \in Nat /\ m <= Len(kept)
      BY <3>3 DEF m
    <3>6. Len(SubSeq(kept, 1, m)) = m /\ \A i \in 1..m : SubSeq(kept, 1, m)[i] = kept[i]
      BY <3>5
    <3>. HIDE DEF rest
    <3>7. rest \in Seq(S) /\ Len(rest) = m /\ \A i \in 1..m : rest[i] = kept[i]
      BY <3>2, <3>4, <3>6 DEF m
    <3>8. DOMAIN rest = 1..Len(rest)
      BY <3>7
    <3>. QED  BY <2>1, <3>5, <3>7, <3>8, ResponderConstants DEF m
  <2>2. CASE ~(l >= MaxClients)
    BY <1>1, <2>2 DEF EvictOldest
  <2>. QED  BY <2>1, <2>2
<1>3. \A i, j \in 1..l : kept[i].key = kept[j].key => i = j
  BY DEF Apart
<1>. HIDE DEF rest, l
<1>4. /\ \A i \in 1..Len(rest) : i \in 1..l
      /\ \A i \in 1..l : i \in 1..Len(rest) \/ (i = l /\ MaxClients <= l)
  <2>. DEFINE m == Len(rest)
  <2>1. l \in Nat /\ m \in Nat /\ (m = l \/ (m = l - 1 /\ MaxClients <= l))
    BY <1>1, <1>2
  <2>. HIDE DEF m
  <2>2. \A i \in 1..m : i \in 1..l
    BY <2>1
  <2>3. \A i \in 1..l : i \in 1..m \/ (i = l /\ MaxClients <= l)
    BY <2>1
  <2>. QED  BY <2>2, <2>3 DEF m
<1>5. Apart(rest) /\ \A q \in 1..Len(rest) : rest[q].key # k
  BY <1>1, <1>2, <1>3, <1>4 DEF Apart
<1>6. \A q \in 1..Len(rest) : Before(rest, q) = Before(kept, q)
  BY <1>2 DEF Before
<1>7. \A p \in 1..l : kept[p].key \in Tracked(rest) \/ (p = l /\ MaxClients <= p)
  BY <1>2, <1>4 DEF Tracked
<1>. QED  BY <1>2, <1>4, <1>5, <1>6, <1>7 DEF Beside, l, rest

(* A grant is covered by the tokens that were there. *)
LEMMA GrantCovered ==
    ASSUME NEW g \in Seq(Nat), NEW n \in Nat \ {0}, NEW now \in Nat, n <= Burst,
           Bounded(g), Covered(g, n, now)
    PROVE  /\ Append(g, now) \in Seq(Nat)
           /\ Bounded(Append(g, now)) /\ Covered(Append(g, now), n - 1, now)
<1>. DEFINE h == Append(g, now)
            l == Len(g)
<1>1. /\ h \in Seq(Nat) /\ l \in Nat /\ Len(h) = l + 1 /\ h[l + 1] = now
      /\ \A i \in 1..l : h[i] = g[i] /\ g[i] \in Nat
  OBVIOUS
<1>2. \A i \in 1..l : l - i + 1 + n <= Burst + Rate * (now - g[i])
  BY DEF Covered
<1>3. Rate * (now - now) = 0
  BY ResponderConstants
<1>. HIDE DEF h, l
<1>4. Covered(h, n - 1, now)
  <2>. SUFFICES ASSUME NEW i \in 1..(l + 1)
                PROVE  l + 1 - i + 1 + (n - 1) <= Burst + Rate * (now - h[i])
    BY <1>1 DEF Covered
  <2>1. CASE i = l + 1
    <3>1. Rate * (now - h[i]) = 0
      BY <1>1, <1>3, <2>1
    <3>. QED  BY <1>1, <2>1, <3>1, ResponderConstants
  <2>2. CASE i # l + 1
    <3>1. i \in 1..l /\ h[i] = g[i]
      BY <1>1, <2>2
    <3>. DEFINE x == Rate * (now - g[i])
    <3>2. l - i + 1 + n <= Burst + x
      BY <1>2, <3>1
    <3>4. x \in Int
      BY <1>1, <3>1, ResponderConstants
    <3>3. Rate * (now - h[i]) = x
      BY <3>1
    <3>. HIDE DEF x
    <3>. QED  BY <1>1, <3>1, <3>2, <3>3, <3>4, ResponderConstants
  <2>. QED  BY <2>1, <2>2
<1>5. Bounded(h)
  <2>. SUFFICES ASSUME NEW i \in 1..(l + 1), NEW j \in 1..(l + 1), i <= j
                PROVE  j - i + 1 <= Burst + Rate * (h[j] - h[i])
    BY <1>1 DEF Bounded
  <2>1. CASE j = l + 1
    <3>. DEFINE x == Rate * (now - h[i])
    <3>1. l + 1 - i + 1 + (n - 1) <= Burst + x
      BY <1>1, <1>4 DEF Covered
    <3>2. x \in Int /\ Rate * (h[j] - h[i]) = x
      <4>1. h[i] \in Nat
        BY <1>1
      <4>. QED  BY <1>1, <2>1, <4>1, ResponderConstants
    <3>. HIDE DEF x
    <3>. QED  BY <1>1, <2>1, <3>1, <3>2, ResponderConstants
  <2>2. CASE j # l + 1
    <3>1. i \in 1..l /\ j \in 1..l /\ h[i] = g[i] /\ h[j] = g[j]
      BY <1>1, <2>2
    <3>2. j - i + 1 <= Burst + Rate * (g[j] - g[i])
      BY <3>1 DEF Bounded, l
    <3>. QED  BY <3>1, <3>2
  <2>. QED  BY <2>1, <2>2
<1>. QED  BY <1>1, <1>4, <1>5 DEF h

LEMMA LookupGood ==
    ASSUME NEW now \in Nat, NEW s, Sound(s, now), NEW k \in BucketKey
    PROVE  LET f == Lookup(s.table, k, now) IN
           /\ f.bucket \in Good(now) /\ f.bucket.key = k /\ f.bucket.updated = now
           /\ f.rest \in Seq(Good(now)) /\ Beside(Live(s.table, now), k, f.rest)
           /\ k = Watched /\ Full => Covered(s.watch.grants, f.bucket.tokens, now)
<1>. DEFINE S == Good(now)
            t == s.table
            w == s.watch
            kept == Live(t, now)
            mine == {i \in DOMAIN kept : kept[i].key = k}
            n == CHOOSE i \in mine : TRUE
            f == Lookup(t, k, now)
            others == SubSeq(kept, 1, n - 1) \o SubSeq(kept, n + 1, Len(kept))
<1>1. kept \in Seq(S) /\ Apart(kept) /\ Followed(kept, w, now)
  BY LiveSound
<1>. HIDE DEF kept, S, w
<1>2. CASE mine # {}
  <2>1. n \in mine
    BY <1>2
  <2>2. n \in 1..Len(kept) /\ kept[n].key = k
    BY <1>1, <2>1
  <2>3. f.bucket = Refill(kept[n], now) /\ f.rest = others
    BY <1>2 DEF Lookup, kept
  <2>. HIDE DEF n, f, mine
  <2>4. kept[n] \in S
    BY <1>1, <2>2
  <2>5. others \in Seq(S) /\ Beside(kept, k, others)
    BY <1>1, <2>2, Without
  <2>. HIDE DEF others
  <2>. DEFINE b == kept[n]
  <2>6. /\ f.bucket \in S /\ f.bucket.key = k /\ f.bucket.updated = now
        /\ f.bucket.tokens <= b.tokens + Rate * (now - b.updated)
    BY <2>2, <2>3, <2>4, RefillGood DEF S
  <2>7. ASSUME k = Watched, Full PROVE Covered(w.grants, f.bucket.tokens, now)
    <3>1. w.grants \in Seq(Nat) /\ Covered(w.grants, b.tokens, b.updated)
      BY <1>1, <2>2, <2>7 DEF Followed
    <3>2. b.tokens \in Nat /\ b.updated \in Nat /\ b.updated <= now /\ f.bucket.tokens \in Nat
      BY <2>4, <2>6 DEF S, Good, Bucket
    <3>. DEFINE x == w.grants
                m == f.bucket.tokens
                c == b.tokens
                u == b.updated
    <3>3. /\ x \in Seq(Nat) /\ m \in Nat /\ c \in Nat /\ u \in Nat /\ u <= now
          /\ m <= c + Rate * (now - u) /\ Covered(x, c, u)
      BY <2>6, <3>1, <3>2, Zenon
    <3>. HIDE DEF b, x, m, c, u
    <3>4. Covered(x, m, now)
      BY <3>3, CoverGrows
    <3>. QED  BY <3>4, Zenon DEF x, m
  <2>. QED  BY <2>3, <2>5, <2>6, <2>7 DEF S, f, kept, w
<1>3. CASE mine = {}
  <2>1. f.bucket = Fresh(k, now) /\ f.rest = EvictOldest(kept)
    BY <1>3 DEF Lookup, kept
  <2>2. k \notin Tracked(kept)
    BY <1>3 DEF Tracked
  <2>3. f.rest \in Seq(S) /\ Beside(kept, k, f.rest)
    BY <1>1, <2>1, <2>2, EvictedBeside
  <2>4. f.bucket \in S /\ f.bucket.key = k /\ f.bucket.updated = now /\ f.bucket.tokens = Burst
    BY <2>1, FreshGood DEF S
  <2>5. k = Watched /\ Full => Covered(w.grants, Burst, now)
    BY <1>1, <2>2 DEF Followed
  <2>. HIDE DEF f
  <2>. QED  BY <2>3, <2>4, <2>5 DEF S, f, kept, w
<1>. QED  BY <1>2, <1>3

(* A table with one more bucket in front. *)
LEMMA Prepend ==
    ASSUME NEW S, NEW b \in S, NEW rest \in Seq(S), NEW t, t = <<b>> \o rest
    PROVE  /\ t \in Seq(S) /\ Len(t) = Len(rest) + 1 /\ t[1] = b
           /\ \A q \in 1..Len(rest) : t[q + 1] = rest[q]
<1>1. <<b>> \in Seq(S) /\ Len(<<b>>) = 1 /\ <<b>>[1] = b
  OBVIOUS
<1>2. /\ t \in Seq(S) /\ Len(t) = 1 + Len(rest)
      /\ \A i \in 1..(1 + Len(rest)) : t[i] = IF i <= 1 THEN <<b>>[i] ELSE rest[i - 1]
  BY <1>1, Joined
<1>. DEFINE n == Len(rest)
<1>3. n \in Nat
  OBVIOUS
<1>. HIDE DEF n
<1>4. \A q \in 1..n : q + 1 \in 1..(1 + n) /\ ~(q + 1 <= 1) /\ (q + 1) - 1 = q
  BY <1>3
<1>5. 1 \in 1..(1 + n) /\ n + 1 = 1 + n
  BY <1>3
<1>6. t[1] = b
  BY <1>1, <1>2, <1>5 DEF n
<1>7. \A q \in 1..n : t[q + 1] = rest[q]
  BY <1>2, <1>4, Zenon DEF n
<1>. QED  BY <1>2, <1>5, <1>6, <1>7 DEF n

LEMMA ApartPrepended ==
    ASSUME NEW n \in Nat, NEW rest, NEW t, Len(rest) = n, Len(t) = n + 1, Apart(rest),
           \A i \in 1..n : t[i + 1] = rest[i] /\ rest[i].key # t[1].key
    PROVE  Apart(t)
<1>. SUFFICES ASSUME NEW i \in 1..(n + 1), NEW j \in 1..(n + 1), t[i].key = t[j].key
              PROVE  i = j
  BY DEF Apart
<1>1. ASSUME NEW m \in 1..(n + 1), m # 1
      PROVE  m - 1 \in 1..n /\ t[m] = rest[m - 1] /\ t[m].key # t[1].key
  <2>1. m - 1 \in 1..n /\ (m - 1) + 1 = m
    BY <1>1
  <2>. QED  BY <2>1
<1>2. CASE i # 1 /\ j # 1
  <2>1. i - 1 \in 1..n /\ j - 1 \in 1..n /\ rest[i - 1].key = rest[j - 1].key
    BY <1>1, <1>2
  <2>2. i - 1 = j - 1
    BY <2>1 DEF Apart
  <2>. QED  BY <2>2
<1>. QED  BY <1>1, <1>2

InFront(t, b, rest) ==
    /\ Len(t) = Len(rest) + 1 /\ t[1] = b
    /\ \A q \in 1..Len(rest) : t[q + 1] = rest[q]
    /\ \A q \in 1..Len(rest) : Before(t, q + 1) = Before(rest, q) \cup {b.key}
    /\ Tracked(t) = Tracked(rest) \cup {b.key}

LEMMA Prepended ==
    ASSUME NEW S, NEW b \in S, NEW rest \in Seq(S)
    PROVE  InFront(<<b>> \o rest, b, rest)
<1>. DEFINE t == <<b>> \o rest
            n == Len(rest)
<1>1. /\ t \in Seq(S) /\ Len(t) = n + 1 /\ t[1] = b
      /\ \A q \in 1..n : t[q + 1] = rest[q]
  BY Prepend
<1>2. n \in Nat
  OBVIOUS
<1>. HIDE DEF t
<1>3. DOMAIN t = 1..(n + 1) /\ DOMAIN rest = 1..n
  BY <1>1
<1>. HIDE DEF n
<1>4. ASSUME NEW i \in 1..(n + 1) PROVE i = 1 \/ (i - 1 \in 1..n /\ t[i] = rest[i - 1])
  <2>1. CASE i # 1
    <3>1. i - 1 \in 1..n /\ (i - 1) + 1 = i
      BY <1>2, <2>1
    <3>2. t[(i - 1) + 1] = rest[i - 1]
      BY <1>1, <3>1, Zenon
    <3>. QED  BY <3>1, <3>2
  <2>. QED  BY <2>1
<1>5. (\A i \in 1..n : i + 1 \in 1..(n + 1)) /\ 1 \in 1..(n + 1)
  BY <1>2
<1>6. Tracked(t) = Tracked(rest) \cup {b.key}
  <2>1. Tracked(t) = {t[i].key : i \in 1..(n + 1)} /\ Tracked(rest) = {rest[i].key : i \in 1..n}
    BY <1>3, Zenon DEF Tracked
  <2>2. ASSUME NEW i \in 1..(n + 1) PROVE t[i].key \in Tracked(rest) \cup {b.key}
    BY <1>1, <1>4, <2>1
  <2>3. b.key \in Tracked(t)
    BY <1>1, <1>5, <2>1, Zenon
  <2>4. ASSUME NEW i \in 1..n PROVE rest[i].key \in Tracked(t)
    BY <1>1, <1>5, <2>1, Zenon
  <2>5. Tracked(t) \subseteq Tracked(rest) \cup {b.key}
    BY <2>1, <2>2, Zenon
  <2>6. Tracked(rest) \cup {b.key} \subseteq Tracked(t)
    BY <2>1, <2>3, <2>4, Zenon
  <2>. QED  BY <2>5, <2>6, Zenon
<1>7. ASSUME NEW q \in 1..n PROVE Before(t, q + 1) = Before(rest, q) \cup {b.key}
  <2>1. ASSUME NEW j \in 1..((q + 1) - 1) PROVE t[j].key \in Before(rest, q) \cup {b.key}
    <3>1. j \in 1..(n + 1) /\ (j # 1 => j - 1 \in 1..(q - 1))
      BY <1>2
    <3>2. j = 1 \/ t[j] = rest[j - 1]
      BY <1>4, <3>1, Zenon
    <3>. QED  BY <1>1, <3>1, <3>2, Zenon DEF Before
  <2>2. 1 \in 1..((q + 1) - 1)
    BY <1>2
  <2>3. b.key \in Before(t, q + 1)
    BY <1>1, <2>2, Zenon DEF Before
  <2>4. ASSUME NEW j \in 1..(q - 1) PROVE rest[j].key \in Before(t, q + 1)
    <3>1. j \in 1..n /\ j + 1 \in 1..((q + 1) - 1)
      BY <1>2
    <3>. QED  BY <1>1, <3>1, Zenon DEF Before
  <2>5. Before(t, q + 1) \subseteq Before(rest, q) \cup {b.key}
    BY <2>1, Zenon DEF Before
  <2>6. Before(rest, q) \cup {b.key} \subseteq Before(t, q + 1)
    BY <2>3, <2>4, Zenon DEF Before
  <2>. QED  BY <2>5, <2>6, Zenon
<1>8. InFront(t, b, rest)
  BY <1>1, <1>6, <1>7, Zenon DEF InFront, n
<1>. QED  BY <1>8, Zenon DEF t

(* The watched key itself was used. *)
LEMMA NoteOwn ==
    ASSUME NEW now \in Nat, NEW t, NEW v, Len(t) \in Nat, t[1].key = Watched, t[1].updated = now,
           Apart(t), Watched \in Tracked(t), v.grants \in Seq(Nat), v.last = now, v.since = {},
           Full => Bounded(v.grants) /\ Covered(v.grants, t[1].tokens, now)
    PROVE  Followed(t, v, now)
<1>1. \A i \in 1..Len(t) : t[i].key = Watched => i = 1
  BY DEF Apart
<1>2. Before(t, 1) = {}
  BY DEF Before
<1>3. IsFiniteSet(v.since)
  BY FS_EmptySet
<1>4. \A i \in 1..Len(t) : t[i].key = Watched =>
        /\ v.last = t[i].updated /\ v.since = Before(t, i)
        /\ Full => Covered(v.grants, t[i].tokens, t[i].updated)
  BY <1>1, <1>2
<1>5. v.last <= now /\ v.last \in Nat
  OBVIOUS
<1>. QED  BY <1>3, <1>4, <1>5, Zenon DEF Followed

(* Another key was used, and the watched one has no bucket: it had none, or *)
(* its bucket was the last of a full table.                                 *)
LEMMA NoteGone ==
    ASSUME NEW now \in Nat, now <= MaxNow, NEW S, NEW kept \in Seq(S), Apart(kept), NEW w,
           Followed(kept, w, now), NEW k, k # Watched, NEW rest, Beside(kept, k, rest),
           Watched \notin Tracked(rest)
    PROVE  /\ w.last <= now /\ now - w.last <= IdleExpiry => MaxClients <= Cardinality(w.since \cup {k})
           /\ Full => Covered(IF Watched \in Tracked(kept) THEN <<>> ELSE w.grants, Burst, now)
<1>0. MaxClients \in Nat /\ MaxNow \in Nat
  BY ResponderConstants
<1>1. CASE Watched \notin Tracked(kept)
  <2>1. /\ IsFiniteSet(w.since)
        /\ w.last <= now /\ now - w.last <= IdleExpiry => MaxClients <= Cardinality(w.since)
        /\ Full => Covered(w.grants, Burst, now)
    BY <1>1, Zenon DEF Followed
  <2>2. Cardinality(w.since) \in Nat
    BY <2>1, FS_CardinalityType, Zenon
  <2>3. Cardinality(w.since \cup {k}) =
            IF k \in w.since THEN Cardinality(w.since) ELSE Cardinality(w.since) + 1
    BY <2>1, FS_AddElement, Zenon
  <2>. DEFINE c == Cardinality(w.since)
              d == Cardinality(w.since \cup {k})
  <2>4. c \in Nat /\ (d = c \/ d = c + 1)
    BY <2>2, <2>3, Zenon
  <2>. HIDE DEF c, d
  <2>5. MaxClients <= c => MaxClients <= d
    BY <1>0, <2>4
  <2>. QED  BY <1>1, <2>1, <2>5, Zenon DEF c, d
<1>2. CASE Watched \in Tracked(kept)
  <2>1. PICK p \in 1..Len(kept) : kept[p].key = Watched
    <3>1. DOMAIN kept = 1..Len(kept)
      OBVIOUS
    <3>. QED  BY <1>2, <3>1, Zenon DEF Tracked
  <2>2. p = Len(kept) /\ MaxClients <= p /\ k \notin Tracked(kept)
    BY <2>1, Zenon DEF Beside
  <2>3. w.since = Before(kept, p)
    BY <2>1, Zenon DEF Followed
  <2>. DEFINE B == Before(kept, p)
  <2>4. IsFiniteSet(B) /\ Cardinality(B) = p - 1
    BY CountBefore
  <2>5. k \notin B
    <3>1. DOMAIN kept = 1..Len(kept) /\ \A j \in 1..(p - 1) : j \in 1..Len(kept)
      OBVIOUS
    <3>. QED  BY <2>2, <3>1, Zenon DEF Before, Tracked
  <2>. HIDE DEF B
  <2>6. Cardinality(B \cup {k}) = Cardinality(B) + 1
    BY <2>4, <2>5, FS_AddElement, Zenon
  <2>7. MaxClients <= (p - 1) + 1
    BY <1>0, <2>2
  <2>8. MaxClients <= Cardinality(w.since \cup {k})
    BY <2>3, <2>4, <2>6, <2>7, Zenon DEF B
  <2>9. Covered(<<>>, Burst, now)
    BY DEF Covered
  <2>. QED  BY <1>2, <2>8, <2>9, Zenon
<1>. QED  BY <1>1, <1>2

(* No grant is within any bound. *)
LEMMA NothingBounded == <<>> \in Seq(Nat) /\ Bounded(<<>>)
<1>1. 1..Len(<<>>) = {}
  OBVIOUS
<1>. QED  BY <1>1 DEF Bounded

(* The ghost follows the table over one call of allow. *)
LEMMA NoteFollowed ==
    ASSUME NEW now \in Nat, now <= MaxNow, NEW kept \in Seq(Good(now)),
           NEW rest \in Seq(Good(now)), NEW w, NEW k, NEW after \in Good(now),
           after.key = k, after.updated = now, NEW ok \in BOOLEAN,
           Apart(kept), Followed(kept, w, now), Beside(kept, k, rest),
           NEW g \in Seq(Nat), g = IF ok THEN Append(w.grants, now) ELSE w.grants,
           k = Watched /\ Full => Bounded(g) /\ Covered(g, after.tokens, now),
           NEW evicted, evicted = (Watched \in Tracked(kept) \ Tracked(rest))
    PROVE  /\ Apart(<<after>> \o rest)
           /\ Followed(<<after>> \o rest, Note(w, k, now, ok, evicted), now)
<1>. DEFINE t == <<after>> \o rest
            v == Note(w, k, now, ok, evicted)
<1>0. InFront(t, after, rest)
  BY Prepended, Zenon
<1>. HIDE DEF t
<1>1. /\ Len(t) = Len(rest) + 1 /\ t[1] = after
      /\ \A q \in 1..Len(rest) : t[q + 1] = rest[q]
      /\ \A q \in 1..Len(rest) : Before(t, q + 1) = Before(rest, q) \cup {after.key}
      /\ Tracked(t) = Tracked(rest) \cup {after.key}
  BY <1>0, Zenon DEF InFront
<1>2. Len(rest) \in Nat /\ Len(t) \in Nat
  BY <1>1
<1>3. \A q \in 1..Len(rest) : t[q + 1] = rest[q] /\ rest[q].key # t[1].key
  BY <1>1, Zenon DEF Beside
<1>4. Apart(t)
  BY <1>1, <1>2, <1>3, ApartPrepended, Zenon DEF Beside
<1>5. Tracked(t) = Tracked(rest) \cup {k}
  BY <1>1, Zenon
<1>6. CASE k = Watched
  <2>1. v.grants = g /\ v.last = now /\ v.since = {}
    BY <1>6 DEF Note
  <2>. HIDE DEF v
  <2>2. Full => Bounded(g) /\ Covered(g, after.tokens, now)
    BY <1>6, Zenon
  <2>3. Followed(t, v, now)
    BY <1>1, <1>2, <1>4, <1>5, <1>6, <2>1, <2>2, NoteOwn, Zenon
  <2>. QED  BY <1>4, <2>3, Zenon DEF t, v
<1>7. CASE k # Watched
  <2>1. /\ v.grants = IF evicted THEN <<>> ELSE w.grants
        /\ v.last = w.last
        /\ v.since = IF w.last > MaxNow THEN {} ELSE w.since \cup {k}
    BY <1>7 DEF Note
  <2>. HIDE DEF v
  <2>2. /\ w.grants \in Seq(Nat) /\ w.last \in Nat /\ IsFiniteSet(w.since)
        /\ w.last <= now \/ MaxNow < w.last
        /\ Full => Bounded(w.grants)
    BY Zenon DEF Followed
  <2>3. v.grants \in Seq(Nat) /\ (Full => Bounded(v.grants))
    BY <2>1, <2>2, NothingBounded, Zenon
  <2>4. IsFiniteSet(v.since)
    <3>1. IsFiniteSet({}) /\ IsFiniteSet(w.since \cup {k})
      BY <2>2, FS_AddElement, FS_EmptySet, Zenon
    <3>. QED  BY <2>1, <3>1, Zenon
  <2>5. w.last <= now => v.since = w.since \cup {k}
    <3>1. w.last <= now => ~(w.last > MaxNow)
      <4>. DEFINE x == w.last
      <4>1. x \in Nat
        BY <2>2, Zenon
      <4>. HIDE DEF x
      <4>2. x <= now => ~(x > MaxNow)
        BY <4>1, ResponderConstants
      <4>. QED  BY <4>2, Zenon DEF x
    <3>. QED  BY <2>1, <3>1, Zenon
  <2>6. ASSUME NEW i \in 1..Len(t), t[i].key = Watched
        PROVE  /\ v.last = t[i].updated /\ v.since = Before(t, i)
               /\ Full => Covered(v.grants, t[i].tokens, t[i].updated)
    <3>1. i # 1
      BY <1>1, <1>7, <2>6, Zenon
    <3>2. i - 1 \in 1..Len(rest) /\ (i - 1) + 1 = i
      <4>. DEFINE n == Len(rest)
                  m == Len(t)
      <4>1. n \in Nat /\ m = n + 1 /\ i \in 1..m
        BY <1>1, <1>2, Zenon
      <4>. HIDE DEF n, m
      <4>2. i - 1 \in 1..n /\ (i - 1) + 1 = i
        BY <3>1, <4>1
      <4>. QED  BY <4>2, Zenon DEF n
    <3>3. PICK q \in 1..Len(rest) : i = q + 1
      BY <3>2, Zenon
    <3>4. t[i] = rest[q] /\ rest[q].key = Watched
      BY <1>1, <2>6, <3>3, Zenon
    <3>5. PICK p \in 1..Len(kept) :
            rest[q] = kept[p] /\ Before(rest, q) \cup {k} = Before(kept, p) \cup {k}
      BY Zenon DEF Beside
    <3>6. /\ w.last = t[i].updated /\ w.since = Before(kept, p)
          /\ Full => Covered(w.grants, t[i].tokens, t[i].updated)
      BY <3>4, <3>5, Zenon DEF Followed
    <3>7. Before(t, i) = Before(rest, q) \cup {k}
      BY <1>1, <3>3, Zenon
    <3>8. ~evicted
      <4>1. q \in DOMAIN rest
        OBVIOUS
      <4>2. Watched \in Tracked(rest)
        BY <3>4, <4>1, Zenon DEF Tracked
      <4>. QED  BY <4>2, Zenon
    <3>9. w.last <= now
      <4>1. kept[p] \in Good(now)
        OBVIOUS
      <4>2. kept[p].updated <= now
        BY <4>1, Zenon DEF Good
      <4>. QED  BY <3>4, <3>5, <3>6, <4>2, Zenon
    <3>10. v.since = Before(t, i)
      BY <2>5, <3>5, <3>6, <3>7, <3>9, Zenon
    <3>. QED  BY <2>1, <3>6, <3>8, <3>10, Zenon
  <2>7. ASSUME Watched \notin Tracked(t)
        PROVE  /\ v.last <= now /\ now - v.last <= IdleExpiry => MaxClients <= Cardinality(v.since)
               /\ Full => Covered(v.grants, Burst, now)
    <3>1. Watched \notin Tracked(rest)
      BY <1>5, <2>7, Zenon
    <3>2. evicted <=> Watched \in Tracked(kept)
      BY <3>1, Zenon
    <3>3. /\ w.last <= now /\ now - w.last <= IdleExpiry => MaxClients <= Cardinality(w.since \cup {k})
          /\ Full => Covered(IF Watched \in Tracked(kept) THEN <<>> ELSE w.grants, Burst, now)
      BY <1>7, <3>1, NoteGone, Zenon
    <3>4. v.grants = IF Watched \in Tracked(kept) THEN <<>> ELSE w.grants
      BY <2>1, <3>2, Zenon
    <3>. QED  BY <2>1, <2>5, <3>3, <3>4, Zenon
  <2>8. Followed(t, v, now)
    BY <2>1, <2>2, <2>3, <2>4, <2>6, <2>7, Zenon DEF Followed
  <2>. QED  BY <1>4, <2>8, Zenon DEF t, v
<1>. QED  BY <1>6, <1>7

(* allow keeps the limiter sound, as long as a verified identity's bucket  *)
(* sees verified requests only and every other bucket none; and it refuses *)
(* a verified request only after a burst of them.                          *)
LEMMA AllowSound ==
    ASSUME NEW now \in Nat, now <= MaxNow, NEW s, Sound(s, now), NEW k \in BucketKey,
           NEW verified \in BOOLEAN, verified <=> k.key # NoKey
    PROVE  LET a == Allow(s, k, now, verified)
           IN  Sound(a, now) /\ (verified /\ ~a.ok => a.table[1].signed >= Burst)
<1>. DEFINE found == Lookup(s.table, k, now)
            b == found.bucket
            rest == found.rest
            kept == Live(s.table, now)
            c == IF verified THEN AtMost(b.signed + 1, Burst) ELSE b.signed
            seen == [b EXCEPT !.signed = c]
            ok == seen.tokens >= 1
            kiss == seen.kod > MaxNow \/ now - seen.kod >= KodInterval
            n == seen.tokens - 1
            granted == [seen EXCEPT !.tokens = n]
            kissed == [seen EXCEPT !.kod = now]
            after == IF ok THEN granted ELSE IF kiss THEN kissed ELSE seen
            evicted == (Watched \in Tracked(kept) \ Tracked(rest))
            w == s.watch
            g == IF ok THEN Append(w.grants, now) ELSE w.grants
            a == Allow(s, k, now, verified)
<1>1. /\ b \in Good(now) /\ b.key = k /\ b.updated = now
      /\ rest \in Seq(Good(now)) /\ Beside(kept, k, rest)
      /\ k = Watched /\ Full => Covered(w.grants, b.tokens, now)
  BY LookupGood
<1>2. kept \in Seq(Good(now)) /\ Apart(kept) /\ Followed(kept, w, now)
  BY LiveSound
<1>3. /\ a.ok = ok /\ a.table = <<after>> \o rest
      /\ a.watch = Note(w, k, now, ok, evicted)
  BY DEF Allow
<1>. HIDE DEF found, a, kept, rest
<1>4. b \in Bucket /\ b.signed \in Nat /\ b.tokens \in Nat /\ b.tokens <= Burst
  BY <1>1 DEF Good, Bucket
<1>5. IF k.key = NoKey THEN b.signed = 0 ELSE Burst <= b.tokens + b.signed
  BY <1>1 DEF Good
<1>6. /\ c \in Nat
      /\ k.key = NoKey => c = 0
      /\ k.key # NoKey => Burst <= b.tokens + c /\ (b.tokens >= 1 => Burst <= b.tokens - 1 + c)
  <2>1. CASE verified
    <3>1. c = AtMost(b.signed + 1, Burst)
      BY <2>1
    <3>. HIDE DEF c, b
    <3>2. k.key # NoKey /\ Burst <= b.tokens + b.signed
      BY <1>5, <2>1
    <3>3. c \in Nat /\ (c = b.signed + 1 \/ c = Burst)
      BY <1>4, <3>1, ResponderConstants DEF AtMost
    <3>4. Burst <= b.tokens + c /\ (b.tokens >= 1 => Burst <= b.tokens - 1 + c)
      BY <1>4, <3>2, <3>3, ResponderConstants
    <3>. QED  BY <3>2, <3>3, <3>4
  <2>2. CASE ~verified
    <3>1. c = b.signed
      BY <2>2
    <3>. HIDE DEF c, b
    <3>. QED  BY <1>4, <1>5, <2>2, <3>1
  <2>. QED  BY <2>1, <2>2
<1>. HIDE DEF c, b
<1>7. /\ seen \in Bucket /\ seen.key = k /\ seen.updated = now /\ seen.tokens = b.tokens
      /\ seen.signed = c
  BY <1>1, <1>4, <1>6 DEF Bucket
<1>. HIDE DEF seen
<1>8. seen \in Good(now)
  BY <1>4, <1>6, <1>7 DEF Good
<1>9. ok => /\ granted \in Good(now) /\ granted.key = k /\ granted.updated = now
            /\ granted.tokens = n /\ n \in Nat
  <2>. SUFFICES ASSUME ok PROVE /\ granted \in Good(now) /\ granted.key = k
                                /\ granted.updated = now /\ granted.tokens = n /\ n \in Nat
    OBVIOUS
  <2>1. n \in Nat /\ n <= Burst
    BY <1>4, <1>7, ResponderConstants
  <2>2. Burst <= n + c \/ k.key = NoKey
    BY <1>6, <1>7
  <2>. HIDE DEF n
  <2>3. /\ granted \in Bucket /\ granted.key = k /\ granted.updated = now
        /\ granted.tokens = n /\ granted.signed = c
    BY <1>7, <2>1 DEF Bucket
  <2>. HIDE DEF granted
  <2>. QED  BY <1>6, <2>1, <2>2, <2>3 DEF Good
<1>10. /\ kissed \in Good(now) /\ kissed.key = k /\ kissed.updated = now
       /\ kissed.tokens = seen.tokens /\ kissed.signed = c
  <2>1. /\ kissed \in Bucket /\ kissed.key = seen.key /\ kissed.updated = seen.updated
        /\ kissed.tokens = seen.tokens /\ kissed.signed = seen.signed
    BY <1>7 DEF Bucket
  <2>. HIDE DEF kissed
  <2>. QED  BY <1>7, <1>8, <2>1 DEF Good
<1>. HIDE DEF granted, kissed, kiss
<1>11. /\ after \in Good(now) /\ after.key = k /\ after.updated = now
       /\ after.tokens = IF ok THEN n ELSE seen.tokens
       /\ ~ok => after.signed = c
  BY <1>7, <1>8, <1>9, <1>10
<1>12. /\ g \in Seq(Nat)
       /\ k = Watched /\ Full => Bounded(g) /\ Covered(g, after.tokens, now)
  <2>. HIDE DEF after
  <2>1. w.grants \in Seq(Nat) /\ (Full => Bounded(w.grants))
    BY <1>2 DEF Followed
  <2>2. CASE ok
    <3>a. seen.tokens >= 1 /\ n = seen.tokens - 1 /\ g = Append(w.grants, now)
      BY <2>2
    <3>b. after.tokens = n
      BY <1>11, <2>2, Zenon
    <3>1. b.tokens \in Nat \ {0} /\ after.tokens = b.tokens - 1 /\ g = Append(w.grants, now)
      <4>. HIDE DEF g, ok, n
      <4>. QED  BY <1>4, <1>7, <3>a, <3>b
    <3>. HIDE DEF g, ok, n
    <3>2. g \in Seq(Nat)
      BY <2>1, <3>1
    <3>. QED  BY <1>1, <1>4, <2>1, <3>1, <3>2, GrantCovered
  <2>3. CASE ~ok
    <3>1. after.tokens = b.tokens /\ g = w.grants
      BY <1>7, <1>11, <2>3
    <3>. HIDE DEF g, ok, n
    <3>. QED  BY <1>1, <2>1, <3>1
  <2>. QED  BY <2>2, <2>3
<1>13. g = IF ok THEN Append(w.grants, now) ELSE w.grants
  OBVIOUS
<1>14. ~ok /\ verified => after.signed >= Burst
  <2>. SUFFICES ASSUME ~ok, verified PROVE after.signed >= Burst
    OBVIOUS
  <2>1. seen.tokens = 0 /\ Burst <= b.tokens + c /\ after.signed = c
    BY <1>4, <1>6, <1>7, <1>11
  <2>. HIDE DEF after, ok
  <2>. QED  BY <1>6, <1>7, <2>1, ResponderConstants
<1>15. ok \in BOOLEAN /\ evicted = (Watched \in Tracked(kept) \ Tracked(rest))
  OBVIOUS
<1>. HIDE DEF after, ok, g, n, evicted, w
<1>16. Apart(<<after>> \o rest) /\ Followed(<<after>> \o rest, Note(w, k, now, ok, evicted), now)
  BY <1>1, <1>2, <1>11, <1>12, <1>13, <1>15, NoteFollowed, Zenon
<1>17. <<after>> \in Seq(Good(now)) /\ Len(<<after>>) = 1 /\ <<after>>[1] = after
  BY <1>11
<1>18. <<after>> \o rest \in Seq(Good(now)) /\ (<<after>> \o rest)[1] = after
  <2>1. /\ <<after>> \o rest \in Seq(Good(now))
        /\ \A i \in 1..(1 + Len(rest)) :
              (<<after>> \o rest)[i] = IF i <= 1 THEN <<after>>[i] ELSE rest[i - 1]
    BY <1>1, <1>17, Joined
  <2>2. 1 \in 1..(1 + Len(rest))
    BY <1>1
  <2>. QED  BY <1>17, <2>1, <2>2
<1>19. Sound(a, now)
  BY <1>3, <1>16, <1>18 DEF Sound
<1>20. verified /\ ~a.ok => a.table[1].signed >= Burst
  BY <1>3, <1>14, <1>18
<1>. QED  BY <1>19, <1>20 DEF a

LEMMA KeysOfRequests ==
    ASSUME NEW r \in Requests
    PROVE  /\ LimitKey(r) \in BucketKey /\ (Verified(r) # NoKey <=> LimitKey(r).key # NoKey)
           /\ CryptoKey(r.from) \in BucketKey /\ CryptoKey(r.from).key = NoKey
BY DEF Requests, LimitKey, ServiceKey, CryptoKey, Verified, BucketKey

LEMMA ServeStep ==
    ASSUME SrvInv, NEW r \in Requests, NEW s, Sound(s, tick), Serve(s, r)
    PROVE  Sound(Limiter', tick) /\ RefusedItself'
<1>. DEFINE v == (Verified(r) # NoKey)
            a == Allow(s, LimitKey(r), tick, v)
<1>1. Sound(a, tick) /\ (v /\ ~a.ok => a.table[1].signed >= Burst)
  <2>1. v \in BOOLEAN /\ (v <=> LimitKey(r).key # NoKey) /\ LimitKey(r) \in BucketKey
    BY KeysOfRequests
  <2>2. tick \in Nat /\ tick <= MaxNow
    BY DEF SrvInv
  <2>. HIDE DEF v
  <2>. QED  BY <2>1, <2>2, AllowSound
<1>2. /\ Limited(a)
      /\ \/ outcome' = Outcome(r, "time") \/ outcome' = Outcome(r, "extension")
         \/ ~a.ok /\ \E kind : outcome' = Outcome(r, kind)
  BY Zenon DEF Serve
<1>. HIDE DEF a
<1>3. table' = a.table /\ watch' = a.watch
  BY <1>2 DEF Limited
<1>4. RefusedItself'
  <2>1. ASSUME NEW kind, outcome' = Outcome(r, kind)
        PROVE  outcome'.kind = kind /\ (outcome'.peer => v)
    BY <2>1 DEF Outcome
  <2>2. CASE outcome' = Outcome(r, "time") \/ outcome' = Outcome(r, "extension")
    BY <2>1, <2>2 DEF RefusedItself
  <2>3. CASE ~a.ok /\ \E kind : outcome' = Outcome(r, kind)
    <3>1. outcome'.peer => v
      BY <2>1, <2>3
    <3>. QED  BY <1>1, <1>3, <2>3, <3>1 DEF RefusedItself
  <2>. QED  BY <1>2, <2>2, <2>3
<1>5. Sound([table |-> table', watch |-> watch'], tick)
  BY <1>1, <1>3 DEF Sound
<1>6. Sound(Limiter', tick)
  BY <1>5 DEF Limiter
<1>. QED  BY <1>4, <1>6

LEMMA CryptoSound ==
    ASSUME SrvInv, NEW r \in Requests
    PROVE  Sound(Allow(Limiter, CryptoKey(r.from), tick, FALSE), tick)
<1>1. /\ tick \in Nat /\ tick <= MaxNow /\ Sound(Limiter, tick)
      /\ CryptoKey(r.from) \in BucketKey /\ (FALSE <=> CryptoKey(r.from).key # NoKey)
  BY KeysOfRequests DEF SrvInv
<1>. QED  BY <1>1, AllowSound

(* An outcome that refuses no peer, with a sound limiter. *)
Settled == Sound(Limiter', tick) /\ RefusedItself'

LEMMA QuietSettled ==
    ASSUME SrvInv, tick' = tick, NEW r \in Requests,
           \/ outcome' = Quiet \/ outcome' = Outcome(r, "nak") \/ outcome' = Outcome(r, "none")
           \/ outcome' = Outcome(r, "limited") /\ RequireKey[r.from] = NoKey,
           \/ UNCHANGED <<table, watch>>
           \/ Limited(Allow(Limiter, CryptoKey(r.from), tick, FALSE))
    PROVE  Settled
<1>. DEFINE a == Allow(Limiter, CryptoKey(r.from), tick, FALSE)
<1>1. Sound(a, tick) /\ Sound(Limiter, tick)
  BY CryptoSound DEF SrvInv
<1>2. RefusedItself'
  <2>1. Quiet.kind = "none"
    BY DEF Quiet
  <2>2. \A kind : Outcome(r, kind).kind = kind
    BY DEF Outcome
  <2>3. RequireKey[r.from] = NoKey => ~Outcome(r, "limited").peer
    BY DEF Outcome
  <2>4. ~outcome'.peer \/ outcome'.kind \in {"nak", "none"}
    BY <2>1, <2>2, <2>3
  <2>. QED  BY <2>4 DEF RefusedItself
<1>. HIDE DEF a
<1>3. CASE UNCHANGED <<table, watch>>
  <2>1. Sound(Limiter', tick)
    BY <1>1, <1>3 DEF Limiter
  <2>. QED  BY <1>2, <2>1 DEF Settled
<1>4. CASE Limited(a)
  <2>1. table' = a.table /\ watch' = a.watch
    BY <1>4 DEF Limited
  <2>2. Sound([table |-> table', watch |-> watch'], tick)
    BY <1>1, <2>1 DEF Sound
  <2>. QED  BY <1>2, <2>2 DEF Settled, Limiter
<1>. QED  BY <1>3, <1>4 DEF a

LEMMA RequestStep ==
    ASSUME SrvInv, NEW r \in Requests, HandleRequired(r) \/ HandleOptional(r), tick' = tick
    PROVE  Settled
<1>. DEFINE a == Allow(Limiter, CryptoKey(r.from), tick, FALSE)
<1>1. Sound(a, tick) /\ Sound(Limiter, tick)
  BY CryptoSound DEF SrvInv
<1>2. ASSUME Serve(Limiter, r) \/ Serve(a, r) PROVE Settled
  <2>. HIDE DEF a
  <2>1. Sound(Limiter', tick) /\ RefusedItself'
    BY <1>1, <1>2, ServeStep
  <2>. QED  BY <2>1 DEF Settled
<1>3. CASE HandleRequired(r)
  <2>1. Fails(r) => Limited(a) /\ (outcome' = Outcome(r, "nak") \/ outcome' = Outcome(r, "none"))
    BY Zenon DEF Fails
  <2>. QED  BY <1>2, <1>3, <2>1, QuietSettled, Zenon DEF HandleRequired
<1>4. CASE HandleOptional(r)
  <2>1. \/ Serve(Limiter, r) \/ Serve(a, r)
        \/ Limited(a) /\ (outcome' = Outcome(r, "nak") \/ outcome' = Outcome(r, "limited"))
    BY <1>4, Zenon DEF HandleOptional
  <2>2. RequireKey[r.from] = NoKey
    BY <1>4 DEF HandleOptional
  <2>. QED  BY <1>2, <2>1, <2>2, QuietSettled, Zenon
<1>. QED  BY <1>3, <1>4

LEMMA HandleStep == ASSUME SrvInv, Handle PROVE SrvInv'
<1>1. tick' = tick
  BY DEF Handle
<1>2. Settled
  <2>1. CASE Unusable
    <3>1. outcome' = Quiet /\ table' = table /\ watch' = watch
      BY <2>1 DEF Unusable
    <3>2. Sound(Limiter', tick)
      BY <1>1, <3>1 DEF Limiter, SrvInv
    <3>. QED  BY <3>1, <3>2 DEF Settled, RefusedItself, Quiet
  <2>2. ASSUME NEW r \in Requests, HandleRequired(r) \/ HandleOptional(r) PROVE Settled
    BY <1>1, <2>2, RequestStep
  <2>. QED  BY <2>1, <2>2, Zenon DEF Handle
<1>. QED  BY <1>1, <1>2 DEF SrvInv, Settled

(* Time that passes leaves what is followed sound. *)
LEMMA PassesStep == ASSUME SrvInv, Passes PROVE SrvInv'
<1>. DEFINE w == watch
<1>1. /\ tick' = tick + 1 /\ table' = table /\ watch' = watch /\ outcome' = Quiet
      /\ tick \in Nat /\ tick < MaxNow
  BY DEF Passes, SrvInv
<1>2. table \in Seq(Good(tick)) /\ Apart(table) /\ Followed(table, w, tick)
  BY DEF SrvInv, Sound, Limiter
<1>3. table \in Seq(Good(tick + 1))
  <2>1. Good(tick) \subseteq Good(tick + 1)
    BY <1>1 DEF Good, Bucket
  <2>. QED  BY <1>2, <2>1, WiderSeq
<1>4. /\ w.grants \in Seq(Nat) /\ w.last \in Nat /\ IsFiniteSet(w.since)
      /\ w.last <= tick \/ MaxNow < w.last
  BY <1>2 DEF Followed
<1>. HIDE DEF w
<1>5. ASSUME Watched \notin Tracked(table)
      PROVE  /\ w.last <= tick + 1 /\ (tick + 1) - w.last <= IdleExpiry
                  => MaxClients <= Cardinality(w.since)
             /\ Full => Covered(w.grants, Burst, tick + 1)
  <2>1. w.last <= tick /\ tick - w.last <= IdleExpiry => MaxClients <= Cardinality(w.since)
    BY <1>2, <1>5 DEF Followed
  <2>2. w.last <= tick + 1 => w.last <= tick
    BY <1>1, <1>4, ResponderConstants
  <2>3. (tick + 1) - w.last <= IdleExpiry => tick - w.last <= IdleExpiry
    BY <1>1, <1>4, ResponderConstants
  <2>4. Full => Covered(w.grants, Burst, tick + 1)
    <3>1. Full => Covered(w.grants, Burst, tick)
      BY <1>2, <1>5 DEF Followed
    <3>2. /\ Burst \in Nat /\ tick + 1 \in Nat /\ tick <= tick + 1
          /\ Burst <= Burst + Rate * ((tick + 1) - tick)
      BY <1>1, ResponderConstants
    <3>. QED  BY <1>1, <1>4, <3>1, <3>2, CoverGrows
  <2>. QED  BY <2>1, <2>2, <2>3, <2>4
<1>6. w.last <= tick + 1 \/ MaxNow < w.last
  BY <1>1, <1>4
<1>7. Followed(table, w, tick + 1)
  <2>1. /\ Full => Bounded(w.grants)
        /\ \A i \in 1..Len(table) : table[i].key = Watched =>
             /\ w.last = table[i].updated /\ w.since = Before(table, i)
             /\ Full => Covered(w.grants, table[i].tokens, table[i].updated)
    BY <1>2, Zenon DEF Followed
  <2>2. Watched \notin Tracked(table) =>
          /\ w.last <= tick + 1 /\ (tick + 1) - w.last <= IdleExpiry
                => MaxClients <= Cardinality(w.since)
          /\ Full => Covered(w.grants, Burst, tick + 1)
    BY <1>5
  <2>. QED  BY <1>4, <1>6, <2>1, <2>2, Zenon DEF Followed
<1>8. Sound(Limiter, tick + 1)
  BY <1>2, <1>3, <1>7 DEF Sound, Limiter, w
<1>9. Sound(Limiter, tick)'
  BY <1>1, <1>8 DEF Limiter
<1>10. RefusedItself'
  BY <1>1 DEF RefusedItself, Quiet
<1>11. tick + 1 \in Nat /\ tick + 1 <= MaxNow
  BY <1>1, ResponderConstants
<1>. QED  BY <1>1, <1>9, <1>10, <1>11 DEF SrvInv

LEMMA SrvInvariant == SrvSpec => []SrvInv
<1>1. SrvInit => SrvInv
  <2>. SUFFICES ASSUME SrvInit PROVE SrvInv
    OBVIOUS
  <2>1. /\ tick = 0 /\ table = <<>> /\ outcome = Quiet
        /\ watch.grants = <<>> /\ watch.last = MaxNow + 1 /\ watch.since = {}
    BY DEF SrvInit
  <2>2. <<>> \in Seq(Good(0)) /\ Apart(<<>>) /\ Len(<<>>) = 0
    BY DEF Apart
  <2>3. Bounded(<<>>) /\ Covered(<<>>, Burst, 0) /\ <<>> \in Seq(Nat)
    BY DEF Bounded, Covered
  <2>4. MaxNow + 1 \in Nat /\ MaxNow < MaxNow + 1 /\ ~(MaxNow + 1 <= 0)
    BY ResponderConstants
  <2>5. Followed(table, watch, tick)
    BY <2>1, <2>2, <2>3, <2>4, FS_EmptySet DEF Followed
  <2>6. Sound(Limiter, tick)
    BY <2>1, <2>2, <2>5 DEF Sound, Limiter
  <2>7. RefusedItself
    BY <2>1 DEF RefusedItself, Quiet
  <2>. QED  BY <2>1, <2>6, <2>7, ResponderConstants DEF SrvInv
<1>2. SrvInv /\ [SrvNext]_srvVars => SrvInv'
  <2>. SUFFICES ASSUME SrvInv, [SrvNext]_srvVars PROVE SrvInv'
    OBVIOUS
  <2>1. CASE UNCHANGED srvVars
    BY <2>1 DEF srvVars, SrvInv, Limiter, RefusedItself
  <2>. QED  BY <2>1, HandleStep, PassesStep DEF SrvNext
<1>. QED  BY <1>1, <1>2, PTL DEF SrvSpec

(* For any rate, burst and table size, any bucket and whatever arrives,    *)
(* allow grants no more in any interval than the burst and the rate over   *)
(* it, across idle expiries, where a bucket is full again by the time it   *)
(* expires.                                                                *)
THEOREM RateIsBounded == SrvSpec => []GrantsBounded
<1>1. SrvInv => GrantsBounded
  <2>. SUFFICES ASSUME SrvInv, Full PROVE GrantsBounded
    BY DEF GrantsBounded, Full
  <2>. DEFINE g == watch.grants
  <2>1. g \in Seq(Nat) /\ Bounded(g)
    BY DEF SrvInv, Sound, Limiter, Followed
  <2>2. DOMAIN g = 1..Len(g)
    BY <2>1
  <2>. HIDE DEF g
  <2>3. \A x, y \in DOMAIN g : x <= y => y - x + 1 <= Burst + Rate * (g[y] - g[x])
    BY <2>1, <2>2 DEF Bounded
  <2>. QED  BY <2>3 DEF g, GrantsBounded
<1>. QED  BY <1>1, SrvInvariant, PTL

(* For any clients, keys and traffic, an identity that Handle verified is  *)
(* short of its burst only by its own requests, and a peer that must use a *)
(* key is refused only after a burst of them.                              *)
THEOREM PeerIsUnstarved == SrvSpec => []PeerUnstarved
<1>1. SrvInv => PeerUnstarved
  <2>1. ASSUME SrvInv, NEW i \in DOMAIN table, table[i].signed > 0
        PROVE  table[i].tokens + table[i].signed >= Burst
    <3>. DEFINE b == table[i]
    <3>1. b \in Good(tick)
      BY <2>1 DEF SrvInv, Sound, Limiter
    <3>2. b.signed > 0
      BY <2>1
    <3>. HIDE DEF b
    <3>3. /\ b.tokens \in Nat /\ b.signed \in Nat
          /\ b.signed # 0 => Burst <= b.tokens + b.signed
      BY <3>1 DEF Good, Bucket
    <3>4. b.tokens + b.signed >= Burst
      BY <3>2, <3>3, ResponderConstants
    <3>. QED  BY <3>4 DEF b
  <2>. QED  BY <2>1 DEF PeerUnstarved, SrvInv, RefusedItself
<1>. QED  BY <1>1, SrvInvariant, PTL

(* For any table size and expiry, any bucket and whatever arrives, a       *)
(* bucket in use is dropped only when a table's worth of other keys was    *)
(* used after it: expire and evictOldest work from the least recently used *)
(* end.                                                                    *)
THEOREM TailIsForgotten == SrvSpec => []ForgottenLast
<1>1. SrvInv => ForgottenLast
  <2>. SUFFICES ASSUME SrvInv, watch.last <= tick, tick - watch.last <= IdleExpiry,
                       Watched \notin Tracked(table)
                PROVE  Cardinality(watch.since) >= MaxClients
    BY DEF ForgottenLast
  <2>1. MaxClients <= Cardinality(watch.since) /\ IsFiniteSet(watch.since)
    BY DEF SrvInv, Sound, Limiter, Followed
  <2>. QED  BY <2>1, FS_CardinalityType, ResponderConstants
<1>. QED  BY <1>1, SrvInvariant, PTL

-----------------------------------------------------------------------------
(* The inductive invariant. *)

(* The sources' counts of post-step estimates are among the k received:    *)
(* one source has no more than k, and two that have any make two.          *)
Counted(cur, k) ==
    /\ \A s \in Sources : cur[s].count <= k
    /\ \A s, t \in Sources : s # t /\ cur[s].count >= 1 /\ cur[t].count >= 1 => k >= 2

HeardNow == IF jumped THEN 0 ELSE heard

(* A resync is only under way where there is synchronization to resume. *)
Trust ==
    /\ ServedIsTrusted /\ TrustIsEarned /\ ReasonTellsWhy
    /\ resyncing => everSynced

DisciplineInv ==
    /\ TypeOK /\ Trust
    /\ Counted(src, HeardNow) /\ SecondStepEvidence

-----------------------------------------------------------------------------
(* The records of the sources. *)

(* The operations of select.go on a record yield a record. *)
LEMMA RecordTypes ==
    ASSUME NEW x \in SourceState, NEW m \in Measurement
    PROVE  /\ Apply(x, m) \in SourceState
           /\ Invalidate(x) \in SourceState
           /\ Aged(x) \in SourceState
           /\ [x EXCEPT !.new = FALSE] \in SourceState
<1> USE DisciplineConstants DEF SourceState, Measurement
<1>1. Drop(x) \in SourceState
  <2>1. 0 \in 0..(Deadline + 1)
    OBVIOUS
  <2>2. [x EXCEPT !.valid = FALSE, !.new = FALSE] \in SourceState
    OBVIOUS
  <2> QED BY <2>1, <2>2 DEF Drop
<1>2. Apply(x, m) \in SourceState
  BY <1>1 DEF Apply, Drop, UpTo
<1>3. Aged(x) \in SourceState
  BY DEF Aged, UpTo
<1>4. Invalidate(x) \in SourceState
  BY <1>1 DEF Invalidate
<1>5. [x EXCEPT !.new = FALSE] \in SourceState
  OBVIOUS
<1> QED BY <1>2, <1>3, <1>4, <1>5

(* What they do to the count: only an estimate adds to it. *)
LEMMA RecordCounts ==
    ASSUME NEW x \in SourceState, NEW m \in Measurement
    PROVE  /\ Apply(x, m).count = IF m.kind = "estimate" THEN UpTo(x.count + 1, 2) ELSE x.count
           /\ Invalidate(x).count = 0
           /\ Aged(x).count = x.count
           /\ [x EXCEPT !.new = FALSE].count = x.count
BY DEF Apply, Invalidate, Aged, Drop, SourceState, Measurement

-----------------------------------------------------------------------------
(* loop.go and system.go *)

(* An offset the loop slews is small, or steps are over for good. *)
LEMMA SlewedSettles ==
    ASSUME TypeOK, NEW o \in Offsets, NEW cur, NEW surv, NEW s,
           "slewed" \in Verdicts(o, cur, surv, s)
    PROVE  ~StepAllowed(UpTo(updates + 1, UpdatesCap)) \/ o = "small"
<1>1. ~StepAllowed(updates) \/ o = "small"
  BY DEF Verdicts, Offsets
<1>2. ~StepAllowed(updates) => ~StepAllowed(UpTo(updates + 1, UpdatesCap))
  BY DisciplineConstants DEF TypeOK, StepAllowed, UpTo, UpdatesCap
<1> QED BY <1>1, <1>2

(* Two sources that may vouch for a step are two estimates. *)
LEMMA MayStepHeard ==
    ASSUME NEW cur \in [Sources -> SourceState], NEW surv \in SUBSET Sources,
           NEW s \in Sources, NEW k \in Nat,
           Counted(cur, k), MayStep(cur, surv, s), steps # 0
    PROVE  k >= 2
<1>1. CASE cur[s].count >= 2
  BY <1>1 DEF Counted, SourceState
<1>2. CASE \E t, u \in surv : t # u /\ cur[t].count >= 1 /\ cur[u].count >= 1
  BY <1>2 DEF Counted
<1> QED BY <1>1, <1>2 DEF MayStep

-----------------------------------------------------------------------------
(* reselect *)

(* setState and the holdover timeout: where the state goes, and why. *)
LEMMA BecomeType ==
    ASSUME TypeOK, NEW to \in States, NEW h \in 0..(HoldoverMax + 1), NEW beat \in BOOLEAN,
           Become(to, h, beat)
    PROVE  /\ state' \in States
           /\ unsyncedReason' \in {"INIT", "HOLD", "PANC"}
           /\ held' \in 0..(HoldoverMax + 1)
           /\ state' = to \/ (to = "holdover" /\ state' = "unsynced" /\ unsyncedReason' = "HOLD")
           /\ state' = to => unsyncedReason' =
                                 IF to = "unsynced" /\ state = "settling" THEN "INIT"
                                 ELSE unsyncedReason
BY DisciplineConstants DEF TypeOK, Become, States

(* What reselect is called with, and what its callers do beside it. *)
Call(cur, n, rs, h, beat) ==
    /\ cur \in [Sources -> SourceState] /\ Counted(cur, heard')
    /\ n \in 0..SettleUpdates /\ n >= sinceStep
    /\ rs \in BOOLEAN /\ (rs => everSynced)
    /\ h \in 0..(HoldoverMax + 1) /\ beat \in BOOLEAN
    /\ heard' \in 0..2 /\ live' \in BOOLEAN

(* More acquisitions never undo a settling that is done. *)
LEMMA SettleDoneKept ==
    ASSUME TypeOK, TrustIsEarned, everSynced,
           NEW n \in 0..SettleUpdates, n >= sinceStep
    PROVE  SettleDone(offset, n, postStepUpdates, updates)
BY DisciplineConstants DEF TypeOK, TrustIsEarned, SettleDone

(* Losing the system source. *)
LEMMA LoseTrust ==
    ASSUME DisciplineInv, up, NEW h \in 0..(HoldoverMax + 1), NEW beat \in BOOLEAN,
           Lose(h, beat), UNCHANGED everSynced
    PROVE  /\ state' \in States /\ unsyncedReason' \in {"INIT", "HOLD", "PANC"}
           /\ held' \in 0..(HoldoverMax + 1)
           /\ ServedIsTrusted' /\ (up' => ReasonTellsWhy')
<1> USE DEF DisciplineInv, Trust, ServedIsTrusted, ReasonTellsWhy, Served
<1>0. 0 \in 0..(HoldoverMax + 1)
  BY DisciplineConstants
<1>1. CASE state = "synced"
  <2>1. Become("holdover", 0, beat)
    BY <1>1 DEF Lose
  <2> QED BY <1>0, <1>1, <2>1, BecomeType DEF States
<1>2. CASE state = "settling"
  <2>1. Become("unsynced", h, beat)
    BY <1>2 DEF Lose, TypeOK
  <2> QED BY <1>2, <2>1, BecomeType DEF States
<1>3. CASE state \in {"unsynced", "holdover"}
  <2>1. Become(state, h, beat)
    BY <1>3 DEF Lose
  <2> QED BY <1>3, <2>1, BecomeType DEF States
<1> QED BY <1>1, <1>2, <1>3 DEF TypeOK, States

(* The system source brings nothing new: settling may end, nothing else. *)
LEMMA UnchangedTrust ==
    ASSUME DisciplineInv, up, NEW n \in 0..SettleUpdates, n >= sinceStep,
           NEW h \in 0..(HoldoverMax + 1), NEW beat \in BOOLEAN,
           Unchanged(n, h, beat)
    PROVE  /\ state' \in States /\ unsyncedReason' \in {"INIT", "HOLD", "PANC"}
           /\ held' \in 0..(HoldoverMax + 1) /\ everSynced' \in BOOLEAN
           /\ ServedIsTrusted' /\ (up' => ReasonTellsWhy')
           /\ everSynced => everSynced'
           /\ everSynced' => SettleDone(offset, n, postStepUpdates, updates)
<1> DEFINE to == CASE state \in {"settling", "holdover"} ->
                         IF SettleDone(offset, n, postStepUpdates, updates)
                         THEN "synced" ELSE "settling"
                  [] OTHER -> state
<1> USE DEF DisciplineInv, Trust, ServedIsTrusted, ReasonTellsWhy, Served
<1>1. to \in States
  BY DEF TypeOK, States
<1>2. Become(to, h, beat) /\ everSynced' = (everSynced \/ to = "synced")
  BY DEF Unchanged
<1>3. everSynced => SettleDone(offset, n, postStepUpdates, updates)
  BY SettleDoneKept
<1>4. to = "synced" => SettleDone(offset, n, postStepUpdates, updates)
  BY <1>3
<1>5. to \notin {"holdover"} /\ (to = "settling" => ~everSynced)
      /\ (to = "unsynced" => state = "unsynced")
  BY <1>3
<1> HIDE DEF to
<1>6. state' = to /\ unsyncedReason' = unsyncedReason
  BY <1>1, <1>2, <1>5, BecomeType
<1> QED BY <1>1, <1>2, <1>3, <1>4, <1>5, <1>6, BecomeType DEF TypeOK, States

(* A slew that leads to synchronization finds the criterion satisfied. *)
LEMMA SlewedTrust ==
    ASSUME DisciplineInv, up, NEW n \in 0..SettleUpdates, n >= sinceStep,
           NEW rs \in BOOLEAN, rs => everSynced,
           NEW h \in 0..(HoldoverMax + 1), NEW beat \in BOOLEAN,
           NEW o \in Offsets, NEW cur, NEW surv, NEW s,
           "slewed" \in Verdicts(o, cur, surv, s),
           Slewed(o, n, rs, h, beat), sinceStep' = n
    PROVE  /\ state' \in States /\ unsyncedReason' \in {"INIT", "HOLD", "PANC"}
           /\ held' \in 0..(HoldoverMax + 1) /\ everSynced' \in BOOLEAN
           /\ resyncing' \in BOOLEAN /\ postStepUpdates' = 1
           /\ offset' \in Offsets /\ updates' \in 0..UpdatesCap
           /\ ServedIsTrusted' /\ TrustIsEarned' /\ (up' => ReasonTellsWhy')
           /\ resyncing' => everSynced'
<1> DEFINE u == UpTo(updates + 1, UpdatesCap)
           done == SettleDone(o, n, 1, u)
           to == IF state = "synced" \/ rs \/ done THEN "synced" ELSE "settling"
<1> USE DEF DisciplineInv, Trust
<1>1. /\ Become(to, h, beat) /\ offset' = o /\ postStepUpdates' = 1 /\ updates' = u
      /\ everSynced' = (everSynced \/ to = "synced")
      /\ resyncing' = (rs /\ state = "synced")
  BY DEF Slewed
<1>2. u \in 0..UpdatesCap
  BY DisciplineConstants DEF TypeOK, UpTo, UpdatesCap
<1>3. ~StepAllowed(u) \/ o = "small"
  BY SlewedSettles
<1>4. everSynced => done
  <2>1. everSynced => n >= SettleUpdates
    BY DisciplineConstants DEF TrustIsEarned, SettleDone, TypeOK
  <2> QED BY <1>3, <2>1 DEF SettleDone
<1>5. to = "synced" => done
  BY <1>4 DEF ServedIsTrusted, Served
<1>6. to = "settling" => ~everSynced
  BY <1>4
<1>7. to \in {"synced", "settling"} /\ to \in States
  BY DEF States
<1>8. done = SettleDone(offset', sinceStep', postStepUpdates', updates')
  BY <1>1 DEF SettleDone, StepAllowed
<1> HIDE DEF u, done, to
<1>9. state' = to /\ state' # "unsynced"
  BY <1>1, <1>7, BecomeType
<1>10. ServedIsTrusted'
  BY <1>1, <1>6, <1>7, <1>9 DEF ServedIsTrusted, Served
<1>11. TrustIsEarned'
  BY <1>1, <1>4, <1>5, <1>8 DEF TrustIsEarned, SettleDone, StepAllowed
<1>12. ReasonTellsWhy'
  BY <1>9 DEF ReasonTellsWhy
<1> QED BY <1>1, <1>2, <1>7, <1>9, <1>10, <1>11, <1>12, BecomeType DEF TypeOK, ServedIsTrusted, Served

(* Using a sample changes neither the types nor the counts. *)
LEMMA UsedRecords ==
    ASSUME NEW cur \in [Sources -> SourceState], NEW s \in Sources, NEW k,
           Counted(cur, k)
    PROVE  /\ [cur EXCEPT ![s].new = FALSE] \in [Sources -> SourceState]
           /\ Counted([cur EXCEPT ![s].new = FALSE], k)
<1> DEFINE used == [cur EXCEPT ![s].new = FALSE]
<1>1. \A t \in Sources : /\ used[t] = IF t = s THEN [cur[t] EXCEPT !.new = FALSE] ELSE cur[t]
                         /\ cur[t] \in SourceState
  OBVIOUS
<1>2. \A t \in Sources : used[t] \in SourceState /\ used[t].count = cur[t].count
  BY <1>1 DEF SourceState
<1>3. used \in [Sources -> SourceState]
  BY <1>2
<1> HIDE DEF used
<1>4. Counted(used, k)
  BY <1>2 DEF Counted
<1> QED BY <1>3, <1>4 DEF used

(* A step drops every estimate and every claim to trust. *)
LEMMA SteppedInv ==
    ASSUME DisciplineInv, up, NEW cur, NEW n, NEW rs, NEW h, NEW beat,
           Call(cur, n, rs, h, beat), NEW surv \in SUBSET Sources, NEW s \in Sources,
           MayStep(cur, surv, s), sysName' = s,
           Stepped([cur EXCEPT ![s].new = FALSE], h, beat)
    PROVE  DisciplineInv'
<1> DEFINE used == [cur EXCEPT ![s].new = FALSE]
<1> USE DEF Call
<1>1. used \in [Sources -> SourceState]
  BY UsedRecords
<1> HIDE DEF used
<1>2. /\ Become("settling", h, beat) /\ StepClears /\ offset' = "small"
      /\ src' = [t \in Sources |-> Invalidate(used[t])]
      /\ updates' = UpTo(updates + 1, UpdatesCap) /\ steps' = UpTo(steps + 1, 2)
      /\ jumped' = TRUE /\ up' \in BOOLEAN
  BY DEF Stepped, used
<1>3. state' = "settling" /\ state' \in States /\ held' \in 0..(HoldoverMax + 1)
      /\ unsyncedReason' \in {"INIT", "HOLD", "PANC"}
  BY <1>2, BecomeType DEF States, DisciplineInv
<1>4. \A t \in Sources : src'[t] \in SourceState /\ src'[t].count = 0
  <2> SUFFICES ASSUME NEW t \in Sources PROVE Invalidate(used[t]) \in SourceState
                                             /\ Invalidate(used[t]).count = 0
    BY <1>2
  <2>1. used[t] \in SourceState
    BY <1>1
  <2>2. [kind |-> "miss", reach |-> FALSE, invalidate |-> FALSE] \in Measurement
    BY DEF Measurement
  <2> QED BY <2>1, <2>2, RecordTypes, RecordCounts
<1>5. TypeOK'
  <2>1. src' \in [Sources -> SourceState]
    BY <1>2, <1>4
  <2>2. updates' \in 0..UpdatesCap /\ steps' \in 0..2
    BY <1>2, DisciplineConstants DEF DisciplineInv, TypeOK, UpTo, UpdatesCap
  <2>3. sinceStep' \in 0..SettleUpdates /\ postStepUpdates' \in 0..1
    BY <1>2, DisciplineConstants DEF StepClears
  <2>4. /\ resyncing' \in BOOLEAN /\ everSynced' \in BOOLEAN /\ jumped' \in BOOLEAN
        /\ up' \in BOOLEAN /\ live' \in BOOLEAN
    BY <1>2, Zenon DEF StepClears
  <2>5. offset' \in Offsets
    BY <1>2 DEF Offsets
  <2>6. heard' \in 0..2 /\ sysName' \in Sources \cup {None}
    OBVIOUS
  <2> QED BY <1>3, <2>1, <2>2, <2>3, <2>4, <2>5, <2>6, Zenon DEF TypeOK
<1>6. Trust'
  BY <1>2, <1>3 DEF Trust, StepClears, ServedIsTrusted, Served, TrustIsEarned, ReasonTellsWhy
<1>7. HeardNow' = 0
  BY <1>2 DEF HeardNow
<1>8. Counted(src, HeardNow)'
  BY <1>4, <1>7 DEF Counted
<1>9. SecondStepEvidence'
  <2>1. heard' \in Nat
    OBVIOUS
  <2>2. steps # 0 => heard' >= 2
    BY <2>1, MayStepHeard
  <2> QED BY <1>2, <2>2 DEF SecondStepEvidence, DisciplineInv, TypeOK, UpTo
<1> QED BY <1>5, <1>6, <1>8, <1>9 DEF DisciplineInv

(* The invariant after an event that did not step the clock, from its parts. *)
LEMMA KeptInv ==
    ASSUME DisciplineInv, heard' \in 0..2, live' \in BOOLEAN,
           src' \in [Sources -> SourceState], Counted(src', heard'),
           jumped' = FALSE, steps' = steps, up' \in BOOLEAN,
           sysName' \in Sources \cup {None}, sinceStep' \in 0..SettleUpdates,
           state' \in States, unsyncedReason' \in {"INIT", "HOLD", "PANC"},
           held' \in 0..(HoldoverMax + 1), everSynced' \in BOOLEAN, resyncing' \in BOOLEAN,
           postStepUpdates' \in 0..1, offset' \in Offsets, updates' \in 0..UpdatesCap,
           Trust'
    PROVE  DisciplineInv'
<1>1. TypeOK'
  <2>1. steps' \in 0..2 /\ jumped' \in BOOLEAN
    BY Zenon DEF DisciplineInv, TypeOK
  <2> QED BY <2>1, Zenon DEF TypeOK
<1>2. SecondStepEvidence'
  BY DEF SecondStepEvidence
<1>3. HeardNow' = heard'
  BY DEF HeardNow
<1>4. Counted(src, HeardNow)'
  BY <1>3 DEF Counted
<1> QED BY <1>1, <1>2, <1>4 DEF DisciplineInv

(* reselect keeps the invariant, whichever survivors it finds. *)
LEMMA ReselectInv ==
    ASSUME DisciplineInv, up, NEW cur, NEW n, NEW rs, NEW h, NEW beat,
           Call(cur, n, rs, h, beat), Reselect(cur, n, rs, h, beat)
    PROVE  DisciplineInv'
<1>1. PICK surv \in SUBSET Candidates(cur) :
          \/ SystemOf(surv) = {} /\ NoSystem(cur, n, rs, h, beat)
          \/ \E s \in SystemOf(surv) :
                /\ sysName' = s
                /\ \/ ~cur[s].new /\ NothingNew(cur, n, rs, h, beat)
                   \/ /\ cur[s].new
                      /\ \E o \in Offsets : \E v \in Verdicts(o, cur, surv, s) :
                            Answered(v, o, s, cur, n, rs, h, beat)
  BY DEF Reselect
<1>2. surv \in SUBSET Sources
  BY DEF Candidates
<1>3. CASE NoSystem(cur, n, rs, h, beat)
  <2> USE DEF NoSystem
  <2>1. TrustIsEarned'
    BY <1>3, SettleDoneKept DEF Call, DisciplineInv, Trust, TrustIsEarned, SettleDone, StepAllowed
  <2>2. /\ state' \in States /\ unsyncedReason' \in {"INIT", "HOLD", "PANC"}
        /\ held' \in 0..(HoldoverMax + 1) /\ ServedIsTrusted' /\ ReasonTellsWhy'
    BY <1>3, LoseTrust DEF Call
  <2> QED BY <1>3, <2>1, <2>2, KeptInv DEF Call, Trust, DisciplineInv, TypeOK
<1>4. ASSUME NEW s \in SystemOf(surv), sysName' = s, NothingNew(cur, n, rs, h, beat)
      PROVE  DisciplineInv'
  <2> USE DEF NothingNew
  <2>1. s \in Sources
    BY <1>2 DEF SystemOf
  <2>2. /\ state' \in States /\ unsyncedReason' \in {"INIT", "HOLD", "PANC"}
        /\ held' \in 0..(HoldoverMax + 1) /\ everSynced' \in BOOLEAN
        /\ ServedIsTrusted' /\ ReasonTellsWhy' /\ (everSynced => everSynced')
        /\ everSynced' => SettleDone(offset, n, postStepUpdates, updates)
    BY <1>4, UnchangedTrust DEF Call
  <2>3. TrustIsEarned'
    BY <1>4, <2>2 DEF TrustIsEarned, SettleDone, StepAllowed
  <2> QED BY <1>4, <2>1, <2>2, <2>3, KeptInv DEF Call, Trust, DisciplineInv, TypeOK
<1>5. ASSUME NEW s \in SystemOf(surv), sysName' = s, NEW o \in Offsets,
             NEW used, used = [cur EXCEPT ![s].new = FALSE],
             "slewed" \in Verdicts(o, cur, surv, s), Slewed(o, n, rs, h, beat),
             src' = used, sinceStep' = n, jumped' = FALSE, UNCHANGED <<steps, up>>
      PROVE  DisciplineInv'
  <2>1. s \in Sources
    BY <1>2 DEF SystemOf
  <2>2. src' \in [Sources -> SourceState] /\ Counted(src', heard')
    BY <1>5, <2>1, UsedRecords DEF Call
  <2>3. /\ state' \in States /\ unsyncedReason' \in {"INIT", "HOLD", "PANC"}
        /\ held' \in 0..(HoldoverMax + 1) /\ everSynced' \in BOOLEAN
        /\ resyncing' \in BOOLEAN /\ postStepUpdates' = 1
        /\ offset' \in Offsets /\ updates' \in 0..UpdatesCap
        /\ ServedIsTrusted' /\ TrustIsEarned' /\ ReasonTellsWhy'
        /\ resyncing' => everSynced'
    BY <1>5, SlewedTrust DEF Call
  <2>4. Trust' /\ postStepUpdates' \in 0..1
    BY <2>3 DEF Trust
  <2>5. heard' \in 0..2 /\ live' \in BOOLEAN /\ sinceStep' \in 0..SettleUpdates
    BY <1>5 DEF Call
  <2>6. up' \in BOOLEAN /\ steps' = steps /\ jumped' = FALSE
        /\ sysName' \in Sources \cup {None}
    BY <1>5, <2>1, Zenon DEF DisciplineInv, TypeOK
  <2> QED BY <2>2, <2>3, <2>4, <2>5, <2>6, KeptInv
<1>6. ASSUME NEW s \in SystemOf(surv), sysName' = s,
             NEW used, used = [cur EXCEPT ![s].new = FALSE],
             Become(state, h, beat), src' = used, sinceStep' = n, resyncing' = rs,
             jumped' = FALSE,
             UNCHANGED <<postStepUpdates, everSynced, offset, updates, steps, up>>
      PROVE  DisciplineInv'
  <2>1. s \in Sources
    BY <1>2 DEF SystemOf
  <2>2. src' \in [Sources -> SourceState] /\ Counted(src', heard')
    BY <1>6, <2>1, UsedRecords DEF Call
  <2>3. /\ state' \in States /\ unsyncedReason' \in {"INIT", "HOLD", "PANC"}
        /\ held' \in 0..(HoldoverMax + 1)
        /\ \/ state' = state /\ (state = "unsynced" => unsyncedReason' = unsyncedReason)
           \/ state = "holdover" /\ state' = "unsynced" /\ unsyncedReason' = "HOLD"
    BY <1>6, BecomeType DEF Call, DisciplineInv, TypeOK
  <2>4. ServedIsTrusted' /\ ReasonTellsWhy'
    BY <1>6, <2>3 DEF DisciplineInv, Trust, ServedIsTrusted, ReasonTellsWhy, Served
  <2>5. TrustIsEarned'
    BY <1>6, SettleDoneKept DEF Call, DisciplineInv, Trust, TrustIsEarned, SettleDone, StepAllowed
  <2> QED BY <1>6, <2>1, <2>2, <2>3, <2>4, <2>5, KeptInv DEF Call, Trust, DisciplineInv, TypeOK
<1>7. ASSUME NEW s \in SystemOf(surv), sysName' = s,
             NEW used, used = [cur EXCEPT ![s].new = FALSE],
             state' = "unsynced", unsyncedReason' = "PANC", held' = 0, up' = FALSE,
             src' = used, sinceStep' = n, resyncing' = rs, jumped' = FALSE,
             UNCHANGED <<postStepUpdates, everSynced, offset, updates, steps>>
      PROVE  DisciplineInv'
  <2>1. s \in Sources
    BY <1>2 DEF SystemOf
  <2>2. src' \in [Sources -> SourceState] /\ Counted(src', heard')
    BY <1>7, <2>1, UsedRecords DEF Call
  <2>3. ServedIsTrusted' /\ ReasonTellsWhy'
    BY <1>7 DEF ServedIsTrusted, ReasonTellsWhy, Served
  <2>4. TrustIsEarned'
    BY <1>7, SettleDoneKept DEF Call, DisciplineInv, Trust, TrustIsEarned, SettleDone, StepAllowed
  <2>5. state' \in States /\ held' \in 0..(HoldoverMax + 1)
    BY <1>7, DisciplineConstants DEF States
  <2>6. up' \in BOOLEAN
    BY <1>7, Zenon
  <2> QED BY <1>7, <2>1, <2>2, <2>3, <2>4, <2>5, <2>6, KeptInv DEF Call, Trust, DisciplineInv, TypeOK
<1>8. ASSUME NEW s \in SystemOf(surv), sysName' = s, NEW o \in Offsets,
             "stepped" \in Verdicts(o, cur, surv, s),
             Stepped([cur EXCEPT ![s].new = FALSE], h, beat)
      PROVE  DisciplineInv'
  <2>1. s \in Sources
    BY <1>2 DEF SystemOf
  <2>2. MayStep(cur, surv, s)
    BY <1>8 DEF Verdicts
  <2> QED BY <1>2, <1>8, <2>1, <2>2, SteppedInv
<1>9. ASSUME NEW s \in SystemOf(surv), sysName' = s,
             NEW o \in Offsets, NEW v \in Verdicts(o, cur, surv, s),
             Answered(v, o, s, cur, n, rs, h, beat)
      PROVE  DisciplineInv'
  <2>1. CASE v = "stepped"
    BY <1>8, <1>9, <2>1 DEF Answered
  <2>2. CASE v = "slewed"
    BY <1>5, <1>9, <2>2 DEF Answered
  <2>3. CASE v \in {"deferred", "ignored"}
    BY <1>6, <1>9, <2>3 DEF Answered
  <2>4. CASE v = "refused"
    BY <1>7, <1>9, <2>4 DEF Answered
  <2> QED BY <1>9, <2>1, <2>2, <2>3, <2>4 DEF Answered
<1> QED BY <1>1, <1>3, <1>4, <1>9

-----------------------------------------------------------------------------
(* The events. *)

(* Two sources that hold estimates, of which one arrived just now, have    *)
(* been heard at least twice.                                              *)
LEMMA CountPair ==
    ASSUME NEW p \in 0..2, NEW q \in 0..2, NEW h \in 0..2, NEW e \in 0..1,
           NEW x, NEW y, x >= 1, y >= 1, p <= h, q <= h,
           p >= 1 /\ q >= 1 => h >= 2,
           x = p \/ x = UpTo(p + e, 2), y = q \/ y = UpTo(q + e, 2), x = p \/ y = q
    PROVE  UpTo(h + e, 2) >= 2
<1>1. CASE e = 0
  <2>1. UpTo(p + e, 2) = p /\ UpTo(q + e, 2) = q
    BY <1>1 DEF UpTo
  <2> QED BY <1>1, <2>1 DEF UpTo
<1>2. CASE e = 1
  BY <1>2 DEF UpTo
<1> QED BY <1>1, <1>2

(* A measurement adds to the counts what it adds to the estimates heard. *)
LEMMA UpdateCall ==
    ASSUME DisciplineInv, NEW s \in Sources, NEW m \in Measurement, Update(s, m)
    PROVE  Call([src EXCEPT ![s] = Apply(@, m)],
                IF s = sysName /\ m.kind # "miss" THEN UpTo(sinceStep + 1, SettleUpdates)
                                                  ELSE sinceStep,
                resyncing, held, FALSE)
<1> DEFINE cur == [src EXCEPT ![s] = Apply(@, m)]
           e == IF m.kind = "estimate" THEN 1 ELSE 0
           n == IF s = sysName /\ m.kind # "miss" THEN UpTo(sinceStep + 1, SettleUpdates)
                                                  ELSE sinceStep
<1>1. src \in [Sources -> SourceState] /\ heard \in 0..2 /\ jumped \in BOOLEAN
  BY DEF DisciplineInv, TypeOK
<1>2. \A t \in Sources : /\ src[t] \in SourceState
                         /\ cur[t] = IF t = s THEN Apply(src[t], m) ELSE src[t]
  BY <1>1
<1>3. cur \in [Sources -> SourceState]
  <2>1. Apply(src[s], m) \in SourceState
    BY <1>2, RecordTypes
  <2> QED BY <1>1, <2>1
<1>4. heard' = UpTo(HeardNow + e, 2) /\ HeardNow \in 0..2
  BY <1>1 DEF Update, Heard, HeardNow
<1>5. \A t \in Sources : /\ src[t].count \in 0..2
                         /\ cur[t].count = IF t = s THEN UpTo(src[t].count + e, 2)
                                                    ELSE src[t].count
  <2> SUFFICES ASSUME NEW t \in Sources
               PROVE  /\ src[t].count \in 0..2
                      /\ cur[t].count = IF t = s THEN UpTo(src[t].count + e, 2)
                                                 ELSE src[t].count
    OBVIOUS
  <2>1. src[t].count \in 0..2
    BY <1>2 DEF SourceState
  <2>2. Apply(src[t], m).count = IF m.kind = "estimate" THEN UpTo(src[t].count + 1, 2)
                                                        ELSE src[t].count
    BY <1>2, RecordCounts
  <2> QED BY <1>2, <2>1, <2>2 DEF UpTo
<1>6. e \in 0..1
  OBVIOUS
<1> HIDE DEF cur, e
<1>7. Counted(cur, heard')
  <2>1. Counted(src, HeardNow)
    BY DEF DisciplineInv
  <2>2. ASSUME NEW a \in Sources PROVE cur[a].count <= heard'
    <3>1. src[a].count <= HeardNow
      BY <2>1 DEF Counted
    <3> QED BY <1>4, <1>5, <1>6, <3>1 DEF UpTo
  <2>3. ASSUME NEW a \in Sources, NEW b \in Sources, a # b,
               cur[a].count >= 1, cur[b].count >= 1
        PROVE  heard' >= 2
    <3>1. src[a].count >= 1 /\ src[b].count >= 1 => HeardNow >= 2
      BY <2>1, <2>3 DEF Counted
    <3>2. src[a].count <= HeardNow /\ src[b].count <= HeardNow
      BY <2>1 DEF Counted
    <3>3. /\ src[a].count \in 0..2 /\ src[b].count \in 0..2
          /\ cur[a].count = src[a].count \/ (a = s /\ cur[a].count = UpTo(src[a].count + e, 2))
          /\ cur[b].count = src[b].count \/ (b = s /\ cur[b].count = UpTo(src[b].count + e, 2))
      BY <1>5, Zenon
    <3>4. cur[a].count = src[a].count \/ cur[b].count = src[b].count
      BY <2>3, <3>3, Zenon
    <3> QED BY <1>4, <1>6, <2>3, <3>1, <3>2, <3>3, <3>4, CountPair, Zenon
  <2> QED BY <2>2, <2>3 DEF Counted
<1>8. n \in 0..SettleUpdates /\ n >= sinceStep
  BY DisciplineConstants DEF DisciplineInv, TypeOK, UpTo
<1>9. heard' \in 0..2 /\ live' \in BOOLEAN
  BY <1>4, <1>6 DEF UpTo, Update, DisciplineInv, TypeOK
<1>10. /\ resyncing \in BOOLEAN /\ (resyncing => everSynced)
       /\ held \in 0..(HoldoverMax + 1) /\ FALSE \in BOOLEAN
  BY DEF DisciplineInv, TypeOK, Trust
<1> QED BY <1>3, <1>7, <1>8, <1>9, <1>10 DEF Call, cur

(* Every event keeps the invariant. *)
LEMMA EventInv ==
    ASSUME DisciplineInv, [Next]_vars
    PROVE  DisciplineInv'
<1>0. [kind |-> "miss", reach |-> FALSE, invalidate |-> FALSE] \in Measurement
  BY DEF Measurement
<1>1. ASSUME up, NEW s \in Sources, NEW m \in Measurement, Update(s, m)
      PROVE  DisciplineInv'
  BY <1>1, UpdateCall, ReselectInv DEF Update
<1>2. CASE up /\ Resync
  <2> DEFINE cur == [s \in Sources |-> Invalidate(src[s])]
  <2>1. \A s \in Sources : src[s] \in SourceState
    BY DEF DisciplineInv, TypeOK
  <2>2. \A s \in Sources : cur[s] \in SourceState /\ cur[s].count = 0
    BY <1>0, <2>1, RecordTypes, RecordCounts
  <2>3. cur \in [Sources -> SourceState]
    BY <2>2
  <2> HIDE DEF cur
  <2>4. heard' \in 0..2
    BY <1>2 DEF Resync, Heard, UpTo, DisciplineInv, TypeOK
  <2>5. Counted(cur, heard')
    BY <2>2, <2>4 DEF Counted
  <2>6. Served \in BOOLEAN /\ (Served => everSynced)
    BY DEF Served, DisciplineInv, Trust, ServedIsTrusted
  <2>7. Call(cur, sinceStep, Served, held, FALSE)
    <3>1. /\ sinceStep \in 0..SettleUpdates /\ held \in 0..(HoldoverMax + 1)
          /\ FALSE \in BOOLEAN
      BY DEF DisciplineInv, TypeOK
    <3>2. live' \in BOOLEAN
      BY <1>2, Zenon DEF Resync, DisciplineInv, TypeOK
    <3>3. sinceStep >= sinceStep
      BY <3>1, DisciplineConstants
    <3> QED BY <2>3, <2>4, <2>5, <2>6, <3>1, <3>2, <3>3, Zenon DEF Call
  <2> QED BY <1>2, <2>7, ReselectInv DEF Resync, cur
<1>3. CASE up /\ Tick
  <2> DEFINE cur == [s \in Sources |-> Aged(src[s])]
  <2>1. \A s \in Sources : src[s] \in SourceState
    BY DEF DisciplineInv, TypeOK
  <2>2. \A s \in Sources : cur[s] \in SourceState /\ cur[s].count = src[s].count
    BY <1>0, <2>1, RecordTypes, RecordCounts
  <2>3. cur \in [Sources -> SourceState]
    BY <2>2
  <2> HIDE DEF cur
  <2>4. heard' = HeardNow /\ heard' \in 0..2
    BY <1>3 DEF Tick, Heard, HeardNow, UpTo, DisciplineInv, TypeOK
  <2>5. Counted(cur, heard')
    BY <2>2, <2>4 DEF Counted, DisciplineInv
  <2>6. UpTo(held + 1, HoldoverMax + 1) \in 0..(HoldoverMax + 1)
    BY DisciplineConstants DEF DisciplineInv, TypeOK, UpTo
  <2>7. Call(cur, sinceStep, resyncing, UpTo(held + 1, HoldoverMax + 1), TRUE)
    <3>1. /\ sinceStep \in 0..SettleUpdates /\ resyncing \in BOOLEAN
          /\ resyncing => everSynced
      BY DEF DisciplineInv, TypeOK, Trust
    <3>2. live' \in BOOLEAN
      BY <1>3 DEF Tick, Heard, DisciplineInv, TypeOK
    <3>3. sinceStep >= sinceStep
      BY <3>1, DisciplineConstants
    <3> QED BY <1>3, <2>3, <2>4, <2>5, <2>6, <3>1, <3>2, <3>3, Zenon DEF Call, Tick
  <2> QED BY <1>3, <2>7, ReselectInv DEF Tick, cur
<1>4. CASE UNCHANGED <<src, state, sysName, settling, unsyncedReason, offset, held,
                       updates, steps, up, jumped, heard>> /\ live' \in BOOLEAN
  <2>1. TypeOK'
    BY <1>4 DEF DisciplineInv, TypeOK, settling
  <2>2. Trust'
    BY <1>4 DEF DisciplineInv, Trust, ServedIsTrusted, Served, TrustIsEarned, SettleDone,
                StepAllowed, ReasonTellsWhy, settling
  <2>3. Counted(src, HeardNow)' /\ SecondStepEvidence'
    BY <1>4 DEF DisciplineInv, Counted, HeardNow, SecondStepEvidence
  <2> QED BY <2>1, <2>2, <2>3 DEF DisciplineInv
<1>5. CASE Silence
  BY <1>4, <1>5, Zenon DEF Silence
<1>6. CASE UNCHANGED vars
  BY <1>4, <1>6 DEF vars, DisciplineInv, TypeOK
<1> QED BY <1>1, <1>2, <1>3, <1>5, <1>6 DEF Next, Measure

-----------------------------------------------------------------------------

(***************************************************************************)
(* The state machine of system.go is safe in every reachable state: types, *)
(* trust, and the evidence behind a further step.                          *)
(***************************************************************************)
THEOREM DisciplineSafe == Spec => []DisciplineInv
<1>1. Init => DisciplineInv
  <2> SUFFICES ASSUME Init PROVE DisciplineInv
    OBVIOUS
  <2>1. TypeOK
    <3>1. [reach |-> FALSE, valid |-> FALSE, new |-> FALSE, count |-> 0, age |-> 0]
              \in SourceState
      BY DisciplineConstants DEF SourceState
    <3>2. src \in [Sources -> SourceState]
      BY <3>1 DEF Init
    <3>3. /\ sinceStep \in 0..SettleUpdates /\ postStepUpdates \in 0..1
          /\ held \in 0..(HoldoverMax + 1) /\ updates \in 0..UpdatesCap
          /\ steps \in 0..2 /\ heard \in 0..2
      <4>1. /\ 0 \in 0..SettleUpdates /\ 0 \in 0..1 /\ 0 \in 0..(HoldoverMax + 1)
            /\ 0 \in 0..UpdatesCap /\ 0 \in 0..2
        BY DisciplineConstants DEF UpdatesCap
      <4> QED BY <4>1, Zenon DEF Init
    <3>4. /\ resyncing \in BOOLEAN /\ everSynced \in BOOLEAN
          /\ up \in BOOLEAN /\ live \in BOOLEAN /\ jumped \in BOOLEAN
      BY Zenon DEF Init
    <3>5. /\ state \in States /\ sysName \in Sources \cup {None} /\ offset \in Offsets
          /\ unsyncedReason \in {"INIT", "HOLD", "PANC"}
      BY DEF Init, States, Offsets
    <3> QED BY <3>2, <3>3, <3>4, <3>5, Zenon DEF TypeOK
  <2>2. Trust
    BY DEF Init, Trust, ServedIsTrusted, Served, TrustIsEarned, ReasonTellsWhy
  <2>3. Counted(src, HeardNow) /\ SecondStepEvidence
    <3>1. \A s \in Sources : src[s].count = 0
      BY DEF Init
    <3>2. HeardNow = 0 /\ SecondStepEvidence
      BY DEF Init, HeardNow, SecondStepEvidence
    <3> QED BY <3>1, <3>2 DEF Counted
  <2> QED BY <2>1, <2>2, <2>3 DEF DisciplineInv
<1>2. DisciplineInv /\ [Next]_vars => DisciplineInv'
  BY EventInv
<1> QED BY <1>1, <1>2, PTL DEF Spec

(***************************************************************************)
(* The clock is served only on the strength of synchronization established *)
(* since the last step, and a clock being settled has none (reselect).     *)
(***************************************************************************)
THEOREM ServiceIsTrusted == Spec => []ServedIsTrusted
<1>1. DisciplineInv => ServedIsTrusted
  BY DEF DisciplineInv, Trust
<1> QED BY <1>1, DisciplineSafe, PTL

(* Established synchronization satisfies the criterion of settleDone. *)
THEOREM TrustEarned == Spec => []TrustIsEarned
<1>1. DisciplineInv => TrustIsEarned
  BY DEF DisciplineInv, Trust
<1> QED BY <1>1, DisciplineSafe, PTL

(* A step after the first rests on two estimates received since (mayStep). *)
THEOREM StepsNeedEvidence == Spec => []SecondStepEvidence
<1>1. DisciplineInv => SecondStepEvidence
  BY DEF DisciplineInv
<1> QED BY <1>1, DisciplineSafe, PTL

(* The reason an unsynchronized daemon shows is the true one (setState). *)
THEOREM ReasonIsTrue == Spec => []ReasonTellsWhy
<1>1. DisciplineInv => ReasonTellsWhy
  BY DEF DisciplineInv, Trust
<1> QED BY <1>1, DisciplineSafe, PTL

=============================================================================
