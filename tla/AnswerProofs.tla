---------------------------- MODULE AnswerProofs ----------------------------
(***************************************************************************)
(* What the daemon makes of the answers of others.  A peer's chunks: the   *)
(* table put together from them is one table, for any tables, losses and   *)
(* replacements.  The sources' measurements: for any number of candidates  *)
(* and any offsets, distances and jitters the edge scan finds the interval *)
(* the algorithm is defined by, a majority stands behind whatever drives   *)
(* the clock, and no pulse is used that a surviving source does not vouch  *)
(* for.                                                                    *)
(***************************************************************************)
EXTENDS Selection, LeapFetch, FiniteSetTheorems, WellFoundedInduction, TLAPS

-----------------------------------------------------------------------------
(* Sequences of bytes. *)

LEMMA Joined ==
    ASSUME NEW S, NEW a \in Seq(S), NEW b \in Seq(S)
    PROVE  /\ a \o b \in Seq(S) /\ Len(a \o b) = Len(a) + Len(b)
           /\ \A i \in 1..(Len(a) + Len(b)) :
                 (a \o b)[i] = IF i <= Len(a) THEN a[i] ELSE b[i - Len(a)]
OBVIOUS

LEMMA SameSeq ==
    ASSUME NEW S, NEW a \in Seq(S), NEW b \in Seq(S),
           Len(a) = Len(b), \A i \in 1..Len(a) : a[i] = b[i]
    PROVE  a = b
OBVIOUS

-----------------------------------------------------------------------------
(* Fetching a table.  Every chunk on the wire is the part of its table     *)
(* that its header says, and while a table is being fetched the request in *)
(* flight asks for the first byte that is missing.                         *)

FetchRequest == [op : {"probe", "get"}, obj : Tables \cup {NoObject}, offset : Nat,
                 data : {<<>>}, ok : {TRUE}, id : [1..2 -> Nat]]

(* What is on the wire. *)
Genuine(m) ==
    /\ m.op = "manifest" => m.obj \in Tables \cup {NoObject}
    /\ m.op = "data" /\ m.ok =>
           m.data = Bytes(m.obj, m.offset, SmallerOf(ChunkSize, Size[m.obj] - m.offset))

FetchInv ==
    /\ current \in Tables \cup {NoObject}
    /\ \A m \in wire : Genuine(m)
    /\ req \in FetchRequest \cup {NoRequest}
    /\ IF want = NoObject
       THEN data = <<>> /\ req.op # "get"
       ELSE /\ want \in Tables /\ req.op = "get" /\ req.obj = want
            /\ data = Bytes(want, 0, req.offset)

LEMMA BytesSeq ==
    ASSUME NEW o, NEW from \in Nat, NEW len \in Nat
    PROVE  /\ Bytes(o, from, len) \in Seq({o} \X Nat) /\ Len(Bytes(o, from, len)) = len
           /\ \A i \in 1..len : Bytes(o, from, len)[i] = <<o, from + i - 1>>
<1>1. \A i \in 1..len : <<o, from + i - 1>> \in {o} \X Nat
  OBVIOUS
<1>. QED  BY <1>1 DEF Bytes

(* Two adjoining runs of a table's bytes are one. *)
LEMMA BytesConcat ==
    ASSUME NEW o, NEW k \in Nat, NEW len \in Nat
    PROVE  Bytes(o, 0, k) \o Bytes(o, k, len) = Bytes(o, 0, k + len)
<1>. DEFINE S == {o} \X Nat
            a == Bytes(o, 0, k)
            b == Bytes(o, k, len)
            c == Bytes(o, 0, k + len)
            d == a \o b
<1>1. a \in Seq(S) /\ Len(a) = k /\ \A i \in 1..k : a[i] = <<o, 0 + i - 1>>
  BY BytesSeq
<1>2. b \in Seq(S) /\ Len(b) = len /\ \A i \in 1..len : b[i] = <<o, k + i - 1>>
  BY BytesSeq
<1>3. c \in Seq(S) /\ Len(c) = k + len /\ \A i \in 1..(k + len) : c[i] = <<o, 0 + i - 1>>
  <2>. DEFINE m == k + len
  <2>1. m \in Nat
    OBVIOUS
  <2>. HIDE DEF m
  <2>2. /\ Bytes(o, 0, m) \in Seq(S) /\ Len(Bytes(o, 0, m)) = m
        /\ \A i \in 1..m : Bytes(o, 0, m)[i] = <<o, 0 + i - 1>>
    BY <2>1, BytesSeq
  <2>. QED  BY <2>2 DEF m
<1>. HIDE DEF a, b, c, S
<1>4. /\ a \in Seq(S) /\ Len(a) = k
      /\ b \in Seq(S) /\ Len(b) = len
      /\ c \in Seq(S) /\ Len(c) = k + len
  BY <1>1, <1>2, <1>3
<1>5. /\ \A i \in 1..k : a[i] = <<o, 0 + i - 1>>
      /\ \A i \in 1..len : b[i] = <<o, k + i - 1>>
      /\ \A i \in 1..(k + len) : c[i] = <<o, 0 + i - 1>>
  BY <1>1, <1>2, <1>3
<1>6. /\ d \in Seq(S) /\ Len(d) = Len(a) + Len(b)
      /\ \A i \in 1..(Len(a) + Len(b)) : d[i] = IF i <= Len(a) THEN a[i] ELSE b[i - Len(a)]
  BY <1>4, Joined, Zenon
<1>. HIDE DEF d
<1>7. ASSUME NEW i \in 1..(k + len) PROVE d[i] = c[i]
  <2>1. c[i] = <<o, 0 + i - 1>>
    BY <1>5
  <2>2. CASE i <= k
    <3>1. i \in 1..k /\ d[i] = a[i]
      BY <1>4, <1>6, <2>2
    <3>. QED  BY <1>5, <2>1, <3>1
  <2>3. CASE i > k
    <3>1. i - k \in 1..len /\ d[i] = b[i - k]
      BY <1>4, <1>6, <2>3
    <3>2. b[i - k] = <<o, k + (i - k) - 1>>
      BY <1>5, <3>1
    <3>3. k + (i - k) - 1 = 0 + i - 1
      BY <3>1
    <3>. QED  BY <2>1, <3>1, <3>2, <3>3
  <2>. QED  BY <2>2, <2>3
<1>8. Len(d) = Len(c) /\ \A i \in 1..Len(d) : d[i] = c[i]
  BY <1>4, <1>6, <1>7
<1>9. d = c
  BY <1>4, <1>6, <1>8, SameSeq, Zenon
<1>. QED  BY <1>9 DEF a, b, c, d

LEMMA EmptyBytes == ASSUME NEW o PROVE Bytes(o, 0, 0) = <<>>
<1>. DEFINE b == Bytes(o, 0, 0)
<1>1. b \in Seq({o} \X Nat) /\ Len(b) = 0
  BY BytesSeq
<1>. HIDE DEF b
<1>2. b = <<>>
  BY <1>1
<1>. QED  BY <1>2 DEF b

(* fetch sends a request and goes on to assemble the table o. *)
LEMMA RequestIsGenuine ==
    ASSUME NEW r \in FetchRequest PROVE Genuine(r) /\ r # NoRequest /\ r.op \in {"probe", "get"}
BY DEF FetchRequest, Genuine, NoRequest

LEMMA AskRequest ==
    ASSUME NEW op \in {"probe", "get"}, NEW o \in Tables \cup {NoObject}, NEW k \in Nat,
           FetchInv
    PROVE  /\ Message(op, o, k, NewId) \in FetchRequest
           /\ Message(op, o, k, NewId).op = op /\ Message(op, o, k, NewId).obj = o
           /\ Message(op, o, k, NewId).offset = k
<1>1. NewId \in [1..2 -> Nat]
  <2>1. ASSUME NEW len \in Nat PROVE <<len, 1>> \in [1..2 -> Nat]
    OBVIOUS
  <2>2. ASSUME req # NoRequest PROVE req.id[1] + 1 \in Nat
    <3>1. req.id \in [1..2 -> Nat]
      BY <2>2 DEF FetchInv, FetchRequest
    <3>. QED  BY <3>1
  <2>. QED  BY <2>1, <2>2 DEF NewId
<1>. DEFINE i == NewId
<1>. HIDE DEF i
<1>2. i \in [1..2 -> Nat]
  BY <1>1 DEF i
<1>3. /\ Message(op, o, k, i) \in FetchRequest /\ Message(op, o, k, i).op = op
      /\ Message(op, o, k, i).obj = o /\ Message(op, o, k, i).offset = k
  BY <1>2 DEF Message, FetchRequest
<1>. QED  BY <1>3 DEF i

LEMMA EndsStep ==
    ASSUME FetchInv, NEW o, Ends(o), UNCHANGED current PROVE FetchInv'
BY DEF Ends, FetchInv, NoRequest

LEMMA StartFetchStep == ASSUME FetchInv, StartFetch PROVE FetchInv'
<1>. DEFINE r == Message("probe", NoObject, 0, NewId)
<1>1. r \in FetchRequest /\ r.op = "probe"
  BY AskRequest
<1>2. req' = r /\ wire' = wire \cup {r} /\ UNCHANGED <<current, want, data>>
  BY DEF StartFetch, Exchange
<1>3. Genuine(r)
  BY <1>1, RequestIsGenuine
<1>4. want = NoObject
  BY DEF StartFetch, FetchInv, NoRequest
<1>. HIDE DEF r
<1>. QED  BY <1>1, <1>2, <1>3, <1>4 DEF FetchInv

LEMMA AskAgainStep == ASSUME FetchInv, AskAgain PROVE FetchInv'
<1>1. CASE req.id[2] < MaxAttempts
  <2>. DEFINE i == [req.id EXCEPT ![2] = @ + 1]
              r == [req EXCEPT !.id = i]
  <2>1. req \in FetchRequest
    BY DEF AskAgain, FetchInv
  <2>2. req.id \in [1..2 -> Nat]
    BY <2>1 DEF FetchRequest
  <2>3. i \in [1..2 -> Nat]
    BY <2>2
  <2>4. req' = r /\ wire' = wire \cup {r} /\ UNCHANGED <<current, want, data>>
    BY <1>1 DEF AskAgain, Exchange
  <2>. HIDE DEF i
  <2>5. r \in FetchRequest /\ r.op = req.op /\ r.obj = req.obj /\ r.offset = req.offset
    BY <2>1, <2>3 DEF FetchRequest
  <2>6. Genuine(r)
    BY <2>5, RequestIsGenuine
  <2>. HIDE DEF r
  <2>. QED  BY <2>4, <2>5, <2>6 DEF FetchInv
<1>2. CASE ~(req.id[2] < MaxAttempts)
  BY <1>2, EndsStep DEF AskAgain
<1>. QED  BY <1>1, <1>2

LEMMA GetManifestStep == ASSUME FetchInv, GetManifest PROVE FetchInv'
<1>1. PICK m \in wire :
          /\ req.op = "probe" /\ Valid(m) /\ CheckReply(m)
          /\ IF m.ok /\ CheckManifest(m.obj) /\ m.obj # cached
             THEN /\ want' = m.obj /\ Exchange(Message("get", m.obj, 0, NewId))
                  /\ UNCHANGED <<data, fetched>>
             ELSE Ends(NoObject)
          /\ UNCHANGED <<cached, current>>
  BY DEF GetManifest
<1>2. CASE ~(m.ok /\ CheckManifest(m.obj) /\ m.obj # cached)
  BY <1>1, <1>2, EndsStep
<1>3. CASE m.ok /\ CheckManifest(m.obj) /\ m.obj # cached
  <2>. DEFINE o == m.obj
              r == Message("get", o, 0, NewId)
  <2>1. m.op = "manifest"
    BY <1>1 DEF CheckReply, Answers
  <2>2. m.ok <=> o # NoObject
    BY <1>1, <2>1 DEF Valid
  <2>3. o \in Tables
    BY <1>3, <2>1, <2>2 DEF FetchInv, Genuine
  <2>. HIDE DEF o
  <2>4. r \in FetchRequest /\ r.op = "get" /\ r.obj = o /\ r.offset = 0
    BY <2>3, AskRequest
  <2>5. /\ want' = o /\ req' = r /\ wire' = wire \cup {r} /\ data' = data /\ current' = current
    BY <1>1, <1>3 DEF Exchange, o
  <2>6. Genuine(r)
    BY <2>4, RequestIsGenuine
  <2>7. data = Bytes(o, 0, 0)
    BY <1>1, EmptyBytes DEF FetchInv
  <2>8. o # NoObject
    BY <2>3, FetchConstants
  <2>. HIDE DEF r
  <2>. QED  BY <2>3, <2>4, <2>5, <2>6, <2>7, <2>8 DEF FetchInv
<1>. QED  BY <1>2, <1>3

LEMMA GetChunkStep == ASSUME FetchInv, GetChunk PROVE FetchInv'
<1>. DEFINE k == req.offset
            next == k + ChunkSize
<1>1. PICK m \in wire :
          /\ req.op = "get" /\ Valid(m) /\ CheckReply(m)
          /\ IF ~m.ok THEN Ends(NoObject)
             ELSE IF next < Size[want]
             THEN /\ data' = data \o m.data /\ Exchange(Message("get", want, next, NewId))
                  /\ UNCHANGED <<want, fetched>>
             ELSE Ends(IF Matches(data \o m.data, want) THEN want ELSE NoObject)
          /\ UNCHANGED <<cached, current>>
  BY DEF GetChunk
<1>2. CASE ~(m.ok /\ next < Size[want])
  BY <1>1, <1>2, EndsStep
<1>3. CASE m.ok /\ next < Size[want]
  <2>. DEFINE r == Message("get", want, next, NewId)
  <2>1. /\ want \in Tables /\ req \in FetchRequest /\ req.obj = want
        /\ data = Bytes(want, 0, k)
    BY <1>1 DEF FetchInv, NoRequest
  <2>2. k \in Nat /\ ChunkSize \in Nat /\ next \in Nat /\ Size[want] \in Nat
    <3>1. k \in Nat
      BY <2>1 DEF FetchRequest
    <3>2. ChunkSize \in Nat /\ Size[want] \in Nat
      BY <2>1, FetchConstants
    <3>. QED  BY <3>1, <3>2
  <2>3. m.op = "data" /\ m.obj = want /\ m.offset = k
    <3>1. req.op = "get" /\ CheckReply(m)
      BY <1>1
    <3>2. m.op = Answers["get"] /\ m.obj = req.obj /\ m.offset = k
      BY <3>1, Zenon DEF CheckReply
    <3>3. Answers["get"] = "data"
      BY DEF Answers
    <3>. QED  BY <2>1, <3>2, <3>3, Zenon
  <2>4. m.data = Bytes(want, k, SmallerOf(ChunkSize, Size[want] - k))
    BY <1>3, <2>3 DEF FetchInv, Genuine
  <2>5. SmallerOf(ChunkSize, Size[want] - k) = ChunkSize
    BY <1>3, <2>2 DEF SmallerOf
  <2>6. data \o m.data = Bytes(want, 0, next)
    <3>. HIDE DEF k
    <3>1. Bytes(want, 0, k) \o Bytes(want, k, ChunkSize) = Bytes(want, 0, next)
      BY <2>2, BytesConcat
    <3>. QED  BY <2>1, <2>4, <2>5, <3>1
  <2>. HIDE DEF next
  <2>7. r \in FetchRequest /\ r.op = "get" /\ r.obj = want /\ r.offset = next
    BY <2>1, <2>2, AskRequest
  <2>8. /\ want' = want /\ req' = r /\ wire' = wire \cup {r} /\ current' = current
        /\ data' = Bytes(want, 0, next)
    BY <1>1, <1>3, <2>6 DEF Exchange
  <2>9. Genuine(r) /\ want # NoObject
    BY <2>1, <2>7, RequestIsGenuine, FetchConstants
  <2>. HIDE DEF r
  <2>. QED  BY <2>1, <2>7, <2>8, <2>9 DEF FetchInv
<1>. QED  BY <1>2, <1>3

(* Reply sends the bytes its header names, of the table it has. *)
LEMMA ReplyIsGenuine ==
    ASSUME NEW m, NEW o \in Tables \cup {NoObject} PROVE Genuine(ReplyTo(m, o))
<1>1. CASE m.op = "probe"
  BY <1>1 DEF ReplyTo, Genuine
<1>2. CASE m.op # "probe"
  <2>. DEFINE ok == (o = m.obj)
              d == IF ok THEN Bytes(o, m.offset, SmallerOf(ChunkSize, Size[o] - m.offset))
                         ELSE <<>>
              x == ReplyTo(m, o)
  <2>1. x = [op |-> "data", id |-> m.id, obj |-> m.obj, offset |-> m.offset, ok |-> ok, data |-> d]
    BY <1>2, Zenon DEF ReplyTo
  <2>2. x.op = "data" /\ x.obj = m.obj /\ x.offset = m.offset /\ x.data = d /\ x.ok = ok
    <3>. HIDE DEF ok, d, x
    <3>. QED  BY <2>1
  <2>3. ok => d = Bytes(m.obj, m.offset, SmallerOf(ChunkSize, Size[m.obj] - m.offset))
    BY Zenon
  <2>. HIDE DEF ok, d, x
  <2>4. x.ok => ok
    BY <2>2
  <2>5. x.ok => x.data = Bytes(x.obj, x.offset, SmallerOf(ChunkSize, Size[x.obj] - x.offset))
    BY <2>2, <2>3, <2>4
  <2>. QED  BY <2>2, <2>5 DEF Genuine, x
<1>. QED  BY <1>1, <1>2

LEMMA FetchInvariant == FetchSpec => []FetchInv
<1>1. FetchInit => FetchInv
  BY DEF FetchInit, FetchInv, NoRequest
<1>2. FetchInv /\ [FetchNext]_fetchVars => FetchInv'
  <2>. SUFFICES ASSUME FetchInv, [FetchNext]_fetchVars PROVE FetchInv'
    OBVIOUS
  <2>1. CASE Distribute
    <3>1. PICK m \in wire : wire' = wire \cup {ReplyTo(m, current)}
      BY <2>1 DEF Distribute
    <3>2. Genuine(ReplyTo(m, current))
      BY ReplyIsGenuine DEF FetchInv
    <3>. QED  BY <2>1, <3>1, <3>2 DEF Distribute, FetchInv
  <2>2. CASE Replaced
    BY <2>2 DEF Replaced, FetchInv
  <2>3. CASE Refused
    BY <2>3, EndsStep DEF Refused
  <2>4. CASE UNCHANGED fetchVars
    BY <2>4 DEF fetchVars, FetchInv
  <2>. QED  BY <2>1, <2>2, <2>3, <2>4, StartFetchStep, AskAgainStep, GetManifestStep,
               GetChunkStep DEF FetchNext
<1>. QED  BY <1>1, <1>2, PTL DEF FetchSpec

(* For tables and chunks of any size, over any loss, repetition and        *)
(* reordering and any number of replacements at the peer, fetch has always *)
(* assembled a prefix of the one table its manifest named.                 *)
THEOREM PrefixIsAssembled == FetchSpec => []ChunksInPlace
<1>1. FetchInv => ChunksInPlace
  BY DEF FetchInv, ChunksInPlace
<1>. QED  BY <1>1, FetchInvariant, PTL

-----------------------------------------------------------------------------
(* Induction and recursion over the subsets of a finite set. *)

LEMMA LeastNumber ==
    ASSUME NEW S \in SUBSET Nat, S # {}
    PROVE  \E n \in S : \A m \in S : n <= m
<1> DEFINE R == OpToRel(<, Nat)
<1>1. IsWellFoundedOn(R, Nat)
  BY NatLessThanWellFounded, Zenon
<1>2. \A m \in Nat, n \in Nat : m < n => <<m, n>> \in R
  BY DEF OpToRel
<1> HIDE DEF R
<1>3. PICK n \in S : \A m \in S : <<m, n>> \notin R
  BY <1>1, WFMin, Zenon
<1>4. ASSUME NEW m \in S PROVE n <= m
  <2>1. m \in Nat /\ n \in Nat /\ ~(m < n)
    BY <1>2, <1>3, Zenon
  <2> QED BY <2>1
<1> QED BY <1>4

(* What holds of a set when it holds of all its proper subsets holds of    *)
(* every finite set.                                                       *)
LEMMA SubsetInduction ==
    ASSUME NEW S, IsFiniteSet(S), NEW D,
           \A T \in SUBSET S : (\A U \in SUBSET T : U # T => U \in D) => T \in D
    PROVE  \A T \in SUBSET S : T \in D
<1> DEFINE Bad == {n \in Nat : \E T \in SUBSET S : T \notin D /\ Cardinality(T) = n}
<1>1. SUFFICES ASSUME Bad # {} PROVE FALSE
  <2> SUFFICES ASSUME NEW T \in SUBSET S, T \notin D PROVE FALSE
    OBVIOUS
  <2>1. Cardinality(T) \in Nat
    BY FS_Subset, FS_CardinalityType
  <2> QED BY <1>1, <2>1
<1>2. PICK n \in Bad : \A m \in Bad : n <= m
  BY <1>1, LeastNumber
<1>3. PICK T \in SUBSET S : T \notin D /\ Cardinality(T) = n
  OBVIOUS
<1>4. IsFiniteSet(T)
  BY FS_Subset
<1>5. ASSUME NEW U \in SUBSET T, U # T PROVE U \in D
  <2>1. /\ IsFiniteSet(U) /\ Cardinality(U) <= Cardinality(T)
        /\ Cardinality(T) # Cardinality(U)
    BY <1>4, <1>5, FS_Subset
  <2>2. Cardinality(U) \in Nat
    BY <2>1, FS_CardinalityType
  <2>3. Cardinality(U) \notin Bad
    BY <1>2, <1>3, <2>1, <2>2
  <2> QED BY <2>2, <2>3
<1> QED BY <1>3, <1>5

(* On the sets in D the function f recurs, through g, to a smaller set;    *)
(* elsewhere it is a.                                                      *)
Descends(S, V, D, step, g, a) ==
    /\ IsFiniteSet(S) /\ D \in SUBSET SUBSET S /\ step \in [SUBSET S -> SUBSET S]
    /\ \A T \in D : step[T] \subseteq T /\ step[T] # T
    /\ a \in [SUBSET S -> V] /\ g \in [SUBSET S -> [V -> V]]
Recurs(f, S, D, step, g, a) ==
    \A T \in SUBSET S : f[T] = IF T \in D THEN g[T][f[step[T]]] ELSE a[T]

(* Recursion that descends to smaller and smaller subsets is well defined. *)
LEMMA Descent ==
    ASSUME NEW S, NEW V, NEW D, NEW step, NEW g, NEW a, Descends(S, V, D, step, g, a)
    PROVE  \E f \in [SUBSET S -> V] : Recurs(f, S, D, step, g, a)
<1> USE DEF Descends
<1> DEFINE Next1(f, T) == IF T \in D THEN g[T][f[step[T]]] ELSE a[T]
           Upto(f, n) == \A T \in SUBSET S : Cardinality(T) < n => f[T] = Next1(f, T)
           Bad == {n \in Nat : \A f \in [SUBSET S -> V] : ~Upto(f, n)}
<1>1. ASSUME NEW T \in SUBSET S
      PROVE  /\ Cardinality(T) \in Nat /\ Cardinality(T) <= Cardinality(S)
             /\ T \in D => Cardinality(step[T]) < Cardinality(T)
             /\ Cardinality(step[T]) \in Nat
  <2>1. IsFiniteSet(T) /\ Cardinality(T) <= Cardinality(S) /\ Cardinality(T) \in Nat
    BY FS_Subset, FS_CardinalityType
  <2>2. step[T] \in SUBSET S
    OBVIOUS
  <2>3. IsFiniteSet(step[T]) /\ Cardinality(step[T]) \in Nat
    BY <2>2, FS_Subset, FS_CardinalityType
  <2>4. ASSUME T \in D PROVE Cardinality(step[T]) < Cardinality(T)
    <3>1. step[T] \in SUBSET T /\ step[T] # T
      BY <2>4
    <3>2. Cardinality(step[T]) <= Cardinality(T) /\ Cardinality(T) # Cardinality(step[T])
      BY <2>1, <3>1, FS_Subset
    <3> QED BY <2>1, <2>3, <3>2
  <2> QED BY <2>1, <2>3, <2>4
<1>2. /\ Bad \in SUBSET Nat
      /\ \A n \in Bad : \A f \in [SUBSET S -> V] : ~Upto(f, n)
      /\ \A n \in Nat \ Bad : \E f \in [SUBSET S -> V] : Upto(f, n)
  BY Zenon
<1> HIDE DEF Bad
<1>3. Bad = {}
  <2> SUFFICES ASSUME Bad # {} PROVE FALSE
    OBVIOUS
  <2>1. PICK n \in Bad : \A m \in Bad : n <= m
    BY <1>2, LeastNumber
  <2>2. ~Upto(a, n)
    BY <1>2, Zenon
  <2>3. n # 0
    BY <1>1, <2>2
  <2>4. n - 1 \in Nat \ Bad
    BY <1>2, <2>1, <2>3
  <2>5. PICK f \in [SUBSET S -> V] : Upto(f, n - 1)
    BY <1>2, <2>4, Zenon
  <2> DEFINE h == [T \in SUBSET S |-> Next1(f, T)]
  <2>6. h \in [SUBSET S -> V]
    OBVIOUS
  <2>7. ASSUME NEW T \in SUBSET S, Cardinality(T) < n PROVE h[T] = Next1(h, T)
    <3>1. CASE T \in D
      <4>1. step[T] \in SUBSET S /\ Cardinality(step[T]) < n - 1
        BY <1>1, <1>2, <2>7, <3>1
      <4>2. f[step[T]] = h[step[T]]
        BY <2>5, <4>1
      <4> QED BY <3>1, <4>2
    <3>2. CASE T \notin D
      BY <3>2
    <3> QED BY <3>1, <3>2
  <2>8. Upto(h, n)
    BY <2>7
  <2> HIDE DEF h, Upto
  <2> QED BY <1>2, <2>6, <2>8
<1>4. Cardinality(S) \in Nat
  BY FS_CardinalityType
<1>5. PICK f \in [SUBSET S -> V] : Upto(f, Cardinality(S) + 1)
  <2>1. Cardinality(S) + 1 \in Nat \ Bad
    BY <1>3, <1>4
  <2> QED BY <1>2, <2>1, Zenon
<1>6. \A T \in SUBSET S : Cardinality(T) < Cardinality(S) + 1
  BY <1>1, <1>4
<1> QED BY <1>5, <1>6 DEF Recurs

-----------------------------------------------------------------------------
(* Numbers. *)

(* A finite set of numbers has a least and a greatest. *)
LEMMA FiniteExtremes ==
    ASSUME NEW S \in SUBSET Int, IsFiniteSet(S), S # {}
    PROVE  /\ \E x \in S : \A y \in S : x <= y
           /\ \E x \in S : \A y \in S : x >= y
<1> DEFINE D == {T \in SUBSET S : T # {} => /\ \E x \in T : \A y \in T : x <= y
                                          /\ \E x \in T : \A y \in T : x >= y}
<1>1. ASSUME NEW T \in SUBSET S, \A U \in SUBSET T : U # T => U \in D
      PROVE  T \in D
  <2> SUFFICES ASSUME NEW z \in T
               PROVE  /\ \E x \in T : \A y \in T : x <= y
                      /\ \E x \in T : \A y \in T : x >= y
    OBVIOUS
  <2> DEFINE U == T \ {z}
  <2>1. U \in D
    BY <1>1
  <2>2. CASE U = {}
    BY <2>2
  <2>3. CASE U # {}
    <3>1. PICK x \in U : \A y \in U : x <= y
      BY <2>1, <2>3
    <3>2. PICK w \in U : \A y \in U : w >= y
      BY <2>1, <2>3
    <3>3. \A y \in T : y \in U \/ y = z
      OBVIOUS
    <3>4. x \in Int /\ w \in Int /\ z \in Int /\ \A y \in U : y \in Int
      OBVIOUS
    <3>5. \E v \in T : \A y \in T : v <= y
      BY <3>1, <3>3, <3>4
    <3>6. \E v \in T : \A y \in T : v >= y
      BY <3>2, <3>3, <3>4
    <3> QED BY <3>5, <3>6
  <2> QED BY <2>2, <2>3
<1>2. \A T \in SUBSET S : T \in D
  BY <1>1, SubsetInduction
<1> QED BY <1>2

LEMMA LeastIs ==
    ASSUME NEW S \in SUBSET Int, IsFiniteSet(S), S # {}
    PROVE  Least(S) \in S /\ \A y \in S : Least(S) <= y
BY FiniteExtremes DEF Least

LEMMA GreatestIs ==
    ASSUME NEW S \in SUBSET Int, IsFiniteSet(S), S # {}
    PROVE  Greatest(S) \in S /\ \A y \in S : Greatest(S) >= y
BY FiniteExtremes DEF Greatest

-----------------------------------------------------------------------------
(* cluster *)

(* A sum over a set, the least element first, is well defined. *)
SumOver(S, w, f) ==
    [T \in SUBSET S |-> IF T = {} THEN 0 ELSE w[Least(T)] + f[T \ {Least(T)}]]

LEMMA SumRecurs ==
    ASSUME NEW S \in SUBSET Int, IsFiniteSet(S), NEW w \in [S -> Int]
    PROVE  \E f \in [SUBSET S -> Int] : f = SumOver(S, w, f)
<1> DEFINE D == (SUBSET S) \ {{}}
           step == [T \in SUBSET S |-> T \ {Least(T)}]
           a == [T \in SUBSET S |-> 0]
           g == [T \in SUBSET S |-> [v \in Int |-> IF T = {} THEN 0 ELSE w[Least(T)] + v]]
<1>1. ASSUME NEW T \in SUBSET S, T # {}
      PROVE  Least(T) \in T
  <2>1. IsFiniteSet(T)
    BY FS_Subset
  <2>2. T \in SUBSET Int
    OBVIOUS
  <2> QED BY <1>1, <2>1, <2>2, LeastIs
<1>2. D \in SUBSET SUBSET S
  OBVIOUS
<1>3. step \in [SUBSET S -> SUBSET S]
  OBVIOUS
<1>4. \A T \in D : step[T] \subseteq T /\ step[T] # T
  BY <1>1
<1>5. a \in [SUBSET S -> Int]
  OBVIOUS
<1>6. g \in [SUBSET S -> [Int -> Int]]
  <2>1. ASSUME NEW T \in SUBSET S, NEW v \in Int
        PROVE  (IF T = {} THEN 0 ELSE w[Least(T)] + v) \in Int
    <3>1. CASE T = {}
      BY <3>1
    <3>2. CASE T # {}
      <4>1. w[Least(T)] \in Int
        BY <1>1, <3>2
      <4> QED BY <3>2, <4>1
    <3> QED BY <3>1, <3>2
  <2> QED BY <2>1
<1>7. Descends(S, Int, D, step, g, a)
  <2> HIDE DEF D, step, g, a
  <2> QED BY <1>2, <1>3, <1>4, <1>5, <1>6 DEF Descends
<1>8. PICK f \in [SUBSET S -> Int] : Recurs(f, S, D, step, g, a)
  <2> HIDE DEF D, step, g, a
  <2> QED BY <1>7, Descent, Zenon
<1>9. ASSUME NEW T \in SUBSET S
      PROVE  f[T] = IF T = {} THEN 0 ELSE w[Least(T)] + f[T \ {Least(T)}]
  <2>1. CASE T = {}
    BY <1>8, <2>1 DEF Recurs
  <2>2. CASE T # {}
    <3>1. T \in D /\ step[T] = T \ {Least(T)} /\ f[step[T]] \in Int
      BY <2>2
    <3>2. f[T] = g[T][f[step[T]]]
      BY <1>8, <3>1, Zenon DEF Recurs
    <3> QED BY <2>2, <3>1, <3>2
  <2> QED BY <2>1, <2>2
<1> QED BY <1>9 DEF SumOver

LEMMA SumType ==
    ASSUME NEW S \in SUBSET Int, IsFiniteSet(S), NEW w \in [S -> Int],
           NEW f, f = SumOver(S, w, f)
    PROVE  f[S] \in Int
<1> DEFINE D == {T \in SUBSET S : f[T] \in Int}
<1>0. \A T \in SUBSET S : f[T] = IF T = {} THEN 0 ELSE w[Least(T)] + f[T \ {Least(T)}]
  BY DEF SumOver
<1>1. ASSUME NEW T \in SUBSET S, \A U \in SUBSET T : U # T => U \in D
      PROVE  T \in D
  <2>1. CASE T = {}
    <3>1. f[T] = IF T = {} THEN 0 ELSE w[Least(T)] + f[T \ {Least(T)}]
      BY <1>0, Zenon
    <3>2. f[T] = 0
      BY <2>1, <3>1, Zenon
    <3> QED BY <3>2
  <2>2. CASE T # {}
    <3>1. IsFiniteSet(T)
      BY FS_Subset
    <3>2. T \in SUBSET Int
      OBVIOUS
    <3>3. Least(T) \in T
      BY <2>2, <3>1, <3>2, LeastIs
    <3>4. w[Least(T)] \in Int /\ f[T \ {Least(T)}] \in Int
      BY <1>1, <3>3
    <3> QED BY <1>0, <2>2, <3>4
  <2> QED BY <2>1, <2>2
<1>2. \A T \in SUBSET S : T \in D
  BY <1>1, SubsetInduction
<1> QED BY <1>2

LEMMA SpreadType ==
    ASSUME NEW c \in Seq(Candidate), NEW S \in SUBSET (1..Len(c)), IsFiniteSet(S),
           NEW i \in S
    PROVE  Spread(c, S, i) \in Int
<1> DEFINE w == [j \in S |-> (c[i].off - c[j].off) * (c[i].off - c[j].off)]
           s == CHOOSE h : h = SumOver(S, w, h)
<1>1. \A j \in 1..Len(c) : c[j].off \in Int
  <2>1. \A j \in 1..Len(c) : c[j] \in Candidate
    OBVIOUS
  <2> QED BY <2>1 DEF Candidate
<1>2. w \in [S -> Int] /\ S \in SUBSET Int
  BY <1>1
<1>3. Spread(c, S, i) = s[S]
  BY DEF Spread, SumOver
<1> HIDE DEF w
<1>4. s = SumOver(S, w, s)
  BY <1>2, SumRecurs
<1> HIDE DEF s
<1> QED BY <1>2, <1>3, <1>4, SumType

(* A function on a finite set attains its greatest value. *)
LEMMA Attains ==
    ASSUME NEW S, IsFiniteSet(S), S # {}, NEW v \in [S -> Int]
    PROVE  \E i \in S : \A j \in S : v[i] >= v[j]
<1> DEFINE D == {U \in SUBSET S : U # {} => \E i \in U : \A j \in U : v[i] >= v[j]}
<1>1. ASSUME NEW U \in SUBSET S, \A W \in SUBSET U : W # U => W \in D
      PROVE  U \in D
  <2> SUFFICES ASSUME NEW z \in U
               PROVE  \E i \in U : \A j \in U : v[i] >= v[j]
    OBVIOUS
  <2>1. U \ {z} \in D
    BY <1>1
  <2>2. CASE U \ {z} = {}
    BY <2>2
  <2>3. CASE U \ {z} # {}
    <3>1. PICK i \in U \ {z} : \A j \in U \ {z} : v[i] >= v[j]
      BY <2>1, <2>3
    <3>2. \A j \in U : j \in U \ {z} \/ j = z
      OBVIOUS
    <3>3. CASE v[i] >= v[z]
      BY <3>1, <3>2, <3>3
    <3>4. CASE v[z] > v[i]
      BY <3>1, <3>2, <3>4
    <3> QED BY <3>3, <3>4
  <2> QED BY <2>2, <2>3
<1>2. \A U \in SUBSET S : U \in D
  <2> HIDE DEF D
  <2> QED BY <1>1, SubsetInduction
<1> QED BY <1>2

(* Sets of candidates. *)
LEMMA IndexSet ==
    ASSUME NEW c \in Seq(Candidate), NEW S \in SUBSET (1..Len(c))
    PROVE  /\ IsFiniteSet(S) /\ S \in SUBSET Int
           /\ Cardinality(S) \in Nat
<1>1. Len(c) \in Int
  OBVIOUS
<1>2. IsFiniteSet(1..Len(c)) /\ 1..Len(c) \in SUBSET Int
  BY <1>1, FS_Interval
<1> QED BY <1>2, FS_Subset, FS_CardinalityType

LEMMA FarthestIn ==
    ASSUME NEW c \in Seq(Candidate), NEW S \in SUBSET (1..Len(c)), S # {}
    PROVE  Farthest(c, S) \in S
<1> DEFINE v == [i \in S |-> Spread(c, S, i)]
           top == {i \in S : \A j \in S : Spread(c, S, i) >= Spread(c, S, j)}
<1>1. IsFiniteSet(S) /\ S \in SUBSET Int
  BY IndexSet
<1>2. v \in [S -> Int]
  BY <1>1, SpreadType
<1>3. \E i \in S : \A j \in S : v[i] >= v[j]
  <2> HIDE DEF v
  <2> QED BY <1>1, <1>2, Attains
<1>4. top # {} /\ top \in SUBSET S
  BY <1>3
<1>5. top \in SUBSET Int /\ IsFiniteSet(top)
  BY <1>1, <1>4, FS_Subset
<1> HIDE DEF top
<1>6. Least(top) \in top
  BY <1>4, <1>5, LeastIs
<1>7. Farthest(c, S) = Least(top)
  BY DEF Farthest, top
<1> QED BY <1>4, <1>6, <1>7

(* cluster returns some of the survivors it is given, and discards none    *)
(* when there are ClusterMin or fewer.                                     *)
LEMMA ClusterKeeps ==
    ASSUME NEW c \in Seq(Candidate), NEW S \in SUBSET (1..Len(c))
    PROVE  /\ Cluster(c, S) \in SUBSET S
           /\ Cardinality(Cluster(c, S)) >= ClusterMin \/ Cluster(c, S) = S
<1> DEFINE Stop(T) == Cardinality(T) <= ClusterMin \/ Tight(c, T)
           D == {T \in SUBSET S : ~Stop(T)}
           step == [T \in SUBSET S |-> IF T = {} THEN {} ELSE T \ {Farthest(c, T)}]
           a == [T \in SUBSET S |-> T]
           g == [T \in SUBSET S |-> [v \in SUBSET S |-> v]]
           Rec(h) == [T \in SUBSET S |-> IF Stop(T) THEN T ELSE h[T \ {Farthest(c, T)}]]
           s == CHOOSE h : h = Rec(h)
<1>0. ClusterMin \in Nat
  BY SelectionConstants
<1>1. IsFiniteSet(S) /\ S \in SUBSET Int
  BY IndexSet
<1>2. ASSUME NEW T \in SUBSET S
      PROVE  IsFiniteSet(T) /\ Cardinality(T) \in Nat
  BY <1>1, FS_Subset, FS_CardinalityType
<1>3. ASSUME NEW T \in SUBSET S, ~Stop(T)
      PROVE  /\ T # {} /\ Farthest(c, T) \in T
             /\ Cardinality(T) > ClusterMin
  <2>1. Cardinality(T) > ClusterMin
    BY <1>0, <1>2, <1>3
  <2>2. T # {}
    BY <1>0, <2>1, FS_EmptySet
  <2> QED BY <2>1, <2>2, FarthestIn
<1> HIDE DEF Stop
<1>4. \E f : f = Rec(f)
  <2>1. D \in SUBSET SUBSET S /\ step \in [SUBSET S -> SUBSET S]
    OBVIOUS
  <2>2. \A T \in D : step[T] \subseteq T /\ step[T] # T
    BY <1>3
  <2>3. a \in [SUBSET S -> SUBSET S] /\ g \in [SUBSET S -> [SUBSET S -> SUBSET S]]
    OBVIOUS
  <2>4. Descends(S, SUBSET S, D, step, g, a)
    <3> HIDE DEF D, step, g, a
    <3> QED BY <1>1, <2>1, <2>2, <2>3 DEF Descends
  <2>5. PICK f \in [SUBSET S -> SUBSET S] : Recurs(f, S, D, step, g, a)
    <3> HIDE DEF D, step, g, a
    <3> QED BY <2>4, Descent, Zenon
  <2>6. ASSUME NEW T \in SUBSET S
        PROVE  f[T] = IF Stop(T) THEN T ELSE f[T \ {Farthest(c, T)}]
    <3>1. CASE Stop(T)
      BY <2>5, <3>1 DEF Recurs
    <3>2. CASE ~Stop(T)
      <4>1. T \in D /\ step[T] = T \ {Farthest(c, T)} /\ f[step[T]] \in SUBSET S
        BY <1>3, <3>2
      <4>2. f[T] = g[T][f[step[T]]]
        BY <2>5, <4>1, Zenon DEF Recurs
      <4> QED BY <3>2, <4>1, <4>2
    <3> QED BY <3>1, <3>2
  <2> QED BY <2>6
<1>5. s = Rec(s)
  BY <1>4
<1>6. Cluster(c, S) = s[S]
  BY DEF Cluster, Stop
<1> HIDE DEF s
<1>7. \A T \in SUBSET S : s[T] = IF Stop(T) THEN T ELSE s[T \ {Farthest(c, T)}]
  BY <1>5
<1> DEFINE Good(T) == s[T] \in SUBSET T /\ (Cardinality(s[T]) >= ClusterMin \/ s[T] = T)
           E == {T \in SUBSET S : Good(T)}
<1>8. ASSUME NEW T \in SUBSET S, \A U \in SUBSET T : U # T => U \in E
      PROVE  T \in E
  <2> SUFFICES Good(T)
    OBVIOUS
  <2>1. CASE Stop(T)
    BY <1>7, <2>1
  <2>2. CASE ~Stop(T)
    <3> DEFINE U == T \ {Farthest(c, T)}
    <3>1. U \in SUBSET T /\ U # T /\ s[T] = s[U]
      BY <1>3, <1>7, <2>2
    <3>2. Good(U)
      BY <1>8, <3>1
    <3>3. Cardinality(U) = Cardinality(T) - 1
      BY <1>2, <1>3, <2>2, FS_RemoveElement
    <3>4. Cardinality(U) >= ClusterMin
      BY <1>0, <1>2, <1>3, <2>2, <3>3
    <3> HIDE DEF U
    <3> QED BY <3>1, <3>2, <3>4
  <2> QED BY <2>1, <2>2
<1> HIDE DEF Good
<1>9. \A T \in SUBSET S : T \in E
  <2> HIDE DEF E
  <2> QED BY <1>1, <1>8, SubsetInduction
<1>10. Good(S)
  BY <1>9
<1> QED BY <1>6, <1>10 DEF Good

-----------------------------------------------------------------------------
(* intersect *)

LEMMA PlainTypes ==
    ASSUME NEW c \in Seq(Candidate)
    PROVE  /\ IsFiniteSet(Plain(c)) /\ Cardinality(Plain(c)) \in Nat
           /\ \A i \in Plain(c) :
                /\ c[i].off \in Int /\ Low(c, i) \in Int /\ High(c, i) \in Int
                /\ Low(c, i) <= c[i].off /\ c[i].off <= High(c, i)
                /\ Value(c, <<i, -1>>) = Low(c, i) /\ Value(c, <<i, 0>>) = c[i].off
                /\ Value(c, <<i, 1>>) = High(c, i)
<1>1. Plain(c) \in SUBSET (1..Len(c))
  BY DEF Plain
<1>2. IsFiniteSet(Plain(c)) /\ Cardinality(Plain(c)) \in Nat
  BY <1>1, IndexSet
<1>3. ASSUME NEW i \in Plain(c)
      PROVE  /\ c[i].off \in Int /\ Low(c, i) \in Int /\ High(c, i) \in Int
             /\ Low(c, i) <= c[i].off /\ c[i].off <= High(c, i)
             /\ Value(c, <<i, -1>>) = Low(c, i) /\ Value(c, <<i, 0>>) = c[i].off
             /\ Value(c, <<i, 1>>) = High(c, i)
  <2>1. c[i] \in Candidate
    BY <1>1
  <2>2. c[i].off \in Int /\ c[i].dist \in Nat
    BY <2>1 DEF Candidate
  <2> QED BY <2>2 DEF Low, High, Value
<1> QED BY <1>2, <1>3

LEMMA EdgeTypes ==
    ASSUME NEW c \in Seq(Candidate), NEW e \in Edges(c)
    PROVE  Value(c, e) \in Int /\ e[2] \in {-1, 0, 1} /\ e[1] \in Plain(c)
<1>1. e[1] \in Plain(c) /\ e[2] \in {-1, 0, 1} /\ e = <<e[1], e[2]>>
  BY DEF Edges
<1>2. Value(c, e) \in {Low(c, e[1]), c[e[1]].off, High(c, e[1])}
  BY <1>1, PlainTypes
<1> QED BY <1>1, <1>2, PlainTypes

(* Subsets of the candidates. *)
LEMMA PlainSubset ==
    ASSUME NEW c \in Seq(Candidate), NEW S \in SUBSET Plain(c)
    PROVE  IsFiniteSet(S) /\ Cardinality(S) \in Nat
BY PlainTypes, FS_Subset, FS_CardinalityType

(* The points that m of the intervals contain are finitely many. *)
LEMMA CoveredFinite ==
    ASSUME NEW c \in Seq(Candidate), NEW m \in Nat
    PROVE  Covered(c, m) \in SUBSET Int /\ IsFiniteSet(Covered(c, m))
<1> DEFINE U == UNION {Low(c, i)..High(c, i) : i \in Plain(c)}
           low == [i \in Plain(c) |-> -Low(c, i)]
           high == [i \in Plain(c) |-> High(c, i)]
<1>0. \A i \in Plain(c) : Low(c, i) \in Int /\ High(c, i) \in Int
  BY PlainTypes
<1>1. Covered(c, m) \in SUBSET U /\ U \in SUBSET Int
  BY <1>0 DEF Covered
<1>2. CASE Plain(c) = {}
  <2>1. U = {}
    BY <1>2
  <2> QED BY <1>1, <2>1, FS_EmptySet, FS_Subset
<1>3. CASE Plain(c) # {}
  <2>1. low \in [Plain(c) -> Int] /\ high \in [Plain(c) -> Int]
    BY <1>0
  <2>2. PICK i \in Plain(c) : \A j \in Plain(c) : low[i] >= low[j]
    <3> HIDE DEF low
    <3> QED BY <1>3, <2>1, PlainTypes, Attains
  <2>3. PICK k \in Plain(c) : \A j \in Plain(c) : high[k] >= high[j]
    <3> HIDE DEF high
    <3> QED BY <1>3, <2>1, PlainTypes, Attains
  <2>4. ASSUME NEW j \in Plain(c), NEW p \in Low(c, j)..High(c, j)
        PROVE  p \in Low(c, i)..High(c, k)
    <3>1. Low(c, i) <= Low(c, j) /\ High(c, j) <= High(c, k)
      BY <1>0, <2>2, <2>3
    <3> QED BY <1>0, <3>1
  <2>5. U \in SUBSET (Low(c, i)..High(c, k))
    BY <2>4
  <2>6. IsFiniteSet(Low(c, i)..High(c, k))
    BY <1>0, FS_Interval
  <2> HIDE DEF U
  <2> QED BY <1>1, <2>5, <2>6, FS_Subset
<1> QED BY <1>2, <1>3

(* The intervals that contain a point are the ones that have begun there   *)
(* less the ones that have ended.                                          *)
LEMMA CoveringCount ==
    ASSUME NEW c \in Seq(Candidate), NEW p \in Int
    PROVE  /\ Cardinality(Covering(c, p)) =
                Cardinality({i \in Plain(c) : Low(c, i) <= p})
                - Cardinality({i \in Plain(c) : High(c, i) < p})
           /\ Cardinality(Covering(c, p)) =
                Cardinality({i \in Plain(c) : High(c, i) >= p})
                - Cardinality({i \in Plain(c) : Low(c, i) > p})
<1> DEFINE B == {i \in Plain(c) : Low(c, i) <= p}
           E == {i \in Plain(c) : High(c, i) < p}
           A == {i \in Plain(c) : High(c, i) >= p}
           G == {i \in Plain(c) : Low(c, i) > p}
<1>0. \A i \in Plain(c) : Low(c, i) \in Int /\ High(c, i) \in Int /\ Low(c, i) <= High(c, i)
  <2> TAKE i \in Plain(c)
  <2>1. /\ Low(c, i) \in Int /\ High(c, i) \in Int /\ c[i].off \in Int
        /\ Low(c, i) <= c[i].off /\ c[i].off <= High(c, i)
    BY PlainTypes
  <2> QED BY <2>1
<1>1. B \ E = Covering(c, p) /\ B \cap E = E
  BY <1>0 DEF Covering
<1>2. A \ G = Covering(c, p) /\ A \cap G = G
  BY <1>0 DEF Covering
<1>3. B \in SUBSET Plain(c) /\ A \in SUBSET Plain(c)
  OBVIOUS
<1> HIDE DEF A, B, E, G
<1>4. IsFiniteSet(B) /\ IsFiniteSet(A)
  BY <1>3, PlainSubset
<1>5. Cardinality(B \ E) = Cardinality(B) - Cardinality(B \cap E)
  BY <1>4, FS_Difference
<1>6. Cardinality(A \ G) = Cardinality(A) - Cardinality(A \cap G)
  BY <1>4, FS_Difference
<1>7. /\ Cardinality(Covering(c, p)) = Cardinality(B) - Cardinality(E)
      /\ Cardinality(Covering(c, p)) = Cardinality(A) - Cardinality(G)
  BY <1>1, <1>2, <1>5, <1>6
<1> QED BY <1>7 DEF A, B, E, G

(* The scan from below never counts more intervals open than contain the   *)
(* point it has reached, and counts just those before it reaches the high  *)
(* endpoints there.                                                        *)
LEMMA OpenUpCounts ==
    ASSUME NEW c \in Seq(Candidate), NEW e \in Edges(c)
    PROVE  /\ OpenUp(c, e) <= Cardinality(Covering(c, Value(c, e)))
           /\ e[2] = -1 => OpenUp(c, e) = Cardinality(Covering(c, Value(c, e)))
           /\ OpenUp(c, e) \in Int
<1> DEFINE V == Value(c, e)
           K == Edges(c) \ Above(c, e)
           B == {i \in Plain(c) : Low(c, i) <= V}
           E == {i \in Plain(c) : High(c, i) < V}
           E1 == {i \in Plain(c) : High(c, i) < V \/ (High(c, i) = V /\ e[2] = 1)}
<1>0. \A i \in Plain(c) : /\ Low(c, i) \in Int /\ High(c, i) \in Int
                          /\ Value(c, <<i, -1>>) = Low(c, i)
                          /\ Value(c, <<i, 1>>) = High(c, i)
  BY PlainTypes
<1>1. V \in Int /\ e[2] \in {-1, 0, 1}
  BY EdgeTypes
<1>2. \A i \in Plain(c) : <<i, -1>> \in Edges(c) /\ <<i, 1>> \in Edges(c)
  BY DEF Edges
<1> HIDE DEF V
<1>3. ASSUME NEW i \in Plain(c)
      PROVE  /\ <<i, -1>> \in K <=> i \in B
             /\ <<i, 1>> \in K <=> i \in E1
  <2>1. <<i, -1>> \in K <=> ~(V < Low(c, i) \/ (V = Low(c, i) /\ e[2] < -1))
    BY <1>0, <1>2 DEF Above, Before, V
  <2>2. <<i, 1>> \in K <=> ~(V < High(c, i) \/ (V = High(c, i) /\ e[2] < 1))
    BY <1>0, <1>2 DEF Above, Before, V
  <2>3. Low(c, i) \in Int /\ High(c, i) \in Int
    BY <1>0
  <2> HIDE DEF K
  <2>4. <<i, -1>> \in K <=> i \in B
    BY <1>1, <2>1, <2>3
  <2>5. <<i, 1>> \in K <=> i \in E1
    BY <1>1, <2>2, <2>3
  <2> QED BY <2>4, <2>5
<1>4. {i \in Plain(c) : <<i, -1>> \in K} = B /\ {i \in Plain(c) : <<i, 1>> \in K} = E1
  BY <1>3
<1>5. OpenUp(c, e) = Cardinality(B) - Cardinality(E1)
  <2>1. OpenUp(c, e) = Of(c, K, -1) - Of(c, K, 1)
    BY DEF OpenUp
  <2> HIDE DEF K, B, E1
  <2> QED BY <1>4, <2>1 DEF Of
<1>6. Cardinality(Covering(c, V)) = Cardinality(B) - Cardinality(E)
  BY <1>1, CoveringCount
<1>7. E \in SUBSET E1 /\ E1 \in SUBSET Plain(c) /\ B \in SUBSET Plain(c) /\ E \in SUBSET Plain(c)
  OBVIOUS
<1>8. e[2] = -1 => E = E1
  OBVIOUS
<1> HIDE DEF K, B, E, E1
<1>9. Cardinality(E) <= Cardinality(E1)
  BY <1>7, PlainSubset, FS_Subset
<1>10. Cardinality(B) \in Nat /\ Cardinality(E) \in Nat /\ Cardinality(E1) \in Nat
  BY <1>7, PlainSubset
<1> QED BY <1>5, <1>6, <1>8, <1>9, <1>10 DEF V

(* The same of the scan from above. *)
LEMMA OpenDownCounts ==
    ASSUME NEW c \in Seq(Candidate), NEW e \in Edges(c)
    PROVE  /\ OpenDown(c, e) <= Cardinality(Covering(c, Value(c, e)))
           /\ e[2] = 1 => OpenDown(c, e) = Cardinality(Covering(c, Value(c, e)))
           /\ OpenDown(c, e) \in Int
<1> DEFINE V == Value(c, e)
           K == Edges(c) \ Below(c, e)
           B == {i \in Plain(c) : High(c, i) >= V}
           E == {i \in Plain(c) : Low(c, i) > V}
           E1 == {i \in Plain(c) : Low(c, i) > V \/ (Low(c, i) = V /\ e[2] = -1)}
<1>0. \A i \in Plain(c) : /\ Low(c, i) \in Int /\ High(c, i) \in Int
                          /\ Value(c, <<i, -1>>) = Low(c, i)
                          /\ Value(c, <<i, 1>>) = High(c, i)
  BY PlainTypes
<1>1. V \in Int /\ e[2] \in {-1, 0, 1}
  BY EdgeTypes
<1>2. \A i \in Plain(c) : <<i, -1>> \in Edges(c) /\ <<i, 1>> \in Edges(c)
  BY DEF Edges
<1> HIDE DEF V
<1>3. ASSUME NEW i \in Plain(c)
      PROVE  /\ <<i, 1>> \in K <=> i \in B
             /\ <<i, -1>> \in K <=> i \in E1
  <2>1. <<i, -1>> \in K <=> ~(Low(c, i) < V \/ (Low(c, i) = V /\ -1 < e[2]))
    BY <1>0, <1>2 DEF Below, Before, V
  <2>2. <<i, 1>> \in K <=> ~(High(c, i) < V \/ (High(c, i) = V /\ 1 < e[2]))
    BY <1>0, <1>2 DEF Below, Before, V
  <2>3. Low(c, i) \in Int /\ High(c, i) \in Int
    BY <1>0
  <2> HIDE DEF K
  <2>4. <<i, 1>> \in K <=> i \in B
    BY <1>1, <2>2, <2>3
  <2>5. <<i, -1>> \in K <=> i \in E1
    BY <1>1, <2>1, <2>3
  <2> QED BY <2>4, <2>5
<1>4. {i \in Plain(c) : <<i, 1>> \in K} = B /\ {i \in Plain(c) : <<i, -1>> \in K} = E1
  BY <1>3
<1>5. OpenDown(c, e) = Cardinality(B) - Cardinality(E1)
  <2>1. OpenDown(c, e) = Of(c, K, 1) - Of(c, K, -1)
    BY DEF OpenDown
  <2> HIDE DEF K, B, E1
  <2> QED BY <1>4, <2>1 DEF Of
<1>6. Cardinality(Covering(c, V)) = Cardinality(B) - Cardinality(E)
  BY <1>1, CoveringCount
<1>7. E \in SUBSET E1 /\ E1 \in SUBSET Plain(c) /\ B \in SUBSET Plain(c) /\ E \in SUBSET Plain(c)
  OBVIOUS
<1>8. e[2] = 1 => E = E1
  OBVIOUS
<1> HIDE DEF K, B, E, E1
<1>9. Cardinality(E) <= Cardinality(E1)
  BY <1>7, PlainSubset, FS_Subset
<1>10. Cardinality(B) \in Nat /\ Cardinality(E) \in Nat /\ Cardinality(E1) \in Nat
  BY <1>7, PlainSubset
<1> QED BY <1>5, <1>6, <1>8, <1>9, <1>10 DEF V

(* A point some m intervals contain is one of the Covered ones. *)
LEMMA CoveredIs ==
    ASSUME NEW c \in Seq(Candidate), NEW m \in Nat \ {0}, NEW p \in Int
    PROVE  p \in Covered(c, m) <=> Cardinality(Covering(c, p)) >= m
<1>1. ASSUME Cardinality(Covering(c, p)) >= m
      PROVE  p \in UNION {Low(c, i)..High(c, i) : i \in Plain(c)}
  <2>1. Covering(c, p) # {}
    <3>1. Cardinality(Covering(c, p)) # 0
      <4>1. Cardinality(Covering(c, p)) \in Nat
        <5>1. Covering(c, p) \in SUBSET Plain(c)
          BY DEF Covering
        <5> QED BY <5>1, PlainSubset
      <4> QED BY <1>1, <4>1
    <3> QED BY <3>1, FS_EmptySet, Zenon
  <2>2. PICK i \in Plain(c) : Low(c, i) <= p /\ p <= High(c, i)
    BY <2>1 DEF Covering
  <2>3. Low(c, i) \in Int /\ High(c, i) \in Int
    BY PlainTypes
  <2>4. p \in Low(c, i)..High(c, i)
    BY <2>2, <2>3
  <2> QED BY <2>4
<1> QED BY <1>1 DEF Covered

(* The first point that m intervals contain is where one of them begins,   *)
(* the last where one of them ends.                                        *)
LEMMA CoveredEnds ==
    ASSUME NEW c \in Seq(Candidate), NEW m \in Nat \ {0}, Covered(c, m) # {}
    PROVE  /\ \E i \in Plain(c) : Low(c, i) = Least(Covered(c, m))
           /\ \E i \in Plain(c) : High(c, i) = Greatest(Covered(c, m))
           /\ Least(Covered(c, m)) \in Covered(c, m)
           /\ Greatest(Covered(c, m)) \in Covered(c, m)
           /\ Least(Covered(c, m)) \in Int /\ Greatest(Covered(c, m)) \in Int
           /\ \A p \in Covered(c, m) : Least(Covered(c, m)) <= p /\ p <= Greatest(Covered(c, m))
<1> DEFINE C == Covered(c, m)
           x == Least(C)
           y == Greatest(C)
<1>1. C \in SUBSET Int /\ IsFiniteSet(C) /\ C # {}
  BY CoveredFinite
<1> HIDE DEF C
<1>2. x \in C /\ y \in C /\ (\A p \in C : x <= p) /\ (\A p \in C : y >= p)
  BY <1>1, LeastIs, GreatestIs
<1> HIDE DEF x, y
<1>3. x \in Int /\ y \in Int
  BY <1>1, <1>2
<1>4. x - 1 \notin C /\ y + 1 \notin C
  BY <1>2, <1>3
<1>5. \A p \in Int : p \in C <=> Cardinality(Covering(c, p)) >= m
  BY CoveredIs DEF C
<1>6. \A p \in Int : Covering(c, p) \in SUBSET Plain(c)
  BY DEF Covering
<1>7. ASSUME NEW p \in C, NEW q \in Int, q \notin C
      PROVE  ~(Covering(c, p) \in SUBSET Covering(c, q))
  <2> SUFFICES ASSUME Covering(c, p) \in SUBSET Covering(c, q) PROVE FALSE
    OBVIOUS
  <2>1. p \in Int
    BY <1>1
  <2>2. IsFiniteSet(Covering(c, q)) /\ Cardinality(Covering(c, q)) \in Nat
    BY <1>6, PlainSubset
  <2>3. Cardinality(Covering(c, p)) \in Nat
    BY <1>6, <2>1, PlainSubset
  <2>4. Cardinality(Covering(c, p)) <= Cardinality(Covering(c, q))
    BY <2>2, FS_Subset
  <2> QED BY <1>5, <1>7, <2>1, <2>2, <2>3, <2>4
<1>8. \A i \in Plain(c) : Low(c, i) \in Int /\ High(c, i) \in Int
  BY PlainTypes
<1>9. \E i \in Plain(c) : Low(c, i) = x
  <2>1. PICK i \in Covering(c, x) : i \notin Covering(c, x - 1)
    BY <1>2, <1>3, <1>4, <1>7
  <2>2. i \in Plain(c) /\ Low(c, i) <= x /\ x <= High(c, i)
    BY <2>1 DEF Covering
  <2>3. ~(Low(c, i) <= x - 1 /\ x - 1 <= High(c, i))
    BY <2>1, <2>2 DEF Covering
  <2>4. Low(c, i) = x
    BY <1>3, <1>8, <2>2, <2>3
  <2> QED BY <2>2, <2>4
<1>10. \E i \in Plain(c) : High(c, i) = y
  <2>1. PICK i \in Covering(c, y) : i \notin Covering(c, y + 1)
    BY <1>2, <1>3, <1>4, <1>7
  <2>2. i \in Plain(c) /\ Low(c, i) <= y /\ y <= High(c, i)
    BY <2>1 DEF Covering
  <2>3. ~(Low(c, i) <= y + 1 /\ y + 1 <= High(c, i))
    BY <2>1, <2>2 DEF Covering
  <2>4. High(c, i) = y
    BY <1>3, <1>8, <2>2, <2>3
  <2> QED BY <2>2, <2>4
<1>11. \A p \in C : x <= p /\ p <= y
  BY <1>1, <1>2, <1>3
<1> QED BY <1>2, <1>3, <1>9, <1>10, <1>11 DEF x, y, C

(* The edges where a scan has found m intervals open. *)
Up(c, m) == {e \in Edges(c) : OpenUp(c, e) >= m}
Down(c, m) == {e \in Edges(c) : OpenDown(c, e) >= m}

(* The first of them each scan comes to. *)
First(c, m) == CHOOSE e \in Up(c, m) : Up(c, m) \cap Below(c, e) = {}
Last(c, m) == CHOOSE e \in Down(c, m) : Down(c, m) \cap Above(c, e) = {}

(* The scan from below stops at the first point that m intervals contain,  *)
(* having passed the midpoints before it.                                  *)
LEMMA ScanUp ==
    ASSUME NEW c \in Seq(Candidate), NEW m \in Nat \ {0}
    PROVE  /\ Up(c, m) = {} <=> Covered(c, m) = {}
           /\ Covered(c, m) # {} =>
                /\ Value(c, First(c, m)) = Least(Covered(c, m))
                /\ Of(c, Below(c, First(c, m)), 0) =
                      Cardinality({i \in Plain(c) : c[i].off < Least(Covered(c, m))})
<1> DEFINE C == Covered(c, m)
           x == Least(C)
<1>0. ASSUME NEW e \in Up(c, m)
      PROVE  Value(c, e) \in C /\ e \in Edges(c) /\ Value(c, e) \in Int /\ e[2] \in {-1, 0, 1}
  <2>1. e \in Edges(c) /\ OpenUp(c, e) >= m
    BY DEF Up
  <2>2. Value(c, e) \in Int /\ e[2] \in {-1, 0, 1}
    BY <2>1, EdgeTypes
  <2>3. OpenUp(c, e) <= Cardinality(Covering(c, Value(c, e))) /\ OpenUp(c, e) \in Int
    BY <2>1, OpenUpCounts
  <2>4. Covering(c, Value(c, e)) \in SUBSET Plain(c)
    BY DEF Covering
  <2>5. Cardinality(Covering(c, Value(c, e))) \in Nat
    BY <2>4, PlainSubset
  <2>6. Cardinality(Covering(c, Value(c, e))) >= m
    BY <2>1, <2>3, <2>5
  <2> QED BY <2>1, <2>2, <2>6, CoveredIs
<1>1. CASE C = {}
  BY <1>0, <1>1
<1>2. CASE C # {}
  <2>1. /\ x \in C /\ x \in Int /\ \A p \in C : x <= p
        /\ \E i \in Plain(c) : Low(c, i) = x
    BY <1>2, CoveredEnds
  <2>2. PICK k \in Plain(c) : Low(c, k) = x
    BY <2>1
  <2> DEFINE first == <<k, -1>>
  <2>3. first \in Edges(c) /\ Value(c, first) = x /\ first[2] = -1
    BY <2>2, PlainTypes DEF Edges
  <2>4. first \in Up(c, m)
    <3>1. OpenUp(c, first) = Cardinality(Covering(c, x))
      BY <2>3, OpenUpCounts
    <3>2. Cardinality(Covering(c, x)) >= m
      BY <2>1, CoveredIs
    <3> QED BY <2>3, <3>1, <3>2 DEF Up
  <2> HIDE DEF x, C, first
  <2>5. Up(c, m) \cap Below(c, first) = {}
    <3> SUFFICES ASSUME NEW e \in Up(c, m), e \in Below(c, first) PROVE FALSE
      OBVIOUS
    <3>1. Value(c, e) < x \/ (Value(c, e) = x /\ e[2] < -1)
      BY <2>3 DEF Below, Before
    <3> QED BY <1>0, <2>1, <3>1
  <2>6. ASSUME NEW a, a = First(c, m)
        PROVE  /\ Value(c, a) = x
               /\ Of(c, Below(c, a), 0) = Cardinality({i \in Plain(c) : c[i].off < x})
    <3>1. a \in Up(c, m) /\ Up(c, m) \cap Below(c, a) = {}
      BY <2>4, <2>5, <2>6 DEF First
    <3>2. ~(x < Value(c, a) \/ (x = Value(c, a) /\ -1 < a[2]))
      BY <2>3, <2>4, <3>1 DEF Below, Before
    <3>3. Value(c, a) = x /\ a[2] = -1
      BY <1>0, <2>1, <3>1, <3>2
    <3>4. ASSUME NEW i \in Plain(c) PROVE <<i, 0>> \in Below(c, a) <=> c[i].off < x
      <4>1. /\ c[i].off \in Int /\ Value(c, <<i, 0>>) = c[i].off
            /\ <<i, 0>> \in Edges(c) /\ <<i, 0>>[2] = 0
        BY PlainTypes DEF Edges
      <4> QED BY <3>3, <4>1 DEF Below, Before
    <3>5. {i \in Plain(c) : <<i, 0>> \in Below(c, a)} = {i \in Plain(c) : c[i].off < x}
      BY <3>4
    <3> QED BY <3>3, <3>5 DEF Of
  <2> QED BY <1>2, <2>4, <2>6 DEF x, C
<1> QED BY <1>1, <1>2

LEMMA ScanDown ==
    ASSUME NEW c \in Seq(Candidate), NEW m \in Nat \ {0}
    PROVE  /\ Down(c, m) = {} <=> Covered(c, m) = {}
           /\ Covered(c, m) # {} =>
                /\ Value(c, Last(c, m)) = Greatest(Covered(c, m))
                /\ Of(c, Above(c, Last(c, m)), 0) =
                      Cardinality({i \in Plain(c) : c[i].off > Greatest(Covered(c, m))})
<1> DEFINE C == Covered(c, m)
           y == Greatest(C)
<1>0. ASSUME NEW e \in Down(c, m)
      PROVE  Value(c, e) \in C /\ e \in Edges(c) /\ Value(c, e) \in Int /\ e[2] \in {-1, 0, 1}
  <2>1. e \in Edges(c) /\ OpenDown(c, e) >= m
    BY DEF Down
  <2>2. Value(c, e) \in Int /\ e[2] \in {-1, 0, 1}
    BY <2>1, EdgeTypes
  <2>3. OpenDown(c, e) <= Cardinality(Covering(c, Value(c, e))) /\ OpenDown(c, e) \in Int
    BY <2>1, OpenDownCounts
  <2>4. Covering(c, Value(c, e)) \in SUBSET Plain(c)
    BY DEF Covering
  <2>5. Cardinality(Covering(c, Value(c, e))) \in Nat
    BY <2>4, PlainSubset
  <2>6. Cardinality(Covering(c, Value(c, e))) >= m
    BY <2>1, <2>3, <2>5
  <2> QED BY <2>1, <2>2, <2>6, CoveredIs
<1>1. CASE C = {}
  BY <1>0, <1>1
<1>2. CASE C # {}
  <2>1. /\ y \in C /\ y \in Int /\ \A p \in C : p <= y
        /\ \E i \in Plain(c) : High(c, i) = y
    BY <1>2, CoveredEnds
  <2>2. PICK k \in Plain(c) : High(c, k) = y
    BY <2>1
  <2> DEFINE last == <<k, 1>>
  <2>3. last \in Edges(c) /\ Value(c, last) = y /\ last[2] = 1
    BY <2>2, PlainTypes DEF Edges
  <2>4. last \in Down(c, m)
    <3>1. OpenDown(c, last) = Cardinality(Covering(c, y))
      BY <2>3, OpenDownCounts
    <3>2. Cardinality(Covering(c, y)) >= m
      BY <2>1, CoveredIs
    <3> QED BY <2>3, <3>1, <3>2 DEF Down
  <2> HIDE DEF y, C, last
  <2>5. Down(c, m) \cap Above(c, last) = {}
    <3> SUFFICES ASSUME NEW e \in Down(c, m), e \in Above(c, last) PROVE FALSE
      OBVIOUS
    <3>1. y < Value(c, e) \/ (y = Value(c, e) /\ 1 < e[2])
      BY <2>3 DEF Above, Before
    <3> QED BY <1>0, <2>1, <3>1
  <2>6. ASSUME NEW b, b = Last(c, m)
        PROVE  /\ Value(c, b) = y
               /\ Of(c, Above(c, b), 0) = Cardinality({i \in Plain(c) : c[i].off > y})
    <3>1. b \in Down(c, m) /\ Down(c, m) \cap Above(c, b) = {}
      BY <2>4, <2>5, <2>6 DEF Last
    <3>2. ~(Value(c, b) < y \/ (Value(c, b) = y /\ b[2] < 1))
      BY <2>3, <2>4, <3>1 DEF Above, Before
    <3>3. Value(c, b) = y /\ b[2] = 1
      BY <1>0, <2>1, <3>1, <3>2
    <3>4. ASSUME NEW i \in Plain(c) PROVE <<i, 0>> \in Above(c, b) <=> c[i].off > y
      <4>1. /\ c[i].off \in Int /\ Value(c, <<i, 0>>) = c[i].off
            /\ <<i, 0>> \in Edges(c) /\ <<i, 0>>[2] = 0
        BY PlainTypes DEF Edges
      <4> QED BY <2>1, <3>3, <4>1 DEF Above, Before
    <3>5. {i \in Plain(c) : <<i, 0>> \in Above(c, b)} = {i \in Plain(c) : c[i].off > y}
      BY <3>4
    <3> QED BY <3>3, <3>5 DEF Of
  <2> QED BY <1>2, <2>4, <2>6 DEF y, C
<1> QED BY <1>1, <1>2

(* Fewer than half as falsetickers leave at least one truechimer. *)
LEMMA AllowanceIs ==
    ASSUME NEW n \in Nat, NEW f \in Allowances(n)
    PROVE  f \in Nat /\ n - f \in Nat \ {0} /\ 2 * f < n
BY DEF Allowances

(* The midpoints a scan passed on either side are those outside the        *)
(* interval found.                                                         *)
LEMMA MidpointsOutside ==
    ASSUME NEW c \in Seq(Candidate), NEW x \in Int, NEW y \in Int, x < y
    PROVE  Cardinality({i \in Plain(c) : c[i].off < x})
           + Cardinality({i \in Plain(c) : c[i].off > y})
           = Cardinality({i \in Plain(c) : c[i].off \notin x..y})
<1> DEFINE A == {i \in Plain(c) : c[i].off < x}
           B == {i \in Plain(c) : c[i].off > y}
           N == {i \in Plain(c) : c[i].off \notin x..y}
<1>1. \A i \in Plain(c) : c[i].off \in Int
  BY PlainTypes
<1>2. A \cup B = N /\ A \cap B = {} /\ A \in SUBSET Plain(c) /\ B \in SUBSET Plain(c)
  BY <1>1
<1> HIDE DEF A, B, N
<1>3. /\ IsFiniteSet(A) /\ IsFiniteSet(B)
      /\ Cardinality(A) \in Nat /\ Cardinality(B) \in Nat
  BY <1>2, PlainSubset
<1>4. Cardinality(A \cup B) = Cardinality(A) + Cardinality(B) - Cardinality(A \cap B)
  BY <1>3, FS_Union
<1>5. Cardinality(A \cap B) = 0
  BY <1>2, FS_EmptySet
<1>6. Cardinality(N) = Cardinality(A) + Cardinality(B) - 0
  BY <1>2, <1>4, <1>5, Zenon
<1>7. Cardinality(A) + Cardinality(B) = Cardinality(N)
  BY <1>3, <1>6
<1> QED BY <1>7 DEF A, B, N

(* A scan succeeds just where its allowance is agreeable, and finds the    *)
(* hull of the points the others share.                                    *)
LEMMA ScanIs ==
    ASSUME NEW c \in Seq(Candidate), NEW f \in Allowances(Cardinality(Plain(c)))
    PROVE  /\ Scan(c, Cardinality(Plain(c)), f).ok <=> Agreeable(c, f)
           /\ Agreeable(c, f) =>
                /\ Scan(c, Cardinality(Plain(c)), f).lo =
                     Least(Covered(c, Cardinality(Plain(c)) - f))
                /\ Scan(c, Cardinality(Plain(c)), f).hi =
                     Greatest(Covered(c, Cardinality(Plain(c)) - f))
<1> DEFINE n == Cardinality(Plain(c))
           m == n - f
           C == Covered(c, m)
           x == Least(C)
           y == Greatest(C)
           a == First(c, m)
           b == Last(c, m)
           mids == Of(c, Below(c, a), 0) + Of(c, Above(c, b), 0)
           out == {i \in Plain(c) : c[i].off \notin x..y}
<1>0. n \in Nat /\ f \in Nat /\ m \in Nat \ {0}
  BY PlainTypes, AllowanceIs
<1>1. Scan(c, n, f) =
        IF Up(c, m) = {} \/ Down(c, m) = {} THEN [ok |-> FALSE, lo |-> 0, hi |-> 0]
        ELSE [ok |-> mids <= f /\ Value(c, b) > Value(c, a),
              lo |-> Value(c, a), hi |-> Value(c, b)]
  BY DEF Scan, Up, Down, First, Last
<1>2. Agreeable(c, f) <=> (C # {} /\ x < y /\ Cardinality(out) <= f)
  BY DEF Agreeable
<1> HIDE DEF m, n
<1>3. CASE C = {}
  <2>1. Up(c, m) = {}
    BY <1>0, <1>3, ScanUp
  <2> HIDE DEF C, x, y, a, b, mids, out
  <2>2. Scan(c, n, f) = [ok |-> FALSE, lo |-> 0, hi |-> 0]
    BY <1>1, <2>1, Zenon
  <2>3. ~Scan(c, n, f).ok /\ ~Agreeable(c, f)
    BY <1>2, <1>3, <2>2
  <2> QED BY <2>3 DEF n
<1>4. CASE C # {}
  <2>1. Up(c, m) # {} /\ Down(c, m) # {}
    BY <1>0, <1>4, ScanUp, ScanDown
  <2>2. /\ Value(c, a) = x
        /\ Of(c, Below(c, a), 0) = Cardinality({i \in Plain(c) : c[i].off < x})
    BY <1>0, <1>4, ScanUp
  <2>3. /\ Value(c, b) = y
        /\ Of(c, Above(c, b), 0) = Cardinality({i \in Plain(c) : c[i].off > y})
    BY <1>0, <1>4, ScanDown
  <2>4. x \in Int /\ y \in Int
    BY <1>0, <1>4, CoveredEnds
  <2>5. x < y => mids = Cardinality(out)
    <3> HIDE DEF x, y, a, b
    <3>1. x < y => Cardinality({i \in Plain(c) : c[i].off < x})
                     + Cardinality({i \in Plain(c) : c[i].off > y}) = Cardinality(out)
      BY <2>4, MidpointsOutside, Zenon
    <3> QED BY <2>2, <2>3, <3>1, Zenon
  <2> HIDE DEF C, x, y, a, b, mids, out
  <2> DEFINE good == mids <= f /\ Value(c, b) > Value(c, a)
  <2>6. Scan(c, n, f) = [ok |-> good, lo |-> Value(c, a), hi |-> Value(c, b)]
    BY <1>1, <2>1, Zenon
  <2>7. /\ Scan(c, n, f).ok <=> (mids <= f /\ y > x)
        /\ Scan(c, n, f).lo = x /\ Scan(c, n, f).hi = y
    <3>1. /\ Scan(c, n, f).ok = good
          /\ Scan(c, n, f).lo = Value(c, a) /\ Scan(c, n, f).hi = Value(c, b)
      <4> HIDE DEF good
      <4> QED BY <2>6
    <3>2. Value(c, a) = x /\ Value(c, b) = y
      BY <2>2, <2>3
    <3> QED BY <3>1, <3>2, Zenon
  <2>8. y > x <=> x < y
    BY <2>4
  <2>9. Scan(c, n, f).ok <=> Agreeable(c, f)
    BY <1>2, <1>4, <2>5, <2>7, <2>8
  <2> QED BY <2>7, <2>9 DEF n, m, C, x, y
<1> QED BY <1>3, <1>4

(* The truechimers as the algorithm is defined by: those that meet the     *)
(* hull of the points shared by all but the fewest falsetickers, a         *)
(* minority, that leave it agreeable.                                      *)
Minorities(c) ==
    {f \in 0..Cardinality(Plain(c)) : 2 * f < Cardinality(Plain(c)) /\ Agreeable(c, f)}
Shared(c) == Covered(c, Cardinality(Plain(c)) - Least(Minorities(c)))
Truechimers(c) ==
    IF Minorities(c) = {} THEN {}
    ELSE {i \in Plain(c) : High(c, i) >= Least(Shared(c)) /\ Low(c, i) <= Greatest(Shared(c))}

LEMMA MinorityIs ==
    ASSUME NEW c \in Seq(Candidate), Minorities(c) # {}
    PROVE  /\ Least(Minorities(c)) \in Minorities(c)
           /\ Least(Minorities(c)) \in Allowances(Cardinality(Plain(c)))
<1> DEFINE M == Minorities(c)
           n == Cardinality(Plain(c))
<1>1. n \in Nat
  BY PlainTypes
<1>2. M \in SUBSET (0..n) /\ 0..n \in SUBSET Int /\ IsFiniteSet(0..n)
  BY <1>1, FS_Interval DEF Minorities
<1>3. IsFiniteSet(M) /\ M \in SUBSET Int
  BY <1>2, FS_Subset
<1>4. Least(M) \in M
  <2> HIDE DEF M
  <2> QED BY <1>3, LeastIs DEF M
<1> QED BY <1>4 DEF Minorities, Allowances

(* intersect returns them. *)
LEMMA IntersectIs ==
    ASSUME NEW c \in Seq(Candidate)
    PROVE  Intersect(c) = Truechimers(c)
<1> DEFINE n == Cardinality(Plain(c))
           ok == {f \in Allowances(n) : Scan(c, n, f).ok}
           r == Scan(c, n, Least(ok))
<1>1. ok = Minorities(c)
  BY ScanIs DEF Minorities, Allowances
<1>2. Intersect(c) = IF ok = {} THEN {}
                     ELSE {i \in Plain(c) : High(c, i) >= r.lo /\ Low(c, i) <= r.hi}
  BY DEF Intersect
<1> HIDE DEF ok
<1>3. CASE Minorities(c) = {}
  BY <1>1, <1>2, <1>3 DEF Truechimers
<1>4. CASE Minorities(c) # {}
  <2>1. Least(ok) \in Minorities(c) /\ Least(ok) \in Allowances(n)
    BY <1>1, <1>4, MinorityIs
  <2>2. Agreeable(c, Least(ok))
    BY <2>1 DEF Minorities
  <2>3. r.lo = Least(Shared(c)) /\ r.hi = Greatest(Shared(c))
    BY <1>1, <2>1, <2>2, ScanIs DEF Shared
  <2> HIDE DEF r
  <2> QED BY <1>1, <1>2, <1>4, <2>3, Zenon DEF Truechimers
<1> QED BY <1>3, <1>4

(* Some point lies in more than half of the intervals, all truechimers'.   *)
LEMMA MajorityShares ==
    ASSUME NEW c \in Seq(Candidate), Intersect(c) # {}
    PROVE  /\ Covered(c, (Cardinality(Plain(c)) \div 2) + 1) # {}
           /\ 2 * Cardinality(Intersect(c)) > Cardinality(Plain(c))
<1> DEFINE n == Cardinality(Plain(c))
           f == Least(Minorities(c))
           C == Shared(c)
           p == Least(C)
           y == Greatest(C)
           k == Cardinality(Covering(c, p))
           t == Cardinality(Intersect(c))
<1>1. Minorities(c) # {} /\ Intersect(c) = Truechimers(c)
  BY IntersectIs DEF Truechimers
<1>2. f \in Minorities(c) /\ f \in Allowances(n)
  BY <1>1, MinorityIs
<1>3. n \in Nat
  BY PlainTypes
<1>4. f \in Nat /\ n - f \in Nat \ {0} /\ 2 * f < n
  BY <1>2, <1>3, AllowanceIs
<1>5. C = Covered(c, n - f) /\ C # {}
  BY <1>2 DEF Shared, Minorities, Agreeable
<1>6. p \in C /\ p \in Int /\ p <= y
  BY <1>4, <1>5, CoveredEnds
<1>7. k >= n - f
  BY <1>4, <1>5, <1>6, CoveredIs
<1>8. Covering(c, p) \in SUBSET Intersect(c) /\ Intersect(c) \in SUBSET Plain(c)
  <2>1. Truechimers(c) = {i \in Plain(c) : High(c, i) >= p /\ Low(c, i) <= y}
    BY <1>1 DEF Truechimers
  <2>2. p \in Int /\ y \in Int /\ p <= y
    BY <1>4, <1>5, CoveredEnds
  <2>3. \A i \in Plain(c) : Low(c, i) \in Int /\ High(c, i) \in Int
    BY PlainTypes
  <2> HIDE DEF p, y
  <2>4. \A i \in Plain(c) : Low(c, i) <= p /\ p <= High(c, i)
                              => High(c, i) >= p /\ Low(c, i) <= y
    BY <2>2, <2>3
  <2> QED BY <1>1, <2>1, <2>4 DEF Covering
<1>9. IsFiniteSet(Intersect(c)) /\ t \in Nat
  BY <1>8, PlainSubset
<1>10. k \in Nat /\ k <= t
  <2>1. Covering(c, p) \in SUBSET Plain(c)
    BY <1>8
  <2> QED BY <1>8, <1>9, <2>1, PlainSubset, FS_Subset
<1> HIDE DEF n, f, C, p, y, k, t
<1>11. 2 * t > n
  BY <1>3, <1>4, <1>7, <1>9, <1>10
<1>12. (n \div 2) + 1 \in Nat \ {0} /\ k >= (n \div 2) + 1
  <2>1. n \div 2 \in Nat /\ 2 * (n \div 2) <= n
    BY <1>3
  <2> HIDE DEF n
  <2> QED BY <1>3, <1>4, <1>7, <1>10, <2>1
<1>13. p \in Covered(c, (n \div 2) + 1)
  BY <1>6, <1>12, CoveredIs DEF k
<1> QED BY <1>11, <1>13 DEF n, t

-----------------------------------------------------------------------------
(* SelectAt *)

LEMMA LeastOfTwo ==
    ASSUME NEW a \in Int, NEW b \in Int
    PROVE  Least({a, b}) <= a /\ Least({a, b}) <= b /\ Least({a, b}) \in Int
<1>1. \E x \in {a, b} : \A y \in {a, b} : x <= y
  OBVIOUS
<1>2. Least({a, b}) \in {a, b} /\ \A y \in {a, b} : Least({a, b}) <= y
  BY <1>1 DEF Least
<1> QED BY <1>2

(* The survivors are truechimers that cluster kept, and pulses that one of *)
(* those vouches for.                                                      *)
LEMMA SurvivorsAre ==
    ASSUME NEW c \in Seq(Candidate)
    PROVE  LET kept == Cluster(c, Intersect(c))
               s == SelectAt(c)
           IN  /\ s.trues = Intersect(c) /\ s.trues \in SUBSET Plain(c)
               /\ s.survivors = kept \cup Pulses(c, kept)
               /\ kept \in SUBSET s.trues
               /\ Cardinality(kept) >= ClusterMin \/ kept = s.trues
               /\ s.system = System(c, s.survivors)
<1>1. Intersect(c) \in SUBSET Plain(c)
  BY IntersectIs DEF Truechimers
<1>2. Plain(c) \in SUBSET (1..Len(c))
  BY DEF Plain
<1>3. Intersect(c) \in SUBSET (1..Len(c))
  BY <1>1, <1>2
<1>4. /\ Cluster(c, Intersect(c)) \in SUBSET Intersect(c)
      /\ \/ Cardinality(Cluster(c, Intersect(c))) >= ClusterMin
         \/ Cluster(c, Intersect(c)) = Intersect(c)
  BY <1>3, ClusterKeeps
<1> QED BY <1>1, <1>4 DEF SelectAt

(* Whatever is selected was computed from the candidates. *)
SelInv == srcs \in Inputs /\ (sel = Pending \/ sel = SelectAt(srcs))

LEMMA SelInvHolds == SelSpec => []SelInv
<1>1. SelInit => SelInv
  BY DEF SelInit, SelInv
<1>2. SelInv /\ [Select]_selVars => SelInv'
  BY DEF SelInv, Select, selVars
<1> QED BY <1>1, <1>2, PTL DEF SelSpec

LEMMA SelInvTypes ==
    ASSUME SelInv
    PROVE  srcs \in Seq(Candidate) /\ (Selected => sel = SelectAt(srcs))
BY SelectionConstants DEF SelInv, Selected

(***************************************************************************)
(* The edge scan of intersect computes, for any number of candidates, what *)
(* its comment defines: the hull of the points shared by the most          *)
(* intervals, with the fewest falsetickers that leave it agreeable.        *)
(***************************************************************************)
THEOREM ScanComputesMarzullo == SelSpec => []IntersectIsMarzullo
<1>1. SelInv => IntersectIsMarzullo
  <2> SUFFICES ASSUME SelInv, Selected
               PROVE  sel.trues = Truechimers(srcs)
    BY DEF IntersectIsMarzullo, Truechimers, Minorities, Shared
  <2>1. srcs \in Seq(Candidate) /\ sel = SelectAt(srcs)
    BY SelInvTypes
  <2> QED BY <2>1, SurvivorsAre, IntersectIs
<1> QED BY <1>1, SelInvHolds, PTL

(***************************************************************************)
(* A source drives the clock only with a majority of the candidates behind *)
(* it, however many there are (intersect, cluster).                        *)
(***************************************************************************)
THEOREM SelectionHasMajority == SelSpec => []MajorityRules
<1>1. SelInv => MajorityRules
  <2> SUFFICES ASSUME SelInv, Selected, sel.system # 0
               PROVE  /\ Covered(srcs, (Cardinality(Plain(srcs)) \div 2) + 1) # {}
                      /\ 2 * Cardinality(sel.trues) > Cardinality(Plain(srcs))
                      /\ Cardinality(sel.survivors \cap Plain(srcs))
                            >= Least({ClusterMin, Cardinality(sel.trues)})
    BY DEF MajorityRules
  <2> DEFINE kept == Cluster(srcs, Intersect(srcs))
  <2>1. srcs \in Seq(Candidate) /\ sel = SelectAt(srcs)
    BY SelInvTypes
  <2>2. /\ sel.trues = Intersect(srcs) /\ sel.trues \in SUBSET Plain(srcs)
        /\ sel.survivors = kept \cup Pulses(srcs, kept)
        /\ kept \in SUBSET sel.trues
        /\ Cardinality(kept) >= ClusterMin \/ kept = sel.trues
        /\ sel.system = System(srcs, sel.survivors)
    BY <2>1, SurvivorsAre
  <2> HIDE DEF kept
  <2>3. sel.survivors # {}
    BY <2>2 DEF System
  <2>4. Pulses(srcs, kept) # {} => kept # {}
    BY DEF Pulses, Agrees, Numberers
  <2>5. Intersect(srcs) # {}
    BY <2>2, <2>3, <2>4
  <2>6. Pulses(srcs, kept) \cap Plain(srcs) = {}
    BY DEF Pulses, Plain
  <2>7. sel.survivors \cap Plain(srcs) = kept
    BY <2>2, <2>6
  <2>8. Cardinality(sel.trues) \in Nat /\ Cardinality(kept) \in Nat /\ ClusterMin \in Nat
    <3>1. kept \in SUBSET Plain(srcs)
      BY <2>2
    <3> QED BY <2>1, <2>2, <3>1, PlainSubset, SelectionConstants
  <2>9. Cardinality(kept) >= Least({ClusterMin, Cardinality(sel.trues)})
    <3> DEFINE l == Least({ClusterMin, Cardinality(sel.trues)})
    <3>1. l <= ClusterMin /\ l <= Cardinality(sel.trues) /\ l \in Int
      BY <2>8, LeastOfTwo
    <3> HIDE DEF l
    <3>2. Cardinality(kept) >= l
      BY <2>2, <2>8, <3>1
    <3> QED BY <3>2 DEF l
  <2> QED BY <2>1, <2>2, <2>5, <2>7, <2>9, MajorityShares
<1> QED BY <1>1, SelInvHolds, PTL

(***************************************************************************)
(* A pulse never drives the clock on its own word: whatever the inputs, a  *)
(* source that numbers seconds survived with it and agrees with it         *)
(* (SelectAt, ppsAgreement).                                               *)
(***************************************************************************)
THEOREM PulsesAreVouched == SelSpec => []PulseVouched
<1>1. SelInv => PulseVouched
  <2> SUFFICES ASSUME SelInv, NEW p \in sel.survivors, srcs[p].pps
               PROVE  \E i \in sel.survivors :
                        /\ srcs[i].num /\ ~srcs[i].pps
                        /\ Distance(srcs[i].off, srcs[p].off)
                             <= srcs[i].dist + Greatest({4 * srcs[i].jit, AgreementFloor})
    BY DEF PulseVouched
  <2> DEFINE kept == Cluster(srcs, Intersect(srcs))
  <2>1. srcs \in Seq(Candidate) /\ sel = SelectAt(srcs)
    BY SelInvTypes DEF Selected, Pending
  <2>2. /\ sel.trues \in SUBSET Plain(srcs) /\ kept \in SUBSET sel.trues
        /\ sel.survivors = kept \cup Pulses(srcs, kept)
    BY <2>1, SurvivorsAre
  <2> HIDE DEF kept
  <2>3. \A i \in kept : ~srcs[i].pps
    BY <2>2 DEF Plain
  <2>4. p \in Pulses(srcs, kept)
    BY <2>2, <2>3
  <2>5. PICK i \in Numberers(srcs, kept) :
            Distance(srcs[i].off, srcs[p].off)
                <= srcs[i].dist + Greatest({4 * srcs[i].jit, AgreementFloor})
    BY <2>4 DEF Pulses, Agrees
  <2>6. i \in kept /\ srcs[i].num
    BY <2>5 DEF Numberers
  <2> QED BY <2>2, <2>3, <2>5, <2>6
<1> QED BY <1>1, SelInvHolds, PTL

=============================================================================
