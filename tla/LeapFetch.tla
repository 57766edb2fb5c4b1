------------------------------ MODULE LeapFetch ------------------------------
(***************************************************************************)
(* Fetching a leap table from a peer, chunk by chunk, in the extension     *)
(* fields of authenticated NTP packets: fetch and exchange of              *)
(* internal/leap/fetch.go against Reply of wire.go, over a network that    *)
(* loses, repeats, delays and reorders, while the peer may replace the     *)
(* table it distributes.                                                   *)
(***************************************************************************)
EXTENDS Naturals, FiniteSets, Sequences

CONSTANTS
    Tables,             \* the objects; byte k of table o is <<o, k>>
    Size, Date,         \* table -> its bytes; its dates, which order the editions
    NoObject,
    ChunkSize,
    MaxAttempts,        \* datagrams sent for one request
    MaxSent             \* bound: datagrams sent in one fetch

ASSUME FetchConstants ==
    /\ NoObject \notin Tables
    /\ Size \in [Tables -> Nat \ {0}] /\ Date \in [Tables -> Nat]
    /\ ChunkSize \in Nat \ {0} /\ MaxAttempts \in Nat /\ MaxSent \in Nat

VARIABLES
    cached,             \* the client's anchor
    current,            \* what the distributor has, or NoObject
    wire,               \* datagrams that may still arrive, once, again or never
    req,                \* the request in flight, or NoRequest
    want,               \* the manifest of the transfer
    data,               \* the bytes assembled
    fetched             \* what fetch returned: an object, or NoObject

fetchVars == <<cached, current, wire, req, want, data, fetched>>

NoRequest == [op |-> "none"]

SmallerOf(x, y) == IF x <= y THEN x ELSE y
Bytes(o, from, n) == [i \in 1..n |-> <<o, from + i - 1>>]

(* Message.validate, for what a request or a reply may carry. *)
Valid(m) ==
    CASE m.op = "probe" -> m.offset = 0 /\ m.data = <<>>
      [] m.op = "manifest" -> m.offset = 0 /\ m.data = <<>> /\ (m.ok <=> m.obj # NoObject)
      [] m.op = "get" -> /\ m.obj # NoObject /\ m.offset < Size[m.obj]
                         /\ m.offset % ChunkSize = 0 /\ m.data = <<>>
      [] m.op = "data" -> /\ m.obj # NoObject /\ m.offset < Size[m.obj]
                          /\ m.offset % ChunkSize = 0
                          /\ Len(m.data) = IF m.ok THEN SmallerOf(ChunkSize, Size[m.obj] - m.offset)
                                                   ELSE 0

(* Reply: stateless, from the table the distributor has now. *)
ReplyTo(m, o) ==
    IF m.op = "probe"
    THEN [op |-> "manifest", id |-> m.id, obj |-> o, offset |-> 0, ok |-> o # NoObject, data |-> <<>>]
    ELSE [op |-> "data", id |-> m.id, obj |-> m.obj, offset |-> m.offset, ok |-> o = m.obj,
          data |-> IF o = m.obj
                   THEN Bytes(o, m.offset, SmallerOf(ChunkSize, Size[o] - m.offset))
                   ELSE <<>>]

Answers == [probe |-> "manifest", get |-> "data"]

(* Mutant: a reply is matched by its operation and table alone. *)
CheckReplyLoosely(r) == r.op = Answers[req.op] /\ (req.op = "get" => r.obj = req.obj)

(* checkReply: the random identifier, the operation, and for a chunk the    *)
(* table and the offset.                                                    *)
CheckReply(r) ==
    /\ r.id = req.id /\ r.op = Answers[req.op]
    /\ req.op = "get" => r.obj = req.obj /\ r.offset = req.offset

(* CheckManifest: the cached table, or one with later dates. *)
CheckManifest(o) == cached = NoObject \/ o = cached \/ Date[o] > Date[cached]

-----------------------------------------------------------------------------
FetchInit ==
    /\ cached \in Tables \cup {NoObject} /\ current \in Tables
    /\ wire = {} /\ req = NoRequest /\ want = NoObject /\ data = <<>> /\ fetched = NoObject

(* The request sent next: its identifier is drawn anew for every datagram. *)
Message(op, o, offset, id) == [op |-> op, obj |-> o, offset |-> offset, data |-> <<>>,
                               ok |-> TRUE, id |-> id]
NewId == IF req = NoRequest THEN <<0, 1>> ELSE <<req.id[1] + 1, 1>>

Exchange(r) == req' = r /\ wire' = wire \cup {r}

StartFetch ==
    /\ req = NoRequest /\ fetched = NoObject
    /\ Exchange(Message("probe", NoObject, 0, NewId))
    /\ UNCHANGED <<cached, current, want, data, fetched>>

(* Every way fetch ends; the connection, and what is under way, go with it. *)
Ends(o) == req' = NoRequest /\ wire' = {} /\ want' = NoObject /\ data' = <<>> /\ fetched' = o

Sent == {m \in wire : m.op \in DOMAIN Answers}

(* The wait for a reply times out: sent again, or given up. *)
AskAgain ==
    /\ req # NoRequest
    /\ req.id[2] < MaxAttempts => Cardinality(Sent) < MaxSent
    /\ IF req.id[2] < MaxAttempts
       THEN Exchange([req EXCEPT !.id[2] = @ + 1]) /\ UNCHANGED <<want, data, fetched>>
       ELSE Ends(NoObject)
    /\ UNCHANGED <<cached, current>>

(* The manifest: no table, one refused, the cached one, or one to get. *)
GetManifest ==
    \E r \in wire :
        /\ req.op = "probe" /\ Valid(r) /\ CheckReply(r)
        /\ IF r.ok /\ CheckManifest(r.obj) /\ r.obj # cached
           THEN /\ want' = r.obj /\ Exchange(Message("get", r.obj, 0, NewId))
                /\ UNCHANGED <<data, fetched>>
           ELSE Ends(NoObject)
        /\ UNCHANGED <<cached, current>>

(* NewObject and the digest: the bytes are those of the manifest's table.   *)
Matches(d, o) == d = Bytes(o, 0, Size[o])

GetChunk ==
    \E r \in wire :
        /\ req.op = "get" /\ Valid(r) /\ CheckReply(r)
        /\ LET d == data \o r.data
               next == req.offset + ChunkSize
           IN  IF ~r.ok THEN Ends(NoObject)
               ELSE IF next < Size[want]
               THEN data' = d /\ Exchange(Message("get", want, next, NewId)) /\ UNCHANGED <<want, fetched>>
               ELSE Ends(IF Matches(d, want) THEN want ELSE NoObject)
        /\ UNCHANGED <<cached, current>>

(* A RATE or DENY kiss, or a reply without the extension: fetch gives up. *)
Refused ==
    /\ req # NoRequest /\ Ends(NoObject)
    /\ UNCHANGED <<cached, current>>

(* Respond: a request arrives, within the distributor's budgets. *)
Distribute ==
    /\ \E m \in wire : m.op \in DOMAIN Answers /\ Valid(m)
                        /\ wire' = wire \cup {ReplyTo(m, current)}
    /\ UNCHANGED <<cached, current, req, want, data, fetched>>

(* External: the distributor installs a later table, or its own expires. *)
Replaced ==
    /\ current # NoObject
    /\ current' \in {o \in Tables : Date[o] > Date[current]} \cup {NoObject}
    /\ UNCHANGED <<cached, wire, req, want, data, fetched>>

FetchNext == StartFetch \/ AskAgain \/ GetManifest \/ GetChunk \/ Refused
             \/ Distribute \/ Replaced

FetchSpec == FetchInit /\ [][FetchNext]_fetchVars

-----------------------------------------------------------------------------

(***************************************************************************)
(* What has been assembled is always the beginning of the manifest's own   *)
(* table, each chunk once and in place: no reply to an earlier attempt, no *)
(* repeated one and none about a replaced table gets in.                   *)
(***************************************************************************)
ChunksInPlace == want # NoObject => data = Bytes(want, 0, req.offset)

=============================================================================
