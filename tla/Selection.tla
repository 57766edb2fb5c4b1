----------------------------- MODULE Selection ------------------------------
(***************************************************************************)
(* Selection and clustering (internal/discipline/select.go, SelectAt).  An *)
(* input is the sequence of candidates in configuration order; offsets,    *)
(* distances and jitters are whole units.  A source is named by its index. *)
(***************************************************************************)
EXTENDS Integers, Sequences, FiniteSets

CONSTANTS
    Inputs,             \* the candidate sequences examined
    MinSelected,        \* minSurvivors
    ClusterMin, PPSGuard, AgreementFloor

(* SourceState, as far as selection reads it. *)
Candidate == [off : Int, dist : Nat, jit : Nat, stratum : Nat,
              num : BOOLEAN, pps : BOOLEAN, prefer : BOOLEAN]

ASSUME SelectionConstants ==
    Inputs \subseteq Seq(Candidate) /\ ClusterMin \in Nat /\ AgreementFloor \in Nat

VARIABLES
    srcs,               \* the candidates: Current, Distance, Jitter, Options
    sel                 \* Pending, or the Selection computed from them

selVars == <<srcs, sel>>

Pending == [survivors |-> {}, system |-> -1, trues |-> {}]

Low(c, i) == c[i].off - c[i].dist
High(c, i) == c[i].off + c[i].dist
Least(S) == CHOOSE x \in S : \A y \in S : x <= y
Greatest(S) == CHOOSE x \in S : \A y \in S : x >= y
Distance(x, y) == IF x > y THEN x - y ELSE y - x

-----------------------------------------------------------------------------
(* intersect *)

(* The candidates that carry the number of the second. *)
Plain(c) == {i \in 1..Len(c) : ~c[i].pps}

(* Their low endpoints, midpoints and high endpoints: -1, 0 and 1. *)
Edges(c) == Plain(c) \X {-1, 0, 1}
Value(c, e) == c[e[1]].off + e[2] * c[e[1]].dist

(* Mutant: an interval that ends where another begins ends before it. *)
BeforeClosedFirst(c, e, f) ==
    Value(c, e) < Value(c, f) \/ (Value(c, e) = Value(c, f) /\ e[2] > f[2])

(* The order in which the edges are sorted. *)
Before(c, e, f) ==
    Value(c, e) < Value(c, f) \/ (Value(c, e) = Value(c, f) /\ e[2] < f[2])

Below(c, e) == {f \in Edges(c) : Before(c, f, e)}
Above(c, e) == {f \in Edges(c) : Before(c, e, f)}

(* How many of the edges K are of type t. *)
Of(c, K, t) == Cardinality({i \in Plain(c) : <<i, t>> \in K})

(* The intervals open when the scan from below, or the one from above, has *)
(* passed e and the edges equal to it.  Equal edges are of one type, so it *)
(* makes no difference to where the count is first high enough, nor to the *)
(* midpoints passed by then, that they are passed together.                *)
OpenUp(c, e) == Of(c, Edges(c) \ Above(c, e), -1) - Of(c, Edges(c) \ Above(c, e), 1)
OpenDown(c, e) == Of(c, Edges(c) \ Below(c, e), 1) - Of(c, Edges(c) \ Below(c, e), -1)

(* The scans with allow falsetickers: where each first finds n - allow     *)
(* intervals open, and the midpoints it passed.                            *)
Scan(c, n, allow) ==
    LET up == {e \in Edges(c) : OpenUp(c, e) >= n - allow}
        down == {e \in Edges(c) : OpenDown(c, e) >= n - allow}
    IN  IF up = {} \/ down = {} THEN [ok |-> FALSE, lo |-> 0, hi |-> 0]
        ELSE LET a == CHOOSE e \in up : up \cap Below(c, e) = {}
                 b == CHOOSE e \in down : down \cap Above(c, e) = {}
                 mids == Of(c, Below(c, a), 0) + Of(c, Above(c, b), 0)
             IN  [ok |-> mids <= allow /\ Value(c, b) > Value(c, a),
                  lo |-> Value(c, a), hi |-> Value(c, b)]

(* Mutant: half of the candidates may be falsetickers. *)
AllowancesHalf(n) == {f \in 0..n : 2 * f <= n}

(* Fewer than half of the candidates may be falsetickers. *)
Allowances(n) == {f \in 0..n : 2 * f < n}

(* The truechimers: those whose interval meets the intersection interval. *)
Intersect(c) ==
    LET n == Cardinality(Plain(c))
        ok == {f \in Allowances(n) : Scan(c, n, f).ok}
    IN  IF ok = {} THEN {}
        ELSE LET r == Scan(c, n, Least(ok))
             IN  {i \in Plain(c) : High(c, i) >= r.lo /\ Low(c, i) <= r.hi}

-----------------------------------------------------------------------------
(* cluster *)

(* The square of the selection jitter, times |S| - 1. *)
Spread(c, S, i) ==
    LET square == [j \in S |-> (c[i].off - c[j].off) * (c[i].off - c[j].off)]
        sum[T \in SUBSET S] ==
            IF T = {} THEN 0 ELSE square[Least(T)] + sum[T \ {Least(T)}]
    IN  sum[S]

(* The survivor farthest from the others, the first of equals. *)
Farthest(c, S) ==
    Least({i \in S : \A j \in S : Spread(c, S, i) >= Spread(c, S, j)})

(* Discarding it would not improve the estimate. *)
Tight(c, S) ==
    LET j == Least({c[i].jit : i \in S})
    IN  Spread(c, S, Farthest(c, S)) < (Cardinality(S) - 1) * j * j

Cluster(c, S) ==
    LET f[T \in SUBSET S] ==
            IF Cardinality(T) <= ClusterMin \/ Tight(c, T) THEN T
            ELSE f[T \ {Farthest(c, T)}]
    IN  f[S]

-----------------------------------------------------------------------------
(* SelectAt *)

(* The survivors that say the clock is within the guard band. *)
Numberers(c, S) == {i \in S : c[i].num /\ Distance(c[i].off, 0) < PPSGuard}

(* ppsAgreement: one of them agrees with the pulse within its uncertainty. *)
Agrees(c, p, N) ==
    \E i \in N : Distance(c[i].off, c[p].off)
                     <= c[i].dist + Greatest({4 * c[i].jit, AgreementFloor})

(* Mutant: any numbering source qualifies the pulse. *)
PulsesUnvouched(c, S) ==
    {p \in 1..Len(c) : c[p].pps /\ Numberers(c, S) # {}}

Pulses(c, S) == {p \in 1..Len(c) : c[p].pps /\ Agrees(c, p, Numberers(c, S))}

(* The first in the order of stratum and distance.  The sort is stable and *)
(* the pulses were appended to the other survivors.                        *)
Best(c, S) ==
    LET tied == {i \in S : \A j \in S :
                    \/ c[i].stratum < c[j].stratum
                    \/ c[i].stratum = c[j].stratum /\ c[i].dist <= c[j].dist}
        plain == {i \in tied : ~c[i].pps}
    IN  Least(IF plain # {} THEN plain ELSE tied)

(* A preferred pulse, else a preferred source, else the best survivor. *)
System(c, S) ==
    LET preferred == {i \in S : c[i].prefer}
        pulse == {i \in preferred : c[i].pps}
    IN  IF S = {} \/ Cardinality(S) < MinSelected THEN 0
        ELSE Best(c, IF pulse # {} THEN pulse
                     ELSE IF preferred # {} THEN preferred ELSE S)

SelectAt(c) ==
    LET trues == Intersect(c)
        kept == Cluster(c, trues)
        all == kept \cup Pulses(c, kept)
    IN  [trues |-> trues, survivors |-> all, system |-> System(c, all)]

SelInit == srcs \in Inputs /\ sel = Pending

Select == sel = Pending /\ sel' = SelectAt(srcs) /\ UNCHANGED srcs

SelSpec == SelInit /\ [][Select]_selVars

-----------------------------------------------------------------------------

Selected == sel # Pending

(* The points of the offset scale that at least m intervals contain. *)
Covering(c, p) == {i \in Plain(c) : Low(c, i) <= p /\ p <= High(c, i)}
Covered(c, m) ==
    {p \in UNION {Low(c, i)..High(c, i) : i \in Plain(c)} : Cardinality(Covering(c, p)) >= m}

(* Allowing f falsetickers, the hull of the points the others share leaves *)
(* out at most f midpoints and is more than a point.                       *)
Agreeable(c, f) ==
    LET C == Covered(c, Cardinality(Plain(c)) - f)
    IN  /\ C # {} /\ Least(C) < Greatest(C)
        /\ Cardinality({i \in Plain(c) : c[i].off \notin Least(C)..Greatest(C)}) <= f

(***************************************************************************)
(* The edge scan of intersect computes what its comment defines: the hull  *)
(* of the points shared by the most intervals, with the fewest             *)
(* falsetickers, a minority, that leave it agreeable.                      *)
(***************************************************************************)
IntersectIsMarzullo ==
    Selected =>
        LET n == Cardinality(Plain(srcs))
            F == {f \in 0..n : 2 * f < n /\ Agreeable(srcs, f)}
        IN  sel.trues =
                IF F = {} THEN {}
                ELSE LET C == Covered(srcs, n - Least(F))
                     IN  {i \in Plain(srcs) : High(srcs, i) >= Least(C)
                                             /\ Low(srcs, i) <= Greatest(C)}

(***************************************************************************)
(* A source drives the clock only with a majority of the candidates behind *)
(* it: more than half of the intervals have a point in common, as many     *)
(* meet the interval found, and clustering never thins the survivors below *)
(* ClusterMin (intersect, cluster).                                        *)
(***************************************************************************)
MajorityRules ==
    Selected /\ sel.system # 0 =>
        /\ Covered(srcs, (Cardinality(Plain(srcs)) \div 2) + 1) # {}
        /\ 2 * Cardinality(sel.trues) > Cardinality(Plain(srcs))
        /\ Cardinality(sel.survivors \cap Plain(srcs))
               >= Least({ClusterMin, Cardinality(sel.trues)})

(***************************************************************************)
(* A pulse never drives the clock on its own word: a source that numbers   *)
(* seconds survived with it, and their intervals meet but for the          *)
(* allowance (SelectAt: the signature of a pulse on the wrong edge).       *)
(***************************************************************************)
PulseVouched ==
    \A p \in sel.survivors : srcs[p].pps =>
        \E i \in sel.survivors :
            /\ srcs[i].num /\ ~srcs[i].pps
            /\ Distance(srcs[i].off, srcs[p].off)
                   <= srcs[i].dist + Greatest({4 * srcs[i].jit, AgreementFloor})

=============================================================================
