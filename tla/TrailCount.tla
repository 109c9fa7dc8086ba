----------------------------- MODULE TrailCount -----------------------------
(***************************************************************************)
(* Counting the paths of a bounded hop without walking them (the degree    *)
(* algebra of crates/lenke-engine/src/exec/fastpath.rs).  A walk count     *)
(* obeys a recurrence over vertices, one level per hop; a trail, which may *)
(* not use an edge twice, is a walk minus those that do, and the code has  *)
(* a closed term for them at two, three and four hops.  Four predicates    *)
(* are folded in, each at its own place of a path.                         *)
(*                                                                         *)
(* An edge here is the pair of the node a hop stands on and the node it    *)
(* reaches, so both instances of the code, over Store::out and over        *)
(* Store::inc, are this one.  The cost estimate that picks this way over   *)
(* enumeration is left out: both must count the same.                      *)
(***************************************************************************)
EXTENDS Integers, Sequences, FiniteSets, FiniteSetsExt, SequencesExt

CONSTANTS
    Corners,        \* dense node ids
    Counts,         \* the counts asked for, a set of records: see CountType
    Widest          \* the largest u64

CountType ==
    [graph : Seq([from : Corners, to : Corners]),   \* the wanted edges, by edge id
     src : Seq(Corners),                            \* the source of every input row
     trail : BOOLEAN,                               \* a trail, or else a walk
     min : Nat, max : Nat,
     pass : SUBSET Corners,                         \* the predicate on a path's end
     body : SUBSET Corners,                         \* on every node it lands on
     cut : SUBSET Nat,                              \* edges the traversal mask refuses
     seed : SUBSET Corners]                         \* on the source, for every hop

(* The gate of try_degree_algebra; and gql.rs refuses a quantifier whose    *)
(* lower bound is above its upper one, where gremlin.rs answers nothing.   *)
ASSUME CountAssumption ==
    /\ Counts \subseteq CountType
    /\ \A count \in Counts : count.min <= count.max
    /\ \A count \in Counts :
         count.trail => \/ count.max <= 3
                        \/ /\ count.max = 4 /\ count.cut = {}
                           /\ count.pass = Corners /\ count.body = Corners
                           /\ count.seed = Corners
ASSUME WidestAssumption == Widest \in Nat

VARIABLES
    goal,           \* the count asked for
    level,          \* len
    ways,           \* u: the walks of this length from each node
    ways2, trails3, \* walk2 and t3, kept for the fourth level
    total           \* the count so far, or Declined

countVars == <<goal, level, ways, ways2, trails3, total>>

Declined == -1

(* the edges a hop may take from v *)
HopsFrom(v) ==
    {e \in DOMAIN goal.graph :
        goal.graph[e].from = v /\ goal.graph[e].to \in goal.body /\ e \notin goal.cut}
Landing(e) == goal.graph[e].to
Pass(v) == IF v \in goal.pass THEN 1 ELSE 0

(* Trail3Tables, and mult *)
SelfLoops(v) == Cardinality({e \in HopsFrom(v) : Landing(e) = v})
PassDegree(v) == Cardinality({e \in HopsFrom(v) : Landing(e) \in goal.pass})
Mult(x, y) == Cardinality({e \in HopsFrom(x) : Landing(e) = y})

(* a term for every input row, added *)
OverSources(term) == SumFunction([n \in DOMAIN goal.src |-> term[goal.src[n]]])
Seeded(v) == v \in goal.seed

-----------------------------------------------------------------------------
(* The terms of the corrections. *)

(* Mutant: whether a reverse edge exists, not how many. *)
Reused3Once(v) ==
    LET landings == {e \in HopsFrom(v) : Landing(e) \in goal.pass} IN
    SelfLoops(v) * PassDegree(v)
    + SumFunction([e \in landings |-> SelfLoops(Landing(e))
                                      + IF Mult(Landing(e), v) > 0 THEN 1 ELSE 0])
    - 2 * SelfLoops(v) * Pass(v)

(* reused_trails_at_3: the walks of three hops that use an edge twice.     *)
(* First and second the same, second and third, first and third; a loop    *)
(* taken three times is in all of them.                                    *)
Reused3(v) ==
    LET landings == {e \in HopsFrom(v) : Landing(e) \in goal.pass} IN
    SelfLoops(v) * PassDegree(v)
    + SumFunction([e \in landings |-> SelfLoops(Landing(e)) + Mult(Landing(e), v)])
    - 2 * SelfLoops(v) * Pass(v)

(* used_trails_at_3: the trails of three hops from b that use a given edge *)
(* from a to b, by the place it takes among them                           *)
Used3(b, a) ==
    LET loops == SelfLoops(b)
        degree == Cardinality(HopsFrom(b))
        back(e) == IF Landing(e) = b THEN loops - 2 ELSE Mult(Landing(e), b)
        uses ==
            IF a = b
            THEN (ways2[b] - loops * degree + (loops - 1) * (degree - 2))
                 + (loops - 1) * (degree - 2)
                 + (SumFunction([e \in HopsFrom(b) |-> back(e)]) - (loops - 2))
            ELSE Mult(b, a) * (degree - 1)
                 + SumFunction([e \in HopsFrom(b) |-> Mult(Landing(e), a)])
    IN  IF uses > 0 THEN uses ELSE 0

(* saturating_sub *)
Less(m, n) == IF m > n THEN m - n ELSE 0

(* trails_at_4_from: an edge, then a trail of three that does not use it *)
Trails4(s) ==
    SumFunction([e \in HopsFrom(s) |-> Less(trails3[Landing(e)], Used3(Landing(e), s))])

(* The walks of this level that are no trails. *)
Reused(s, walks, len) ==
    CASE len = 1 -> 0
      [] len = 2 -> SelfLoops(s) * Pass(s)
      [] len = 3 -> Reused3(s)
      [] len = 4 -> Less(walks, Trails4(s))

-----------------------------------------------------------------------------

(* The path of no hops ends where it starts, and no seed is asked. *)
ZeroLength ==
    IF goal.min = 0 THEN OverSources([s \in Corners |-> Pass(s)]) ELSE 0

CountInit ==
    /\ goal \in Counts
    /\ level = 0
    /\ ways = [v \in Corners |-> Pass(v)]
    /\ ways2 = <<>> /\ trails3 = <<>>
    /\ total = ZeroLength

(* degree_algebra_total, for at most two hops.  After two hops over one    *)
(* loop, a trail takes back the one path that used it twice.               *)
ClosedForm ==
    LET one(e) == IF goal.min <= 1 THEN Pass(Landing(e)) ELSE 0
        two(e, s) ==
            IF goal.max < 2 THEN 0
            ELSE PassDegree(Landing(e))
                 - (IF goal.trail /\ Landing(e) = s /\ s \in goal.pass THEN 1 ELSE 0)
        from(s) == IF Seeded(s)
                   THEN SumFunction([e \in HopsFrom(s) |-> one(e) + two(e, s)]) ELSE 0
    IN
    /\ level < goal.max /\ goal.max <= 2
    /\ total' = total + OverSources([s \in Corners |-> from(s)])
    /\ level' = goal.max
    /\ UNCHANGED <<goal, ways, ways2, trails3>>

(* walk_levels_total: one level of the recurrence, its trails corrected *)
NextWays == [v \in Corners |-> SumFunction([e \in HopsFrom(v) |-> ways[Landing(e)]])]

Level ==
    LET len == level + 1
        walks == OverSources([s \in Corners |-> IF Seeded(s) THEN NextWays[s] ELSE 0])
        reused == OverSources([s \in Corners |->
                                IF Seeded(s) THEN Reused(s, NextWays[s], len) ELSE 0])
        gain == walks - (IF goal.trail THEN reused ELSE 0)
    IN
    /\ level < goal.max /\ goal.max >= 3 /\ total # Declined
    /\ level' = len
    /\ ways' = NextWays
    /\ ways2' = IF goal.trail /\ goal.max = 4 /\ len = 2 THEN NextWays ELSE ways2
    /\ trails3' = IF goal.trail /\ goal.max = 4 /\ len = 3
                  THEN [v \in Corners |-> Less(NextWays[v], Reused3(v))] ELSE trails3
    /\ total' =
         IF \/ \E v \in Corners : NextWays[v] > Widest
            \/ len >= goal.min /\ (total + walks > Widest \/ total + gain < 0)
         THEN Declined
         ELSE IF len >= goal.min THEN total + gain ELSE total
    /\ UNCHANGED goal

CountNext == ClosedForm \/ Level

CountSpec == CountInit /\ [][CountNext]_countVars

-----------------------------------------------------------------------------
(* The reference: the paths themselves, as sequences of edges. *)

Longer(path, once) ==
    {Append(path, e) : e \in {f \in DOMAIN goal.graph :
        /\ path # <<>> => goal.graph[f].from = goal.graph[Last(path)].to
        /\ goal.graph[f].to \in goal.body /\ f \notin goal.cut
        /\ once => \A n \in DOMAIN path : path[n] # f}}

(* all the paths of so many hops, an edge once or as often as one likes    *)
Paths(lengths, once) ==
    LET ofLength[n \in 0 .. goal.max] ==
            IF n = 0 THEN {<<>>} ELSE UNION {Longer(path, once) : path \in ofLength[n - 1]}
    IN  UNION {ofLength[n] : n \in lengths}

Enumerated ==
    LET paths == {path \in Paths(goal.min .. goal.max, goal.trail) \ {<<>>} :
                    goal.graph[Last(path)].to \in goal.pass}
        from(s) == (IF goal.min = 0 THEN Pass(s) ELSE 0)
                   + (IF Seeded(s)
                      THEN Cardinality({path \in paths : goal.graph[path[1]].from = s})
                      ELSE 0)
    IN  OverSources([s \in Corners |-> from(s)])

(* The count without the walk is the count of the walk: every path whose   *)
(* end, landings, edges and source the predicates allow, and of a trail    *)
(* none that uses an edge twice - over loops, parallel edges and cycles.   *)
(* The code declines to answer only when the walks leave the width, those  *)
(* of the graph or those of all the input rows.                            *)
TotalsAreExact ==
    /\ level = goal.max /\ total # Declined => total = Enumerated
    /\ total = Declined =>
         LET walks == Cardinality(Paths(0 .. goal.max, FALSE)) IN
         walks > Widest \/ Len(goal.src) * walks > Widest
=============================================================================
