---------------------------- MODULE ShortestPaths ----------------------------
(***************************************************************************)
(* ANY SHORTEST and ALL SHORTEST: a breadth-first search from one source   *)
(* that remembers every predecessor on a shortest path, the paths read     *)
(* back from them, and the search that stops early when the nodes a        *)
(* filter asks for are settled (shortest_path in                           *)
(* crates/lenke-engine/src/exec/varlen.rs, try_shortest_early_stop in      *)
(* exec/reverse.rs).  Rows of other sources share nothing with this one.   *)
(* An edge of another type, or one its predicate refuses, is as if it were *)
(* not there.                                                              *)
(***************************************************************************)
EXTENDS Integers, Sequences, FiniteSets, FiniteSetsExt, SequencesExt

CONSTANTS
    Places,         \* dense node ids
    Errands,        \* a set of records: see ErrandType
    NoBound         \* None, as an upper bound or a distance to stop at

Adj == [nbr : Places, eid : Nat]

ErrandType ==
    [outs : [Places -> Seq(Adj)],             \* Store::out and Store::inc, less the
     incs : [Places -> Seq(Adj)],             \* edges that are not to be walked on
     start : Places,
     dir : {"out", "in", "both"},
     min : Nat, max : Nat \cup {NoBound},
     all : BOOLEAN,                             \* ALL SHORTEST, or else ANY
     track : BOOLEAN,                           \* the input rows carry a path
     targets : SUBSET Places]                   \* early_stop; empty when there is none

(* An adjacency list has an edge once, and both lists of a node have the   *)
(* same edge only if it is a loop.  try_shortest_early_stop declines an    *)
(* empty index bucket, and takes `*` only.                                 *)
ASSUME ErrandAssumption ==
    /\ Errands \subseteq ErrandType
    /\ \A e \in Errands :
         /\ e.targets # {} => e.min = 0
         /\ \A v \in Places :
              /\ IsInjective(e.outs[v]) /\ IsInjective(e.incs[v])
              /\ \A a \in Range(e.outs[v]) \cap Range(e.incs[v]) : a.nbr = v
ASSUME PlacesAssumption == IsFiniteSet(Places)
ASSUME NoBoundAssumption == NoBound \notin Nat

VARIABLES
    errand,         \* the search asked for
    dist,           \* the distance found, or Unseen
    preds,          \* of each node the [from, eid] on its shortest paths
    sighted,        \* `order`: the nodes as they were discovered
    queue,
    hand,           \* the node popped last
    fan,            \* its edges that are still to be looked at
    closing,        \* cycle_edges: [len, tail, eid], back to the source
    missing,        \* `remaining`: targets not found yet
    stopAt,         \* `stop_dist`
    answers,        \* the rows: [end, nodes, edges]
    reported        \* the rows are out

searchState == <<dist, preds, sighted, closing, missing, stopAt>>
errandVars == <<errand, searchState, queue, hand, fan, answers, reported>>

Unseen == -1

(* the adjacency of v: the out list, then the in list; a loop in both *)
AdjsOf(v) ==
    (IF errand.dir = "in" THEN <<>> ELSE errand.outs[v]) \o
    (IF errand.dir = "out" THEN <<>> ELSE errand.incs[v])

ErrandInit ==
    /\ errand \in Errands
    /\ dist = [v \in Places |-> IF v = errand.start THEN 0 ELSE Unseen]
    /\ preds = [v \in Places |-> <<>>]
    /\ sighted = <<errand.start>> /\ queue = <<errand.start>>
    /\ hand = errand.start /\ fan = <<>> /\ closing = <<>>
    /\ missing = Cardinality(errand.targets \ {errand.start})
    /\ stopAt = IF errand.targets = {errand.start} THEN 0 ELSE NoBound
    /\ answers = <<>> /\ reported = FALSE

(* Mutant: the level before the last target is not expanded either. *)
SettledALevelEarly(v) == stopAt # NoBound /\ dist[v] + 1 >= stopAt

Settled(v) == stopAt # NoBound /\ dist[v] >= stopAt
AtCap(v) == errand.max # NoBound /\ dist[v] >= errand.max

Searching == fan = <<>> /\ queue # <<>>

(* every target is found, and all that can precede one is expanded *)
StopSearch ==
    /\ Searching /\ Settled(Head(queue))
    /\ queue' = <<>>
    /\ UNCHANGED <<errand, searchState, hand, fan, answers, reported>>

Expand ==
    /\ Searching /\ ~Settled(Head(queue))
    /\ queue' = Tail(queue)
    /\ hand' = Head(queue)
    /\ fan' = IF AtCap(Head(queue)) THEN <<>> ELSE AdjsOf(Head(queue))
    /\ UNCHANGED <<errand, searchState, answers, reported>>

(* one edge of the node in hand *)
Look ==
    /\ fan # <<>>
    /\ fan' = Tail(fan)
    /\ closing' =
         IF errand.min >= 1 /\ Head(fan).nbr = errand.start
         THEN Append(closing, [len |-> dist[hand] + 1, tail |-> hand, eid |-> Head(fan).eid])
         ELSE closing
    /\ UNCHANGED <<errand, hand, answers, reported>>

Precedes == [preds EXCEPT ![Head(fan).nbr] = Append(@, [from |-> hand, eid |-> Head(fan).eid])]

Sight ==
    /\ Look /\ dist[Head(fan).nbr] = Unseen
    /\ dist' = [dist EXCEPT ![Head(fan).nbr] = dist[hand] + 1]
    /\ preds' = Precedes
    /\ sighted' = Append(sighted, Head(fan).nbr)
    /\ queue' = Append(queue, Head(fan).nbr)
    /\ IF Head(fan).nbr \in errand.targets /\ missing > 0
       THEN /\ missing' = missing - 1
            /\ stopAt' = IF missing = 1 THEN dist[hand] + 1 ELSE stopAt
       ELSE UNCHANGED <<missing, stopAt>>

(* another edge onto a node at its shortest distance *)
Rejoin ==
    /\ Look /\ dist[Head(fan).nbr] = dist[hand] + 1
    /\ preds' = Precedes
    /\ UNCHANGED <<dist, sighted, queue, missing, stopAt>>

LookPast ==
    /\ Look /\ dist[Head(fan).nbr] \notin {Unseen, dist[hand] + 1}
    /\ UNCHANGED <<dist, preds, sighted, queue, missing, stopAt>>

-----------------------------------------------------------------------------
(* The rows of a search. *)

NoPath == [nodes |-> <<>>, edges |-> <<>>]
Onwards(path, v, eid) ==
    [nodes |-> Append(path.nodes, v), edges |-> Append(path.edges, eid)]
AtStart == [nodes |-> <<errand.start>>, edges |-> <<>>]

(* first_pred_chain *)
FirstChain(node) ==
    LET chain[v \in Range(sighted)] ==
            IF v = errand.start THEN AtStart
            ELSE Onwards(chain[preds[v][1].from], v, preds[v][1].eid)
    IN  chain[node]

(* enumerate_shortest_paths *)
AllChains(node) ==
    LET chains[v \in Range(sighted)] ==
            IF v = errand.start THEN <<AtStart>>
            ELSE FlattenSeq([i \in DOMAIN preds[v] |->
                     LET before == chains[preds[v][i].from] IN
                     [j \in DOMAIN before |-> Onwards(before[j], v, preds[v][i].eid)]])
    IN  chains[node]

(* pcount, for ALL when nothing reads a path *)
PathCount(node) ==
    LET ways[v \in Range(sighted)] ==
            IF v = errand.start THEN 1
            ELSE FoldLeft(LAMBDA sum, p : sum + ways[p.from], 0, preds[v])
    IN  ways[node]

(* the rows that end at `node`, over its chains or a count of them *)
RowsOver(end, paths) ==
    [i \in DOMAIN paths |-> [end |-> end, nodes |-> paths[i].nodes, edges |-> paths[i].edges]]
PathsTo(node) ==
    CASE ~errand.all /\ errand.track -> <<FirstChain(node)>>
      [] ~errand.all /\ ~errand.track -> <<NoPath>>
      [] errand.all /\ errand.track -> AllChains(node)
      [] errand.all /\ ~errand.track -> [i \in 1 .. PathCount(node) |-> NoPath]

RowsTo(node) == IF dist[node] < errand.min THEN <<>> ELSE RowsOver(node, PathsTo(node))

(* The source ends a path of at least one hop at the shortest way back. *)
IsLeast(edges, i) == \A n \in DOMAIN edges : edges[i].len <= edges[n].len
Shortest(edges) ==
    FlattenSeq([i \in DOMAIN edges |-> IF IsLeast(edges, i) THEN <<edges[i]>> ELSE <<>>])
Closed(path, c) == IF errand.track THEN Onwards(path, errand.start, c.eid) ELSE NoPath
RowsBack ==
    LET least == Shortest(closing)
        over(c) == LET paths == PathsTo(c.tail) IN [i \in DOMAIN paths |-> Closed(paths[i], c)]
    IN  IF \/ least = <<>> \/ least[1].len < errand.min
           \/ errand.max # NoBound /\ least[1].len > errand.max
        THEN <<>>
        ELSE IF errand.all
        THEN RowsOver(errand.start, FlattenSeq([n \in DOMAIN least |-> over(least[n])]))
        ELSE RowsOver(errand.start, over(least[1]))

Report ==
    /\ fan = <<>> /\ queue = <<>> /\ ~reported
    /\ reported' = TRUE
    /\ answers' = FlattenSeq([n \in DOMAIN sighted |-> RowsTo(sighted[n])]) \o RowsBack
    /\ UNCHANGED <<errand, searchState, queue, hand, fan>>

ErrandNext == StopSearch \/ Expand \/ Sight \/ Rejoin \/ LookPast \/ Report

ErrandSpec == ErrandInit /\ [][ErrandNext]_errandVars

-----------------------------------------------------------------------------
(* The reference: all the walks, by length; to each end the shortest ones. *)

EdgesAt(v) ==
    (IF errand.dir # "in" THEN Range(errand.outs[v]) ELSE {}) \cup
    (IF errand.dir # "out" THEN Range(errand.incs[v]) ELSE {})
WalkOn(walk) ==
    {Onwards(walk, a.nbr, a.eid) : a \in EdgesAt(Last(walk.nodes))}

LongestHop == IF errand.max = NoBound THEN Cardinality(Places) ELSE errand.max

ShortestWalks ==
    LET ofLength[n \in 0 .. LongestHop] ==
            IF n = 0 THEN {AtStart} ELSE UNION {WalkOn(walk) : walk \in ofLength[n - 1]}
        walks == UNION {ofLength[n] : n \in errand.min .. LongestHop}
    IN  {w \in walks : \A x \in walks : Last(x.nodes) = Last(w.nodes) => Len(w.edges) <= Len(x.edges)}

(* The rows a reader sees: with targets, the filter that named them.       *)
Kept == {n \in DOMAIN answers : errand.targets # {} => answers[n].end \in errand.targets}

(* What is answered is what the words say: with ANY, each node that can be *)
(* reached once, over one of the shortest paths; with ALL, once for every  *)
(* shortest path, the paths themselves when they are read and their number *)
(* when they are not.  A search that stops at the targets answers the same *)
(* rows for them as one that does not.                                     *)
ShortestPathsAreExact ==
    reported =>
        LET walks == {w \in ShortestWalks :
                        errand.targets # {} => Last(w.nodes) \in errand.targets}
            ends == {Last(w.nodes) : w \in walks}
            at(v) == {n \in Kept : answers[n].end = v}
            path(n) == [nodes |-> answers[n].nodes, edges |-> answers[n].edges]
        IN
        /\ {answers[n].end : n \in Kept} = ends
        /\ \A v \in ends :
             LET shortest == {w \in walks : Last(w.nodes) = v} IN
             /\ Cardinality(at(v)) = IF errand.all THEN Cardinality(shortest) ELSE 1
             /\ errand.track =>
                  /\ {path(n) : n \in at(v)} \subseteq shortest
                  /\ errand.all => shortest \subseteq {path(n) : n \in at(v)}

-----------------------------------------------------------------------------
(* What the rows rest on: the parts of an inductive invariant. *)

ErrandTypeOK ==
    /\ errand \in ErrandType
    /\ dist \in [Places -> Nat \cup {Unseen}]
    /\ preds \in [Places -> Seq([from : Places, eid : Nat])]
    /\ sighted \in Seq(Places) /\ queue \in Seq(Places)
    /\ hand \in Places /\ fan \in Seq(Adj)
    /\ closing \in Seq([len : Nat, tail : Places, eid : Nat])
    /\ missing \in Nat /\ stopAt \in Nat \cup {NoBound}
    /\ reported \in BOOLEAN

Known(v) == dist[v] # Unseen
Way(v, a) == [from |-> v, eid |-> a.eid]

(* Every predecessor is a step back of one hop over an edge of the graph,  *)
(* and every node but the source has one: a chain read back ends there.    *)
PredecessorsAreTight ==
    /\ dist[errand.start] = 0 /\ preds[errand.start] = <<>>
    /\ \A v \in Places :
         /\ Known(v) /\ v # errand.start => preds[v] # <<>>
         /\ \A p \in Range(preds[v]) :
              /\ Known(p.from) /\ dist[v] = dist[p.from] + 1
              /\ [nbr |-> v, eid |-> p.eid] \in Range(AdjsOf(p.from))

(* The queue holds what is left of one level, then the next one. *)
LevelByLevel ==
    /\ Known(hand) /\ Range(fan) \subseteq Range(AdjsOf(hand))
    /\ \A v \in Places : dist[v] <= dist[hand] + 1
    /\ \A i \in DOMAIN queue : dist[hand] <= dist[queue[i]]
    /\ \A i, j \in DOMAIN queue : i < j => dist[queue[i]] <= dist[queue[j]]

(* Every edge of a node that was expanded led to a node that is known, and *)
(* is a predecessor if it lies on a shortest path; the edges in the fan    *)
(* are still to come.                                                      *)
NothingIsOverlooked ==
    \A v \in Places :
        Known(v) /\ v \notin Range(queue) /\ ~AtCap(v) /\ ~Settled(v) =>
            \A a \in Range(AdjsOf(v)) :
                \/ v = hand /\ a \in Range(fan)
                \/ /\ Known(a.nbr) /\ dist[a.nbr] <= dist[v] + 1
                   /\ dist[a.nbr] = dist[v] + 1 => Way(v, a) \in Range(preds[a.nbr])

(* The search stops no sooner than at the depth of the deepest target. *)
TargetsLeft == {t \in errand.targets : ~Known(t)}
TargetsAreCounted ==
    /\ missing = Cardinality(TargetsLeft)
    /\ stopAt # NoBound => TargetsLeft = {} /\ \A t \in errand.targets : dist[t] <= stopAt

ErrandInv ==
    /\ ErrandTypeOK /\ PredecessorsAreTight /\ LevelByLevel
    /\ NothingIsOverlooked /\ TargetsAreCounted

(* When the search is over, stopped early or not, the predecessors of a    *)
(* node that a row may end at are all the edges onto it from the nodes one *)
(* hop nearer, and these only.                                             *)
PredecessorsAreExact ==
    fan = <<>> /\ queue = <<>> =>
        \A t \in Places : Known(t) /\ (stopAt # NoBound => t \in errand.targets) =>
            \A v \in Places : Known(v) /\ ~AtCap(v) =>
                {p \in Range(preds[t]) : p.from = v} =
                    {Way(v, a) : a \in {b \in Range(AdjsOf(v)) :
                                           b.nbr = t /\ dist[t] = dist[v] + 1}}
=============================================================================
