---------------------------- MODULE GraphSearch ----------------------------
(***************************************************************************)
(* The weighted searches of crates/lenke-engine/src/algo.rs: Dijkstra's    *)
(* single-source distances (dijkstra_dist) and the A* search of one target *)
(* (astar_search).  Both keep a heap that is never cleaned: a better       *)
(* distance pushes a second entry, and the stale one is skipped when it    *)
(* comes up - by its distance in the first, by a closed set in the second. *)
(* Costs are whole numbers here; Far stands for infinity.                  *)
(***************************************************************************)
EXTENDS Naturals, FiniteSetsExt

CONSTANTS
    Vertices,       \* dense ids
    Links,          \* the pairs <<u, v>> an edge may join
    Costs,          \* the weights an edge may carry
    Far,            \* more than any path costs
    Hints,          \* the heuristics: functions from Vertices to numbers
    Source, Target

ASSUME GraphAssumption ==
    /\ Vertices \subseteq Nat /\ IsFiniteSet(Vertices)
    /\ Links \subseteq Vertices \X Vertices
    /\ Source \in Vertices /\ Target \in Vertices
    /\ Far \in Nat \ {0} /\ Costs \subseteq 0 .. Far
    /\ Hints \subseteq [Vertices -> Nat]

VARIABLES
    mode,           \* "dijkstra" or "astar"
    cost,           \* edge_weight: of each link, Far where there is no edge
    hint,           \* h
    best,           \* dist, and g in A*
    closed,         \* A* only
    heap,           \* of [dist, idx] entries
    answer          \* what astar_search returned, Far until then

searchVars == <<mode, cost, hint, best, closed, heap, answer>>

(* DijkstraState: least distance first, then least id *)
Before(a, b) == a.dist < b.dist \/ (a.dist = b.dist /\ a.idx <= b.idx)
Top == CHOOSE a \in heap : \A b \in heap : Before(a, b)

Priority(v, d) == IF mode = "astar" THEN d + hint[v] ELSE d

SearchInit ==
    /\ mode \in {"dijkstra", "astar"}
    /\ cost \in [Links -> Costs \cup {Far}]
    /\ hint \in (IF mode = "astar" THEN Hints ELSE {[v \in Vertices |-> 0]})
    /\ best = [v \in Vertices |-> IF v = Source THEN 0 ELSE Far]
    /\ closed = {}
    /\ heap = {[dist |-> Priority(Source, 0), idx |-> Source]}
    /\ answer = Far

(* The distance an edge of u offers its other end *)
Offer(u, v) == IF <<u, v>> \in Links THEN best[u] + cost[<<u, v>>] ELSE Far

(* Mutant: only a vertex that has no distance yet is relaxed. *)
ImprovedOnce(u) == {v \in Vertices \ (closed \cup {u}) : Offer(u, v) < Far /\ best[v] = Far}

(* the ends that relax() improves: strictly, and in A* only open ones *)
Improved(u) == {v \in Vertices \ (closed \cup {u}) : Offer(u, v) < best[v]}

Relax(u) ==
    /\ best' = [v \in Vertices |-> IF v \in Improved(u) THEN Offer(u, v) ELSE best[v]]
    /\ heap' = (heap \ {Top}) \cup
               {[dist |-> Priority(v, Offer(u, v)), idx |-> v] : v \in Improved(u)}

(* A popped entry that is out of date: its vertex is closed, or, in        *)
(* Dijkstra, has a shorter distance by now.                                *)
OutOfDate == IF mode = "astar" THEN Top.idx \in closed ELSE Top.dist > best[Top.idx]

SkipEntry ==
    /\ heap # {} /\ OutOfDate
    /\ heap' = heap \ {Top}
    /\ UNCHANGED <<mode, cost, hint, best, closed, answer>>

SettleInDijkstra ==
    /\ heap # {} /\ mode = "dijkstra" /\ ~OutOfDate
    /\ Relax(Top.idx)
    /\ UNCHANGED <<mode, cost, hint, closed, answer>>

SettleInAStar ==
    /\ heap # {} /\ mode = "astar" /\ ~OutOfDate /\ Top.idx # Target
    /\ closed' = closed \cup {Top.idx}
    /\ Relax(Top.idx)
    /\ UNCHANGED <<mode, cost, hint, answer>>

(* The target comes up: the search returns and drops its heap. *)
Arrive ==
    /\ heap # {} /\ mode = "astar" /\ ~OutOfDate /\ Top.idx = Target
    /\ answer' = best[Target]
    /\ closed' = closed \cup {Target}
    /\ heap' = {}
    /\ UNCHANGED <<mode, cost, hint, best>>

SearchNext == SkipEntry \/ SettleInDijkstra \/ SettleInAStar \/ Arrive

SearchSpec == SearchInit /\ [][SearchNext]_searchVars

-----------------------------------------------------------------------------

(* The reference: the cheapest walks at the costs c, through one more      *)
(* vertex k at a time.                                                     *)
Via(k, d) == [p \in Vertices \X Vertices |-> Min({d[p], d[<<p[1], k>>] + d[<<k, p[2]>>]})]
Direct(c) == [p \in Vertices \X Vertices |->
                IF p[1] = p[2] THEN 0 ELSE IF p \in Links THEN c[p] ELSE Far]
CheapestBy(c) == FoldSet(Via, Direct(c), Vertices)
Cheapest == CheapestBy(cost)

(* A hint is consistent when no edge lowers it by more than the edge costs. *)
Consistent ==
    /\ hint[Target] = 0
    /\ \A link \in Links : hint[link[1]] <= cost[link] + hint[link[2]]

(* Admissible: the hint never exceeds what is left to pay. *)
Admissible == \A v \in Vertices : hint[v] <= Cheapest[<<v, Target>>]

(* Both searches find the cheapest distances, in spite of the stale        *)
(* entries in the heap: Dijkstra when its heap is empty, A* at every       *)
(* vertex it closes and for the target it answers - with a consistent      *)
(* hint, which is more than the admissible one its documentation asks for. *)
DistancesAreShortest ==
    LET d == Cheapest IN
    /\ mode = "dijkstra" /\ heap = {} =>
         \A v \in Vertices : best[v] = d[<<Source, v>>]
    /\ mode = "astar" /\ Consistent =>
         /\ \A v \in closed : best[v] = d[<<Source, v>>]
         /\ heap = {} => answer = d[<<Source, Target>>]

(* What Dijkstra's distances rest on: a link that would still lower the    *)
(* distance of its end waits in the heap under the current distance of its *)
(* start, however many stale entries lie around it.                        *)
LinksAreRelaxed ==
    mode = "dijkstra" =>
        \A link \in Links :
            \/ best[link[2]] <= best[link[1]] + cost[link]
            \/ best[link[1]] = Far
            \/ [dist |-> best[link[1]], idx |-> link[1]] \in heap

(* With an admissible heuristic the settled distance of the target is the  *)
(* exact shortest distance: the words above astar_search.                  *)
AdmissibleIsEnough ==
    answer < Far /\ Admissible => answer = Cheapest[<<Source, Target>>]
=============================================================================
