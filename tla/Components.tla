----------------------------- MODULE Components -----------------------------
(***************************************************************************)
(* The partitions of crates/lenke-engine/src/algo.rs: weakly connected     *)
(* components by union-find (find, union, weakly_connected_components),    *)
(* strongly connected components by Tarjan's algorithm with a stack of     *)
(* frames in place of recursion (strongly_connected_components), and the   *)
(* cycle test built on them (on_cycle).  Both name a component by its      *)
(* least member and promise that the order of the edges does not matter:   *)
(* here every order is taken.                                              *)
(***************************************************************************)
EXTENDS Naturals, Sequences, FiniteSets, FiniteSetsExt, Functions, SequencesExt

CONSTANTS
    Nodes,          \* dense ids
    Arcs,           \* the pairs <<u, v>> an edge may join
    None            \* UNVISITED

ASSUME ComponentsAssumption ==
    /\ Nodes \subseteq Nat /\ IsFiniteSet(Nodes)
    /\ Arcs \subseteq Nodes \X Nodes
    /\ None \notin Nat

VARIABLES
    task,           \* which of the two runs: "weak" or "strong"
    edges,          \* the edges of the wanted type
    pending,        \* weak: edges not united yet
    parent,         \* weak: the union-find forest
    order,          \* strong: discovery index
    low,            \* strong: lowlink
    tstack,         \* strong: Tarjan's stack; on_stack is membership in it
    frames,         \* strong: [vertex, left], left the neighbours to come
    comp            \* strong: the resolved representative

weakVars == <<pending, parent>>
strongVars == <<order, low, tstack, frames, comp>>
componentVars == <<task, edges, pending, parent, order, low, tstack, frames, comp>>

-----------------------------------------------------------------------------
(* Union-find. *)

(* the vertices find() walks over from x, its root the last *)
Trail(x) ==
    LET walk[v \in Nodes] == IF parent[v] = v THEN <<v>> ELSE <<v>> \o walk[parent[v]]
    IN  walk[x]

Root(x) == Last(Trail(x))

(* find(parent, x) leaves every vertex of the trail pointing at the root *)
Compressed(forest, trail) ==
    [v \in Nodes |-> IF v \in Range(trail) THEN Last(trail) ELSE forest[v]]

(* union(parent, a, b): the smaller root is kept *)
United(a, b) ==
    LET forest == Compressed(Compressed(parent, Trail(a)), Trail(b))
        roots == {Root(a), Root(b)}
    IN  [forest EXCEPT ![Max(roots)] = Min(roots)]

UniteEdge(e) ==
    /\ task = "weak" /\ e \in pending
    /\ parent' = United(e[1], e[2])
    /\ pending' = pending \ {e}
    /\ UNCHANGED <<task, edges, strongVars>>

-----------------------------------------------------------------------------
(* Tarjan's algorithm. *)

Out(v) == {e[2] : e \in {f \in edges : f[1] = v}}
Visited == {v \in Nodes : order[v] # None}
TopFrame == Last(frames)

(* push v on both stacks with the next discovery index *)
Discover(v, below) ==
    /\ order' = [order EXCEPT ![v] = Cardinality(Visited)]
    /\ low' = [low EXCEPT ![v] = Cardinality(Visited)]
    /\ tstack' = Append(tstack, v)
    /\ frames' = Append(below, [vertex |-> v, left |-> Out(v)])

(* the outer loop: the next unvisited vertex, in ascending order *)
StartAt(v) ==
    /\ task = "strong" /\ frames = <<>>
    /\ v \notin Visited /\ \A w \in Nodes \ Visited : v <= w
    /\ Discover(v, <<>>)
    /\ UNCHANGED <<task, edges, comp, weakVars>>

(* the frame on top with its cursor moved past w *)
Advanced(w) ==
    [frames EXCEPT ![Len(frames)].left = @ \ {w}]

Descend(w) ==
    /\ frames # <<>> /\ w \in TopFrame.left /\ w \notin Visited
    /\ Discover(w, Advanced(w))
    /\ UNCHANGED <<task, edges, comp, weakVars>>

(* Mutant: any visited neighbour lowers the link, resolved or not. *)
OnStackOrResolved(w) == w \in Visited

(* on_stack[w] *)
OnStack(w) == w \in Range(tstack)

Lower(w) ==
    /\ frames # <<>> /\ w \in TopFrame.left /\ w \in Visited
    /\ frames' = Advanced(w)
    /\ low' = IF OnStack(w)
              THEN [low EXCEPT ![TopFrame.vertex] = Min({@, order[w]})]
              ELSE low
    /\ UNCHANGED <<task, edges, order, tstack, comp, weakVars>>

(* the members a root pops: v and what lies above it on the stack *)
Popped(v) ==
    {tstack[i] : i \in {j \in DOMAIN tstack :
                          \E k \in 1 .. j : tstack[k] = v}}

Finish ==
    LET v == TopFrame.vertex
        below == Front(frames)
    IN
    /\ frames # <<>> /\ TopFrame.left = {}
    /\ IF low[v] = order[v]
       THEN /\ comp' = [w \in Nodes |-> IF w \in Popped(v) THEN Min(Popped(v)) ELSE comp[w]]
            /\ tstack' = SubSeq(tstack, 1, Len(tstack) - Cardinality(Popped(v)))
       ELSE UNCHANGED <<comp, tstack>>
    /\ frames' = below
    /\ low' = IF below = <<>> THEN low
              ELSE [low EXCEPT ![Last(below).vertex] = Min({@, low[v]})]
    /\ UNCHANGED <<task, edges, order, weakVars>>

-----------------------------------------------------------------------------

ComponentsInit ==
    /\ task \in {"weak", "strong"}
    /\ edges \in SUBSET Arcs
    /\ pending = edges
    /\ parent = [v \in Nodes |-> v]
    /\ order = [v \in Nodes |-> None]
    /\ low = [v \in Nodes |-> 0]
    /\ tstack = <<>>
    /\ frames = <<>>
    /\ comp = [v \in Nodes |-> None]

ComponentsNext ==
    \/ \E e \in edges : UniteEdge(e)
    \/ \E v \in Nodes : StartAt(v) \/ Descend(v) \/ Lower(v)
    \/ Finish

ComponentsSpec == ComponentsInit /\ [][ComponentsNext]_componentVars

-----------------------------------------------------------------------------

(* The reference: the vertices that the edges of E lead to (Warshall). *)
ReachedBy(E) ==
    LET through(k, reach) ==
            [v \in Nodes |-> IF k \in reach[v] THEN reach[v] \cup reach[k] ELSE reach[v]]
        start == [v \in Nodes |-> {v} \cup {e[2] : e \in {f \in E : f[1] = v}}]
    IN  FoldSet(through, start, Nodes)

BothWays(E) == E \cup {<<e[2], e[1]>> : e \in E}

(* Weak components: after any number of unions, in any order, two vertices *)
(* have one root exactly when the edges united so far join them, and that  *)
(* root is the least vertex of them all.                                   *)
WeakComponentsAreExact ==
    task = "weak" =>
        LET joined == ReachedBy(BothWays(edges \ pending))
        IN  \A v \in Nodes : Root(v) = Min(joined[v])

(* on_cycle: a component of several members, or a self-loop *)
OnCycle(v) == \/ Cardinality({w \in Nodes : comp[w] = comp[v]}) > 1
              \/ <<v, v>> \in edges

(* Strong components: a vertex, once resolved, carries the least vertex it *)
(* can reach and be reached from; a vertex between the stacks is not       *)
(* resolved; and at the end the cycle test finds exactly the vertices that *)
(* a path of one edge or more leads back to.                               *)
StrongComponentsAreExact ==
    task = "strong" =>
        LET reach == ReachedBy(edges)
            mutual(v) == {w \in reach[v] : v \in reach[w]}
        IN  /\ \A v \in Visited :
                 comp[v] = IF v \in Range(tstack) THEN None ELSE Min(mutual(v))
            /\ Visited = Nodes /\ frames = <<>> =>
                 \A v \in Nodes :
                    /\ comp[v] # None
                    /\ OnCycle(v) <=> \E w \in Out(v) : v \in reach[w]

(* Both partitions are what paths between the vertices say they are. *)
ComponentsAreExact == WeakComponentsAreExact /\ StrongComponentsAreExact
=============================================================================
