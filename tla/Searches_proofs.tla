------------------------- MODULE Searches_proofs --------------------------
(***************************************************************************)
(* The searches and partitions of the engine: dijkstra_dist and            *)
(* astar_search of algo.rs (GraphSearch), the search behind ANY SHORTEST   *)
(* and ALL SHORTEST (ShortestPaths), and the components of algo.rs         *)
(* (Components).                                                           *)
(***************************************************************************)
EXTENDS GraphSearch, ShortestPaths, Components, SequenceTheorems, FiniteSetTheorems,
        WellFoundedInduction, TLAPS

-----------------------------------------------------------------------------
(***************************************************************************)
(* Both weighted searches of algo.rs find the cheapest distances: for any  *)
(* finite graph, any costs, and in A* any consistent hint.                 *)
(*                                                                         *)
(* Four parts.  What Dijkstra's heap promises: a link that could still     *)
(* lower the distance of its end waits in it.  What the reference means:   *)
(* the fold of Cheapest, unfolded once by a least-counterexample argument, *)
(* is a distance no link and no detour shortens, and it lies above every   *)
(* slope, that is, above any numbers on the vertices that no link climbs   *)
(* faster than its cost.  What a step of a search keeps: distances stay    *)
(* above the reference because it has no shortcuts; a vertex A* closes has *)
(* it because the closed distances, with the priority that came up for the *)
(* open vertices, make a slope.  And the end: when the heap is empty the   *)
(* distances themselves are a slope.                                       *)
(***************************************************************************)

(* What the first part needs of the constants *)
LEMMA SearchBounds ==
  /\ Links \subseteq Vertices \X Vertices
  /\ Source \in Vertices /\ Target \in Vertices
  /\ Costs \subseteq Nat /\ Far \in Nat \ {0}
BY GraphAssumption

(* A cost is a number, or Far; links join vertices. *)
SearchTypeOK ==
    /\ mode \in {"dijkstra", "astar"}
    /\ cost \in [Links -> Nat]
    /\ best \in [Vertices -> 0 .. Far]
    /\ mode = "dijkstra" => closed = {}

(* The invariant that carries the proof. *)
SearchInv == SearchTypeOK /\ LinksAreRelaxed

(* The source is the only vertex with a distance, and it is in the heap. *)
LEMMA SearchInitInv == SearchInit => SearchInv
<1> SUFFICES ASSUME SearchInit PROVE SearchInv
  OBVIOUS
<1> USE SearchBounds
<1>1. SearchTypeOK
  <2>1. cost \in [Links -> Nat]
    BY DEF SearchInit
  <2>2. best \in [Vertices -> 0 .. Far]
    BY DEF SearchInit
  <2> QED
    BY <2>1, <2>2 DEF SearchInit, SearchTypeOK
<1>2. ASSUME mode = "dijkstra", NEW link \in Links, best[link[1]] # Far
      PROVE  [dist |-> best[link[1]], idx |-> link[1]] \in heap
  BY <1>2 DEF SearchInit, Priority
<1> QED
  BY <1>1, <1>2 DEF SearchInv, LinksAreRelaxed

(* Dropping an entry whose distance is out of date loses no promise. *)
LEMMA SkipEntryInv ==
  ASSUME SearchInv, SkipEntry
  PROVE  SearchInv'
<1>1. SearchTypeOK'
  BY DEF SearchInv, SearchTypeOK, SkipEntry
<1>2. ASSUME mode = "dijkstra", NEW link \in Links,
             [dist |-> best[link[1]], idx |-> link[1]] \in heap
      PROVE  [dist |-> best[link[1]], idx |-> link[1]] \in heap'
  <2> DEFINE entry == [dist |-> best[link[1]], idx |-> link[1]]
  <2>1. best[link[1]] \in Nat
    BY SearchBounds DEF SearchInv, SearchTypeOK
  <2>2. Top.dist > best[Top.idx]
    BY <1>2 DEF SkipEntry, OutOfDate
  <2>3. entry # Top
    BY <2>1, <2>2
  <2> QED
    BY <1>2, <2>3 DEF SkipEntry
<1>3. LinksAreRelaxed'
  BY <1>2 DEF SearchInv, LinksAreRelaxed, SkipEntry
<1> QED
  BY <1>1, <1>3 DEF SearchInv

(* Settling a vertex relaxes all its links; a vertex it improves enters    *)
(* the heap under its new distance; a distance never grows.                *)
LEMMA SettleInDijkstraInv ==
  ASSUME SearchInv, SettleInDijkstra
  PROVE  SearchInv'
<1> DEFINE u == Top.idx
<1> USE SearchBounds
<1>1. /\ mode = "dijkstra" /\ mode' = mode /\ cost' = cost /\ closed' = closed
      /\ closed = {} /\ cost \in [Links -> Nat] /\ best \in [Vertices -> 0 .. Far]
  BY DEF SettleInDijkstra, SearchInv, SearchTypeOK
<1>2. best' = [v \in Vertices |-> IF v \in Improved(u) THEN Offer(u, v) ELSE best[v]]
  BY DEF SettleInDijkstra, Relax
<1>3. /\ heap \ {Top} \subseteq heap'
      /\ \A v \in Improved(u) : [dist |-> Offer(u, v), idx |-> v] \in heap'
  BY <1>1 DEF SettleInDijkstra, Relax, Priority
<1>4. \A v \in Improved(u) : v \in Vertices /\ v # u /\ Offer(u, v) < best[v]
  BY DEF Improved
<1>5. \A v \in Vertices : v # u /\ v \notin Improved(u) => ~(Offer(u, v) < best[v])
  BY <1>1 DEF Improved
<1>6. ASSUME NEW v \in Vertices, <<u, v>> \in Links
      PROVE  /\ u \in Vertices
             /\ best[u] \in Nat /\ cost[<<u, v>>] \in Nat
             /\ Offer(u, v) = best[u] + cost[<<u, v>>]
  BY <1>1, <1>6 DEF Offer
<1>7. ASSUME NEW v \in Improved(u)
      PROVE  <<u, v>> \in Links /\ Offer(u, v) \in 0 .. Far
  <2>1. v \in Vertices /\ best[v] \in 0 .. Far /\ Offer(u, v) < best[v]
    BY <1>1, <1>4
  <2>2. <<u, v>> \in Links
    <3>1. ASSUME <<u, v>> \notin Links PROVE FALSE
      <4>1. Offer(u, v) = Far
        BY <3>1 DEF Offer
      <4> QED
        BY <2>1, <4>1
    <3> QED
      BY <3>1
  <2>3. Offer(u, v) \in Nat
    BY <1>6, <2>1, <2>2
  <2> QED
    BY <2>1, <2>2, <2>3
<1>8. Top.idx = u
  OBVIOUS
<1> HIDE DEF u
<1>9. SearchTypeOK'
  <2>1. best' \in [Vertices -> 0 .. Far]
    BY <1>1, <1>2, <1>7
  <2> QED
    BY <1>1, <2>1 DEF SearchTypeOK
<1>10. ASSUME NEW link \in Links
       PROVE  \/ best'[link[2]] <= best'[link[1]] + cost[link]
              \/ best'[link[1]] = Far
              \/ [dist |-> best'[link[1]], idx |-> link[1]] \in heap'
  <2> DEFINE w == link[1]
             v == link[2]
  <2>1. w \in Vertices /\ v \in Vertices /\ link = <<w, v>> /\ cost[link] \in Nat
    BY <1>1
  <2> HIDE DEF w, v
  <2>2. /\ best[w] \in 0 .. Far /\ best[v] \in 0 .. Far
        /\ best'[w] = IF w \in Improved(u) THEN Offer(u, w) ELSE best[w]
        /\ best'[v] = IF v \in Improved(u) THEN Offer(u, v) ELSE best[v]
    BY <1>1, <1>2, <2>1
  <2>3. CASE w \in Improved(u)
    BY <1>3, <2>2, <2>3 DEF w
  <2>4. CASE w = u
    <3>1. best'[w] = best[w]
      BY <1>4, <2>2, <2>4
    <3>2. Offer(u, v) = best[w] + cost[link]
      BY <1>6, <2>1, <2>4
    <3>3. CASE v \in Improved(u)
      BY <2>1, <2>2, <3>1, <3>2, <3>3 DEF w, v
    <3>4. CASE v \notin Improved(u) /\ v # u
      <4>1. ~(Offer(u, v) < best[v])
        BY <1>5, <2>1, <3>4
      <4> QED
        BY <2>1, <2>2, <3>1, <3>2, <3>4, <4>1 DEF w, v
    <3>5. CASE v = u
      BY <2>1, <2>2, <2>4, <3>1, <3>5 DEF w, v
    <3> QED
      BY <3>3, <3>4, <3>5
  <2>5. CASE w \notin Improved(u) /\ w # u
    <3>1. best'[w] = best[w] /\ best'[v] <= best[v] /\ best'[v] \in 0 .. Far
      <4>1. best'[w] = best[w]
        BY <2>2, <2>5
      <4>2. CASE v \in Improved(u)
        <5>1. Offer(u, v) \in 0 .. Far /\ Offer(u, v) < best[v] /\ best'[v] = Offer(u, v)
          BY <1>4, <1>7, <2>2, <4>2
        <5> QED
          BY <2>2, <4>1, <5>1
      <4>3. CASE v \notin Improved(u)
        BY <2>2, <4>1, <4>3
      <4> QED
        BY <4>2, <4>3
    <3>2. \/ best[v] <= best[w] + cost[link]
          \/ best[w] = Far
          \/ [dist |-> best[w], idx |-> w] \in heap
      BY <1>1 DEF SearchInv, LinksAreRelaxed, w, v
    <3>3. [dist |-> best[w], idx |-> w] # Top
      BY <1>8, <2>5
    <3>4. CASE best[v] <= best[w] + cost[link]
      BY <2>1, <2>2, <3>1, <3>4 DEF w, v
    <3>5. CASE best[w] = Far
      BY <3>1, <3>5 DEF w
    <3>6. CASE [dist |-> best[w], idx |-> w] \in heap
      BY <1>3, <3>1, <3>3, <3>6 DEF w
    <3> QED
      BY <3>2, <3>4, <3>5, <3>6
  <2> QED
    BY <2>3, <2>4, <2>5
<1>11. LinksAreRelaxed'
  BY <1>1, <1>10 DEF LinksAreRelaxed
<1> QED
  BY <1>9, <1>11 DEF SearchInv

(* The steps of A* keep the bounds; the rest is said of Dijkstra only. *)
LEMMA AStarInv ==
  ASSUME SearchInv, SettleInAStar \/ Arrive
  PROVE  SearchInv'
<1> USE SearchBounds
<1>1. mode = "astar" /\ mode' = "astar" /\ cost' = cost
  BY DEF SettleInAStar, Arrive
<1>2. CASE SettleInAStar
  <2> DEFINE u == Top.idx
  <2>1. best' = [v \in Vertices |-> IF v \in Improved(u) THEN Offer(u, v) ELSE best[v]]
    BY <1>2 DEF SettleInAStar, Relax
  <2>2. cost \in [Links -> Nat] /\ best \in [Vertices -> 0 .. Far]
    BY DEF SearchInv, SearchTypeOK
  <2> HIDE DEF u
  <2>3. ASSUME NEW v \in Improved(u) PROVE Offer(u, v) \in 0 .. Far
    <3>1. v \in Vertices /\ Offer(u, v) < best[v] /\ best[v] \in 0 .. Far
      BY <2>2 DEF Improved
    <3>2. CASE <<u, v>> \in Links
      BY <2>2, <3>1, <3>2 DEF Offer
    <3>3. CASE <<u, v>> \notin Links
      BY <3>1, <3>3 DEF Offer
    <3> QED
      BY <3>2, <3>3
  <2>4. best' \in [Vertices -> 0 .. Far]
    BY <2>1, <2>2, <2>3
  <2> QED
    BY <1>1, <2>2, <2>4 DEF SearchInv, SearchTypeOK, LinksAreRelaxed
<1>3. CASE Arrive
  BY <1>1, <1>3 DEF Arrive, SearchInv, SearchTypeOK, LinksAreRelaxed
<1> QED
  BY <1>2, <1>3

(* The invariant of the first part holds in every state. *)
LEMMA SearchInvHolds == SearchSpec => []SearchInv
<1>1. SearchInit => SearchInv
  BY SearchInitInv
<1>2. SearchInv /\ [SearchNext]_searchVars => SearchInv'
  <2> SUFFICES ASSUME SearchInv, [SearchNext]_searchVars
               PROVE  SearchInv'
    OBVIOUS
  <2>1. CASE SearchNext
    BY <2>1, SkipEntryInv, SettleInDijkstraInv, AStarInv DEF SearchNext
  <2>2. CASE UNCHANGED searchVars
    BY <2>2 DEF searchVars, SearchInv, SearchTypeOK, LinksAreRelaxed
  <2> QED
    BY <2>1, <2>2
<1> QED
  BY <1>1, <1>2, PTL DEF SearchSpec

(* In every state of dijkstra_dist, for any graph and any costs, a link    *)
(* that could still lower the distance of its end waits in the heap.       *)
THEOREM Relaxation == SearchSpec => []LinksAreRelaxed
<1>1. SearchInv => LinksAreRelaxed
  BY DEF SearchInv
<1> QED
  BY <1>1, SearchInvHolds, PTL

(* When the heap is empty no link can lower a distance that was reached.   *)
THEOREM NothingToLower ==
  SearchSpec => [](mode = "dijkstra" /\ heap = {} =>
                     \A link \in Links : best[link[1]] # Far =>
                        best[link[2]] <= best[link[1]] + cost[link])
<1>1. LinksAreRelaxed =>
        (mode = "dijkstra" /\ heap = {} =>
           \A link \in Links : best[link[1]] # Far =>
              best[link[2]] <= best[link[1]] + cost[link])
  BY DEF LinksAreRelaxed
<1> QED
  BY <1>1, Relaxation, PTL

-----------------------------------------------------------------------------

(* The reference, without its recursion *)

Less == OpToRel(<, Nat)

(* The order of the natural numbers, as a relation, has no descending      *)
(* chain.                                                                  *)
LEMMA LessIsWellFounded == IsWellFoundedOn(Less, Nat)
  BY NatLessThanWellFounded, Zenon DEF Less

(* A set of numbers that is not empty has a least member: what the proofs  *)
(* below use in the place of induction.                                    *)
LEMMA LeastNumber ==
  ASSUME NEW T \in SUBSET Nat, T # {}
  PROVE  \E x \in T : \A y \in T : x <= y
<1>1. \A x, y \in Nat : <<y, x>> \in Less <=> y < x
  BY Zenon DEF Less, OpToRel
<1>2. PICK x \in T : \A y \in T : ~(<<y, x>> \in Less)
  BY LessIsWellFounded, WFMin, Zenon
<1>3. \A y \in T : ~(y < x)
  BY <1>1, <1>2
<1> QED
  BY <1>3

(* The fold, unfolded: a function on the sets of vertices.                 *)
Chosen(s) == CHOOSE x \in s : TRUE
Step(c, g, s) == IF s = {} THEN Direct(c) ELSE Via(Chosen(s), g[s \ {Chosen(s)}])
Unfolds(c, D, g) == g = [s \in D |-> Step(c, g, s)]
Fold(c) == CHOOSE g : Unfolds(c, SUBSET Vertices, g)

(* The reference is the fold over all vertices: the two definitions are    *)
(* one formula.                                                            *)
LEMMA FoldIs ==
  ASSUME NEW c
  PROVE  CheapestBy(c) = Fold(c)[Vertices]
  BY Zenon DEF CheapestBy, Fold, Unfolds, Step, Chosen, FoldSet, MapThenFoldSet

(* The sets of fewer than n vertices *)
Fewer(n) == {s \in SUBSET Vertices : Cardinality(s) < n}

(* Taking the chosen vertex from a set leaves a smaller set. *)
LEMMA OneFewer ==
  ASSUME NEW s \in SUBSET Vertices, s # {}
  PROVE  /\ Chosen(s) \in s /\ Chosen(s) \in Vertices
         /\ s \ {Chosen(s)} \in SUBSET Vertices
         /\ Cardinality(s) \in Nat
         /\ Cardinality(s \ {Chosen(s)}) \in Nat
         /\ Cardinality(s \ {Chosen(s)}) < Cardinality(s)
<1>1. Chosen(s) \in s
  BY Zenon DEF Chosen
<1>2. IsFiniteSet(s)
  BY FS_Subset, GraphAssumption
<1>3. /\ IsFiniteSet(s \ {Chosen(s)})
      /\ Cardinality(s \ {Chosen(s)}) = Cardinality(s) - 1
  BY <1>1, <1>2, FS_RemoveElement
<1>4. Cardinality(s) \in Nat /\ Cardinality(s \ {Chosen(s)}) \in Nat
  BY <1>2, <1>3, FS_CardinalityType
<1> QED
  BY <1>1, <1>3, <1>4

(* The recursion of the fold has a solution: otherwise there is a least n  *)
(* for which the sets of fewer than n vertices have none, and the one for  *)
(* n - 1 extends to n.                                                     *)
LEMMA FoldUnfolds ==
  ASSUME NEW c
  PROVE  Unfolds(c, SUBSET Vertices, Fold(c))
<1> DEFINE Bad == {n \in Nat : ~ \E g : Unfolds(c, Fewer(n), g)}
<1>1. Bad = {}
  <2> SUFFICES ASSUME Bad # {} PROVE FALSE
    OBVIOUS
  <2>1. PICK n \in Bad : \A m \in Bad : n <= m
    BY LeastNumber
  <2>2. n \in Nat /\ ~ \E g : Unfolds(c, Fewer(n), g)
    BY <2>1
  <2>3. CASE n = 0
    <3>1. Fewer(0) = {}
      <4>1. \A s \in SUBSET Vertices : Cardinality(s) \in Nat
        BY FS_Subset, FS_CardinalityType, GraphAssumption
      <4> QED
        BY <4>1 DEF Fewer
    <3>2. Unfolds(c, {}, [s \in {} |-> 0])
      BY DEF Unfolds
    <3> QED
      BY <2>2, <2>3, <3>1, <3>2
  <2>4. CASE n # 0
    <3>1. n - 1 \in Nat /\ n - 1 \notin Bad
      BY <2>1, <2>2, <2>4
    <3>2. PICK g : Unfolds(c, Fewer(n - 1), g)
      BY <3>1
    <3> DEFINE h == [s \in Fewer(n) |-> Step(c, g, s)]
    <3>3. ASSUME NEW s \in Fewer(n)
          PROVE  Step(c, g, s) = Step(c, h, s)
      <4>1. CASE s = {}
        BY <4>1 DEF Step
      <4>2. CASE s # {}
        <5> DEFINE t == s \ {Chosen(s)}
        <5>1. t \in Fewer(n - 1) /\ t \in Fewer(n)
          BY <2>2, <4>2, OneFewer DEF Fewer
        <5>2. g[t] = Step(c, g, t) /\ h[t] = Step(c, g, t)
          BY <3>2, <5>1, Zenon DEF Unfolds
        <5> QED
          BY <4>2, <5>2 DEF Step
      <4> QED
        BY <4>1, <4>2
    <3>4. Unfolds(c, Fewer(n), h)
      <4> HIDE DEF h
      <4>1. h = [s \in Fewer(n) |-> Step(c, g, s)]
        BY DEF h
      <4> QED
        BY <3>3, <4>1 DEF Unfolds
    <3> QED
      BY <2>2, <3>4
  <2> QED
    BY <2>3, <2>4
<1>2. Cardinality(Vertices) \in Nat
  BY FS_CardinalityType, GraphAssumption
<1>3. Fewer(Cardinality(Vertices) + 1) = SUBSET Vertices
  <2>1. \A s \in SUBSET Vertices : Cardinality(s) \in Nat /\ Cardinality(s) <= Cardinality(Vertices)
    BY FS_Subset, FS_CardinalityType, GraphAssumption
  <2> QED
    BY <1>2, <2>1 DEF Fewer
<1>4. \E g : Unfolds(c, SUBSET Vertices, g)
  <2> DEFINE n == Cardinality(Vertices) + 1
  <2>1. n \in Nat /\ n \notin Bad
    BY <1>1, <1>2
  <2> QED
    BY <1>3, <2>1
<1> QED
  BY <1>4, Zenon DEF Fold

(* Min on two numbers. *)
LEMMA MinOfTwo ==
  ASSUME NEW a \in Nat, NEW b \in Nat
  PROVE  Min({a, b}) = IF a <= b THEN a ELSE b
<1> DEFINE m == IF a <= b THEN a ELSE b
<1>1. m \in {a, b} /\ \A y \in {a, b} : m <= y
  OBVIOUS
<1>2. \A x \in {a, b} : (\A y \in {a, b} : x <= y) => x = m
  OBVIOUS
<1> QED
  BY <1>1, <1>2 DEF Min

(* What one more vertex does to the distances of a pair *)
LEMMA ViaOf ==
  ASSUME NEW k \in Vertices, NEW d \in [Vertices \X Vertices -> 0 .. Far],
         NEW u \in Vertices, NEW w \in Vertices
  PROVE  /\ d[<<u, w>>] \in 0 .. Far /\ d[<<u, k>>] \in 0 .. Far /\ d[<<k, w>>] \in 0 .. Far
         /\ Via(k, d)[<<u, w>>] =
              IF d[<<u, w>>] <= d[<<u, k>>] + d[<<k, w>>]
              THEN d[<<u, w>>] ELSE d[<<u, k>>] + d[<<k, w>>]
<1> DEFINE p == <<u, w>>
           a == d[<<u, w>>]
           b == d[<<u, k>>] + d[<<k, w>>]
<1>1. /\ p \in Vertices \X Vertices /\ p[1] = u /\ p[2] = w
      /\ a \in 0 .. Far /\ d[<<u, k>>] \in 0 .. Far /\ d[<<k, w>>] \in 0 .. Far
  OBVIOUS
<1>2. Far \in Nat
  BY GraphAssumption
<1>3. a \in Nat /\ b \in Nat
  BY <1>1, <1>2
<1>4. Via(k, d)[p] = Min({a, b})
  BY <1>1 DEF Via
<1>5. Min({a, b}) = IF a <= b THEN a ELSE b
  <2> HIDE DEF a, b
  <2> QED
    BY <1>3, MinOfTwo
<1> QED
  BY <1>1, <1>4, <1>5

(* The distances through the vertices of s: no link is shorter, no detour  *)
(* over a vertex of s is shorter.                                          *)
Metric(c, s, d) ==
  /\ d \in [Vertices \X Vertices -> 0 .. Far]
  /\ \A v \in Vertices : d[<<v, v>>] = 0
  /\ \A link \in Links : d[link] <= c[link]
  /\ \A k \in s, u, w \in Vertices : d[<<u, w>>] <= d[<<u, k>>] + d[<<k, w>>]

(* One more vertex: if d admits no shortcut over s, Via(k, d) admits none  *)
(* over s and k.                                                           *)
LEMMA ViaIsMetric ==
  ASSUME NEW c \in [Links -> 0 .. Far], NEW s \in SUBSET Vertices, NEW k \in Vertices,
         NEW d, Metric(c, s, d)
  PROVE  Metric(c, s \cup {k}, Via(k, d))
<1> DEFINE e == Via(k, d)
<1>1. d \in [Vertices \X Vertices -> 0 .. Far] /\ Far \in Nat
  BY GraphAssumption DEF Metric
<1>2. ASSUME NEW u \in Vertices, NEW w \in Vertices
      PROVE  /\ d[<<u, w>>] \in 0 .. Far /\ d[<<u, k>>] \in 0 .. Far /\ d[<<k, w>>] \in 0 .. Far
             /\ e[<<u, w>>] = IF d[<<u, w>>] <= d[<<u, k>>] + d[<<k, w>>]
                              THEN d[<<u, w>>] ELSE d[<<u, k>>] + d[<<k, w>>]
  <2> HIDE DEF e
  <2>1. e = Via(k, d)
    BY DEF e
  <2>2. d \in [Vertices \X Vertices -> 0 .. Far]
    BY <1>1
  <2>3. /\ d[<<u, w>>] \in 0 .. Far /\ d[<<u, k>>] \in 0 .. Far /\ d[<<k, w>>] \in 0 .. Far
        /\ Via(k, d)[<<u, w>>] =
             IF d[<<u, w>>] <= d[<<u, k>>] + d[<<k, w>>]
             THEN d[<<u, w>>] ELSE d[<<u, k>>] + d[<<k, w>>]
    BY <2>2, ViaOf, Zenon
  <2> QED
    BY <2>1, <2>3
<1> HIDE DEF e
<1>3. ASSUME NEW u \in Vertices, NEW w \in Vertices
      PROVE  /\ e[<<u, w>>] \in 0 .. Far
             /\ e[<<u, w>>] <= d[<<u, w>>]
             /\ e[<<u, w>>] <= d[<<u, k>>] + d[<<k, w>>]
             /\ e[<<u, w>>] = d[<<u, w>>] \/ e[<<u, w>>] = d[<<u, k>>] + d[<<k, w>>]
  <2> DEFINE x == d[<<u, w>>]
             y == d[<<u, k>>]
             z == d[<<k, w>>]
             m == e[<<u, w>>]
  <2>1. /\ x \in 0 .. Far /\ y \in 0 .. Far /\ z \in 0 .. Far
        /\ m = IF x <= y + z THEN x ELSE y + z
    BY <1>2
  <2> HIDE DEF x, y, z, m
  <2>2. m \in 0 .. Far /\ m <= x /\ m <= y + z /\ (m = x \/ m = y + z)
    BY <1>1, <2>1
  <2> QED
    BY <2>2 DEF x, y, z, m
<1>4. e \in [Vertices \X Vertices -> 0 .. Far]
  <2>1. \A p \in Vertices \X Vertices : e[p] \in 0 .. Far
    <3> SUFFICES ASSUME NEW p \in Vertices \X Vertices PROVE e[p] \in 0 .. Far
      OBVIOUS
    <3>1. p = <<p[1], p[2]>> /\ p[1] \in Vertices /\ p[2] \in Vertices
      OBVIOUS
    <3> QED
      BY <1>3, <3>1
  <2> QED
    BY <2>1 DEF e, Via
<1>5. \A v \in Vertices : d[<<v, v>>] = 0
  BY DEF Metric
<1>6. \A v \in Vertices : e[<<v, v>>] = 0
  <2> SUFFICES ASSUME NEW v \in Vertices PROVE e[<<v, v>>] = 0
    OBVIOUS
  <2> DEFINE m == e[<<v, v>>]
  <2>1. m \in 0 .. Far /\ m <= 0
    BY <1>3, <1>5
  <2> HIDE DEF m
  <2>2. m = 0
    BY <1>1, <2>1
  <2> QED
    BY <2>2 DEF m
<1>7. \A link \in Links : e[link] <= c[link]
  <2> SUFFICES ASSUME NEW link \in Links PROVE e[link] <= c[link]
    OBVIOUS
  <2>1. link = <<link[1], link[2]>> /\ link[1] \in Vertices /\ link[2] \in Vertices
    BY GraphAssumption
  <2>2. d[link] <= c[link] /\ c[link] \in 0 .. Far
    BY DEF Metric
  <2>3. e[link] <= d[link] /\ e[link] \in 0 .. Far /\ d[link] \in 0 .. Far
    <3> DEFINE u == link[1]
               w == link[2]
    <3>1. u \in Vertices /\ w \in Vertices /\ link = <<u, w>>
      BY <2>1
    <3> HIDE DEF u, w
    <3>2. e[<<u, w>>] <= d[<<u, w>>] /\ e[<<u, w>>] \in 0 .. Far
      BY <1>3, <3>1
    <3>3. d[<<u, w>>] \in 0 .. Far
      BY <1>2, <3>1
    <3> QED
      BY <3>1, <3>2, <3>3
  <2> QED
    BY <1>1, <2>2, <2>3
<1>8. ASSUME NEW j \in s \cup {k}, NEW u \in Vertices, NEW w \in Vertices
      PROVE  e[<<u, w>>] <= e[<<u, j>>] + e[<<j, w>>]
  <2>1. j \in Vertices
    OBVIOUS
  <2>2. \A x, y \in Vertices : d[<<x, y>>] \in Nat /\ e[<<x, y>>] \in Nat
    <3>1. \A n \in 0 .. Far : n \in Nat
      BY <1>1
    <3>2. \A x, y \in Vertices : d[<<x, y>>] \in 0 .. Far
      BY <1>1
    <3> QED
      BY <1>3, <3>1, <3>2
  <2>3. CASE j = k
    <3>1. d[<<k, k>>] = 0
      BY <1>5
    <3>2. e[<<u, k>>] = d[<<u, k>>]
      <4>1. e[<<u, k>>] = d[<<u, k>>] \/ e[<<u, k>>] = d[<<u, k>>] + 0
        BY <1>3, <3>1
      <4> QED
        BY <2>2, <4>1
    <3>3. e[<<k, w>>] = d[<<k, w>>]
      <4>1. e[<<k, w>>] = d[<<k, w>>] \/ e[<<k, w>>] = 0 + d[<<k, w>>]
        BY <1>3, <3>1
      <4> QED
        BY <2>2, <4>1
    <3>4. e[<<u, w>>] <= d[<<u, k>>] + d[<<k, w>>]
      BY <1>3
    <3> QED
      BY <2>3, <3>2, <3>3, <3>4
  <2>4. CASE j \in s
    <3>1. /\ d[<<u, w>>] <= d[<<u, j>>] + d[<<j, w>>]
          /\ d[<<u, k>>] <= d[<<u, j>>] + d[<<j, k>>]
          /\ d[<<k, w>>] <= d[<<k, j>>] + d[<<j, w>>]
      BY <2>4 DEF Metric
    <3>2. /\ e[<<u, w>>] <= d[<<u, w>>]
          /\ e[<<u, w>>] <= d[<<u, k>>] + d[<<k, w>>]
      BY <1>3
    <3>3. /\ e[<<u, j>>] = d[<<u, j>>] \/ e[<<u, j>>] = d[<<u, k>>] + d[<<k, j>>]
          /\ e[<<j, w>>] = d[<<j, w>>] \/ e[<<j, w>>] = d[<<j, k>>] + d[<<k, w>>]
      BY <1>3, <2>1
    <3>4. /\ d[<<u, j>>] \in Nat /\ d[<<j, w>>] \in Nat /\ d[<<u, k>>] \in Nat
          /\ d[<<k, w>>] \in Nat /\ d[<<k, j>>] \in Nat /\ d[<<j, k>>] \in Nat
          /\ d[<<u, w>>] \in Nat /\ e[<<u, w>>] \in Nat
          /\ e[<<u, j>>] \in Nat /\ e[<<j, w>>] \in Nat
      BY <2>1, <2>2
    <3> QED
      BY <3>1, <3>2, <3>3, <3>4
  <2> QED
    BY <2>3, <2>4
<1> QED
  BY <1>4, <1>6, <1>7, <1>8 DEF e, Metric

(* Numbers on the vertices that no link climbs faster than its cost *)
Slope(c, f) ==
  /\ f \in [Vertices -> 0 .. Far]
  /\ \A link \in Links : f[link[2]] <= f[link[1]] + c[link]
Under(f, d) == \A u, w \in Vertices : f[w] <= f[u] + d[<<u, w>>]

(* A slope that lies under the distances lies under them via one more      *)
(* vertex.                                                                 *)
LEMMA ViaStaysAbove ==
  ASSUME NEW c, NEW f, Slope(c, f), NEW k \in Vertices,
         NEW d \in [Vertices \X Vertices -> 0 .. Far], Under(f, d)
  PROVE  Under(f, Via(k, d))
<1> SUFFICES ASSUME NEW u \in Vertices, NEW w \in Vertices
             PROVE  f[w] <= f[u] + Via(k, d)[<<u, w>>]
  BY DEF Under
<1>1. /\ f[w] <= f[u] + d[<<u, w>>]
      /\ f[k] <= f[u] + d[<<u, k>>]
      /\ f[w] <= f[k] + d[<<k, w>>]
  BY DEF Under
<1>2. f[w] \in 0 .. Far /\ f[k] \in 0 .. Far /\ f[u] \in 0 .. Far /\ Far \in Nat
  BY GraphAssumption DEF Slope
<1>3. /\ d[<<u, w>>] \in 0 .. Far /\ d[<<u, k>>] \in 0 .. Far /\ d[<<k, w>>] \in 0 .. Far
      /\ Via(k, d)[<<u, w>>] = IF d[<<u, w>>] <= d[<<u, k>>] + d[<<k, w>>]
                               THEN d[<<u, w>>] ELSE d[<<u, k>>] + d[<<k, w>>]
  BY ViaOf
<1> QED
  BY <1>1, <1>2, <1>3

(* The links alone admit no shortcut over no vertex, and lie above every   *)
(* slope.                                                                  *)
LEMMA DirectIsMetric ==
  ASSUME NEW c \in [Links -> 0 .. Far]
  PROVE  /\ Metric(c, {}, Direct(c))
         /\ \A f : Slope(c, f) => Under(f, Direct(c))
<1> DEFINE d == Direct(c)
<1>1. Far \in Nat /\ Links \subseteq Vertices \X Vertices
  BY GraphAssumption
<1>2. d \in [Vertices \X Vertices -> 0 .. Far]
  BY <1>1 DEF Direct
<1>3. \A v \in Vertices : d[<<v, v>>] = 0
  BY DEF Direct
<1>4. \A link \in Links : d[link] <= c[link]
  BY <1>1 DEF Direct
<1>5. ASSUME NEW f, Slope(c, f), NEW u \in Vertices, NEW w \in Vertices
      PROVE  f[w] <= f[u] + d[<<u, w>>]
  <2>1. f[u] \in 0 .. Far /\ f[w] \in 0 .. Far
    BY <1>5 DEF Slope
  <2>2. d[<<u, w>>] = IF u = w THEN 0 ELSE IF <<u, w>> \in Links THEN c[<<u, w>>] ELSE Far
    BY DEF Direct
  <2>3. <<u, w>> \in Links => f[w] <= f[u] + c[<<u, w>>]
    BY <1>5 DEF Slope
  <2> QED
    BY <1>1, <2>1, <2>2, <2>3
<1> QED
  BY <1>2, <1>3, <1>4, <1>5 DEF Metric, Under

(* The fold over any set of vertices is such a distance, and lies above    *)
(* every slope.                                                            *)
LEMMA FoldIsMetric ==
  ASSUME NEW c \in [Links -> 0 .. Far]
  PROVE  \A s \in SUBSET Vertices : /\ Metric(c, s, Fold(c)[s])
                                    /\ \A f : Slope(c, f) => Under(f, Fold(c)[s])
<1> DEFINE Good(s) == /\ Metric(c, s, Fold(c)[s])
                      /\ \A f : Slope(c, f) => Under(f, Fold(c)[s])
           Sizes == {Cardinality(s) : s \in {t \in SUBSET Vertices : ~Good(t)}}
<1> SUFFICES ASSUME ~ \A s \in SUBSET Vertices : Good(s)
             PROVE  FALSE
  OBVIOUS
<1>1. \A s \in SUBSET Vertices : Cardinality(s) \in Nat
  BY FS_Subset, FS_CardinalityType, GraphAssumption
<1>2. Sizes \in SUBSET Nat /\ Sizes # {}
  BY <1>1
<1>3. PICK n \in Sizes : \A m \in Sizes : n <= m
  <2> HIDE DEF Sizes
  <2> QED
    BY <1>2, LeastNumber
<1>4. PICK s \in SUBSET Vertices : ~Good(s) /\ Cardinality(s) = n
  BY <1>3
<1>5. \A t \in SUBSET Vertices : Cardinality(t) < Cardinality(s) => Good(t)
  BY <1>1, <1>3, <1>4
<1>6. Fold(c)[s] = Step(c, Fold(c), s)
  <2>1. Fold(c) = [t \in SUBSET Vertices |-> Step(c, Fold(c), t)]
    BY FoldUnfolds DEF Unfolds
  <2> QED
    BY <2>1
<1>7. CASE s = {}
  <2>1. Fold(c)[s] = Direct(c)
    BY <1>6, <1>7 DEF Step
  <2> QED
    BY <1>4, <1>7, <2>1, DirectIsMetric
<1>8. CASE s # {}
  <2> DEFINE k == Chosen(s)
             t == s \ {k}
             d == Fold(c)[t]
  <2>1. k \in s /\ k \in Vertices /\ t \in SUBSET Vertices /\ Cardinality(t) < Cardinality(s)
    BY <1>8, OneFewer
  <2>2. Fold(c)[s] = Via(k, d)
    BY <1>6, <1>8 DEF Step
  <2>3. Good(t)
    BY <1>5, <2>1
  <2>4. Metric(c, t, d) /\ d \in [Vertices \X Vertices -> 0 .. Far]
    BY <2>3 DEF Metric
  <2>5. Metric(c, t \cup {k}, Via(k, d))
    <3> HIDE DEF k, t, d
    <3> QED
      BY <2>1, <2>4, ViaIsMetric
  <2>6. t \cup {k} = s
    BY <2>1
  <2>7. ASSUME NEW f, Slope(c, f) PROVE Under(f, Via(k, d))
    <3>1. Under(f, d)
      BY <2>3, <2>7
    <3> HIDE DEF k, t, d
    <3> QED
      BY <2>1, <2>4, <2>7, <3>1, ViaStaysAbove
  <2> QED
    BY <1>4, <2>2, <2>5, <2>6, <2>7
<1> QED
  BY <1>7, <1>8

(* Cheapest, without its recursion: the cheapest distances are between 0   *)
(* and Far, a link never lowers them and a detour neither, and they are    *)
(* the greatest such: every slope lies under them.                         *)
LEMMA CheapestIsMetric ==
  ASSUME NEW c \in [Links -> 0 .. Far]
  PROVE  /\ Metric(c, Vertices, CheapestBy(c))
         /\ \A f : Slope(c, f) => Under(f, CheapestBy(c))
BY FoldIs, FoldIsMetric

(* Of any entries that are not none, one comes before all others. *)
LEMMA PairLeast ==
  ASSUME NEW H \in SUBSET [dist : Nat, idx : Nat], H # {}
  PROVE  \E a \in H : \A b \in H : Before(a, b)
<1> DEFINE Ds == {a.dist : a \in H}
<1>1. Ds \in SUBSET Nat /\ Ds # {}
  OBVIOUS
<1>2. PICK m \in Ds : \A n \in Ds : m <= n
  <2> HIDE DEF Ds
  <2> QED
    BY <1>1, LeastNumber
<1> DEFINE Is == {a.idx : a \in {b \in H : b.dist = m}}
<1>3. Is \in SUBSET Nat /\ Is # {}
  BY <1>2
<1>4. PICK i \in Is : \A j \in Is : i <= j
  <2> HIDE DEF Is
  <2> QED
    BY <1>3, LeastNumber
<1>5. PICK a \in H : a.dist = m /\ a.idx = i
  BY <1>4
<1>6. ASSUME NEW b \in H PROVE Before(a, b)
  <2>1. m <= b.dist /\ m \in Nat /\ b.dist \in Nat
    BY <1>1, <1>2
  <2>2. b.dist = m => i <= b.idx
    BY <1>4
  <2> QED
    BY <1>5, <2>1, <2>2 DEF Before
<1> QED
  BY <1>6

(* Top is an entry of the heap, and none has a lesser distance. *)
LEMMA TopIsLeast ==
  ASSUME heap \in SUBSET [dist : Nat, idx : Vertices], heap # {}
  PROVE  /\ Top \in heap /\ Top.dist \in Nat /\ Top.idx \in Vertices
         /\ \A e \in heap : Top.dist <= e.dist
<1>1. \E a \in heap : \A b \in heap : Before(a, b)
  <2>1. heap \in SUBSET [dist : Nat, idx : Nat]
    BY GraphAssumption
  <2> QED
    BY <2>1, PairLeast
<1>2. Top \in heap /\ \A b \in heap : Before(Top, b)
  BY <1>1, Zenon DEF Top
<1>3. Top.dist \in Nat /\ Top.idx \in Vertices
  BY <1>2
<1>4. ASSUME NEW e \in heap PROVE Top.dist <= e.dist
  <2>1. Before(Top, e) /\ e.dist \in Nat
    BY <1>2
  <2> QED
    BY <1>3, <2>1 DEF Before
<1> QED
  BY <1>2, <1>3, <1>4

-----------------------------------------------------------------------------

Typed ==
  /\ mode \in {"dijkstra", "astar"}
  /\ cost \in [Links -> 0 .. Far] /\ hint \in [Vertices -> Nat]
  /\ best \in [Vertices -> 0 .. Far] /\ best[Source] = 0
  /\ closed \in SUBSET Vertices
  /\ heap \in SUBSET [dist : Nat, idx : Vertices]

(* No distance is less than the cheapest walk. *)
NeverTooShort == \A v \in Vertices : Cheapest[<<Source, v>>] <= best[v]

Guided == mode = "astar" /\ Consistent

(* A vertex that was reached and is not closed has an entry that is up to  *)
(* date, among any number that are not.                                    *)
OpenAreListed ==
  Guided /\ Target \notin closed =>
    \A v \in Vertices \ closed :
      best[v] < Far => [dist |-> best[v] + hint[v], idx |-> v] \in heap

(* An entry is never under the distance its vertex has by now. *)
EntriesAreHonest ==
  Guided => \A e \in heap : best[e.idx] < Far /\ best[e.idx] + hint[e.idx] <= e.dist

(* Vertices are closed in the order of their priority ... *)
ClosedComeFirst ==
  Guided => \A v \in closed : \A e \in heap : best[v] + hint[v] <= e.dist

(* ... with all their links relaxed, those back to closed ones included ... *)
ClosedAreRelaxed ==
  Guided => \A link \in Links :
              link[1] \in closed \ {Target} => best[link[2]] <= best[link[1]] + cost[link]

(* ... at the cheapest distance. *)
ClosedAreExact ==
  Guided => \A v \in closed : best[v] = Cheapest[<<Source, v>>]

AnswerIsKept ==
  /\ Target \in closed => mode = "astar" /\ heap = {} /\ answer = best[Target]
  /\ Target \notin closed => answer = Far

ExactInv ==
  /\ Typed /\ NeverTooShort
  /\ OpenAreListed /\ EntriesAreHonest /\ ClosedComeFirst
  /\ ClosedAreRelaxed /\ ClosedAreExact /\ AnswerIsKept

(* What the steps below use of the reference, seen from the source. *)
LEMMA CheapestFacts ==
  ASSUME cost \in [Links -> 0 .. Far]
  PROVE  /\ Cheapest \in [Vertices \X Vertices -> 0 .. Far]
         /\ Cheapest[<<Source, Source>>] = 0
         /\ \A u, v \in Vertices : <<u, v>> \in Links =>
              Cheapest[<<Source, v>>] <= Cheapest[<<Source, u>>] + cost[<<u, v>>]
         /\ \A f : Slope(cost, f) /\ f[Source] = 0 =>
              \A v \in Vertices : f[v] <= Cheapest[<<Source, v>>]
<1>1. Metric(cost, Vertices, Cheapest) /\ \A f : Slope(cost, f) => Under(f, Cheapest)
  BY CheapestIsMetric DEF Cheapest
<1>2. Source \in Vertices /\ Far \in Nat
  BY GraphAssumption
<1>3. Cheapest \in [Vertices \X Vertices -> 0 .. Far] /\ Cheapest[<<Source, Source>>] = 0
  BY <1>1, <1>2 DEF Metric
<1>4. ASSUME NEW u \in Vertices, NEW v \in Vertices, <<u, v>> \in Links
      PROVE  Cheapest[<<Source, v>>] <= Cheapest[<<Source, u>>] + cost[<<u, v>>]
  <2> DEFINE a == Cheapest[<<Source, v>>]
             b == Cheapest[<<Source, u>>]
             x == Cheapest[<<u, v>>]
             y == cost[<<u, v>>]
  <2>1. a <= b + x /\ x <= y
    BY <1>1, <1>2, <1>4 DEF Metric
  <2>2. a \in 0 .. Far /\ b \in 0 .. Far /\ x \in 0 .. Far /\ y \in 0 .. Far
    BY <1>2, <1>3, <1>4
  <2> HIDE DEF a, b, x, y
  <2>3. a <= b + y
    BY <1>2, <2>1, <2>2
  <2> QED
    BY <2>3 DEF a, b, y
<1>5. ASSUME NEW f, Slope(cost, f), f[Source] = 0, NEW v \in Vertices
      PROVE  f[v] <= Cheapest[<<Source, v>>]
  <2>1. f[v] <= 0 + Cheapest[<<Source, v>>]
    BY <1>1, <1>2, <1>5 DEF Under
  <2>2. Cheapest[<<Source, v>>] \in 0 .. Far
    BY <1>2, <1>3
  <2> QED
    BY <1>2, <2>1, <2>2
<1> QED
  BY <1>3, <1>4, <1>5

(* The first state: the source at 0, in the heap. *)
LEMMA ExactInit == SearchInit => ExactInv
<1> SUFFICES ASSUME SearchInit PROVE ExactInv
  OBVIOUS
<1>1. /\ Far \in Nat \ {0} /\ Source \in Vertices /\ Target \in Vertices
      /\ Costs \subseteq 0 .. Far /\ Hints \subseteq [Vertices -> Nat]
      /\ Links \subseteq Vertices \X Vertices
  BY GraphAssumption
<1>2. /\ mode \in {"dijkstra", "astar"} /\ closed = {} /\ answer = Far
      /\ best = [v \in Vertices |-> IF v = Source THEN 0 ELSE Far]
      /\ heap = {[dist |-> Priority(Source, 0), idx |-> Source]}
  BY DEF SearchInit
<1>3. cost \in [Links -> 0 .. Far]
  <2>1. cost \in [Links -> Costs \cup {Far}]
    BY DEF SearchInit
  <2>2. Costs \cup {Far} \subseteq 0 .. Far
    BY <1>1
  <2> QED
    BY <2>1, <2>2
<1>4. hint \in [Vertices -> Nat]
  BY <1>1, <1>2 DEF SearchInit
<1>5. Priority(Source, 0) \in Nat /\ (mode = "astar" => Priority(Source, 0) = hint[Source])
  BY <1>1, <1>4 DEF Priority
<1>6. best \in [Vertices -> 0 .. Far] /\ best[Source] = 0
  BY <1>1, <1>2
<1>7. Typed
  BY <1>1, <1>2, <1>3, <1>4, <1>5, <1>6 DEF Typed
<1>8. NeverTooShort
  <2>1. Cheapest \in [Vertices \X Vertices -> 0 .. Far] /\ Cheapest[<<Source, Source>>] = 0
    BY <1>3, CheapestFacts
  <2> SUFFICES ASSUME NEW v \in Vertices PROVE Cheapest[<<Source, v>>] <= best[v]
    BY DEF NeverTooShort
  <2>2. Cheapest[<<Source, v>>] \in 0 .. Far
    BY <1>1, <2>1
  <2>3. CASE v = Source
    BY <1>1, <1>2, <2>1, <2>3
  <2>4. CASE v # Source
    BY <1>1, <1>2, <2>2, <2>4
  <2> QED
    BY <2>3, <2>4
<1>9. \A e \in heap : e.idx = Source /\ e.dist = Priority(Source, 0)
  BY <1>2
<1>10. OpenAreListed
  <2> SUFFICES ASSUME Guided, NEW v \in Vertices, best[v] < Far
               PROVE  [dist |-> best[v] + hint[v], idx |-> v] \in heap
    BY DEF OpenAreListed
  <2>1. v = Source
    BY <1>1, <1>2
  <2>2. best[v] + hint[v] = Priority(Source, 0)
    BY <1>1, <1>4, <1>5, <1>6, <2>1 DEF Guided
  <2> QED
    BY <1>2, <2>1, <2>2
<1>11. EntriesAreHonest
  <2> SUFFICES ASSUME Guided, NEW e \in heap
               PROVE  best[e.idx] < Far /\ best[e.idx] + hint[e.idx] <= e.dist
    BY DEF EntriesAreHonest
  <2> QED
    BY <1>1, <1>4, <1>5, <1>6, <1>9 DEF Guided
<1> QED
  BY <1>2, <1>7, <1>8, <1>10, <1>11
     DEF ExactInv, ClosedComeFirst, ClosedAreRelaxed, ClosedAreExact, AnswerIsKept

(* The cheapest distances do not move: the costs do not. *)
LEMMA CheapestStays ==
  ASSUME cost' = cost
  PROVE  Cheapest' = Cheapest
BY DEF Cheapest

(* A search keeps its kind, its hint and its costs. *)
LEMMA GuidedStays ==
  ASSUME cost' = cost, hint' = hint, mode' = mode
  PROVE  Guided' = Guided
BY DEF Guided, Consistent

(* Dropping a stale entry keeps everything: an open vertex is not at the   *)
(* top then.                                                               *)
LEMMA SkipEntryExact ==
  ASSUME ExactInv, SkipEntry
  PROVE  ExactInv'
<1>1. /\ mode' = mode /\ cost' = cost /\ hint' = hint /\ best' = best
      /\ closed' = closed /\ answer' = answer /\ heap # {}
      /\ heap' = heap \ {Top}
  BY DEF SkipEntry
<1>2. Cheapest' = Cheapest /\ Guided' = Guided
  BY <1>1, CheapestStays, GuidedStays
<1>3. Typed' /\ NeverTooShort'
  BY <1>1, <1>2 DEF ExactInv, Typed, NeverTooShort
<1>4. OpenAreListed'
  <2> SUFFICES ASSUME Guided, Target \notin closed, NEW v \in Vertices \ closed, best[v] < Far
               PROVE  [dist |-> best[v] + hint[v], idx |-> v] \in heap'
    BY <1>1, <1>2 DEF OpenAreListed
  <2>1. [dist |-> best[v] + hint[v], idx |-> v] \in heap
    BY DEF ExactInv, OpenAreListed
  <2>2. Top.idx \in closed
    BY DEF SkipEntry, OutOfDate, Guided
  <2> QED
    BY <1>1, <2>1, <2>2
<1>5. EntriesAreHonest' /\ ClosedComeFirst'
  BY <1>1, <1>2 DEF ExactInv, EntriesAreHonest, ClosedComeFirst
<1>6. ClosedAreRelaxed' /\ ClosedAreExact'
  BY <1>1, <1>2 DEF ExactInv, ClosedAreRelaxed, ClosedAreExact
<1>7. AnswerIsKept'
  BY <1>1 DEF ExactInv, AnswerIsKept
<1> QED
  BY <1>3, <1>4, <1>5, <1>6, <1>7 DEF ExactInv

(* What one relaxation does to the distances. *)
LEMMA RelaxLowers ==
  ASSUME Typed, NeverTooShort, NEW u \in Vertices,
         best' = [v \in Vertices |-> IF v \in Improved(u) THEN Offer(u, v) ELSE best[v]]
  PROVE  /\ best' \in [Vertices -> 0 .. Far] /\ best'[Source] = 0
         /\ best'[u] = best[u]
         /\ \A v \in closed : best'[v] = best[v]
         /\ \A v \in Vertices : best'[v] <= best[v] /\ Cheapest[<<Source, v>>] <= best'[v]
         /\ \A v \in Vertices : v \notin Improved(u) => best'[v] = best[v]
         /\ \A v \in Improved(u) : /\ v \in Vertices \ (closed \cup {u})
                                   /\ <<u, v>> \in Links
                                   /\ best'[v] = Offer(u, v)
                                   /\ best'[v] = best[u] + cost[<<u, v>>]
                                   /\ best'[v] < best[v]
         /\ \A v \in Vertices \ closed : <<u, v>> \in Links => best'[v] <= best[u] + cost[<<u, v>>]
<1>1. Far \in Nat /\ Links \subseteq Vertices \X Vertices /\ Source \in Vertices
  BY GraphAssumption
<1>2. /\ cost \in [Links -> 0 .. Far] /\ best \in [Vertices -> 0 .. Far] /\ best[Source] = 0
      /\ closed \in SUBSET Vertices
  BY DEF Typed
<1>3. ASSUME NEW v \in Improved(u)
      PROVE  /\ v \in Vertices \ (closed \cup {u})
             /\ <<u, v>> \in Links
             /\ Offer(u, v) = best[u] + cost[<<u, v>>]
             /\ Offer(u, v) < best[v] /\ best'[v] = Offer(u, v)
             /\ Offer(u, v) \in 0 .. Far
  <2>1. v \in Vertices \ (closed \cup {u}) /\ Offer(u, v) < best[v]
    BY DEF Improved
  <2>2. best[v] \in 0 .. Far /\ best[u] \in 0 .. Far
    BY <1>2, <2>1
  <2>3. <<u, v>> \in Links
    <3>1. <<u, v>> \notin Links => Offer(u, v) = Far
      BY DEF Offer
    <3> QED
      BY <1>1, <2>1, <2>2, <3>1
  <2>4. Offer(u, v) = best[u] + cost[<<u, v>>] /\ cost[<<u, v>>] \in 0 .. Far
    BY <1>2, <2>3 DEF Offer
  <2>5. Offer(u, v) \in 0 .. Far
    BY <1>1, <2>1, <2>2, <2>4
  <2> QED
    BY <2>1, <2>3, <2>4, <2>5
<1>4. \A v \in Vertices : v \notin Improved(u) => best'[v] = best[v]
  OBVIOUS
<1>5. best' \in [Vertices -> 0 .. Far]
  BY <1>2, <1>3
<1>6. u \notin Improved(u) /\ \A v \in closed : v \in Vertices /\ v \notin Improved(u)
  BY <1>2 DEF Improved
<1>7. ASSUME NEW v \in Vertices PROVE best'[v] <= best[v]
  <2>1. best[v] \in 0 .. Far /\ best'[v] \in 0 .. Far
    BY <1>2, <1>5
  <2>2. CASE v \in Improved(u)
    <3>1. best'[v] < best[v]
      BY <1>3, <2>2
    <3> QED
      BY <1>1, <2>1, <3>1
  <2>3. CASE v \notin Improved(u)
    BY <1>1, <1>4, <2>1, <2>3
  <2> QED
    BY <2>2, <2>3
<1>8. best'[Source] = 0
  <2>1. best'[Source] \in 0 .. Far /\ best'[Source] <= 0
    BY <1>1, <1>2, <1>5, <1>7
  <2> QED
    BY <1>1, <2>1
<1>9. ASSUME NEW v \in Vertices PROVE Cheapest[<<Source, v>>] <= best'[v]
  <2>1. CASE v \notin Improved(u)
    BY <1>4, <2>1 DEF NeverTooShort
  <2>2. CASE v \in Improved(u)
    <3> DEFINE a == Cheapest[<<Source, v>>]
               b == Cheapest[<<Source, u>>]
               x == best[u]
               y == cost[<<u, v>>]
    <3>1. a <= b + y
      BY <1>2, <1>3, <2>2, CheapestFacts
    <3>2. b <= x
      BY DEF NeverTooShort
    <3>3. a \in 0 .. Far /\ b \in 0 .. Far /\ x \in 0 .. Far /\ y \in 0 .. Far
      BY <1>1, <1>2, <1>3, <2>2, CheapestFacts
    <3>4. best'[v] = x + y
      BY <1>3, <2>2
    <3> HIDE DEF a, b, x, y
    <3>5. a <= best'[v]
      BY <1>1, <3>1, <3>2, <3>3, <3>4
    <3> QED
      BY <3>5 DEF a
  <2> QED
    BY <2>1, <2>2
<1>10. ASSUME NEW v \in Vertices \ closed, <<u, v>> \in Links
       PROVE  best'[v] <= best[u] + cost[<<u, v>>]
  <2>1. best[v] \in 0 .. Far /\ best[u] \in 0 .. Far /\ cost[<<u, v>>] \in 0 .. Far
    BY <1>2, <1>10
  <2>2. Offer(u, v) = best[u] + cost[<<u, v>>]
    BY <1>10 DEF Offer
  <2>3. CASE v = u
    BY <1>1, <1>4, <1>6, <2>1, <2>3
  <2>4. CASE v # u /\ v \notin Improved(u)
    <3>1. ~(Offer(u, v) < best[v])
      BY <2>4 DEF Improved
    <3> QED
      BY <1>1, <1>4, <2>1, <2>2, <2>4, <3>1
  <2>5. CASE v \in Improved(u)
    BY <1>3, <2>1, <2>5
  <2> QED
    BY <2>3, <2>4, <2>5
<1> QED
  BY <1>3, <1>4, <1>5, <1>6, <1>7, <1>8, <1>9, <1>10

(* A step of Dijkstra keeps its distances above the reference. *)
LEMMA SettleInDijkstraExact ==
  ASSUME ExactInv, SettleInDijkstra
  PROVE  ExactInv'
<1> DEFINE u == Top.idx
<1>1. /\ mode = "dijkstra" /\ mode' = mode /\ cost' = cost /\ hint' = hint
      /\ closed' = closed /\ answer' = answer /\ heap # {}
      /\ best' = [v \in Vertices |-> IF v \in Improved(u) THEN Offer(u, v) ELSE best[v]]
      /\ heap' = (heap \ {Top}) \cup
                 {[dist |-> Priority(v, Offer(u, v)), idx |-> v] : v \in Improved(u)}
  BY DEF SettleInDijkstra, Relax
<1>2. Typed /\ NeverTooShort /\ AnswerIsKept /\ heap \in SUBSET [dist : Nat, idx : Vertices]
  BY DEF ExactInv, Typed
<1>3. u \in Vertices
  BY <1>1, <1>2, TopIsLeast
<1> HIDE DEF u
<1>4. /\ best' \in [Vertices -> 0 .. Far] /\ best'[Source] = 0
      /\ \A v \in Vertices : Cheapest[<<Source, v>>] <= best'[v]
      /\ \A v \in Improved(u) : v \in Vertices /\ best'[v] = Offer(u, v)
  BY <1>1, <1>2, <1>3, RelaxLowers
<1>5. heap' \in SUBSET [dist : Nat, idx : Vertices]
  <2>1. \A v \in Improved(u) : v \in Vertices /\ Priority(v, Offer(u, v)) \in Nat
    <3>1. Far \in Nat
      BY GraphAssumption
    <3> QED
      BY <1>1, <1>4, <3>1 DEF Priority
  <2> QED
    BY <1>1, <1>2, <2>1
<1>6. Cheapest' = Cheapest /\ ~Guided'
  BY <1>1, CheapestStays DEF Guided
<1>7. Typed' /\ NeverTooShort'
  BY <1>1, <1>2, <1>4, <1>5, <1>6 DEF Typed, NeverTooShort
<1>8. AnswerIsKept'
  BY <1>1, <1>2 DEF AnswerIsKept
<1> QED
  BY <1>6, <1>7, <1>8
     DEF ExactInv, OpenAreListed, EntriesAreHonest, ClosedComeFirst, ClosedAreRelaxed,
         ClosedAreExact

(* With a consistent hint the vertex that comes up open has its cheapest   *)
(* distance: let m be its priority.  The distances of the closed vertices  *)
(* and m less the hint for the open ones make a slope from the source, and *)
(* no slope passes the cheapest distances.                                 *)
LEMMA TopIsExact ==
  ASSUME ExactInv, Guided, heap # {}, Top.idx \notin closed
  PROVE  /\ Top.dist = best[Top.idx] + hint[Top.idx]
         /\ best[Top.idx] < Far
         /\ best[Top.idx] = Cheapest[<<Source, Top.idx>>]
<1> DEFINE u == Top.idx
           m == Top.dist
           Left(v) == IF m <= hint[v] THEN 0
                      ELSE IF m - hint[v] <= Far THEN m - hint[v] ELSE Far
           f == [v \in Vertices |-> IF v \in closed THEN best[v] ELSE Left(v)]
<1>1. /\ Far \in Nat \ {0} /\ Links \subseteq Vertices \X Vertices
      /\ Source \in Vertices /\ Target \in Vertices
  BY GraphAssumption
<1>2. /\ cost \in [Links -> 0 .. Far] /\ hint \in [Vertices -> Nat]
      /\ best \in [Vertices -> 0 .. Far] /\ best[Source] = 0
      /\ closed \in SUBSET Vertices /\ heap \in SUBSET [dist : Nat, idx : Vertices]
  BY DEF ExactInv, Typed
<1>3. /\ Top \in heap /\ m \in Nat /\ u \in Vertices /\ \A e \in heap : m <= e.dist
  BY <1>2, TopIsLeast
<1>4. Target \notin closed
  BY DEF ExactInv, AnswerIsKept
<1>5. best[u] < Far /\ best[u] + hint[u] <= m
  BY <1>3 DEF ExactInv, EntriesAreHonest
<1>6. ASSUME NEW v \in Vertices \ closed, best[v] < Far
      PROVE  m <= best[v] + hint[v]
  <2> DEFINE e == [dist |-> best[v] + hint[v], idx |-> v]
  <2>1. e \in heap
    BY <1>4, <1>6 DEF ExactInv, OpenAreListed
  <2>2. m <= e.dist
    BY <1>3, <2>1
  <2> QED
    BY <2>2
<1>7. m = best[u] + hint[u]
  <2>1. m <= best[u] + hint[u] /\ best[u] \in 0 .. Far /\ hint[u] \in Nat
    BY <1>2, <1>3, <1>5, <1>6
  <2> QED
    BY <1>1, <1>3, <1>5, <2>1
<1>8. ASSUME NEW v \in closed PROVE best[v] + hint[v] <= m
  BY <1>3 DEF ExactInv, ClosedComeFirst
<1> HIDE DEF m
<1>9. \A v \in Vertices : Left(v) \in 0 .. Far
  BY <1>1, <1>2, <1>3
<1>10. f \in [Vertices -> 0 .. Far]
  <2> HIDE DEF Left
  <2> QED
    BY <1>2, <1>9
<1>11. f[Source] = 0
  <2>1. CASE Source \in closed
    BY <1>1, <1>2, <2>1
  <2>2. CASE Source \notin closed
    <3>1. m <= 0 + hint[Source]
      BY <1>1, <1>2, <1>6, <2>2
    <3>2. Left(Source) = 0
      BY <1>1, <1>2, <1>3, <3>1
    <3> QED
      BY <1>1, <2>2, <3>2
  <2> QED
    BY <2>1, <2>2
<1>12. ASSUME NEW link \in Links
       PROVE  f[link[2]] <= f[link[1]] + cost[link]
  <2> DEFINE v == link[1]
             w == link[2]
             c == cost[link]
             hv == hint[v]
             hw == hint[w]
             bv == best[v]
             bw == best[w]
  <2>1. /\ v \in Vertices /\ w \in Vertices /\ c \in 0 .. Far
        /\ hv \in Nat /\ hw \in Nat /\ bv \in 0 .. Far /\ bw \in 0 .. Far
    BY <1>1, <1>2
  <2>2. hv <= c + hw
    BY DEF Guided, Consistent
  <2>3. v \in closed => bw <= bv + c
    BY <1>4 DEF ExactInv, ClosedAreRelaxed
  <2>4. w \in closed => bw + hw <= m
    BY <1>8
  <2>5. w \notin closed /\ bw < Far => m <= bw + hw
    BY <1>6, <2>1
  <2>6. /\ f[v] = IF v \in closed THEN bv
                  ELSE IF m <= hv THEN 0 ELSE IF m - hv <= Far THEN m - hv ELSE Far
        /\ f[w] = IF w \in closed THEN bw
                  ELSE IF m <= hw THEN 0 ELSE IF m - hw <= Far THEN m - hw ELSE Far
    BY <2>1
  <2> HIDE DEF f, v, w, c, hv, hw, bv, bw
  <2>7. CASE v \in closed /\ w \in closed
    BY <1>1, <2>1, <2>3, <2>6, <2>7 DEF v, w, c
  <2>8. CASE v \in closed /\ w \notin closed
    <3>1. f[w] <= bv + c
      BY <1>1, <1>3, <2>1, <2>3, <2>5, <2>6, <2>8
    <3> QED
      BY <2>6, <2>8, <3>1 DEF v, w, c
  <2>9. CASE v \notin closed /\ w \in closed
    <3>1. f[w] <= f[v] + c
      BY <1>1, <1>3, <2>1, <2>2, <2>4, <2>6, <2>9
    <3> QED
      BY <3>1 DEF v, w, c
  <2>10. CASE v \notin closed /\ w \notin closed
    <3>1. f[w] <= f[v] + c
      BY <1>1, <1>3, <2>1, <2>2, <2>6, <2>10
    <3> QED
      BY <3>1 DEF v, w, c
  <2> QED
    BY <2>7, <2>8, <2>9, <2>10
<1>13. Slope(cost, f)
  BY <1>10, <1>12 DEF Slope
<1>14. f[u] <= Cheapest[<<Source, u>>]
  <2> HIDE DEF f, u
  <2> QED
    BY <1>2, <1>3, <1>11, <1>13, CheapestFacts
<1>15. f[u] = best[u]
  <2>1. Left(u) = best[u]
    <3>1. best[u] \in 0 .. Far /\ hint[u] \in Nat
      BY <1>2, <1>3
    <3> HIDE DEF u
    <3> QED
      BY <1>1, <1>3, <1>5, <1>7, <3>1
  <2> HIDE DEF Left
  <2> QED
    BY <1>3, <2>1
<1>16. Cheapest[<<Source, u>>] <= best[u]
  BY <1>3 DEF ExactInv, NeverTooShort
<1>17. best[u] = Cheapest[<<Source, u>>]
  <2> DEFINE a == best[u]
             b == Cheapest[<<Source, u>>]
  <2>1. a <= b /\ b <= a
    BY <1>14, <1>15, <1>16
  <2>2. a \in 0 .. Far /\ b \in 0 .. Far
    BY <1>1, <1>2, <1>3, CheapestFacts
  <2> HIDE DEF a, b
  <2>3. a = b
    BY <1>1, <2>1, <2>2
  <2> QED
    BY <2>3 DEF a, b
<1> QED
  BY <1>5, <1>7, <1>17 DEF m

(* A step of A* closes a vertex at its cheapest distance and keeps the     *)
(* order.                                                                  *)
LEMMA SettleInAStarExact ==
  ASSUME ExactInv, SettleInAStar
  PROVE  ExactInv'
<1> DEFINE u == Top.idx
<1>1. /\ mode = "astar" /\ mode' = mode /\ cost' = cost /\ hint' = hint
      /\ closed' = closed \cup {u} /\ answer' = answer /\ heap # {}
      /\ u \notin closed /\ u # Target
      /\ best' = [v \in Vertices |-> IF v \in Improved(u) THEN Offer(u, v) ELSE best[v]]
      /\ heap' = (heap \ {Top}) \cup
                 {[dist |-> Offer(u, v) + hint[v], idx |-> v] : v \in Improved(u)}
  BY DEF SettleInAStar, Relax, OutOfDate, Priority
<1>2. /\ Typed /\ NeverTooShort /\ AnswerIsKept /\ Target \notin closed
      /\ cost \in [Links -> 0 .. Far] /\ hint \in [Vertices -> Nat]
      /\ best \in [Vertices -> 0 .. Far] /\ closed \in SUBSET Vertices
      /\ heap \in SUBSET [dist : Nat, idx : Vertices]
  BY <1>1 DEF ExactInv, Typed, AnswerIsKept
<1>3. Top \in heap /\ Top.dist \in Nat /\ u \in Vertices /\ \A e \in heap : Top.dist <= e.dist
  BY <1>1, <1>2, TopIsLeast
<1>4. Guided => /\ Top.dist = best[u] + hint[u]
                /\ best[u] = Cheapest[<<Source, u>>]
  BY <1>1, TopIsExact
<1> DEFINE m == Top.dist
<1>5. Top.idx = u /\ Top.dist = m
  OBVIOUS
<1>6. Far \in Nat /\ Links \subseteq Vertices \X Vertices
  BY GraphAssumption
<1> HIDE DEF u, m
<1>7. /\ best' \in [Vertices -> 0 .. Far] /\ best'[Source] = 0
      /\ best'[u] = best[u]
      /\ \A v \in closed : best'[v] = best[v]
      /\ \A v \in Vertices : best'[v] <= best[v] /\ Cheapest[<<Source, v>>] <= best'[v]
      /\ \A v \in Vertices : v \notin Improved(u) => best'[v] = best[v]
      /\ \A v \in Improved(u) : /\ v \in Vertices \ (closed \cup {u})
                                /\ <<u, v>> \in Links
                                /\ best'[v] = Offer(u, v)
                                /\ best'[v] = best[u] + cost[<<u, v>>]
                                /\ best'[v] < best[v]
      /\ \A v \in Vertices \ closed : <<u, v>> \in Links => best'[v] <= best[u] + cost[<<u, v>>]
  BY <1>1, <1>2, <1>3, RelaxLowers
<1>8. \A v \in Improved(u) : v \in Vertices /\ best'[v] \in 0 .. Far /\ hint[v] \in Nat
  BY <1>2, <1>7
<1>9. heap' = (heap \ {Top}) \cup {[dist |-> best'[v] + hint[v], idx |-> v] : v \in Improved(u)}
  BY <1>1, <1>7
<1>10. Cheapest' = Cheapest /\ Guided' = Guided
  BY <1>1, CheapestStays, GuidedStays
<1>11. Typed'
  <2>1. heap' \in SUBSET [dist : Nat, idx : Vertices]
    BY <1>2, <1>6, <1>8, <1>9
  <2> QED
    BY <1>1, <1>2, <1>3, <1>7, <2>1 DEF Typed
<1>12. NeverTooShort'
  BY <1>7, <1>10 DEF NeverTooShort
<1>13. AnswerIsKept'
  BY <1>1, <1>2 DEF AnswerIsKept
<1>14. OpenAreListed'
  <2> SUFFICES ASSUME Guided, NEW v \in Vertices \ (closed \cup {u}), best'[v] < Far
               PROVE  [dist |-> best'[v] + hint[v], idx |-> v] \in heap'
    BY <1>1, <1>10 DEF OpenAreListed
  <2>1. CASE v \in Improved(u)
    BY <1>9, <2>1
  <2>2. CASE v \notin Improved(u)
    <3>1. best'[v] = best[v]
      BY <1>7, <2>2
    <3>2. [dist |-> best[v] + hint[v], idx |-> v] \in heap
      BY <1>2, <3>1 DEF ExactInv, OpenAreListed
    <3> QED
      BY <1>5, <1>9, <3>1, <3>2
  <2> QED
    BY <2>1, <2>2
<1>15. EntriesAreHonest'
  <2> SUFFICES ASSUME Guided, NEW e \in heap'
               PROVE  best'[e.idx] < Far /\ best'[e.idx] + hint[e.idx] <= e.dist
    BY <1>1, <1>10 DEF EntriesAreHonest
  <2>1. CASE e \in heap
    <3>1. best[e.idx] < Far /\ best[e.idx] + hint[e.idx] <= e.dist
      BY <2>1 DEF ExactInv, EntriesAreHonest
    <3> DEFINE b == best[e.idx]
               c == best'[e.idx]
               h == hint[e.idx]
               d == e.dist
    <3>2. b \in 0 .. Far /\ c \in 0 .. Far /\ c <= b /\ h \in Nat /\ d \in Nat
      BY <1>2, <1>7, <2>1
    <3> HIDE DEF b, c, h, d
    <3>3. b < Far /\ b + h <= d
      BY <3>1 DEF b, h, d
    <3>4. c < Far /\ c + h <= d
      BY <1>6, <3>2, <3>3
    <3> QED
      BY <3>4 DEF c, h, d
  <2>2. CASE e \notin heap
    <3>1. PICK v \in Improved(u) : e = [dist |-> best'[v] + hint[v], idx |-> v]
      BY <1>9, <2>2
    <3>2. best'[v] < best[v] /\ best'[v] \in 0 .. Far /\ best[v] \in 0 .. Far /\ hint[v] \in Nat
      BY <1>2, <1>7, <1>8
    <3> QED
      BY <1>6, <3>1, <3>2
  <2> QED
    BY <2>1, <2>2
(* what the vertex that is closed now has in common with the earlier ones *)
<1>16. ASSUME Guided, NEW v \in closed \cup {u}
       PROVE  /\ v \in Vertices /\ best'[v] = best[v] /\ best[v] \in 0 .. Far
              /\ hint[v] \in Nat /\ best[v] + hint[v] <= m
  <2>1. v \in Vertices /\ best'[v] = best[v] /\ best[v] \in 0 .. Far /\ hint[v] \in Nat
    BY <1>2, <1>3, <1>7
  <2>2. CASE v \in closed
    BY <1>3, <1>5, <1>16, <2>1, <2>2 DEF ExactInv, ClosedComeFirst
  <2>3. CASE v = u
    <3>1. best[v] + hint[v] = m
      BY <1>4, <1>5, <1>16, <2>3
    <3> QED
      BY <1>3, <1>5, <2>1, <3>1
  <2> QED
    BY <2>1, <2>2, <2>3
(* a link of u does not lead under the priority of u *)
<1>17. ASSUME Guided, NEW w \in Vertices, <<u, w>> \in Links
       PROVE  /\ best[u] \in 0 .. Far /\ cost[<<u, w>>] \in 0 .. Far /\ hint[w] \in Nat
              /\ m \in Nat /\ m <= (best[u] + cost[<<u, w>>]) + hint[w]
  <2> DEFINE b == best[u]
             c == cost[<<u, w>>]
             h == hint[w]
             g == hint[u]
  <2>1. b \in 0 .. Far /\ c \in 0 .. Far /\ h \in Nat /\ g \in Nat /\ m \in Nat
    BY <1>2, <1>3, <1>5, <1>17
  <2>2. g <= c + h
    <3> DEFINE link == <<u, w>>
    <3>1. link \in Links /\ link[1] = u /\ link[2] = w
      BY <1>17
    <3>2. hint[link[1]] <= cost[link] + hint[link[2]]
      BY <1>17, <3>1 DEF Guided, Consistent
    <3> QED
      BY <3>1, <3>2
  <2>3. m = b + g
    BY <1>4, <1>5, <1>17
  <2> HIDE DEF b, c, h, g
  <2>4. m <= (b + c) + h
    BY <1>6, <2>1, <2>2, <2>3
  <2> QED
    BY <2>1, <2>4 DEF b, c, h
<1>18. ClosedComeFirst'
  <2> SUFFICES ASSUME Guided, NEW v \in closed \cup {u}, NEW e \in heap'
               PROVE  best[v] + hint[v] <= e.dist
    BY <1>1, <1>10, <1>16 DEF ClosedComeFirst
  <2>1. m <= e.dist /\ e.dist \in Nat /\ m \in Nat
    <3>1. CASE e \in heap
      BY <1>2, <1>3, <1>5, <3>1
    <3>2. CASE e \notin heap
      <4>1. PICK w \in Improved(u) : e = [dist |-> best'[w] + hint[w], idx |-> w]
        BY <1>9, <3>2
      <4>2. /\ w \in Vertices /\ <<u, w>> \in Links /\ best'[w] = best[u] + cost[<<u, w>>]
            /\ e.dist = best'[w] + hint[w]
        BY <1>7, <4>1
      <4>3. m \in Nat /\ m <= (best[u] + cost[<<u, w>>]) + hint[w]
        BY <1>17, <4>2
      <4>4. best'[w] + hint[w] \in Nat
        BY <1>6, <1>8, <4>1
      <4> QED
        BY <4>2, <4>3, <4>4
    <3> QED
      BY <3>1, <3>2
  <2>2. best[v] + hint[v] <= m /\ best[v] \in 0 .. Far /\ hint[v] \in Nat
    BY <1>16
  <2> QED
    BY <1>6, <2>1, <2>2
<1>19. ClosedAreRelaxed'
  <2> SUFFICES ASSUME Guided, NEW link \in Links, link[1] \in (closed \cup {u}) \ {Target}
               PROVE  best'[link[2]] <= best[link[1]] + cost[link]
    BY <1>1, <1>10, <1>16 DEF ClosedAreRelaxed
  <2> DEFINE v == link[1]
             w == link[2]
  <2>1. link = <<v, w>> /\ v \in Vertices /\ w \in Vertices
    BY <1>6
  <2>2. CASE v \in closed
    <3> DEFINE b == best[v]
               c == cost[link]
               x == best[w]
               y == best'[w]
    <3>1. x <= b + c
      BY <2>2 DEF ExactInv, ClosedAreRelaxed
    <3>2. y <= x /\ b \in 0 .. Far /\ c \in 0 .. Far /\ x \in 0 .. Far /\ y \in 0 .. Far
      BY <1>2, <1>7, <2>1
    <3> HIDE DEF b, c, x, y
    <3>3. y <= b + c
      BY <1>6, <3>1, <3>2
    <3> QED
      BY <3>3 DEF b, c, y
  <2>3. CASE v = u /\ w \notin closed
    BY <1>7, <2>1, <2>3
  <2>4. CASE v = u /\ w \in closed
    <3> DEFINE b == best[u]
               c == cost[<<u, w>>]
               h == hint[w]
               x == best[w]
    <3>1. x + h <= m /\ x \in 0 .. Far /\ best'[w] = x
      BY <1>16, <2>4
    <3>2. /\ b \in 0 .. Far /\ c \in 0 .. Far /\ h \in Nat /\ m \in Nat
          /\ m <= (b + c) + h
      BY <1>17, <2>1, <2>4
    <3>3. best[link[1]] = b /\ cost[link] = c /\ best'[link[2]] = x
      BY <2>1, <2>4, <3>1
    <3> HIDE DEF b, c, h, x
    <3>4. x <= b + c
      BY <1>6, <3>1, <3>2
    <3> QED
      BY <3>3, <3>4
  <2> QED
    BY <2>2, <2>3, <2>4
<1>20. ClosedAreExact'
  <2> SUFFICES ASSUME Guided, NEW v \in closed \cup {u}
               PROVE  best[v] = Cheapest[<<Source, v>>]
    BY <1>1, <1>10, <1>16 DEF ClosedAreExact
  <2>1. CASE v \in closed
    BY <2>1 DEF ExactInv, ClosedAreExact
  <2>2. CASE v = u
    BY <1>4, <2>2
  <2> QED
    BY <2>1, <2>2
<1> QED
  BY <1>11, <1>12, <1>13, <1>14, <1>15, <1>18, <1>19, <1>20 DEF ExactInv

(* A* stops at the target, at its cheapest distance. *)
LEMMA ArriveExact ==
  ASSUME ExactInv, Arrive
  PROVE  ExactInv'
<1>1. /\ mode = "astar" /\ mode' = mode /\ cost' = cost /\ hint' = hint /\ best' = best
      /\ closed' = closed \cup {Target} /\ answer' = best[Target] /\ heap' = {} /\ heap # {}
      /\ Top.idx \notin closed /\ Top.idx = Target
  BY DEF Arrive, OutOfDate
<1>2. Cheapest' = Cheapest /\ Guided' = Guided
  BY <1>1, CheapestStays, GuidedStays
<1>3. Typed' /\ NeverTooShort'
  BY <1>1, <1>2, GraphAssumption DEF ExactInv, Typed, NeverTooShort
<1>4. OpenAreListed' /\ EntriesAreHonest' /\ ClosedComeFirst'
  BY <1>1 DEF OpenAreListed, EntriesAreHonest, ClosedComeFirst
<1>5. ClosedAreRelaxed'
  BY <1>1, <1>2 DEF ExactInv, ClosedAreRelaxed
<1>6. Guided => best[Target] = Cheapest[<<Source, Target>>]
  BY <1>1, TopIsExact
<1>7. ClosedAreExact'
  <2>1. ASSUME Guided, NEW v \in closed PROVE best[v] = Cheapest[<<Source, v>>]
    BY <2>1 DEF ExactInv, ClosedAreExact
  <2> QED
    BY <1>1, <1>2, <1>6, <2>1 DEF ClosedAreExact
<1>8. AnswerIsKept'
  BY <1>1 DEF AnswerIsKept
<1> QED
  BY <1>3, <1>4, <1>5, <1>7, <1>8 DEF ExactInv

(* Distances that no link lowers are the cheapest ones. *)
LEMMA SlopeIsExact ==
  ASSUME Typed, NeverTooShort, Slope(cost, best)
  PROVE  \A v \in Vertices : best[v] = Cheapest[<<Source, v>>]
<1> SUFFICES ASSUME NEW v \in Vertices PROVE best[v] = Cheapest[<<Source, v>>]
  OBVIOUS
<1>1. /\ cost \in [Links -> 0 .. Far] /\ best \in [Vertices -> 0 .. Far] /\ best[Source] = 0
      /\ Far \in Nat /\ Source \in Vertices
  BY GraphAssumption DEF Typed
<1> DEFINE a == best[v]
           b == Cheapest[<<Source, v>>]
<1>2. a <= b
  BY <1>1, CheapestFacts
<1>3. b <= a
  BY DEF NeverTooShort
<1>4. a \in 0 .. Far /\ b \in 0 .. Far
  BY <1>1, CheapestFacts
<1> HIDE DEF a, b
<1>5. a = b
  BY <1>1, <1>2, <1>3, <1>4
<1> QED
  BY <1>5 DEF a, b

(* What the invariant says once the heap is empty, or a vertex is closed. *)
LEMMA ExactAtTheEnd ==
  ASSUME ExactInv, LinksAreRelaxed
  PROVE  DistancesAreShortest
<1>1. /\ cost \in [Links -> 0 .. Far] /\ best \in [Vertices -> 0 .. Far] /\ Far \in Nat
      /\ Links \subseteq Vertices \X Vertices /\ Target \in Vertices
      /\ Typed /\ NeverTooShort
  BY GraphAssumption DEF ExactInv, Typed
<1>2. ASSUME NEW link \in Links, best[link[1]] = Far
      PROVE  best[link[2]] <= best[link[1]] + cost[link]
  <2>1. best[link[2]] \in 0 .. Far /\ cost[link] \in 0 .. Far
    BY <1>1
  <2> QED
    BY <1>1, <1>2, <2>1
<1>3. ASSUME mode = "dijkstra", heap = {}, NEW v \in Vertices
      PROVE  best[v] = Cheapest[<<Source, v>>]
  <2>1. \A link \in Links : best[link[2]] <= best[link[1]] + cost[link]
    BY <1>2, <1>3 DEF LinksAreRelaxed
  <2>2. Slope(cost, best)
    BY <1>1, <2>1 DEF Slope
  <2> QED
    BY <1>1, <2>2, SlopeIsExact
<1>4. ASSUME mode = "astar", Consistent, NEW v \in closed
      PROVE  best[v] = Cheapest[<<Source, v>>]
  BY <1>4 DEF ExactInv, ClosedAreExact, Guided
<1>5. ASSUME mode = "astar", Consistent, heap = {}
      PROVE  answer = Cheapest[<<Source, Target>>]
  <2>1. CASE Target \in closed
    BY <1>4, <1>5, <2>1 DEF ExactInv, AnswerIsKept
  <2>2. CASE Target \notin closed
    <3>1. ASSUME NEW v \in Vertices, v \notin closed PROVE best[v] = Far
      <4>1. ~(best[v] < Far)
        BY <1>5, <2>2, <3>1 DEF ExactInv, OpenAreListed, Guided
      <4> QED
        BY <1>1, <4>1
    <3>2. ASSUME NEW link \in Links
          PROVE  best[link[2]] <= best[link[1]] + cost[link]
      <4>1. link[1] \in Vertices
        BY <1>1
      <4>2. CASE link[1] \in closed
        BY <1>5, <2>2, <4>2 DEF ExactInv, ClosedAreRelaxed, Guided
      <4>3. CASE link[1] \notin closed
        BY <1>2, <3>1, <4>1, <4>3
      <4> QED
        BY <4>2, <4>3
    <3>3. Slope(cost, best)
      BY <1>1, <3>2 DEF Slope
    <3>4. best[Target] = Cheapest[<<Source, Target>>]
      BY <1>1, <3>3, SlopeIsExact
    <3> QED
      BY <1>1, <2>2, <3>1, <3>4 DEF ExactInv, AnswerIsKept
  <2> QED
    BY <2>1, <2>2
<1> QED
  BY <1>3, <1>4, <1>5 DEF DistancesAreShortest

(* DistancesAreShortest, for every finite graph, all costs and all hints:  *)
(* dijkstra_dist and astar_search find the distances of the cheapest walks *)
(* whatever stale entries their heaps carry, A* under a consistent hint.   *)
THEOREM ExactDistances == SearchSpec => []DistancesAreShortest
<1>1. SearchInit => ExactInv
  BY ExactInit
<1>2. ExactInv /\ [SearchNext]_searchVars => ExactInv'
  <2> SUFFICES ASSUME ExactInv, [SearchNext]_searchVars
               PROVE  ExactInv'
    OBVIOUS
  <2>1. CASE SearchNext
    BY <2>1, SkipEntryExact, SettleInDijkstraExact, SettleInAStarExact, ArriveExact DEF SearchNext
  <2>2. CASE UNCHANGED searchVars
    <3>1. /\ mode' = mode /\ cost' = cost /\ hint' = hint /\ best' = best
          /\ closed' = closed /\ heap' = heap /\ answer' = answer
      BY <2>2 DEF searchVars
    <3>2. Cheapest' = Cheapest /\ Guided' = Guided
      BY <3>1, CheapestStays, GuidedStays
    <3> QED
      BY <3>1, <3>2
         DEF ExactInv, Typed, NeverTooShort, OpenAreListed, EntriesAreHonest, ClosedComeFirst,
             ClosedAreRelaxed, ClosedAreExact, AnswerIsKept
  <2> QED
    BY <2>1, <2>2
<1>3. ExactInv /\ SearchInv => DistancesAreShortest
  BY ExactAtTheEnd DEF SearchInv
<1> QED
  BY <1>1, <1>2, <1>3, SearchInvHolds, PTL DEF SearchSpec

-----------------------------------------------------------------------------
(***************************************************************************)
(* What the shortest-path rows are read from, for any finite graph, any    *)
(* bounds and any targets: when the search is over, whether the queue ran  *)
(* empty or the last target stopped it, the predecessors of a node that a  *)
(* row may end at are exactly the edges onto it from one hop nearer.  The  *)
(* argument is the order of the queue: it never holds more than two levels *)
(* and is sorted by them, so that what a stop leaves in it is no nearer    *)
(* than the deepest target.                                                *)
(***************************************************************************)

LEMMA AdjsType ==
  ASSUME errand \in ErrandType, NEW v \in Places
  PROVE  AdjsOf(v) \in Seq(Adj)
<1>1. errand.outs[v] \in Seq(Adj) /\ errand.incs[v] \in Seq(Adj)
  BY DEF ErrandType
<1>2. <<>> \in Seq(Adj)
  OBVIOUS
<1> DEFINE a == IF errand.dir = "in" THEN <<>> ELSE errand.outs[v]
           b == IF errand.dir = "out" THEN <<>> ELSE errand.incs[v]
<1>3. a \in Seq(Adj) /\ b \in Seq(Adj)
  BY <1>1, <1>2
<1>4. AdjsOf(v) = a \o b
  BY DEF AdjsOf
<1> HIDE DEF a, b
<1> QED
  BY <1>3, <1>4

LEMMA Frame ==
  ASSUME errand' = errand
  PROVE  /\ \A v : AdjsOf(v)' = AdjsOf(v)
         /\ dist' = dist => /\ \A v : Known(v)' = Known(v) /\ AtCap(v)' = AtCap(v)
                            /\ TargetsLeft' = TargetsLeft
         /\ dist' = dist /\ stopAt' = stopAt => \A v : Settled(v)' = Settled(v)
BY DEF AdjsOf, Known, AtCap, Settled, TargetsLeft

LEMMA HeadTail ==
  ASSUME NEW S, NEW q \in Seq(S), q # <<>>
  PROVE  /\ Head(q) \in S /\ Tail(q) \in Seq(S)
         /\ Head(q) = q[1] /\ 1 \in DOMAIN q
         /\ Range(q) = {Head(q)} \cup Range(Tail(q))
         /\ \A i \in DOMAIN Tail(q) : i + 1 \in DOMAIN q /\ Tail(q)[i] = q[i + 1]
<1>1. /\ Len(q) \in Nat /\ Len(q) >= 1 /\ DOMAIN q = 1 .. Len(q)
      /\ Tail(q) \in Seq(S) /\ Len(Tail(q)) = Len(q) - 1
      /\ DOMAIN Tail(q) = 1 .. Len(q) - 1
      /\ \A i \in 1 .. Len(q) - 1 : Tail(q)[i] = q[i + 1]
      /\ Head(q) = q[1] /\ Head(q) \in S
  OBVIOUS
<1>2. \A i \in DOMAIN Tail(q) : i + 1 \in DOMAIN q /\ Tail(q)[i] = q[i + 1]
  BY <1>1
<1>3. ASSUME NEW x
      PROVE  x \in Range(q) <=> x = Head(q) \/ x \in Range(Tail(q))
  <2>1. ASSUME x \in Range(q)
        PROVE  x = Head(q) \/ x \in Range(Tail(q))
    <3>1. PICK i \in 1 .. Len(q) : x = q[i]
      BY <1>1, <2>1 DEF Range
    <3>2. CASE i = 1
      BY <1>1, <3>1, <3>2
    <3>3. CASE i # 1
      <4>1. i - 1 \in DOMAIN Tail(q) /\ Tail(q)[i - 1] = q[i]
        BY <1>1, <3>3
      <4> QED
        BY <3>1, <4>1 DEF Range
    <3> QED
      BY <3>2, <3>3
  <2>2. ASSUME x \in Range(Tail(q))
        PROVE  x \in Range(q)
    BY <1>2, <2>2 DEF Range
  <2>3. Head(q) \in Range(q)
    BY <1>1 DEF Range
  <2> QED
    BY <2>1, <2>2, <2>3
<1> QED
  BY <1>1, <1>2, <1>3

LEMMA Elements ==
  ASSUME NEW S, NEW q \in Seq(S)
  PROVE  Range(q) \subseteq S
BY DEF Range

LEMMA Appended ==
  ASSUME NEW S, NEW q \in Seq(S), NEW x \in S
  PROVE  /\ Append(q, x) \in Seq(S) /\ Append(q, x) # <<>>
         /\ Range(Append(q, x)) = Range(q) \cup {x}
         /\ DOMAIN q = 1 .. Len(q) /\ Len(q) \in Nat
         /\ DOMAIN Append(q, x) = 1 .. Len(q) + 1
         /\ \A i \in 1 .. Len(q) : Append(q, x)[i] = q[i]
         /\ Append(q, x)[Len(q) + 1] = x
<1>1. /\ Append(q, x) \in Seq(S) /\ DOMAIN q = 1 .. Len(q) /\ Len(q) \in Nat
      /\ DOMAIN Append(q, x) = 1 .. Len(q) + 1
      /\ \A i \in 1 .. Len(q) : Append(q, x)[i] = q[i]
      /\ Append(q, x)[Len(q) + 1] = x /\ Append(q, x) # <<>>
  OBVIOUS
<1>2. Range(Append(q, x)) = Range(q) \cup {x}
  <2>1. \A y \in Range(Append(q, x)) : y \in Range(q) \cup {x}
    BY <1>1 DEF Range
  <2>2. \A y \in Range(q) : y \in Range(Append(q, x))
    <3> SUFFICES ASSUME NEW i \in 1 .. Len(q)
                 PROVE  q[i] \in Range(Append(q, x))
      BY <1>1 DEF Range
    <3>1. i \in DOMAIN Append(q, x) /\ Append(q, x)[i] = q[i]
      BY <1>1
    <3> QED
      BY <3>1 DEF Range
  <2>3. x \in Range(Append(q, x))
    <3>1. Len(q) + 1 \in DOMAIN Append(q, x)
      BY <1>1
    <3> QED
      BY <1>1, <3>1 DEF Range
  <2> QED
    BY <2>1, <2>2, <2>3
<1> QED
  BY <1>1, <1>2

-----------------------------------------------------------------------------
(* Each part of the invariant is preserved by each action. *)

LEMMA InitInv ==
  ASSUME ErrandInit
  PROVE  ErrandInv
<1>1. errand \in ErrandType /\ errand.start \in Places /\ errand.targets \subseteq Places
  BY ErrandAssumption DEF ErrandInit, ErrandType
<1>2. /\ dist \in [Places -> Nat \cup {Unseen}]
      /\ \A v \in Places : dist[v] = IF v = errand.start THEN 0 ELSE Unseen
      /\ \A v \in Places : preds[v] = <<>>
      /\ preds \in [Places -> Seq([from : Places, eid : Nat])]
  BY DEF ErrandInit, Unseen
<1>3. TargetsLeft = errand.targets \ {errand.start}
  BY <1>1, <1>2 DEF TargetsLeft, Known, Unseen
<1>4. IsFiniteSet(TargetsLeft) /\ Cardinality(TargetsLeft) \in Nat
  <2>1. IsFiniteSet(TargetsLeft)
    BY <1>1, <1>3, PlacesAssumption, FS_Subset
  <2> QED
    BY <2>1, FS_CardinalityType
<1>5. ErrandTypeOK
  <2>1. missing \in Nat
    BY <1>3, <1>4 DEF ErrandInit
  <2>2. /\ sighted \in Seq(Places) /\ queue \in Seq(Places) /\ hand \in Places
        /\ fan \in Seq(Adj) /\ closing \in Seq([len : Nat, tail : Places, eid : Nat])
    BY <1>1 DEF ErrandInit
  <2>3. stopAt \in Nat \cup {NoBound} /\ reported \in BOOLEAN
    BY DEF ErrandInit
  <2> QED
    BY <1>1, <1>2, <2>1, <2>2, <2>3 DEF ErrandTypeOK
<1>6. PredecessorsAreTight
  <2>1. Range(<<>>) = {}
    BY DEF Range
  <2> QED
    BY <1>1, <1>2, <2>1 DEF PredecessorsAreTight, Known
<1>7. LevelByLevel
  <2>1. Range(fan) = {} /\ hand = errand.start
    BY DEF ErrandInit, Range
  <2>2. queue = <<errand.start>> /\ DOMAIN queue = {1}
    BY DEF ErrandInit
  <2>3. \A i \in DOMAIN queue : queue[i] = errand.start
    BY <2>2
  <2>4. \A v \in Places : dist[v] <= 1
    BY <1>2 DEF Unseen
  <2> QED
    BY <1>1, <1>2, <2>1, <2>2, <2>3, <2>4 DEF LevelByLevel, Known, Unseen
<1>8. NothingIsOverlooked
  <2>1. errand.start \in Range(queue)
    <3>1. 1 \in DOMAIN queue /\ queue[1] = errand.start
      BY DEF ErrandInit
    <3> QED
      BY <3>1 DEF Range
  <2> QED
    BY <1>2, <2>1 DEF NothingIsOverlooked, Known
<1>9. TargetsAreCounted
  <2>1. stopAt # NoBound => errand.targets = {errand.start} /\ stopAt = 0
    BY DEF ErrandInit
  <2> QED
    BY <1>1, <1>2, <1>3, <2>1 DEF TargetsAreCounted, ErrandInit
<1> QED
  BY <1>5, <1>6, <1>7, <1>8, <1>9 DEF ErrandInv

LEMMA StopInv ==
  ASSUME ErrandInv, StopSearch
  PROVE  ErrandInv'
<1>1. /\ queue # <<>> /\ queue' = <<>> /\ Settled(queue[1]) /\ fan = <<>>
      /\ UNCHANGED <<errand, dist, preds, sighted, closing, missing, stopAt>>
      /\ UNCHANGED <<hand, fan, answers, reported>>
  BY DEF StopSearch, Searching, searchState, ErrandInv, ErrandTypeOK
<1>2. ErrandTypeOK' /\ PredecessorsAreTight' /\ TargetsAreCounted'
  <2>1. ErrandTypeOK'
    <3>1. queue' \in Seq(Places)
      BY <1>1
    <3> QED
      BY <1>1, <3>1 DEF ErrandInv, ErrandTypeOK
  <2>2. PredecessorsAreTight'
    BY <1>1, Frame DEF ErrandInv, PredecessorsAreTight
  <2>3. TargetsAreCounted'
    BY <1>1, Frame DEF ErrandInv, TargetsAreCounted
  <2> QED
    BY <2>1, <2>2, <2>3
<1>3. LevelByLevel'
  BY <1>1, Frame DEF ErrandInv, LevelByLevel
(* what is left in the queue is no nearer than its head *)
<1>4. \A v \in Range(queue) : Settled(v)
  <2> SUFFICES ASSUME NEW i \in DOMAIN queue
               PROVE  Settled(queue[i])
    BY DEF Range
  <2>1. 1 \in DOMAIN queue /\ DOMAIN queue = 1 .. Len(queue) /\ \A j \in DOMAIN queue : queue[j] \in Places
    BY <1>1 DEF ErrandInv, ErrandTypeOK
  <2>2. dist[queue[1]] <= dist[queue[i]]
    <3>1. dist[queue[1]] \in Int
      BY <2>1 DEF ErrandInv, ErrandTypeOK, Unseen
    <3> QED
      BY <2>1, <3>1 DEF ErrandInv, LevelByLevel
  <2>3. stopAt \in Nat /\ dist[queue[1]] \in Int /\ dist[queue[i]] \in Int
    BY <1>1, <2>1 DEF ErrandInv, ErrandTypeOK, Settled, Unseen
  <2> QED
    BY <1>1, <2>2, <2>3 DEF Settled
<1>5. NothingIsOverlooked'
  BY <1>1, <1>4, Frame DEF ErrandInv, NothingIsOverlooked, Way
<1> QED
  BY <1>2, <1>3, <1>5 DEF ErrandInv

LEMMA ReportInv ==
  ASSUME ErrandInv, Report
  PROVE  ErrandInv'
<1>1. /\ UNCHANGED <<errand, dist, preds, sighted, closing, missing, stopAt>>
      /\ UNCHANGED <<hand, fan, queue>> /\ reported' \in BOOLEAN
  BY DEF Report, searchState
<1>2. ErrandTypeOK'
  BY <1>1 DEF ErrandInv, ErrandTypeOK
<1>3. PredecessorsAreTight'
  BY <1>1, Frame DEF ErrandInv, PredecessorsAreTight
<1>4. LevelByLevel'
  BY <1>1, Frame DEF ErrandInv, LevelByLevel
<1>5. NothingIsOverlooked'
  BY <1>1, Frame DEF ErrandInv, NothingIsOverlooked, Way
<1>6. TargetsAreCounted'
  BY <1>1, Frame DEF ErrandInv, TargetsAreCounted
<1> QED
  BY <1>2, <1>3, <1>4, <1>5, <1>6 DEF ErrandInv

LEMMA ExpandInv ==
  ASSUME ErrandInv, Expand
  PROVE  ErrandInv'
<1> DEFINE h == Head(queue)
<1>0. /\ errand \in ErrandType /\ queue \in Seq(Places) /\ queue # <<>> /\ fan = <<>>
      /\ dist \in [Places -> Nat \cup {Unseen}]
  BY DEF ErrandInv, ErrandTypeOK, Expand, Searching
<1>1. /\ queue' = Tail(queue) /\ hand' = h
      /\ fan' = IF AtCap(h) THEN <<>> ELSE AdjsOf(h)
      /\ UNCHANGED <<errand, dist, preds, sighted, closing, missing, stopAt>>
      /\ UNCHANGED <<answers, reported>>
  BY DEF Expand, searchState
<1>2. /\ h \in Places /\ Tail(queue) \in Seq(Places) /\ h = queue[1] /\ 1 \in DOMAIN queue
      /\ Range(queue) = {h} \cup Range(Tail(queue))
      /\ \A i \in DOMAIN Tail(queue) : i + 1 \in DOMAIN queue /\ Tail(queue)[i] = queue[i + 1]
  BY <1>0, HeadTail
<1>3. AdjsOf(h) \in Seq(Adj) /\ fan' \in Seq(Adj)
  BY <1>0, <1>1, <1>2, AdjsType
<1>4. Range(fan') \subseteq Range(AdjsOf(h)) /\ (~AtCap(h) => Range(fan') = Range(AdjsOf(h)))
  BY <1>1 DEF Range
<1> HIDE DEF h
<1>5. ErrandTypeOK'
  BY <1>1, <1>2, <1>3 DEF ErrandInv, ErrandTypeOK
<1>6. PredecessorsAreTight'
  BY <1>1, Frame DEF ErrandInv, PredecessorsAreTight
<1>7. TargetsAreCounted'
  BY <1>1, Frame DEF ErrandInv, TargetsAreCounted
<1>8. LevelByLevel'
  <2>1. /\ \A v \in Places : dist[v] \in Int
        /\ hand \in Places /\ dist[hand] >= 0 /\ dist[hand] <= dist[h]
        /\ \A v \in Places : dist[v] <= dist[hand] + 1
        /\ \A i, j \in DOMAIN queue : i < j => dist[queue[i]] <= dist[queue[j]]
    BY <1>0, <1>2 DEF ErrandInv, ErrandTypeOK, LevelByLevel, Known, Unseen
  <2>2. Known(h)
    BY <1>2, <2>1 DEF Known, Unseen
  <2>3. DOMAIN queue = 1 .. Len(queue) /\ \A i \in DOMAIN Tail(queue) : i \in Nat /\ i > 0
    BY <1>0, <1>2
  <2>4. \A i \in DOMAIN Tail(queue) : dist[h] <= dist[Tail(queue)[i]]
    BY <1>2, <2>1, <2>3, SMTT(30)
  <2>5. \A i, j \in DOMAIN Tail(queue) : i < j => dist[Tail(queue)[i]] <= dist[Tail(queue)[j]]
    BY <1>2, <2>1, <2>3
  <2>6. \A v \in Places : dist[v] <= dist[h] + 1
    BY <1>2, <2>1
  <2> QED
    BY <1>1, <1>4, <2>2, <2>4, <2>5, <2>6, Frame DEF LevelByLevel
<1>9. NothingIsOverlooked'
  <2> SUFFICES ASSUME NEW v \in Places, Known(v), v \notin Range(Tail(queue)),
                      ~AtCap(v), ~Settled(v), NEW a \in Range(AdjsOf(v))
               PROVE  \/ v = h /\ a \in Range(fan')
                      \/ /\ Known(a.nbr) /\ dist[a.nbr] <= dist[v] + 1
                         /\ dist[a.nbr] = dist[v] + 1 => Way(v, a) \in Range(preds[a.nbr])
    BY <1>1, Frame DEF NothingIsOverlooked, Way
  <2>1. CASE v = h
    BY <1>4, <2>1
  <2>2. CASE v # h
    <3>1. v \notin Range(queue)
      BY <1>2, <2>2
    <3>2. Range(fan) = {}
      BY <1>0 DEF Range
    <3> QED
      BY <3>1, <3>2 DEF ErrandInv, NothingIsOverlooked
  <2> QED
    BY <2>1, <2>2
<1> QED
  BY <1>5, <1>6, <1>7, <1>8, <1>9 DEF ErrandInv

(* What the three ways to look at an edge share *)
LEMMA LookFacts ==
  ASSUME ErrandInv, Look
  PROVE  /\ Head(fan) \in Adj /\ Head(fan).nbr \in Places /\ Head(fan).eid \in Nat
         /\ Head(fan) \in Range(AdjsOf(hand))
         /\ fan' \in Seq(Adj) /\ Range(fan) = {Head(fan)} \cup Range(fan')
         /\ errand' = errand /\ hand' = hand /\ reported' = reported
         /\ closing' \in Seq([len : Nat, tail : Places, eid : Nat])
         /\ hand \in Places /\ dist[hand] \in Nat
         /\ \A v \in Places : dist[v] \in Int /\ dist[v] >= -1 /\ dist[v] <= dist[hand] + 1
         /\ \A v \in Places : Known(v) <=> dist[v] >= 0
<1>1. /\ fan # <<>> /\ fan \in Seq(Adj) /\ fan' = Tail(fan)
      /\ errand' = errand /\ hand' = hand /\ reported' = reported
      /\ hand \in Places /\ dist \in [Places -> Nat \cup {Unseen}]
      /\ closing \in Seq([len : Nat, tail : Places, eid : Nat])
  BY DEF Look, ErrandInv, ErrandTypeOK
<1>2. /\ Head(fan) \in Adj /\ fan' \in Seq(Adj)
      /\ Range(fan) = {Head(fan)} \cup Range(fan')
  BY <1>1, HeadTail
<1>3. Head(fan).nbr \in Places /\ Head(fan).eid \in Nat
  BY <1>2 DEF Adj
<1>4. Known(hand) /\ Range(fan) \subseteq Range(AdjsOf(hand))
      /\ \A v \in Places : dist[v] <= dist[hand] + 1
  BY DEF ErrandInv, LevelByLevel
<1>5. /\ dist[hand] \in Nat
      /\ \A v \in Places : dist[v] \in Int /\ dist[v] >= -1 /\ (Known(v) <=> dist[v] >= 0)
  BY <1>1, <1>4 DEF Known, Unseen
<1>6. closing' \in Seq([len : Nat, tail : Places, eid : Nat])
  <2> DEFINE R == [len : Nat, tail : Places, eid : Nat]
             c == [len |-> dist[hand] + 1, tail |-> hand, eid |-> Head(fan).eid]
  <2>1. c \in R /\ closing \in Seq(R)
    BY <1>1, <1>3, <1>5
  <2>2. closing' = closing \/ closing' = Append(closing, c)
    BY DEF Look
  <2> SUFFICES closing' \in Seq(R)
    OBVIOUS
  <2> HIDE DEF c, R
  <2> QED
    BY <2>1, <2>2
<1> QED
  BY <1>1, <1>2, <1>3, <1>4, <1>5, <1>6

(* A predecessor more, of the end of the edge, and none less *)
LEMMA PrecedesFacts ==
  ASSUME ErrandInv, Look, preds' = Precedes
  PROVE  /\ preds' \in [Places -> Seq([from : Places, eid : Nat])]
         /\ \A v \in Places : v # Head(fan).nbr => preds'[v] = preds[v]
         /\ preds'[Head(fan).nbr] # <<>>
         /\ Range(preds'[Head(fan).nbr]) =
              Range(preds[Head(fan).nbr]) \cup {Way(hand, Head(fan))}
<1> DEFINE w == Head(fan).nbr
           p == [from |-> hand, eid |-> Head(fan).eid]
<1>1. /\ preds \in [Places -> Seq([from : Places, eid : Nat])]
      /\ w \in Places /\ p \in [from : Places, eid : Nat] /\ p = Way(hand, Head(fan))
  BY LookFacts DEF ErrandInv, ErrandTypeOK, Way
<1>2. preds' = [preds EXCEPT ![w] = Append(preds[w], p)]
  BY DEF Precedes
<1> HIDE DEF w, p
<1>3. /\ Append(preds[w], p) \in Seq([from : Places, eid : Nat])
      /\ Append(preds[w], p) # <<>>
      /\ Range(Append(preds[w], p)) = Range(preds[w]) \cup {p}
  <2> DEFINE R == [from : Places, eid : Nat]
  <2>1. preds[w] \in Seq(R) /\ p \in R
    BY <1>1
  <2> SUFFICES /\ Append(preds[w], p) \in Seq(R) /\ Append(preds[w], p) # <<>>
               /\ Range(Append(preds[w], p)) = Range(preds[w]) \cup {p}
    OBVIOUS
  <2> HIDE DEF R
  <2> QED
    BY <2>1, Appended
<1>4. preds'[w] = Append(preds[w], p) /\ \A v \in Places : v # w => preds'[v] = preds[v]
  BY <1>1, <1>2
<1>5. preds' \in [Places -> Seq([from : Places, eid : Nat])]
  BY <1>1, <1>2, <1>3
<1> QED
  BY <1>1, <1>3, <1>4, <1>5 DEF w

LEMMA LookPastInv ==
  ASSUME ErrandInv, LookPast
  PROVE  ErrandInv'
<1>0. Look /\ dist[Head(fan).nbr] \notin {Unseen, dist[hand] + 1}
  BY DEF LookPast
<1>1. UNCHANGED <<errand, hand, dist, preds, sighted, queue, missing, stopAt>>
  BY <1>0, LookFacts DEF LookPast
<1>2. ErrandTypeOK'
  BY <1>0, <1>1, LookFacts DEF ErrandInv, ErrandTypeOK
<1>3. PredecessorsAreTight'
  BY <1>1, Frame DEF ErrandInv, PredecessorsAreTight
<1>4. LevelByLevel'
  <2>1. Range(fan') \subseteq Range(AdjsOf(hand))
    BY <1>0, LookFacts DEF ErrandInv, LevelByLevel
  <2> QED
    BY <1>1, <2>1, Frame DEF ErrandInv, LevelByLevel
<1>5. NothingIsOverlooked'
  <2> SUFFICES ASSUME NEW v \in Places, Known(v), v \notin Range(queue),
                      ~AtCap(v), ~Settled(v), NEW a \in Range(AdjsOf(v))
               PROVE  \/ v = hand /\ a \in Range(fan')
                      \/ /\ Known(a.nbr) /\ dist[a.nbr] <= dist[v] + 1
                         /\ dist[a.nbr] = dist[v] + 1 => Way(v, a) \in Range(preds[a.nbr])
    BY <1>1, Frame DEF NothingIsOverlooked, Way
  <2>1. CASE v = hand /\ a = Head(fan)
    BY <1>0, <2>1, LookFacts DEF Known
  <2>2. CASE ~(v = hand /\ a = Head(fan))
    BY <1>0, <2>2, LookFacts DEF ErrandInv, NothingIsOverlooked
  <2> QED
    BY <2>1, <2>2
<1>6. TargetsAreCounted'
  BY <1>1, Frame DEF ErrandInv, TargetsAreCounted
<1> QED
  BY <1>2, <1>3, <1>4, <1>5, <1>6 DEF ErrandInv

LEMMA RejoinInv ==
  ASSUME ErrandInv, Rejoin
  PROVE  ErrandInv'
<1> DEFINE w == Head(fan).nbr
<1>0. Look /\ dist[w] = dist[hand] + 1 /\ preds' = Precedes
  BY DEF Rejoin
<1>1. UNCHANGED <<errand, hand, dist, sighted, queue, missing, stopAt>>
  BY <1>0, LookFacts DEF Rejoin
<1>2. /\ w \in Places /\ preds'[w] # <<>>
      /\ \A v \in Places : v # w => preds'[v] = preds[v]
      /\ Range(preds'[w]) = Range(preds[w]) \cup {Way(hand, Head(fan))}
  BY <1>0, LookFacts, PrecedesFacts
<1>3. ErrandTypeOK'
  BY <1>0, <1>1, LookFacts, PrecedesFacts DEF ErrandInv, ErrandTypeOK
<1>4. LevelByLevel'
  <2>1. Range(fan') \subseteq Range(AdjsOf(hand))
    BY <1>0, LookFacts DEF ErrandInv, LevelByLevel
  <2> QED
    BY <1>1, <2>1, Frame DEF ErrandInv, LevelByLevel
<1>5. TargetsAreCounted'
  BY <1>1, Frame DEF ErrandInv, TargetsAreCounted
<1>6. PredecessorsAreTight'
  <2>1. dist[errand.start] = 0 /\ preds[errand.start] = <<>> /\ errand.start \in Places
    BY DEF ErrandInv, PredecessorsAreTight, ErrandTypeOK, ErrandType
  <2>2. w # errand.start /\ dist[hand] \in Nat /\ Known(hand) /\ hand \in Places
    BY <1>0, <2>1, LookFacts
  <2>3. preds'[errand.start] = <<>>
    BY <1>2, <2>1, <2>2
  <2>4. \A v \in Places : Known(v) /\ v # errand.start => preds'[v] # <<>>
    BY <1>2 DEF ErrandInv, PredecessorsAreTight
  <2>5. ASSUME NEW v \in Places, NEW p \in Range(preds'[v])
        PROVE  /\ Known(p.from) /\ dist[v] = dist[p.from] + 1
               /\ [nbr |-> v, eid |-> p.eid] \in Range(AdjsOf(p.from))
    <3>1. CASE p \in Range(preds[v])
      BY <3>1 DEF ErrandInv, PredecessorsAreTight
    <3>2. CASE v = w /\ p = Way(hand, Head(fan))
      <4>1. p.from = hand /\ [nbr |-> v, eid |-> p.eid] = Head(fan)
        BY <1>0, <3>2, LookFacts DEF Way, Adj
      <4> QED
        BY <1>0, <2>2, <3>2, <4>1, LookFacts
    <3> QED
      BY <1>2, <3>1, <3>2, <2>5
  <2> QED
    BY <1>1, <2>1, <2>3, <2>4, <2>5, Frame DEF PredecessorsAreTight
<1>7. NothingIsOverlooked'
  <2> SUFFICES ASSUME NEW v \in Places, Known(v), v \notin Range(queue),
                      ~AtCap(v), ~Settled(v), NEW a \in Range(AdjsOf(v))
               PROVE  \/ v = hand /\ a \in Range(fan')
                      \/ /\ Known(a.nbr) /\ dist[a.nbr] <= dist[v] + 1
                         /\ dist[a.nbr] = dist[v] + 1 => Way(v, a) \in Range(preds'[a.nbr])
    BY <1>1, Frame DEF NothingIsOverlooked, Way
  <2>0. a.nbr \in Places
    <3>1. AdjsOf(v) \in Seq(Adj)
      BY AdjsType DEF ErrandInv, ErrandTypeOK
    <3>2. a \in Adj
      BY <3>1, Elements
    <3> QED
      BY <3>2 DEF Adj
  <2>1. CASE v = hand /\ a = Head(fan)
    BY <1>0, <1>2, <2>1, LookFacts
  <2>2. CASE ~(v = hand /\ a = Head(fan))
    <3>1. \/ v = hand /\ a \in Range(fan')
          \/ /\ Known(a.nbr) /\ dist[a.nbr] <= dist[v] + 1
             /\ dist[a.nbr] = dist[v] + 1 => Way(v, a) \in Range(preds[a.nbr])
      BY <1>0, <2>2, LookFacts DEF ErrandInv, NothingIsOverlooked
    <3>2. Range(preds[a.nbr]) \subseteq Range(preds'[a.nbr])
      BY <1>2, <2>0
    <3> QED
      BY <3>1, <3>2
  <2> QED
    BY <2>1, <2>2
<1> QED
  BY <1>3, <1>4, <1>5, <1>6, <1>7 DEF ErrandInv

LEMMA SightInv ==
  ASSUME ErrandInv, Sight
  PROVE  ErrandInv'
<1> DEFINE w == Head(fan).nbr
           d == dist[hand] + 1
<1>0. Look /\ dist[w] = Unseen /\ preds' = Precedes
  BY DEF Sight
<1>1. /\ UNCHANGED <<errand, hand, reported>> /\ dist' = [dist EXCEPT ![w] = d]
      /\ sighted' = Append(sighted, w) /\ queue' = Append(queue, w)
  BY <1>0, LookFacts DEF Sight
<1>2. /\ w \in Places /\ preds'[w] # <<>>
      /\ \A v \in Places : v # w => preds'[v] = preds[v]
      /\ Range(preds'[w]) = Range(preds[w]) \cup {Way(hand, Head(fan))}
  BY <1>0, LookFacts, PrecedesFacts
<1>3. /\ dist \in [Places -> Nat \cup {Unseen}] /\ queue \in Seq(Places)
      /\ sighted \in Seq(Places) /\ d \in Nat /\ hand \in Places /\ d > 0
      /\ errand \in ErrandType /\ errand.targets \subseteq Places
      /\ errand.start \in Places
  <2>1. /\ dist \in [Places -> Nat \cup {Unseen}] /\ queue \in Seq(Places)
        /\ sighted \in Seq(Places) /\ errand \in ErrandType
    BY DEF ErrandInv, ErrandTypeOK
  <2>2. errand.targets \subseteq Places /\ errand.start \in Places
    BY <2>1 DEF ErrandType
  <2>3. hand \in Places /\ dist[hand] \in Nat
    BY <1>0, LookFacts
  <2> QED
    BY <2>1, <2>2, <2>3
<1> HIDE DEF w, d
<1>4. /\ ~Known(w) /\ hand # w /\ dist[hand] = d - 1 /\ Known(hand)
      /\ Head(fan) = [nbr |-> w, eid |-> Head(fan).eid]
  <2>1. dist[hand] \in Nat /\ d = dist[hand] + 1 /\ Known(hand)
    BY <1>0, LookFacts DEF d
  <2>2. Head(fan) = [nbr |-> w, eid |-> Head(fan).eid]
    BY <1>0, LookFacts DEF w, Adj
  <2> QED
    BY <1>0, <2>1, <2>2 DEF Known, Unseen
<1>5. /\ dist' \in [Places -> Nat \cup {Unseen}] /\ dist'[w] = d
      /\ \A v \in Places : v # w => dist'[v] = dist[v]
      /\ \A v \in Places : Known(v)' <=> Known(v) \/ v = w
  <2>1. /\ dist' \in [Places -> Nat \cup {Unseen}] /\ dist'[w] = d
        /\ \A v \in Places : v # w => dist'[v] = dist[v]
    BY <1>1, <1>2, <1>3
  <2> QED
    BY <1>3, <2>1 DEF Known, Unseen
<1>6. /\ queue' \in Seq(Places) /\ sighted' \in Seq(Places)
      /\ Range(queue') = Range(queue) \cup {w}
      /\ DOMAIN queue = 1 .. Len(queue) /\ Len(queue) \in Nat
      /\ DOMAIN queue' = 1 .. Len(queue) + 1
      /\ \A i \in 1 .. Len(queue) : queue'[i] = queue[i] /\ queue[i] \in Places
      /\ queue'[Len(queue) + 1] = w
  BY <1>1, <1>2, <1>3, Appended
(* the targets *)
<1>7. IsFiniteSet(TargetsLeft) /\ Cardinality(TargetsLeft) \in Nat
  <2>1. IsFiniteSet(TargetsLeft)
    BY <1>3, PlacesAssumption, FS_Subset DEF TargetsLeft
  <2> QED
    BY <2>1, FS_CardinalityType
<1>8. TargetsLeft' = TargetsLeft \ {w}
  BY <1>1, <1>3, <1>5 DEF TargetsLeft
<1>9. /\ missing' \in Nat /\ stopAt' \in Nat \cup {NoBound}
      /\ stopAt # NoBound => stopAt' = stopAt
      /\ TargetsAreCounted'
  <2>0. /\ missing = Cardinality(TargetsLeft) /\ stopAt \in Nat \cup {NoBound}
        /\ stopAt # NoBound => TargetsLeft = {} /\ \A t \in errand.targets : dist[t] <= stopAt
    BY DEF ErrandInv, TargetsAreCounted, ErrandTypeOK
  <2>1. CASE w \notin errand.targets
    <3>1. TargetsLeft' = TargetsLeft /\ UNCHANGED <<missing, stopAt>>
      BY <1>8, <2>1 DEF TargetsLeft, Sight, w
    <3>2. \A t \in errand.targets : dist'[t] = dist[t]
      BY <1>3, <1>5, <2>1
    <3> QED
      BY <1>1, <1>7, <2>0, <3>1, <3>2 DEF TargetsAreCounted
  <2>2. CASE w \in errand.targets
    <3>1. w \in TargetsLeft
      BY <1>4, <2>2 DEF TargetsLeft
    <3>2. /\ missing \in Nat \ {0} /\ stopAt = NoBound
          /\ Cardinality(TargetsLeft \ {w}) = missing - 1
          /\ missing = 1 => TargetsLeft \ {w} = {}
      <4>1. Cardinality(TargetsLeft) # 0
        BY <1>7, <3>1, FS_EmptySet
      <4>2. IsFiniteSet(TargetsLeft \ {w}) /\ Cardinality(TargetsLeft \ {w}) = missing - 1
        BY <1>7, <2>0, <3>1, FS_RemoveElement
      <4>3. missing = 1 => TargetsLeft \ {w} = {}
        <5> SUFFICES ASSUME missing = 1
                     PROVE  TargetsLeft \ {w} = {}
          OBVIOUS
        <5>1. Cardinality(TargetsLeft \ {w}) = 0
          BY <4>2
        <5> QED
          BY <4>2, <5>1, FS_EmptySet
      <4> QED
        BY <1>7, <2>0, <3>1, <4>1, <4>2, <4>3
    <3>3. missing' = missing - 1 /\ stopAt' = IF missing = 1 THEN d ELSE stopAt
      BY <2>2, <3>2 DEF Sight, w, d
    <3>4. \A t \in errand.targets : dist'[t] <= d
      <4> SUFFICES ASSUME NEW t \in errand.targets
                   PROVE  dist'[t] <= d
        OBVIOUS
      <4>1. t \in Places
        BY <1>3
      <4>2. CASE t = w
        BY <1>3, <1>5, <4>2
      <4>3. CASE t # w
        <5>1. dist'[t] = dist[t] /\ dist[t] <= dist[hand] + 1
          BY <1>0, <1>5, <4>1, <4>3, LookFacts
        <5> QED
          BY <5>1 DEF d
      <4> QED
        BY <4>2, <4>3
    <3>5. missing' = Cardinality(TargetsLeft')
      BY <1>8, <3>2, <3>3
    <3>6. stopAt' # NoBound => TargetsLeft' = {} /\ \A t \in errand'.targets : dist'[t] <= stopAt'
      BY <1>1, <1>8, <3>2, <3>3, <3>4
    <3> QED
      BY <1>3, <3>2, <3>3, <3>5, <3>6 DEF TargetsAreCounted
  <2> QED
    BY <2>1, <2>2
<1>10. ErrandTypeOK'
  <2>1. /\ fan' \in Seq(Adj) /\ closing' \in Seq([len : Nat, tail : Places, eid : Nat])
        /\ preds' \in [Places -> Seq([from : Places, eid : Nat])]
    BY <1>0, LookFacts, PrecedesFacts
  <2> QED
    BY <1>1, <1>3, <1>5, <1>6, <1>9, <2>1 DEF ErrandInv, ErrandTypeOK
<1>11. PredecessorsAreTight'
  <2>1. dist[errand.start] = 0 /\ preds[errand.start] = <<>>
    BY DEF ErrandInv, PredecessorsAreTight
  <2>2. w # errand.start
    BY <1>0, <2>1 DEF Unseen, w
  <2>3. preds'[errand.start] = <<>> /\ dist'[errand.start] = 0
    BY <1>2, <1>3, <1>5, <2>1, <2>2
  <2>4. \A v \in Places : Known(v)' /\ v # errand.start => preds'[v] # <<>>
    BY <1>2, <1>5 DEF ErrandInv, PredecessorsAreTight
  <2>5. ASSUME NEW v \in Places, NEW p \in Range(preds'[v])
        PROVE  /\ Known(p.from)' /\ dist'[v] = dist'[p.from] + 1
               /\ [nbr |-> v, eid |-> p.eid] \in Range(AdjsOf(p.from))
    <3>1. CASE p \in Range(preds[v])
      <4>1. /\ Known(p.from) /\ dist[v] = dist[p.from] + 1 /\ p.from \in Places
            /\ [nbr |-> v, eid |-> p.eid] \in Range(AdjsOf(p.from))
        <5>1. p.from \in Places
          <6>1. preds[v] \in Seq([from : Places, eid : Nat])
            BY DEF ErrandInv, ErrandTypeOK
          <6>2. p \in [from : Places, eid : Nat]
            BY <3>1, <6>1, Elements
          <6> QED
            BY <6>2
        <5> QED
          BY <3>1, <5>1 DEF ErrandInv, PredecessorsAreTight
      <4>2. p.from # w /\ Known(v)
        BY <1>3, <1>4, <4>1 DEF Known, Unseen
      <4> QED
        BY <1>4, <1>5, <4>1, <4>2
    <3>2. CASE v = w /\ p = Way(hand, Head(fan))
      <4>1. p.from = hand /\ [nbr |-> v, eid |-> p.eid] = Head(fan)
        BY <1>4, <3>2 DEF Way
      <4>2. dist'[hand] \in Nat /\ dist'[hand] = d - 1 /\ dist'[w] = d
        BY <1>3, <1>4, <1>5
      <4>3. Head(fan) \in Range(AdjsOf(hand))
        BY <1>0, LookFacts
      <4>4. Known(p.from)'
        BY <4>1, <4>2 DEF Known, Unseen
      <4> QED
        BY <1>3, <3>2, <4>1, <4>2, <4>3, <4>4
    <3> QED
      BY <1>2, <2>5, <3>1, <3>2
  <2> QED
    BY <1>1, <2>3, <2>4, <2>5, Frame DEF PredecessorsAreTight
<1>12. LevelByLevel'
  <2>1. /\ \A v \in Places : dist[v] \in Int /\ dist[v] <= d
        /\ Range(fan') \subseteq Range(AdjsOf(hand))
    BY <1>0, LookFacts DEF ErrandInv, LevelByLevel, d
  <2>2. /\ \A i \in DOMAIN queue : dist[hand] <= dist[queue[i]]
        /\ \A i, j \in DOMAIN queue : i < j => dist[queue[i]] <= dist[queue[j]]
    BY DEF ErrandInv, LevelByLevel
  <2>3. \A i \in 1 .. Len(queue) : queue[i] # w
    <3> SUFFICES ASSUME NEW i \in 1 .. Len(queue)
                 PROVE  dist[queue[i]] # dist[w]
      OBVIOUS
    <3>1. dist[w] = -1 /\ dist[hand] \in Nat /\ dist[hand] <= dist[queue[i]]
      BY <1>3, <1>4, <1>6, <2>2 DEF Known, Unseen
    <3>2. dist[queue[i]] \in Int
      BY <1>6, <2>1
    <3> QED
      BY <3>1, <3>2
  <2>4. /\ \A i \in 1 .. Len(queue) : dist'[queue'[i]] = dist[queue[i]] /\ dist[queue[i]] <= d
        /\ dist'[queue'[Len(queue) + 1]] = d
    BY <1>5, <1>6, <2>1, <2>3
  <2>5. dist'[hand] = d - 1 /\ Known(hand)'
    <3>1. dist'[hand] = d - 1 /\ d - 1 \in Nat
      BY <1>3, <1>4, <1>5
    <3> QED
      BY <1>1, <3>1 DEF Known, Unseen
  <2>6. \A i \in DOMAIN queue' : dist'[hand] <= dist'[queue'[i]]
    BY <1>3, <1>4, <1>6, <2>2, <2>4, <2>5
  <2>7. \A i, j \in DOMAIN queue' : i < j => dist'[queue'[i]] <= dist'[queue'[j]]
    BY <1>3, <1>6, <2>2, <2>4
  <2>8. \A v \in Places : dist'[v] <= dist'[hand] + 1
    BY <1>3, <1>5, <2>1, <2>5
  <2> QED
    BY <1>1, <2>1, <2>5, <2>6, <2>7, <2>8, Frame DEF LevelByLevel
<1>13. NothingIsOverlooked'
  <2> SUFFICES ASSUME NEW v \in Places, Known(v)', v \notin Range(queue'),
                      ~AtCap(v)', ~Settled(v)', NEW a \in Range(AdjsOf(v))
               PROVE  \/ v = hand /\ a \in Range(fan')
                      \/ /\ Known(a.nbr)' /\ dist'[a.nbr] <= dist'[v] + 1
                         /\ dist'[a.nbr] = dist'[v] + 1 => Way(v, a) \in Range(preds'[a.nbr])
    BY <1>1, Frame DEF NothingIsOverlooked, Way
  <2>0. a.nbr \in Places
    <3>1. AdjsOf(v) \in Seq(Adj)
      BY <1>3, AdjsType
    <3>2. a \in Adj
      BY <3>1, Elements
    <3> QED
      BY <3>2 DEF Adj
  <2>1. v # w /\ v \notin Range(queue) /\ dist'[v] = dist[v] /\ Known(v)
    BY <1>5, <1>6
  <2>2. ~AtCap(v) /\ ~Settled(v)
    BY <1>1, <1>9, <2>1 DEF AtCap, Settled
  <2>3. CASE v = hand /\ a = Head(fan)
    <3>1. a.nbr = w
      BY <2>3 DEF w
    <3>2. dist'[w] = d /\ dist'[v] + 1 = d
      BY <1>3, <1>4, <1>5, <2>1, <2>3
    <3>3. Known(a.nbr)'
      BY <1>2, <1>5, <3>1
    <3>4. Way(v, a) \in Range(preds'[w])
      BY <1>2, <2>3
    <3> QED
      BY <1>3, <3>1, <3>2, <3>3, <3>4
  <2>4. CASE ~(v = hand /\ a = Head(fan))
    <3>1. \/ v = hand /\ a \in Range(fan')
          \/ /\ Known(a.nbr) /\ dist[a.nbr] <= dist[v] + 1
             /\ dist[a.nbr] = dist[v] + 1 => Way(v, a) \in Range(preds[a.nbr])
      BY <1>0, <2>1, <2>2, <2>4, LookFacts DEF ErrandInv, NothingIsOverlooked
    <3>2. Known(a.nbr) => /\ a.nbr # w /\ dist'[a.nbr] = dist[a.nbr]
                          /\ preds'[a.nbr] = preds[a.nbr] /\ Known(a.nbr)'
      BY <1>2, <1>4, <1>5, <2>0
    <3> QED
      BY <2>1, <3>1, <3>2
  <2> QED
    BY <2>3, <2>4
<1> QED
  BY <1>9, <1>10, <1>11, <1>12, <1>13 DEF ErrandInv

-----------------------------------------------------------------------------
(* The parts of the invariant hold in every state: predecessors are one    *)
(* hop back along an edge, the queue is sorted by level, no edge of an     *)
(* expanded node is forgotten, and the targets still to be found are       *)
(* counted - whichever way the search goes through shortest_path.          *)
THEOREM SearchInvariant == ErrandSpec => []ErrandInv
<1>1. ErrandInit => ErrandInv
  BY InitInv
<1>2. ErrandInv /\ [ErrandNext]_errandVars => ErrandInv'
  <2> SUFFICES ASSUME ErrandInv, [ErrandNext]_errandVars
               PROVE  ErrandInv'
    OBVIOUS
  <2>1. CASE StopSearch
    BY <2>1, StopInv
  <2>2. CASE Expand
    BY <2>2, ExpandInv
  <2>3. CASE Sight
    BY <2>3, SightInv
  <2>4. CASE Rejoin
    BY <2>4, RejoinInv
  <2>5. CASE LookPast
    BY <2>5, LookPastInv
  <2>6. CASE Report
    BY <2>6, ReportInv
  <2>7. CASE UNCHANGED errandVars
    <3>1. /\ UNCHANGED <<errand, dist, preds, sighted, closing, missing, stopAt>>
          /\ UNCHANGED <<hand, fan, queue, reported>>
      BY <2>7 DEF errandVars, searchState
    <3>2. ErrandTypeOK'
      BY <3>1 DEF ErrandInv, ErrandTypeOK
    <3>3. PredecessorsAreTight' /\ TargetsAreCounted'
      BY <3>1, Frame DEF ErrandInv, PredecessorsAreTight, TargetsAreCounted
    <3>4. LevelByLevel'
      BY <3>1, Frame DEF ErrandInv, LevelByLevel
    <3>5. NothingIsOverlooked'
      BY <3>1, Frame DEF ErrandInv, NothingIsOverlooked, Way
    <3> QED
      BY <3>2, <3>3, <3>4, <3>5 DEF ErrandInv
  <2> QED
    BY <2>1, <2>2, <2>3, <2>4, <2>5, <2>6, <2>7 DEF ErrandNext
<1> QED
  BY <1>1, <1>2, PTL DEF ErrandSpec

(* A finished search, stopped at its targets or not, has exactly the       *)
(* predecessors the rows of shortest_path are to be read from: stopping    *)
(* early costs no shortest path of a target.                               *)
THEOREM PredecessorsExact == ErrandSpec => []PredecessorsAreExact
<1>1. ErrandInv => PredecessorsAreExact
  <2> SUFFICES ASSUME ErrandInv, fan = <<>>, queue = <<>>,
                      NEW t \in Places, Known(t), stopAt # NoBound => t \in errand.targets,
                      NEW v \in Places, Known(v), ~AtCap(v)
               PROVE  {p \in Range(preds[t]) : p.from = v} =
                        {Way(v, a) : a \in {b \in Range(AdjsOf(v)) :
                                              b.nbr = t /\ dist[t] = dist[v] + 1}}
    BY DEF PredecessorsAreExact
  <2>1. ASSUME NEW p \in Range(preds[t]), p.from = v
        PROVE  \E a \in Range(AdjsOf(v)) :
                 p = Way(v, a) /\ a.nbr = t /\ dist[t] = dist[v] + 1
    <3> DEFINE a == [nbr |-> t, eid |-> p.eid]
    <3>1. a \in Range(AdjsOf(v)) /\ dist[t] = dist[v] + 1
      BY <2>1 DEF ErrandInv, PredecessorsAreTight
    <3>2. p = Way(v, a) /\ a.nbr = t
      <4>1. preds[t] \in Seq([from : Places, eid : Nat])
        BY DEF ErrandInv, ErrandTypeOK
      <4>2. p \in [from : Places, eid : Nat]
        BY <4>1, Elements
      <4> QED
        BY <2>1, <4>2 DEF Way
    <3> QED
      BY <3>1, <3>2
  <2>2. ASSUME NEW a \in Range(AdjsOf(v)), a.nbr = t, dist[t] = dist[v] + 1
        PROVE  Way(v, a) \in Range(preds[t]) /\ Way(v, a).from = v
    <3>1. ~Settled(v)
      <4>1. dist[v] \in Nat /\ stopAt \in Nat \cup {NoBound}
        BY DEF ErrandInv, ErrandTypeOK, Known
      <4>2. stopAt # NoBound => dist[t] <= stopAt
        BY DEF ErrandInv, TargetsAreCounted
      <4> QED
        BY <2>2, <4>1, <4>2 DEF Settled
    <3>2. v \notin Range(queue) /\ a \notin Range(fan)
      BY DEF Range
    <3>3. Way(v, a) \in Range(preds[a.nbr])
      BY <2>2, <3>1, <3>2 DEF ErrandInv, NothingIsOverlooked
    <3> QED
      BY <2>2, <3>3 DEF Way
  <2> QED
    BY <2>1, <2>2
<1> QED
  BY <1>1, SearchInvariant, PTL

-----------------------------------------------------------------------------
(***************************************************************************)
(* The rows of a shortest-path search are the shortest paths.              *)
(*                                                                         *)
(* What the lists hold, each thing once (ListInv).  A walk of the          *)
(* reference, as a predicate, and the shortest of them to an end.  The     *)
(* recursions of the model - over the predecessors, over a length, over a  *)
(* sequence of sequences, over a sum - each solved once by its rank        *)
(* (RankedRecursion).  Then what they compute: first_pred_chain reads back *)
(* one of the shortest ways to a node, enumerate_shortest_paths each of    *)
(* them once, and pcount their number.  Then the ways back to the source,  *)
(* and last where in the rows the ones to a node are.                      *)
(***************************************************************************)

(* An edge of v back to the source, as the list of the ways back has it *)
Back(v, a) == [len |-> dist[v] + 1, tail |-> v, eid |-> a.eid]
ToStart(v) == {a \in Range(AdjsOf(v)) : a.nbr = errand.start}
LoopBothWays == errand.dir = "both" /\ ToStart(errand.start) # {}

SightedInv ==
    /\ Range(sighted) = {v \in Places : Known(v)}
    /\ IsInjective(sighted)
CapInv ==
    /\ errand \in Errands
    /\ fan # <<>> => ~AtCap(hand)
    /\ errand.max # NoBound => \A v \in Places : dist[v] <= errand.max
    /\ errand.targets = {} => stopAt = NoBound
FanInv ==
    /\ IsInjective(queue)
    /\ fan # <<>> => hand \notin Range(queue)
    /\ \A i, j \in DOMAIN fan :
         i # j /\ fan[i] = fan[j] => errand.dir = "both" /\ fan[i].nbr = hand
PredsInv ==
    \A v \in Places :
        /\ IsInjective(preds[v])
        /\ \A p \in Range(preds[v]) : p.from \notin Range(queue)
        /\ \A a \in Range(fan) : a.nbr = v => Way(hand, a) \notin Range(preds[v])
ClosingInv ==
    /\ errand.min = 0 => closing = <<>>
    /\ \A c \in Range(closing) :
         /\ c.tail \in Places /\ Known(c.tail) /\ c.tail \notin Range(queue) /\ ~AtCap(c.tail)
         /\ \E a \in ToStart(c.tail) : c = Back(c.tail, a)
    /\ errand.min >= 1 =>
         \A v \in Places : Known(v) /\ v \notin Range(queue) /\ ~AtCap(v) =>
             \A a \in ToStart(v) : (v = hand /\ a \in Range(fan)) \/ Back(v, a) \in Range(closing)
    /\ ~LoopBothWays =>
         /\ IsInjective(closing)
         /\ \A a \in Range(fan) : a.nbr = errand.start => Back(hand, a) \notin Range(closing)
ListInv == SightedInv /\ CapInv /\ FanInv /\ PredsInv /\ ClosingInv

(* What a list that grows or shrinks at an end has of its own *)
LEMMA OnceFacts ==
  ASSUME NEW S, NEW q \in Seq(S)
  PROVE  /\ q # <<>> /\ IsInjective(q) => IsInjective(Tail(q)) /\ Head(q) \notin Range(Tail(q))
         /\ \A x \in S : x \notin Range(q) /\ IsInjective(q) => IsInjective(Append(q, x))
<1>1. ASSUME q # <<>>, IsInjective(q)
      PROVE  IsInjective(Tail(q)) /\ Head(q) \notin Range(Tail(q))
  <2>1. /\ Tail(q) \in Seq(S) /\ DOMAIN q = 1 .. Len(q) /\ Len(q) \in Nat /\ Len(q) >= 1
        /\ DOMAIN Tail(q) = 1 .. Len(q) - 1 /\ Head(q) = q[1]
        /\ \A i \in 1 .. Len(q) - 1 : Tail(q)[i] = q[i + 1]
    BY <1>1
  <2>2. \A i, j \in 1 .. Len(q) : q[i] = q[j] => i = j
    BY <1>1, <2>1 DEF IsInjective
  <2>3. \A i, j \in DOMAIN Tail(q) : Tail(q)[i] = Tail(q)[j] => i = j
    <3> SUFFICES ASSUME NEW i \in 1 .. Len(q) - 1, NEW j \in 1 .. Len(q) - 1,
                        Tail(q)[i] = Tail(q)[j]
                 PROVE  i = j
      BY <2>1
    <3>1. q[i + 1] = q[j + 1] /\ i + 1 \in 1 .. Len(q) /\ j + 1 \in 1 .. Len(q)
      BY <2>1
    <3>2. i + 1 = j + 1
      BY <2>2, <3>1
    <3> QED
      BY <3>2
  <2>4. \A i \in DOMAIN Tail(q) : Tail(q)[i] # Head(q)
    <3> SUFFICES ASSUME NEW i \in 1 .. Len(q) - 1, q[i + 1] = q[1]
                 PROVE  FALSE
      BY <2>1
    <3>1. i + 1 \in 1 .. Len(q) /\ 1 \in 1 .. Len(q) /\ i + 1 # 1
      BY <2>1
    <3> QED
      BY <2>2, <3>1
  <2> QED
    BY <2>3, <2>4 DEF IsInjective, Range
<1>2. ASSUME NEW x \in S, x \notin Range(q), IsInjective(q)
      PROVE  IsInjective(Append(q, x))
  <2>1. /\ DOMAIN q = 1 .. Len(q) /\ Len(q) \in Nat
        /\ DOMAIN Append(q, x) = 1 .. Len(q) + 1
        /\ \A i \in 1 .. Len(q) : Append(q, x)[i] = q[i]
        /\ Append(q, x)[Len(q) + 1] = x
    BY Appended
  <2>2. \A i, j \in 1 .. Len(q) : q[i] = q[j] => i = j
    BY <1>2, <2>1 DEF IsInjective
  <2>3. \A i \in 1 .. Len(q) : q[i] # x
    BY <1>2, <2>1 DEF Range
  <2> SUFFICES ASSUME NEW i \in 1 .. Len(q) + 1, NEW j \in 1 .. Len(q) + 1,
                      Append(q, x)[i] = Append(q, x)[j]
               PROVE  i = j
    BY <2>1 DEF IsInjective
  <2>4. (i \in 1 .. Len(q) \/ i = Len(q) + 1) /\ (j \in 1 .. Len(q) \/ j = Len(q) + 1)
    BY <2>1
  <2> QED
    BY <2>1, <2>2, <2>3, <2>4
<1> QED
  BY <1>1, <1>2

(* The edges of a node, an edge once but for an undirected loop *)
LEMMA AdjsOnce ==
  ASSUME errand \in Errands, NEW v \in Places
  PROVE  /\ AdjsOf(v) \in Seq(Adj)
         /\ \A i, j \in DOMAIN AdjsOf(v) :
              i # j /\ AdjsOf(v)[i] = AdjsOf(v)[j] => errand.dir = "both" /\ AdjsOf(v)[i].nbr = v
<1>1. /\ errand \in ErrandType
      /\ IsInjective(errand.outs[v]) /\ IsInjective(errand.incs[v])
      /\ \A a \in Range(errand.outs[v]) \cap Range(errand.incs[v]) : a.nbr = v
  BY ErrandAssumption
<1>2. /\ errand.outs[v] \in Seq(Adj) /\ errand.incs[v] \in Seq(Adj)
      /\ errand.dir \in {"out", "in", "both"}
  BY <1>1 DEF ErrandType
<1>3. AdjsOf(v) \in Seq(Adj)
  BY <1>1, AdjsType
<1> DEFINE o == errand.outs[v]
           n == errand.incs[v]
<1>4. CASE errand.dir = "out"
  <2>1. AdjsOf(v) = o
    BY <1>2, <1>4 DEF AdjsOf
  <2> QED
    BY <1>1, <1>3, <2>1 DEF IsInjective
<1>5. CASE errand.dir = "in"
  <2>1. AdjsOf(v) = n
    BY <1>2, <1>5 DEF AdjsOf
  <2> QED
    BY <1>1, <1>3, <2>1 DEF IsInjective
<1>6. CASE errand.dir = "both"
  <2>1. AdjsOf(v) = o \o n
    BY <1>6 DEF AdjsOf
  <2> HIDE DEF o, n
  <2>2. /\ o \in Seq(Adj) /\ n \in Seq(Adj)
        /\ DOMAIN o = 1 .. Len(o) /\ DOMAIN n = 1 .. Len(n)
        /\ Len(o) \in Nat /\ Len(n) \in Nat
        /\ \A i, j \in DOMAIN o : o[i] = o[j] => i = j
        /\ \A i, j \in DOMAIN n : n[i] = n[j] => i = j
        /\ \A i \in DOMAIN o, j \in DOMAIN n : o[i] = n[j] => o[i].nbr = v
    BY <1>1, <1>2 DEF o, n, IsInjective, Range
  <2>3. /\ DOMAIN AdjsOf(v) = 1 .. Len(o) + Len(n)
        /\ \A i \in 1 .. Len(o) + Len(n) :
             AdjsOf(v)[i] = IF i <= Len(o) THEN o[i] ELSE n[i - Len(o)]
    BY <2>1, <2>2
  <2>4. ASSUME NEW i \in 1 .. Len(o) + Len(n), NEW j \in 1 .. Len(o) + Len(n), i # j,
               AdjsOf(v)[i] = AdjsOf(v)[j]
        PROVE  AdjsOf(v)[i].nbr = v
    <3>1. /\ i <= Len(o) => i \in DOMAIN o /\ AdjsOf(v)[i] = o[i]
          /\ j <= Len(o) => j \in DOMAIN o /\ AdjsOf(v)[j] = o[j]
          /\ i > Len(o) => i - Len(o) \in DOMAIN n /\ AdjsOf(v)[i] = n[i - Len(o)]
          /\ j > Len(o) => j - Len(o) \in DOMAIN n /\ AdjsOf(v)[j] = n[j - Len(o)]
      BY <2>2, <2>3
    <3>2. CASE i <= Len(o) /\ j <= Len(o)
      BY <2>2, <2>4, <3>1, <3>2
    <3>3. CASE i > Len(o) /\ j > Len(o)
      <4>1. i - Len(o) = j - Len(o)
        BY <2>2, <2>4, <3>1, <3>3
      <4> QED
        BY <2>2, <2>4, <4>1
    <3>4. CASE i <= Len(o) /\ j > Len(o)
      BY <2>2, <2>4, <3>1, <3>4
    <3>5. CASE i > Len(o) /\ j <= Len(o)
      BY <2>2, <2>4, <3>1, <3>5
    <3> QED
      BY <2>2, <3>2, <3>3, <3>4, <3>5
  <2> QED
    BY <1>3, <1>6, <2>3, <2>4
<1> QED
  BY <1>2, <1>4, <1>5, <1>6

(* The lists are exact when a search begins: only the source is sighted,   *)
(* and nothing leads back yet.                                             *)
LEMMA ListInitInv ==
  ASSUME ErrandInit
  PROVE  ListInv
<1>1. /\ errand \in Errands /\ errand \in ErrandType /\ errand.start \in Places
  BY ErrandAssumption DEF ErrandInit, ErrandType
<1>2. /\ dist = [v \in Places |-> IF v = errand.start THEN 0 ELSE Unseen]
      /\ preds = [v \in Places |-> <<>>]
      /\ sighted = <<errand.start>> /\ queue = <<errand.start>>
      /\ fan = <<>> /\ closing = <<>>
      /\ stopAt = IF errand.targets = {errand.start} THEN 0 ELSE NoBound
  BY DEF ErrandInit
<1>3. Range(<<>>) = {} /\ Range(<<errand.start>>) = {errand.start}
  BY DEF Range
<1>4. IsInjective(<<>>) /\ IsInjective(<<errand.start>>)
  BY DEF IsInjective
<1>5. SightedInv
  BY <1>1, <1>2, <1>3, <1>4 DEF SightedInv, Known, Unseen
<1>6. CapInv
  <2>1. errand.max # NoBound => errand.max \in Nat
    BY <1>1 DEF ErrandType
  <2>2. \A v \in Places : dist[v] = 0 \/ dist[v] = -1
    BY <1>2 DEF Unseen
  <2>3. errand.max # NoBound => \A v \in Places : dist[v] <= errand.max
    <3> SUFFICES ASSUME errand.max # NoBound, NEW v \in Places PROVE dist[v] <= errand.max
      OBVIOUS
    <3> DEFINE m == errand.max
               d == dist[v]
    <3>1. m \in Nat /\ (d = 0 \/ d = -1)
      BY <2>1, <2>2
    <3> HIDE DEF m, d
    <3>2. d <= m
      BY <3>1
    <3> QED
      BY <3>2 DEF m, d
  <2>4. errand.targets = {} => stopAt = NoBound
    BY <1>2
  <2> QED
    BY <1>1, <1>2, <2>3, <2>4 DEF CapInv
<1>7. FanInv
  BY <1>2, <1>4 DEF FanInv
<1>8. PredsInv
  BY <1>2, <1>3, <1>4 DEF PredsInv
<1>9. ClosingInv
  <2>1. \A v \in Places : Known(v) => v \in Range(queue)
    BY <1>2, <1>3 DEF Known
  <2> QED
    BY <1>2, <1>3, <1>4, <2>1 DEF ClosingInv
<1> QED
  BY <1>5, <1>6, <1>7, <1>8, <1>9 DEF ListInv

(* What the lists are about stays when the graph and the distances do. *)
LEMMA ListFrame ==
  ASSUME errand' = errand
  PROVE  /\ \A v : AdjsOf(v)' = AdjsOf(v) /\ ToStart(v)' = ToStart(v)
         /\ LoopBothWays' <=> LoopBothWays
         /\ dist' = dist =>
              /\ \A v : Known(v)' = Known(v) /\ AtCap(v)' = AtCap(v)
              /\ \A v, a : Back(v, a)' = Back(v, a)
BY DEF AdjsOf, Known, AtCap, ToStart, LoopBothWays, Back

(* A step that leaves the lists of shortest_path alone keeps what holds of *)
(* them.                                                                   *)
LEMMA ListStays ==
  ASSUME ListInv, UNCHANGED <<errand, dist, preds, sighted, closing, stopAt, hand, fan, queue>>
  PROVE  ListInv'
<1>1. SightedInv' /\ CapInv' /\ FanInv'
  BY ListFrame DEF ListInv, SightedInv, CapInv, FanInv
<1>2. PredsInv'
  BY DEF ListInv, PredsInv, Way
<1>3. ClosingInv'
  BY ListFrame DEF ListInv, ClosingInv
<1> QED
  BY <1>1, <1>2, <1>3 DEF ListInv

(* Stopping early empties the queue and touches no other list.             *)
LEMMA StopList ==
  ASSUME ErrandInv, ListInv, StopSearch
  PROVE  ListInv'
<1>1. /\ queue' = <<>> /\ fan = <<>> /\ stopAt # NoBound
      /\ UNCHANGED <<errand, dist, preds, sighted, closing, stopAt, hand, fan>>
  BY DEF StopSearch, Searching, searchState, Settled
<1>2. Range(<<>>) = {} /\ IsInjective(<<>>)
  BY DEF Range, IsInjective
<1>3. SightedInv' /\ CapInv'
  BY <1>1, ListFrame DEF ListInv, SightedInv, CapInv
<1>4. FanInv'
  BY <1>1, <1>2 DEF ListInv, FanInv
<1>5. PredsInv'
  BY <1>1, <1>2 DEF ListInv, PredsInv, Way
<1>6. ClosingInv'
  <2>1. errand \in Errands /\ errand.targets # {} /\ errand.min = 0
    BY <1>1, ErrandAssumption DEF ListInv, CapInv
  <2> QED
    BY <1>1, <1>2, <2>1, ListFrame DEF ListInv, ClosingInv
<1> QED
  BY <1>3, <1>4, <1>5, <1>6 DEF ListInv

(* A node popped leaves the queue for the hand; its edges are all still to *)
(* be looked at.                                                           *)
LEMMA ExpandList ==
  ASSUME ErrandInv, ListInv, Expand
  PROVE  ListInv'
<1> DEFINE h == Head(queue)
<1>0. /\ errand \in ErrandType /\ queue \in Seq(Places) /\ queue # <<>> /\ fan = <<>>
      /\ dist \in [Places -> Nat \cup {Unseen}] /\ errand \in Errands
  BY DEF ErrandInv, ErrandTypeOK, Expand, Searching, ListInv, CapInv
<1>1. /\ queue' = Tail(queue) /\ hand' = h
      /\ fan' = IF AtCap(h) THEN <<>> ELSE AdjsOf(h)
      /\ UNCHANGED <<errand, dist, preds, sighted, closing, stopAt>>
  BY DEF Expand, searchState
<1>2. /\ h \in Places /\ Range(queue) = {h} \cup Range(Tail(queue))
      /\ IsInjective(Tail(queue)) /\ h \notin Range(Tail(queue))
  BY <1>0, HeadTail, OnceFacts DEF ListInv, FanInv
<1>3. Range(<<>>) = {}
  BY DEF Range
<1>4. /\ Range(fan') \subseteq Range(AdjsOf(h))
      /\ ~AtCap(h) => Range(fan') = Range(AdjsOf(h))
      /\ fan' # <<>> => ~AtCap(h)
  BY <1>1, <1>3
<1> HIDE DEF h
<1>5. SightedInv' /\ CapInv'
  BY <1>1, <1>4, ListFrame DEF ListInv, SightedInv, CapInv
<1>6. FanInv'
  <2>1. \A i, j \in DOMAIN fan' :
          i # j /\ fan'[i] = fan'[j] => errand.dir = "both" /\ fan'[i].nbr = h
    <3>1. CASE AtCap(h)
      BY <1>1, <3>1
    <3>2. CASE ~AtCap(h)
      BY <1>0, <1>1, <1>2, <3>2, AdjsOnce
    <3> QED
      BY <3>1, <3>2
  <2> QED
    BY <1>1, <1>2, <2>1 DEF FanInv
<1>7. PredsInv'
  <2>1. \A v \in Places, a \in Range(fan') : Way(h, a) \notin Range(preds[v])
    <3> SUFFICES ASSUME NEW v \in Places, NEW a, Way(h, a) \in Range(preds[v])
                 PROVE  FALSE
      OBVIOUS
    <3>1. Way(h, a).from \notin Range(queue)
      BY DEF ListInv, PredsInv
    <3> QED
      BY <1>2, <3>1 DEF Way
  <2> QED
    BY <1>1, <1>2, <2>1 DEF ListInv, PredsInv, Way
<1>8. ClosingInv'
  <2>1. \A c \in Range(closing) : c.tail # h
    BY <1>2 DEF ListInv, ClosingInv
  <2>2. \A a : Back(h, a) \notin Range(closing)
    BY <2>1 DEF Back
  <2>3. \A c \in Range(closing) :
          /\ c.tail \in Places /\ Known(c.tail) /\ c.tail \notin Range(Tail(queue)) /\ ~AtCap(c.tail)
          /\ \E a \in ToStart(c.tail) : c = Back(c.tail, a)
    BY <1>2 DEF ListInv, ClosingInv
  <2>4. ASSUME errand.min >= 1, NEW v \in Places, Known(v), v \notin Range(Tail(queue)), ~AtCap(v),
               NEW a \in ToStart(v)
        PROVE  (v = h /\ a \in Range(fan')) \/ Back(v, a) \in Range(closing)
    <3>1. CASE v = h
      BY <1>4, <2>4, <3>1 DEF ToStart
    <3>2. CASE v # h
      <4>1. v \notin Range(queue) /\ Range(fan) = {}
        BY <1>0, <1>2, <1>3, <2>4, <3>2
      <4> QED
        BY <2>4, <4>1 DEF ListInv, ClosingInv
    <3> QED
      BY <3>1, <3>2
  <2>5. errand.min = 0 => closing = <<>>
    BY DEF ListInv, ClosingInv
  <2>6. ~LoopBothWays => IsInjective(closing)
    BY DEF ListInv, ClosingInv
  <2> QED
    BY <1>1, <2>2, <2>3, <2>4, <2>5, <2>6, ListFrame DEF ClosingInv
<1> QED
  BY <1>5, <1>6, <1>7, <1>8 DEF ListInv

(* What a look leaves of the lists: the fan loses its head, and the edge,  *)
(* if it leads back to the source, is one way back more.                   *)
LEMMA LookLists ==
  ASSUME ErrandInv, ListInv, Look
  PROVE  /\ errand \in Errands /\ errand' = errand /\ hand' = hand /\ ~AtCap(hand)
         /\ hand \notin Range(queue) /\ fan # <<>> /\ fan \in Seq(Adj) /\ fan' = Tail(fan)
         /\ Head(fan) \in Range(fan)
         /\ \A i, j \in DOMAIN fan' :
              i # j /\ fan'[i] = fan'[j] => errand.dir = "both" /\ fan'[i].nbr = hand
         /\ \A a \in Range(fan') :
              a = Head(fan) => errand.dir = "both" /\ Head(fan).nbr = hand
         /\ \A a \in Range(fan') : a \in Range(fan) /\ a \in Adj
         /\ closing' = IF errand.min >= 1 /\ Head(fan).nbr = errand.start
                       THEN Append(closing, Back(hand, Head(fan))) ELSE closing
<1>1. /\ fan # <<>> /\ fan \in Seq(Adj) /\ fan' = Tail(fan)
      /\ errand' = errand /\ hand' = hand
      /\ closing' = IF errand.min >= 1 /\ Head(fan).nbr = errand.start
                    THEN Append(closing, Back(hand, Head(fan))) ELSE closing
  BY DEF Look, ErrandInv, ErrandTypeOK, Back
<1>2. errand \in Errands /\ ~AtCap(hand) /\ hand \notin Range(queue)
  BY <1>1 DEF ListInv, CapInv, FanInv
<1>3. /\ Head(fan) = fan[1] /\ 1 \in DOMAIN fan /\ Range(fan) = {Head(fan)} \cup Range(Tail(fan))
      /\ \A i \in DOMAIN Tail(fan) : i + 1 \in DOMAIN fan /\ Tail(fan)[i] = fan[i + 1]
      /\ \A i \in DOMAIN Tail(fan) : i \in Nat /\ i > 0
      /\ Tail(fan) \in Seq(Adj)
  <2>1. Tail(fan) \in Seq(Adj)
    BY <1>1
  <2>2. \A i \in DOMAIN Tail(fan) : i \in Nat /\ i > 0
    BY <2>1
  <2> QED
    BY <1>1, <2>1, <2>2, HeadTail
<1>4. \A i, j \in DOMAIN fan :
         i # j /\ fan[i] = fan[j] => errand.dir = "both" /\ fan[i].nbr = hand
  BY DEF ListInv, FanInv
<1>5. ASSUME NEW i \in DOMAIN Tail(fan), NEW j \in DOMAIN Tail(fan), i # j,
             Tail(fan)[i] = Tail(fan)[j]
      PROVE  errand.dir = "both" /\ Tail(fan)[i].nbr = hand
  <2>1. i + 1 # j + 1
    BY <1>3, <1>5
  <2> QED
    BY <1>3, <1>4, <1>5, <2>1
<1>6. ASSUME NEW i \in DOMAIN Tail(fan), Tail(fan)[i] = Head(fan)
      PROVE  errand.dir = "both" /\ Head(fan).nbr = hand
  <2>1. i + 1 # 1
    BY <1>3
  <2> QED
    BY <1>3, <1>4, <1>6, <2>1
<1>7. \A a \in Range(Tail(fan)) : a \in Adj
  BY <1>3, Elements
<1>8. \A a \in Range(Tail(fan)) : a = Head(fan) => errand.dir = "both" /\ Head(fan).nbr = hand
  BY <1>6 DEF Range
<1> QED
  BY <1>1, <1>2, <1>3, <1>5, <1>7, <1>8

(* The ways back, after a look that makes at most one node known and queues it *)
LEMMA LookClosing ==
  ASSUME ErrandInv, ListInv, Look,
         \A v \in Places : Known(v) => dist'[v] = dist[v] /\ Known(v)',
         \A v \in Places : Known(v)' /\ ~Known(v) => v \in Range(queue'),
         Range(queue) \subseteq Range(queue'),
         \A v \in Range(queue') : v \in Range(queue) \/ ~Known(v)
  PROVE  ClosingInv'
<1>1. /\ errand \in Errands /\ errand' = errand /\ hand' = hand /\ ~AtCap(hand)
      /\ hand \notin Range(queue) /\ hand \in Places /\ Known(hand)
      /\ Head(fan) \in Adj /\ Head(fan) \in Range(AdjsOf(hand)) /\ errand.min \in Nat
      /\ closing \in Seq([len : Nat, tail : Places, eid : Nat])
      /\ errand.start \in Places
  <2>1. errand.min \in Nat /\ closing \in Seq([len : Nat, tail : Places, eid : Nat])
        /\ errand.start \in Places
    BY DEF ErrandInv, ErrandTypeOK, ErrandType
  <2>2. Known(hand)
    BY DEF ErrandInv, LevelByLevel
  <2> QED
    BY <2>1, <2>2, LookLists, LookFacts
<1>2. /\ \A a \in Range(fan') : a = Head(fan) => errand.dir = "both" /\ Head(fan).nbr = hand
      /\ \A a \in Range(fan') : a \in Range(fan) /\ a \in Adj
      /\ Range(fan) = {Head(fan)} \cup Range(fan')
  BY LookLists, LookFacts
<1> DEFINE b == Back(hand, Head(fan))
<1>3. CASE errand.min >= 1 /\ Head(fan).nbr = errand.start
  <2>1. closing' = Append(closing, b)
    BY <1>3, LookLists
  <2>2. b \in [len : Nat, tail : Places, eid : Nat]
    <3>1. dist[hand] \in Nat /\ Head(fan).eid \in Nat
      BY <1>1, LookFacts
    <3> QED
      BY <1>1, <3>1 DEF Back
  <2>3. Range(closing') = Range(closing) \cup {b}
    <3> DEFINE R == [len : Nat, tail : Places, eid : Nat]
    <3>1. closing \in Seq(R) /\ b \in R
      BY <1>1, <2>2
    <3> HIDE DEF R, b
    <3> QED
      BY <2>1, <3>1, Appended
  <2>4. ~LoopBothWays => b \notin Range(closing)
    BY <1>2, <1>3 DEF ListInv, ClosingInv
  <2>5. ~LoopBothWays => IsInjective(closing')
    <3> DEFINE R == [len : Nat, tail : Places, eid : Nat]
    <3>1. closing \in Seq(R) /\ b \in R /\ (~LoopBothWays => IsInjective(closing))
      BY <1>1, <2>2 DEF ListInv, ClosingInv
    <3> HIDE DEF R, b
    <3> QED
      BY <2>1, <2>4, <3>1, OnceFacts
  <2>6. b.tail = hand /\ Head(fan) \in ToStart(hand)
    BY <1>1, <1>3 DEF Back, ToStart
  <2>7. \A c \in Range(closing') :
          /\ c.tail \in Places /\ Known(c.tail) /\ c.tail \notin Range(queue) /\ ~AtCap(c.tail)
          /\ \E a \in ToStart(c.tail) : c = Back(c.tail, a)
    BY <1>1, <2>3, <2>6 DEF ListInv, ClosingInv
  <2>8. ASSUME ~LoopBothWays, NEW a \in Range(fan'), a.nbr = errand.start
        PROVE  Back(hand, a) \notin Range(closing')
    <3>1. Back(hand, a) \notin Range(closing)
      BY <1>2, <2>8 DEF ListInv, ClosingInv
    <3>2. a # Head(fan)
      <4> SUFFICES ASSUME a = Head(fan) PROVE FALSE
        OBVIOUS
      <4>1. errand.dir = "both" /\ hand = errand.start
        BY <1>2, <1>3
      <4> QED
        BY <2>6, <2>8, <4>1 DEF LoopBothWays
    <3>3. a.eid # Head(fan).eid
      BY <1>1, <1>2, <1>3, <2>8, <3>2 DEF Adj
    <3> QED
      BY <2>3, <3>1, <3>3 DEF Back
  <2>9. ASSUME NEW v \in Places, Known(v), v \notin Range(queue), ~AtCap(v), NEW a \in ToStart(v)
        PROVE  (v = hand /\ a \in Range(fan')) \/ Back(v, a) \in Range(closing')
    BY <1>2, <1>3, <2>3, <2>9 DEF ListInv, ClosingInv
  <2> HIDE DEF b
  <2>10. \A c \in Range(closing') :
          /\ c.tail \in Places /\ Known(c.tail)' /\ c.tail \notin Range(queue') /\ ~AtCap(c.tail)'
          /\ \E a \in ToStart(c.tail)' : c = Back(c.tail, a)'
    <3> SUFFICES ASSUME NEW c \in Range(closing')
                 PROVE  /\ c.tail \in Places /\ Known(c.tail)' /\ c.tail \notin Range(queue') /\ ~AtCap(c.tail)'
                        /\ \E a \in ToStart(c.tail)' : c = Back(c.tail, a)'
      OBVIOUS
    <3>1. /\ c.tail \in Places /\ Known(c.tail) /\ c.tail \notin Range(queue) /\ ~AtCap(c.tail)
          /\ dist'[c.tail] = dist[c.tail]
      BY <2>7
    <3>2. ~AtCap(c.tail)'
      BY <1>1, <3>1 DEF AtCap
    <3>3. \E a \in ToStart(c.tail)' : c = Back(c.tail, a)'
      BY <1>1, <2>7, <3>1, ListFrame DEF Back
    <3> QED
      BY <3>1, <3>2, <3>3
  <2>11. ASSUME NEW v \in Places, Known(v)', v \notin Range(queue'), ~AtCap(v)', NEW a \in ToStart(v)
         PROVE  (v = hand /\ a \in Range(fan')) \/ Back(v, a)' \in Range(closing')
    <3>1. Known(v) /\ v \notin Range(queue) /\ dist'[v] = dist[v]
      BY <2>11
    <3>2. ~AtCap(v) /\ Back(v, a)' = Back(v, a)
      BY <1>1, <2>11, <3>1 DEF AtCap, Back
    <3> QED
      BY <2>9, <3>1, <3>2
  <2>12. ~LoopBothWays => \A a \in Range(fan') : a.nbr = errand.start => Back(hand, a)' \notin Range(closing')
    <3>1. \A a : Back(hand, a)' = Back(hand, a)
      BY <1>1 DEF Back
    <3> QED
      BY <2>8, <3>1
  <2> QED
    BY <1>1, <1>3, <2>5, <2>10, <2>11, <2>12, ListFrame DEF ClosingInv
<1>4. CASE ~(errand.min >= 1 /\ Head(fan).nbr = errand.start)
  <2>1. closing' = closing
    BY <1>4, LookLists
  <2>2. errand.min = 0 => closing = <<>>
    BY DEF ListInv, ClosingInv
  <2>3. \A c \in Range(closing) :
          /\ c.tail \in Places /\ Known(c.tail)' /\ c.tail \notin Range(queue') /\ ~AtCap(c.tail)'
          /\ \E a \in ToStart(c.tail)' : c = Back(c.tail, a)'
    <3> SUFFICES ASSUME NEW c \in Range(closing)
                 PROVE  /\ c.tail \in Places /\ Known(c.tail)' /\ c.tail \notin Range(queue') /\ ~AtCap(c.tail)'
                        /\ \E a \in ToStart(c.tail)' : c = Back(c.tail, a)'
      OBVIOUS
    <3>1. /\ c.tail \in Places /\ Known(c.tail) /\ c.tail \notin Range(queue) /\ ~AtCap(c.tail)
          /\ dist'[c.tail] = dist[c.tail]
          /\ \E a \in ToStart(c.tail) : c = Back(c.tail, a)
      BY DEF ListInv, ClosingInv
    <3>2. ~AtCap(c.tail)'
      BY <1>1, <3>1 DEF AtCap
    <3>3. \E a \in ToStart(c.tail)' : c = Back(c.tail, a)'
      BY <1>1, <3>1, ListFrame DEF Back
    <3> QED
      BY <3>1, <3>2, <3>3
  <2>4. ASSUME errand.min >= 1,
               NEW v \in Places, Known(v)', v \notin Range(queue'), ~AtCap(v)', NEW a \in ToStart(v)
         PROVE  (v = hand /\ a \in Range(fan')) \/ Back(v, a)' \in Range(closing)
    <3>1. Known(v) /\ v \notin Range(queue) /\ dist'[v] = dist[v]
      BY <2>4
    <3>2. ~AtCap(v) /\ Back(v, a)' = Back(v, a)
      BY <1>1, <2>4, <3>1 DEF AtCap, Back
    <3>3. a # Head(fan)
      BY <1>4, <2>4 DEF ToStart
    <3> QED
      BY <1>2, <2>4, <3>1, <3>2, <3>3 DEF ListInv, ClosingInv
  <2>5. ~LoopBothWays =>
          /\ IsInjective(closing)
          /\ \A a \in Range(fan') : a.nbr = errand.start => Back(hand, a)' \notin Range(closing)
    <3>1. \A a : Back(hand, a)' = Back(hand, a)
      BY <1>1 DEF Back
    <3> QED
      BY <1>2, <3>1 DEF ListInv, ClosingInv
  <2> QED
    BY <1>1, <2>1, <2>2, <2>3, <2>4, <2>5, ListFrame DEF ClosingInv
<1> QED
  BY <1>3, <1>4

(* The fan and the predecessors after a look *)
LEMMA LookFan ==
  ASSUME ErrandInv, ListInv, Look, IsInjective(queue'), hand \notin Range(queue')
  PROVE  FanInv'
<1>1. /\ errand' = errand /\ hand' = hand
      /\ \A i, j \in DOMAIN fan' :
           i # j /\ fan'[i] = fan'[j] => errand.dir = "both" /\ fan'[i].nbr = hand
  BY LookLists
<1> QED
  BY <1>1 DEF FanInv

(* An edge that is looked at becomes a predecessor once: it leaves the fan *)
(* as it enters the list.                                                  *)
LEMMA LookPreds ==
  ASSUME ErrandInv, ListInv, Look, preds' = Precedes, Head(fan).nbr # hand,
         hand \notin Range(queue'), \A v \in Range(queue') : v \in Range(queue) \/ ~Known(v)
  PROVE  PredsInv'
<1> DEFINE w == Head(fan).nbr
           R == [from : Places, eid : Nat]
           p == Way(hand, Head(fan))
<1>1. /\ w \in Places /\ hand \in Places /\ p \in R /\ Head(fan) \in Range(fan)
      /\ Head(fan) \in Adj
      /\ preds \in [Places -> Seq(R)] /\ hand' = hand
      /\ preds' = [preds EXCEPT ![w] = Append(preds[w], p)]
  BY LookFacts, LookLists DEF ErrandInv, ErrandTypeOK, Way, Precedes
<1>2. /\ preds'[w] = Append(preds[w], p)
      /\ \A v \in Places : v # w => preds'[v] = preds[v]
  BY <1>1
<1>3. p \notin Range(preds[w])
  BY <1>1 DEF ListInv, PredsInv
<1>4. IsInjective(preds'[w]) /\ Range(preds'[w]) = Range(preds[w]) \cup {p}
  <2>1. preds[w] \in Seq(R) /\ IsInjective(preds[w])
    BY <1>1 DEF ListInv, PredsInv
  <2> HIDE DEF w, R, p
  <2> QED
    BY <1>1, <1>2, <1>3, <2>1, OnceFacts, Appended
<1>5. ASSUME NEW v \in Places
      PROVE  IsInjective(preds'[v])
  BY <1>2, <1>4 DEF ListInv, PredsInv
<1>6. ASSUME NEW v \in Places, NEW q \in Range(preds'[v])
      PROVE  q.from \notin Range(queue')
  <2>1. CASE q = p
    <3>1. q.from = hand
      BY <2>1 DEF Way
    <3> QED
      BY <3>1
  <2>2. CASE q \in Range(preds[v])
    <3>1. q.from \notin Range(queue)
      BY <2>2 DEF ListInv, PredsInv
    <3>2. Known(q.from)
      BY <2>2 DEF ErrandInv, PredecessorsAreTight
    <3> QED
      BY <3>1, <3>2
  <2> QED
    BY <1>2, <1>4, <1>6, <2>1, <2>2
<1>7. ASSUME NEW v \in Places, NEW a \in Range(fan'), a.nbr = v
      PROVE  Way(hand, a) \notin Range(preds'[v])
  <2>1. a \in Range(fan) /\ a \in Adj /\ (a = Head(fan) => w = hand)
    BY <1>7, LookLists
  <2>2. Way(hand, a) \notin Range(preds[v])
    BY <1>7, <2>1 DEF ListInv, PredsInv
  <2>3. CASE v # w
    BY <1>2, <2>2, <2>3
  <2>4. CASE v = w
    <3>1. a # Head(fan)
      BY <2>1
    <3>2. a.eid # Head(fan).eid
      <4>1. Head(fan) \in Adj /\ a \in Adj /\ a.nbr = Head(fan).nbr /\ a # Head(fan)
        BY <1>1, <1>7, <2>1, <2>4, <3>1
      <4> HIDE DEF w, p, R
      <4> QED
        BY <4>1 DEF Adj
    <3>3. Way(hand, a) # p
      BY <3>2 DEF Way
    <3> QED
      BY <1>4, <2>2, <2>4, <3>3
  <2> QED
    BY <2>3, <2>4
<1>8. \A v, a : Way(v, a)' = Way(v, a)
  BY DEF Way
<1> QED
  BY <1>1, <1>5, <1>6, <1>7, <1>8 DEF PredsInv, Way

(* An edge that leads to no shortest path may still be a way back.         *)
LEMMA LookPastList ==
  ASSUME ErrandInv, ListInv, LookPast
  PROVE  ListInv'
<1>0. Look
  BY DEF LookPast
<1>1. /\ UNCHANGED <<errand, hand, dist, preds, sighted, queue, stopAt>> /\ hand \notin Range(queue)
      /\ ~AtCap(hand)
  BY <1>0, LookLists DEF LookPast
<1>2. SightedInv' /\ CapInv'
  BY <1>1, ListFrame DEF ListInv, SightedInv, CapInv
<1>3. FanInv'
  BY <1>0, <1>1, LookFan DEF ListInv, FanInv
<1>4. PredsInv'
  <2>1. \A a \in Range(fan') : a \in Range(fan)
    BY <1>0, LookLists
  <2> QED
    BY <1>1, <2>1 DEF ListInv, PredsInv, Way
<1>5. ClosingInv'
  <2>1. \A v \in Places : Known(v)' <=> Known(v)
    BY <1>1 DEF Known
  <2> QED
    BY <1>0, <1>1, <2>1, LookClosing
<1> QED
  BY <1>2, <1>3, <1>4, <1>5 DEF ListInv

(* Another edge onto a node at its shortest distance joins its             *)
(* predecessors.                                                           *)
LEMMA RejoinList ==
  ASSUME ErrandInv, ListInv, Rejoin
  PROVE  ListInv'
<1>0. Look /\ dist[Head(fan).nbr] = dist[hand] + 1 /\ preds' = Precedes
  BY DEF Rejoin
<1>1. /\ UNCHANGED <<errand, hand, dist, sighted, queue, stopAt>> /\ hand \notin Range(queue)
      /\ ~AtCap(hand)
  BY <1>0, LookLists DEF Rejoin
<1>2. SightedInv' /\ CapInv'
  BY <1>1, ListFrame DEF ListInv, SightedInv, CapInv
<1>3. FanInv'
  BY <1>0, <1>1, LookFan DEF ListInv, FanInv
<1>4. PredsInv'
  <2>1. Head(fan).nbr # hand
    <3>1. dist[hand] \in Nat
      BY <1>0, LookFacts
    <3> QED
      BY <1>0, <3>1
  <2> QED
    BY <1>0, <1>1, <2>1, LookPreds
<1>5. ClosingInv'
  <2>1. \A v \in Places : Known(v)' <=> Known(v)
    BY <1>1 DEF Known
  <2> QED
    BY <1>0, <1>1, <2>1, LookClosing
<1> QED
  BY <1>2, <1>3, <1>4, <1>5 DEF ListInv

(* A node sighted for the first time joins `order` and the queue, each     *)
(* once.                                                                   *)
LEMMA SightList ==
  ASSUME ErrandInv, ListInv, Sight
  PROVE  ListInv'
<1> DEFINE w == Head(fan).nbr
           d == dist[hand] + 1
<1>0. Look /\ dist[w] = Unseen /\ preds' = Precedes
  BY DEF Sight
<1>1. /\ UNCHANGED <<errand, hand>> /\ dist' = [dist EXCEPT ![w] = d]
      /\ sighted' = Append(sighted, w) /\ queue' = Append(queue, w)
      /\ hand \notin Range(queue) /\ ~AtCap(hand) /\ fan # <<>>
  BY <1>0, LookLists DEF Sight
<1>2. /\ w \in Places /\ hand \in Places /\ dist[hand] \in Nat /\ d \in Nat /\ d = dist[hand] + 1
      /\ dist \in [Places -> Nat \cup {Unseen}] /\ ~Known(w) /\ Known(hand) /\ w # hand
      /\ sighted \in Seq(Places) /\ queue \in Seq(Places) /\ errand \in ErrandType
  <2>1. w \in Places /\ hand \in Places /\ dist[hand] \in Nat
    BY <1>0, LookFacts
  <2>2. /\ dist \in [Places -> Nat \cup {Unseen}]
        /\ sighted \in Seq(Places) /\ queue \in Seq(Places) /\ errand \in ErrandType
    BY DEF ErrandInv, ErrandTypeOK
  <2> QED
    BY <1>0, <2>1, <2>2 DEF Known, Unseen
<1> HIDE DEF w, d
<1>3. /\ dist'[w] = d /\ \A v \in Places : v # w => dist'[v] = dist[v]
      /\ \A v \in Places : Known(v)' <=> Known(v) \/ v = w
  <2>1. dist'[w] = d /\ \A v \in Places : v # w => dist'[v] = dist[v]
    BY <1>1, <1>2
  <2>2. d # Unseen
    BY <1>2 DEF Unseen
  <2> QED
    BY <2>1, <2>2 DEF Known
<1>4. /\ \A v \in Range(queue) : v \in Places /\ Known(v)
      /\ \A v \in Range(sighted) : v \in Places /\ Known(v)
  <2>1. \A v \in Range(sighted) : v \in Places /\ Known(v)
    BY DEF ListInv, SightedInv
  <2>2. \A v \in Range(queue) : v \in Places /\ Known(v)
    <3> SUFFICES ASSUME NEW i \in DOMAIN queue PROVE queue[i] \in Places /\ Known(queue[i])
      BY DEF Range
    <3>1. queue[i] \in Places /\ dist[hand] <= dist[queue[i]]
      BY <1>2 DEF ErrandInv, LevelByLevel
    <3>2. dist[queue[i]] # -1
      BY <1>2, <3>1
    <3> QED
      BY <3>1, <3>2 DEF Known, Unseen
  <2> QED
    BY <2>1, <2>2
<1>5. /\ IsInjective(queue') /\ Range(queue') = Range(queue) \cup {w}
      /\ IsInjective(sighted') /\ Range(sighted') = Range(sighted) \cup {w}
  BY <1>1, <1>2, <1>4, Appended, OnceFacts DEF ListInv, SightedInv, FanInv
<1>6. SightedInv'
  BY <1>2, <1>3, <1>5 DEF ListInv, SightedInv
<1>7. CapInv'
  <2>1. errand.max # NoBound => \A v \in Places : dist'[v] <= errand.max
    <3> SUFFICES ASSUME errand.max # NoBound, NEW v \in Places PROVE dist'[v] <= errand.max
      OBVIOUS
    <3>1. errand.max \in Nat
      BY <1>2 DEF ErrandType
    <3>2. CASE v = w
      <4> DEFINE m == errand.max
                 h == dist[hand]
      <4>1. ~(h >= m) /\ h \in Nat /\ m \in Nat /\ dist'[v] = h + 1
        BY <1>1, <1>2, <1>3, <3>1, <3>2 DEF AtCap
      <4> HIDE DEF m, h
      <4>2. dist'[v] <= m
        BY <4>1
      <4> QED
        BY <4>2 DEF m
    <3>3. CASE v # w
      BY <1>3, <3>3 DEF ListInv, CapInv
    <3> QED
      BY <3>2, <3>3
  <2>2. ~AtCap(hand)'
    BY <1>1, <1>2, <1>3 DEF AtCap
  <2>3. errand.targets = {} => stopAt' = NoBound
    <3>1. errand.targets = {} => stopAt' = stopAt
      BY DEF Sight
    <3> QED
      BY <3>1 DEF ListInv, CapInv
  <2>4. errand \in Errands
    BY DEF ListInv, CapInv
  <2> QED
    BY <1>1, <2>1, <2>2, <2>3, <2>4 DEF CapInv
<1>8. hand \notin Range(queue') /\ \A v \in Range(queue') : v \in Range(queue) \/ ~Known(v)
  BY <1>1, <1>2, <1>5
<1>9. FanInv'
  BY <1>0, <1>5, <1>8, LookFan
<1>10. PredsInv'
  BY <1>0, <1>2, <1>8, LookPreds DEF w
<1>11. ClosingInv'
  <2>1. \A v \in Places : Known(v) => dist'[v] = dist[v] /\ Known(v)'
    BY <1>2, <1>3
  <2>2. \A v \in Places : Known(v)' /\ ~Known(v) => v \in Range(queue')
    BY <1>3, <1>5
  <2> QED
    BY <1>0, <1>5, <1>8, <2>1, <2>2, LookClosing
<1> QED
  BY <1>6, <1>7, <1>9, <1>10, <1>11 DEF ListInv

(* No step of shortest_path lists a node, an edge or a way back twice, or  *)
(* forgets one.                                                            *)
LEMMA ListNextInv == ErrandInv /\ ListInv /\ [ErrandNext]_errandVars => ListInv'
<1> SUFFICES ASSUME ErrandInv, ListInv, [ErrandNext]_errandVars
             PROVE  ListInv'
  OBVIOUS
<1>1. CASE StopSearch
  BY <1>1, StopList
<1>2. CASE Expand
  BY <1>2, ExpandList
<1>3. CASE Sight
  BY <1>3, SightList
<1>4. CASE Rejoin
  BY <1>4, RejoinList
<1>5. CASE LookPast
  BY <1>5, LookPastList
<1>6. CASE Report
  <2>1. UNCHANGED <<errand, dist, preds, sighted, closing, stopAt, hand, fan, queue>>
    BY <1>6 DEF Report, searchState
  <2> QED
    BY <2>1, ListStays
<1>7. CASE UNCHANGED errandVars
  <2>1. UNCHANGED <<errand, dist, preds, sighted, closing, stopAt, hand, fan, queue>>
    BY <1>7 DEF errandVars, searchState
  <2> QED
    BY <2>1, ListStays
<1> QED
  BY <1>1, <1>2, <1>3, <1>4, <1>5, <1>6, <1>7 DEF ErrandNext

(* A function defined by recursion on a rank exists, ranks being bounded:  *)
(* otherwise there is a least n such that none obeys the definition where  *)
(* ranks are below n, and one that does below n - 1 is corrected at n - 1. *)
Ranked(D, T, rank, N, E, t0) ==
  /\ rank \in [D -> Nat] /\ N \in Nat /\ \A v \in D : rank[v] <= N
  /\ E \in [[D -> T] \X D -> T] /\ t0 \in T
  /\ \A f, g \in [D -> T], v \in D :
       (\A u \in D : rank[u] < rank[v] => f[u] = g[u]) => E[<<f, v>>] = E[<<g, v>>]

(* A recursion that looks only at arguments of lower rank has a solution:  *)
(* for every bound on the rank there is a function that obeys it below the *)
(* bound.                                                                  *)
LEMMA RankedRecursion ==
  ASSUME NEW D, NEW T, NEW rank, NEW N, NEW E, NEW t0, Ranked(D, T, rank, N, E, t0)
  PROVE  \E f \in [D -> T] : f = [v \in D |-> E[<<f, v>>]]
<1>0. /\ rank \in [D -> Nat] /\ N \in Nat /\ \A v \in D : rank[v] <= N
      /\ E \in [[D -> T] \X D -> T] /\ t0 \in T
      /\ \A f, g \in [D -> T], v \in D :
           (\A u \in D : rank[u] < rank[v] => f[u] = g[u]) => E[<<f, v>>] = E[<<g, v>>]
  BY DEF Ranked
<1> DEFINE Obeys(f, n) == \A v \in D : rank[v] < n => f[v] = E[<<f, v>>]
           Bad == {n \in Nat : ~ \E f \in [D -> T] : Obeys(f, n)}
<1>1. Bad = {}
  <2> SUFFICES ASSUME Bad # {} PROVE FALSE
    OBVIOUS
  <2>1. PICK n \in Bad : \A m \in Bad : n <= m
    <3>1. Bad \in SUBSET Nat
      OBVIOUS
    <3> QED
      BY <3>1, LeastNumber
  <2>2. n \in Nat /\ ~ \E f \in [D -> T] : Obeys(f, n)
    BY <2>1
  <2>3. n # 0
    <3> SUFFICES ASSUME n = 0 PROVE FALSE
      OBVIOUS
    <3>1. [v \in D |-> t0] \in [D -> T]
      BY <1>0
    <3>2. Obeys([v \in D |-> t0], 0)
      BY <1>0
    <3> QED
      BY <2>2, <3>1, <3>2
  <2>4. n - 1 \in Nat /\ n - 1 \notin Bad
    <3> HIDE DEF Bad, Obeys
    <3>1. n - 1 \in Nat /\ ~(n <= n - 1)
      BY <2>2, <2>3
    <3> QED
      BY <2>1, <3>1
  <2>5. PICK f \in [D -> T] : Obeys(f, n - 1)
    BY <2>4
  <2> DEFINE g == [v \in D |-> IF rank[v] < n - 1 THEN f[v] ELSE E[<<f, v>>]]
  <2>6. g \in [D -> T]
    BY <1>0
  <2>7. ASSUME NEW v \in D, rank[v] < n
        PROVE  g[v] = E[<<g, v>>]
    <3>1. \A u \in D : rank[u] < rank[v] => f[u] = g[u]
      <4> SUFFICES ASSUME NEW u \in D, rank[u] < rank[v] PROVE f[u] = g[u]
        OBVIOUS
      <4>1. rank[u] < n - 1
        BY <1>0, <2>2, <2>7
      <4> QED
        BY <4>1
    <3>2. E[<<f, v>>] = E[<<g, v>>]
      <4> HIDE DEF g
      <4> QED
        BY <1>0, <2>6, <3>1
    <3>3. g[v] = E[<<f, v>>]
      <4>1. rank[v] < n - 1 => f[v] = E[<<f, v>>]
        BY <2>5
      <4> QED
        BY <4>1
    <3> QED
      BY <3>2, <3>3
  <2> HIDE DEF g
  <2> QED
    BY <2>2, <2>6, <2>7
<1>2. PICK f \in [D -> T] : Obeys(f, N + 1)
  <2>1. N + 1 \in Nat /\ N + 1 \notin Bad
    <3> HIDE DEF Bad
    <3> QED
      BY <1>0, <1>1
  <2> QED
    BY <2>1
<1>3. \A v \in D : f[v] = E[<<f, v>>]
  <2> SUFFICES ASSUME NEW v \in D PROVE rank[v] < N + 1
    BY <1>2
  <2> QED
    BY <1>0
<1>4. f = [v \in D |-> E[<<f, v>>]]
  BY <1>3
<1> QED
  BY <1>4

-----------------------------------------------------------------------------
(* Walks of a search e, and the shortest of them, without recursion *)

PathSet == [nodes : Seq(Places), edges : Seq(Nat)]
EdgesOf(e, v) ==
    (IF e.dir # "in" THEN Range(e.outs[v]) ELSE {}) \cup
    (IF e.dir # "out" THEN Range(e.incs[v]) ELSE {})
IsWalk(e, w, n) ==
    /\ w \in PathSet /\ Len(w.nodes) = n + 1 /\ Len(w.edges) = n /\ w.nodes[1] = e.start
    /\ \A i \in 1 .. n : [nbr |-> w.nodes[i + 1], eid |-> w.edges[i]] \in EdgesOf(e, w.nodes[i])
LongestOf(e) == IF e.max = NoBound THEN Cardinality(Places) ELSE e.max
ShortestTo(e, v) ==
    {w \in PathSet : \E n \in e.min .. LongestOf(e) :
        /\ IsWalk(e, w, n) /\ Last(w.nodes) = v
        /\ \A m \in e.min .. LongestOf(e), x \in PathSet :
             IsWalk(e, x, m) /\ Last(x.nodes) = v => n <= m}

(* The edges the search walks from a node are the ones of the reference.   *)
LEMMA EdgesAre ==
  ASSUME errand \in ErrandType, NEW v \in Places
  PROVE  /\ Range(AdjsOf(v)) = EdgesOf(errand, v) /\ EdgesAt(v) = EdgesOf(errand, v)
         /\ EdgesOf(errand, v) \subseteq Adj
<1>1. /\ errand.outs[v] \in Seq(Adj) /\ errand.incs[v] \in Seq(Adj)
      /\ errand.dir \in {"out", "in", "both"}
  BY DEF ErrandType
<1> DEFINE a == IF errand.dir = "in" THEN <<>> ELSE errand.outs[v]
           b == IF errand.dir = "out" THEN <<>> ELSE errand.incs[v]
<1>2. <<>> \in Seq(Adj) /\ Range(<<>>) = {}
  BY DEF Range
<1>3. a \in Seq(Adj) /\ b \in Seq(Adj)
  BY <1>1, <1>2
<1>4. Range(a) \cup Range(b) = EdgesOf(errand, v)
  BY <1>2 DEF EdgesOf
<1>5. AdjsOf(v) = a \o b
  BY DEF AdjsOf
<1> HIDE DEF a, b
<1>6. Range(a \o b) = Range(a) \cup Range(b)
  <2>1. /\ DOMAIN (a \o b) = 1 .. Len(a) + Len(b) /\ Len(a) \in Nat /\ Len(b) \in Nat
        /\ DOMAIN a = 1 .. Len(a) /\ DOMAIN b = 1 .. Len(b)
        /\ \A i \in 1 .. Len(a) + Len(b) : (a \o b)[i] = IF i <= Len(a) THEN a[i] ELSE b[i - Len(a)]
    BY <1>3
  <2>2. \A i \in DOMAIN (a \o b) : (a \o b)[i] \in Range(a) \cup Range(b)
    <3> SUFFICES ASSUME NEW i \in 1 .. Len(a) + Len(b)
                 PROVE  (a \o b)[i] \in Range(a) \cup Range(b)
      BY <2>1
    <3>1. CASE i <= Len(a)
      <4>1. i \in DOMAIN a /\ (a \o b)[i] = a[i]
        BY <2>1, <3>1
      <4> QED
        BY <4>1 DEF Range
    <3>2. CASE i > Len(a)
      <4>1. i - Len(a) \in DOMAIN b /\ (a \o b)[i] = b[i - Len(a)]
        BY <2>1, <3>2
      <4> QED
        BY <4>1 DEF Range
    <3> QED
      BY <2>1, <3>1, <3>2
  <2>3. \A i \in DOMAIN a : a[i] \in Range(a \o b)
    <3> SUFFICES ASSUME NEW i \in 1 .. Len(a) PROVE a[i] \in Range(a \o b)
      BY <2>1
    <3>1. i \in DOMAIN (a \o b) /\ (a \o b)[i] = a[i]
      BY <2>1
    <3> QED
      BY <3>1 DEF Range
  <2>4. \A i \in DOMAIN b : b[i] \in Range(a \o b)
    <3> SUFFICES ASSUME NEW i \in 1 .. Len(b) PROVE b[i] \in Range(a \o b)
      BY <2>1
    <3>1. i + Len(a) \in DOMAIN (a \o b) /\ (a \o b)[i + Len(a)] = b[i]
      BY <2>1
    <3> QED
      BY <3>1 DEF Range
  <2>5. \A x \in Range(a \o b) : x \in Range(a) \cup Range(b)
    BY <2>2 DEF Range
  <2>6. \A x \in Range(a) \cup Range(b) : x \in Range(a \o b)
    BY <2>3, <2>4 DEF Range
  <2> QED
    BY <2>5, <2>6
<1>7. EdgesAt(v) = EdgesOf(errand, v)
  BY DEF EdgesAt, EdgesOf
<1>8. EdgesOf(errand, v) \subseteq Adj
  BY <1>3, <1>4, Elements
<1> QED
  BY <1>4, <1>5, <1>6, <1>7, <1>8

(* A path one hop longer has one more node and one more edge, at its end.  *)
LEMMA OnwardsFacts ==
  ASSUME NEW x \in PathSet, NEW v \in Places, NEW k \in Nat
  PROVE  /\ Onwards(x, v, k) \in PathSet
         /\ Len(Onwards(x, v, k).nodes) = Len(x.nodes) + 1 /\ Len(Onwards(x, v, k).edges) = Len(x.edges) + 1
         /\ Len(x.nodes) \in Nat /\ Len(x.edges) \in Nat
         /\ \A i \in 1 .. Len(x.nodes) : Onwards(x, v, k).nodes[i] = x.nodes[i]
         /\ \A i \in 1 .. Len(x.edges) : Onwards(x, v, k).edges[i] = x.edges[i]
         /\ Onwards(x, v, k).nodes[Len(x.nodes) + 1] = v
         /\ Onwards(x, v, k).edges[Len(x.edges) + 1] = k
         /\ Last(Onwards(x, v, k).nodes) = v
<1> DEFINE p == x.nodes
           q == x.edges
<1>1. p \in Seq(Places) /\ q \in Seq(Nat)
  BY DEF PathSet
<1>2. Onwards(x, v, k).nodes = Append(p, v) /\ Onwards(x, v, k).edges = Append(q, k)
      /\ Onwards(x, v, k) = [nodes |-> Append(p, v), edges |-> Append(q, k)]
  BY DEF Onwards
<1> HIDE DEF p, q
<1>3. /\ Append(p, v) \in Seq(Places) /\ Append(q, k) \in Seq(Nat)
      /\ Len(Append(p, v)) = Len(p) + 1 /\ Len(Append(q, k)) = Len(q) + 1
      /\ Len(p) \in Nat /\ Len(q) \in Nat
      /\ \A i \in 1 .. Len(p) : Append(p, v)[i] = p[i]
      /\ \A i \in 1 .. Len(q) : Append(q, k)[i] = q[i]
      /\ Append(p, v)[Len(p) + 1] = v /\ Append(q, k)[Len(q) + 1] = k
  BY <1>1
<1>4. Onwards(x, v, k) \in PathSet
  BY <1>2, <1>3 DEF PathSet
<1>5. Last(Append(p, v)) = v
  BY <1>3 DEF Last
<1> QED
  BY <1>2, <1>3, <1>4, <1>5 DEF p, q

(* Two sequences that are equal with an element appended were equal        *)
(* before.                                                                 *)
LEMMA AppendOnce ==
  ASSUME NEW S, NEW p \in Seq(S), NEW q \in Seq(S), NEW a \in S, NEW b \in S,
         Append(p, a) = Append(q, b)
  PROVE  p = q /\ a = b
<1>1. Len(p) = Len(q)
  <2>1. Len(Append(p, a)) = Len(p) + 1 /\ Len(Append(q, b)) = Len(q) + 1
        /\ Len(p) \in Nat /\ Len(q) \in Nat
    OBVIOUS
  <2> QED
    BY <2>1
<1>2. a = b
  <2>1. Append(p, a)[Len(p) + 1] = a /\ Append(q, b)[Len(q) + 1] = b
    OBVIOUS
  <2> QED
    BY <1>1, <2>1
<1>3. \A i \in 1 .. Len(p) : p[i] = q[i]
  <2>1. /\ \A i \in 1 .. Len(p) : Append(p, a)[i] = p[i]
        /\ \A i \in 1 .. Len(q) : Append(q, b)[i] = q[i]
    OBVIOUS
  <2> QED
    BY <1>1, <2>1
<1>4. p = q
  BY <1>1, <1>3, SeqEqual
<1> QED
  BY <1>2, <1>4

(* A path one hop longer determines the path and the hop.                  *)
LEMMA OnwardsOnce ==
  ASSUME NEW x \in PathSet, NEW y \in PathSet, NEW v \in Places, NEW u \in Places,
         NEW k \in Nat, NEW l \in Nat, Onwards(x, v, k) = Onwards(y, u, l)
  PROVE  x = y /\ v = u /\ k = l
<1> DEFINE p == x.nodes
           q == y.nodes
           r == x.edges
           s == y.edges
<1>1. /\ p \in Seq(Places) /\ r \in Seq(Nat) /\ q \in Seq(Places) /\ s \in Seq(Nat)
      /\ x = [nodes |-> p, edges |-> r] /\ y = [nodes |-> q, edges |-> s]
  BY DEF PathSet
<1>2. Append(p, v) = Append(q, u) /\ Append(r, k) = Append(s, l)
  BY DEF Onwards
<1> HIDE DEF p, q, r, s
<1>3. p = q /\ v = u
  <2>1. p \in Seq(Places) /\ q \in Seq(Places) /\ Append(p, v) = Append(q, u)
    BY <1>1, <1>2
  <2> QED
    BY <2>1, AppendOnce, SMTT(30)
<1>4. r = s /\ k = l
  <2> DEFINE N == Nat
  <2>1. r \in Seq(N) /\ s \in Seq(N) /\ k \in N /\ l \in N
    BY <1>1
  <2> HIDE DEF N
  <2> QED
    BY <1>2, <2>1, AppendOnce, SMTT(30)
<1> QED
  BY <1>1, <1>3, <1>4

(* The one walk of no hops stays at the source.                            *)
LEMMA WalkZero ==
  ASSUME NEW e, e.start \in Places, NEW w
  PROVE  IsWalk(e, w, 0) <=> w = [nodes |-> <<e.start>>, edges |-> <<>>]
<1>1. ASSUME IsWalk(e, w, 0)
      PROVE  w = [nodes |-> <<e.start>>, edges |-> <<>>]
  <2>1. w \in PathSet /\ Len(w.nodes) = 1 /\ Len(w.edges) = 0 /\ w.nodes[1] = e.start
    BY <1>1 DEF IsWalk
  <2>2. w.nodes \in Seq(Places) /\ w.edges \in Seq(Nat) /\ w = [nodes |-> w.nodes, edges |-> w.edges]
    BY <2>1 DEF PathSet
  <2>3. w.nodes = <<e.start>>
    BY <2>1, <2>2
  <2>4. w.edges = <<>>
    BY <2>1, <2>2
  <2> QED
    BY <2>2, <2>3, <2>4
<1>2. IsWalk(e, [nodes |-> <<e.start>>, edges |-> <<>>], 0)
  BY DEF IsWalk, PathSet
<1> QED
  BY <1>1, <1>2

(* A walk and an edge of the node it ends at make a walk.                  *)
LEMMA WalkMore ==
  ASSUME NEW e, NEW n \in Nat, NEW w, IsWalk(e, w, n), NEW a \in Adj, a \in EdgesOf(e, Last(w.nodes))
  PROVE  IsWalk(e, Onwards(w, a.nbr, a.eid), n + 1)
<1> DEFINE x == Onwards(w, a.nbr, a.eid)
<1>1. a.nbr \in Places /\ a.eid \in Nat /\ a = [nbr |-> a.nbr, eid |-> a.eid]
  BY DEF Adj
<1>2. /\ w \in PathSet /\ Len(w.nodes) = n + 1 /\ Len(w.edges) = n /\ w.nodes[1] = e.start
      /\ \A i \in 1 .. n : [nbr |-> w.nodes[i + 1], eid |-> w.edges[i]] \in EdgesOf(e, w.nodes[i])
      /\ Last(w.nodes) = w.nodes[n + 1]
  BY DEF IsWalk, Last
<1>3. /\ x \in PathSet /\ Len(x.nodes) = n + 2 /\ Len(x.edges) = n + 1
      /\ \A i \in 1 .. n + 1 : x.nodes[i] = w.nodes[i]
      /\ \A i \in 1 .. n : x.edges[i] = w.edges[i]
      /\ x.nodes[n + 2] = a.nbr /\ x.edges[n + 1] = a.eid
  <2>1. Len(w.nodes) + 1 = n + 2 /\ Len(w.edges) + 1 = n + 1 /\ w \in PathSet
    BY <1>2
  <2>2. /\ x \in PathSet /\ Len(x.nodes) = Len(w.nodes) + 1 /\ Len(x.edges) = Len(w.edges) + 1
        /\ \A i \in 1 .. Len(w.nodes) : x.nodes[i] = w.nodes[i]
        /\ \A i \in 1 .. Len(w.edges) : x.edges[i] = w.edges[i]
        /\ x.nodes[Len(w.nodes) + 1] = a.nbr /\ x.edges[Len(w.edges) + 1] = a.eid
    <3> DEFINE v == a.nbr
               k == a.eid
    <3>1. w \in PathSet /\ v \in Places /\ k \in Nat /\ x = Onwards(w, v, k)
      BY <1>1, <2>1
    <3> HIDE DEF x, v, k
    <3>2. /\ Onwards(w, v, k) \in PathSet
          /\ Len(Onwards(w, v, k).nodes) = Len(w.nodes) + 1 /\ Len(Onwards(w, v, k).edges) = Len(w.edges) + 1
      BY <3>1, OnwardsFacts
    <3>3. \A i \in 1 .. Len(w.nodes) : Onwards(w, v, k).nodes[i] = w.nodes[i]
      BY <3>1, OnwardsFacts
    <3>4. \A i \in 1 .. Len(w.edges) : Onwards(w, v, k).edges[i] = w.edges[i]
      BY <3>1, OnwardsFacts
    <3>5. Onwards(w, v, k).nodes[Len(w.nodes) + 1] = v /\ Onwards(w, v, k).edges[Len(w.edges) + 1] = k
      BY <3>1, OnwardsFacts
    <3> QED
      BY <3>1, <3>2, <3>3, <3>4, <3>5 DEF v, k
  <2> HIDE DEF x
  <2> QED
    BY <1>2, <2>1, <2>2
<1> HIDE DEF x
<1>4. ASSUME NEW i \in 1 .. n + 1
      PROVE  [nbr |-> x.nodes[i + 1], eid |-> x.edges[i]] \in EdgesOf(e, x.nodes[i])
  <2>1. CASE i = n + 1
    <3>1. x.nodes[i + 1] = a.nbr /\ x.edges[i] = a.eid /\ x.nodes[i] = Last(w.nodes)
      <4>1. i + 1 = n + 2 /\ i \in 1 .. n + 1
        BY <2>1
      <4> QED
        BY <1>2, <1>3, <2>1, <4>1
    <3> QED
      BY <1>1, <3>1
  <2>2. CASE i # n + 1
    <3>1. i \in 1 .. n /\ i + 1 \in 1 .. n + 1
      BY <2>2
    <3> QED
      BY <1>2, <1>3, <3>1
  <2> QED
    BY <2>1, <2>2
<1>5. x.nodes[1] = e.start
  BY <1>2, <1>3
<1> QED
  BY <1>3, <1>4, <1>5 DEF IsWalk, x

(* A walk of some hops is a shorter walk and an edge.                      *)
LEMMA WalkLess ==
  ASSUME NEW e, NEW n \in Nat, NEW w, IsWalk(e, w, n + 1)
  PROVE  \E x \in PathSet, a \in Adj :
            /\ IsWalk(e, x, n) /\ a \in EdgesOf(e, Last(x.nodes))
            /\ w = Onwards(x, a.nbr, a.eid) /\ a.nbr = Last(w.nodes)
<1> DEFINE p == w.nodes
           q == w.edges
           x == [nodes |-> SubSeq(p, 1, n + 1), edges |-> SubSeq(q, 1, n)]
           a == [nbr |-> p[n + 2], eid |-> q[n + 1]]
<1>1. /\ w \in PathSet /\ p \in Seq(Places) /\ q \in Seq(Nat) /\ w = [nodes |-> p, edges |-> q]
      /\ Len(p) = n + 2 /\ Len(q) = n + 1 /\ p[1] = e.start
      /\ \A i \in 1 .. n + 1 : [nbr |-> p[i + 1], eid |-> q[i]] \in EdgesOf(e, p[i])
  BY DEF IsWalk, PathSet
<1> HIDE DEF p, q
<1>2. /\ SubSeq(p, 1, n + 1) \in Seq(Places) /\ Len(SubSeq(p, 1, n + 1)) = n + 1
      /\ \A i \in 1 .. n + 1 : SubSeq(p, 1, n + 1)[i] = p[i]
  <2>1. \A i \in 1 .. n + 1 : p[i] \in Places
    BY <1>1, ElementOfSeq
  <2> QED
    BY <1>1, <2>1, SubSeqProperties
<1>3. /\ SubSeq(q, 1, n) \in Seq(Nat) /\ Len(SubSeq(q, 1, n)) = n
      /\ \A i \in 1 .. n : SubSeq(q, 1, n)[i] = q[i]
  <2>1. \A i \in 1 .. n : q[i] \in Nat
    BY <1>1, ElementOfSeq
  <2> QED
    BY <1>1, <2>1, SubSeqProperties
<1>4. a \in Adj /\ a.nbr = p[n + 2] /\ a.eid = q[n + 1]
  <2>1. p[n + 2] \in Places /\ q[n + 1] \in Nat
    BY <1>1, ElementOfSeq
  <2> QED
    BY <2>1 DEF Adj
<1>5. x \in PathSet
  BY <1>2, <1>3 DEF PathSet
<1>6. IsWalk(e, x, n)
  <2>1. \A i \in 1 .. n : [nbr |-> x.nodes[i + 1], eid |-> x.edges[i]] \in EdgesOf(e, x.nodes[i])
    <3> SUFFICES ASSUME NEW i \in 1 .. n
                 PROVE  [nbr |-> x.nodes[i + 1], eid |-> x.edges[i]] \in EdgesOf(e, x.nodes[i])
      OBVIOUS
    <3>1. x.nodes[i + 1] = p[i + 1] /\ x.edges[i] = q[i] /\ x.nodes[i] = p[i]
      <4>1. i \in 1 .. n + 1 /\ i + 1 \in 1 .. n + 1
        OBVIOUS
      <4> QED
        BY <1>2, <1>3, <4>1
    <3> QED
      BY <1>1, <3>1
  <2>2. x.nodes[1] = e.start /\ Len(x.nodes) = n + 1 /\ Len(x.edges) = n
    BY <1>1, <1>2, <1>3
  <2> QED
    BY <1>5, <2>1, <2>2 DEF IsWalk
<1>7. Last(x.nodes) = p[n + 1] /\ a \in EdgesOf(e, Last(x.nodes))
  <2>1. Last(x.nodes) = p[n + 1]
    BY <1>2 DEF Last
  <2>2. (n + 1) + 1 = n + 2 /\ n + 1 \in 1 .. n + 1
    OBVIOUS
  <2>3. [nbr |-> p[(n + 1) + 1], eid |-> q[n + 1]] \in EdgesOf(e, p[n + 1])
    BY <1>1, <2>2
  <2> QED
    BY <2>1, <2>2, <2>3
<1>8. Append(SubSeq(p, 1, n + 1), p[n + 2]) = p
  <2> DEFINE s == SubSeq(p, 1, n + 1)
  <2>1. p[n + 2] \in Places
    BY <1>4 DEF Adj
  <2>2. s \in Seq(Places) /\ Len(s) = n + 1 /\ \A i \in 1 .. n + 1 : s[i] = p[i]
    BY <1>2
  <2> HIDE DEF s
  <2>3. /\ Append(s, p[n + 2]) \in Seq(Places) /\ Len(Append(s, p[n + 2])) = n + 2
        /\ \A i \in 1 .. n + 1 : Append(s, p[n + 2])[i] = p[i]
        /\ Append(s, p[n + 2])[n + 2] = p[n + 2]
    BY <2>1, <2>2
  <2>4. \A i \in 1 .. n + 2 : Append(s, p[n + 2])[i] = p[i]
    BY <2>3
  <2>5. Append(s, p[n + 2]) = p
    BY <1>1, <2>3, <2>4, SeqEqual
  <2> QED
    BY <2>5 DEF s
<1>9. Append(SubSeq(q, 1, n), q[n + 1]) = q
  <2> DEFINE s == SubSeq(q, 1, n)
  <2>1. q[n + 1] \in Nat
    BY <1>1, ElementOfSeq
  <2>2. s \in Seq(Nat) /\ Len(s) = n /\ \A i \in 1 .. n : s[i] = q[i]
    BY <1>3
  <2> HIDE DEF s
  <2>3. /\ Append(s, q[n + 1]) \in Seq(Nat) /\ Len(Append(s, q[n + 1])) = n + 1
        /\ \A i \in 1 .. n : Append(s, q[n + 1])[i] = q[i]
        /\ Append(s, q[n + 1])[n + 1] = q[n + 1]
    BY <2>1, <2>2
  <2>4. \A i \in 1 .. n + 1 : Append(s, q[n + 1])[i] = q[i]
    BY <2>3
  <2>5. Append(s, q[n + 1]) = q
    BY <1>1, <2>3, <2>4, SeqEqual
  <2> QED
    BY <2>5 DEF s
<1>10. w = Onwards(x, a.nbr, a.eid)
  BY <1>1, <1>8, <1>9 DEF Onwards
<1>11. a.nbr = Last(w.nodes)
  BY <1>1 DEF Last, p
<1> HIDE DEF x, a
<1> QED
  BY <1>4, <1>5, <1>6, <1>7, <1>10, <1>11

(* The walks by length, as ShortestWalks chooses them                      *)
WalksStep(g, n) == IF n = 0 THEN {AtStart} ELSE UNION {WalkOn(walk) : walk \in g[n - 1]}
WalksByLength == CHOOSE g : g = [n \in 0 .. LongestHop |-> WalksStep(g, n)]
WalksOf(e, n) == {w \in PathSet : IsWalk(e, w, n)}

(* The reference chooses these walks: the two definitions are one formula. *)
LEMMA ShortestWalksIs ==
  ShortestWalks =
    LET walks == UNION {WalksByLength[n] : n \in errand.min .. LongestHop}
    IN  {w \in walks : \A x \in walks : Last(x.nodes) = Last(w.nodes) => Len(w.edges) <= Len(x.edges)}
  BY Zenon DEF ShortestWalks, WalksByLength, WalksStep

(* The end of a walk is a place. *)
LEMMA WalkEnd ==
  ASSUME NEW e, NEW n \in Nat, NEW w, IsWalk(e, w, n)
  PROVE  /\ w \in PathSet /\ Last(w.nodes) \in Places /\ Last(w.nodes) = w.nodes[n + 1]
         /\ Len(w.nodes) = n + 1 /\ Len(w.edges) = n
<1>1. w \in PathSet /\ Len(w.nodes) = n + 1 /\ Len(w.edges) = n
  BY DEF IsWalk
<1>2. w.nodes \in Seq(Places)
  BY <1>1 DEF PathSet
<1>3. Last(w.nodes) = w.nodes[n + 1]
  BY <1>1 DEF Last
<1>4. w.nodes[n + 1] \in Places
  BY <1>1, <1>2, ElementOfSeq
<1> QED
  BY <1>1, <1>3, <1>4

(* What the recursion of the reference makes of the walks of one length *)
LEMMA WalksStepIs ==
  ASSUME errand \in ErrandType, NEW n \in Nat
  PROVE  UNION {WalkOn(walk) : walk \in WalksOf(errand, n)} = WalksOf(errand, n + 1)
<1>1. ASSUME NEW x \in WalksOf(errand, n)
      PROVE  WalkOn(x) \subseteq WalksOf(errand, n + 1)
  <2>1. IsWalk(errand, x, n) /\ Last(x.nodes) \in Places
    BY WalkEnd DEF WalksOf
  <2>2. \A a \in EdgesAt(Last(x.nodes)) : a \in Adj /\ a \in EdgesOf(errand, Last(x.nodes))
    BY <2>1, EdgesAre
  <2>3. \A a \in EdgesAt(Last(x.nodes)) : IsWalk(errand, Onwards(x, a.nbr, a.eid), n + 1)
    BY <2>1, <2>2, WalkMore
  <2>4. \A a \in EdgesAt(Last(x.nodes)) : Onwards(x, a.nbr, a.eid) \in WalksOf(errand, n + 1)
    BY <2>3 DEF WalksOf, IsWalk
  <2> QED
    BY <2>4 DEF WalkOn
<1>2. ASSUME NEW w \in WalksOf(errand, n + 1)
      PROVE  \E x \in WalksOf(errand, n) : w \in WalkOn(x)
  <2>1. IsWalk(errand, w, n + 1)
    BY DEF WalksOf
  <2>2. PICK x \in PathSet, a \in Adj :
            /\ IsWalk(errand, x, n) /\ a \in EdgesOf(errand, Last(x.nodes))
            /\ w = Onwards(x, a.nbr, a.eid)
    BY <2>1, WalkLess
  <2>3. Last(x.nodes) \in Places
    BY <2>2, WalkEnd
  <2>4. a \in EdgesAt(Last(x.nodes))
    BY <2>2, <2>3, EdgesAre
  <2>5. w \in WalkOn(x)
    BY <2>2, <2>4 DEF WalkOn
  <2> QED
    BY <2>2, <2>5 DEF WalksOf
<1> QED
  BY <1>1, <1>2

(* The hops the reference goes *)
LEMMA LongestIs ==
  ASSUME errand \in ErrandType
  PROVE  LongestHop = LongestOf(errand) /\ LongestHop \in Nat /\ errand.min \in Nat
<1>1. errand.max \in Nat \cup {NoBound} /\ errand.min \in Nat
  BY DEF ErrandType
<1>2. Cardinality(Places) \in Nat
  BY PlacesAssumption, FS_CardinalityType
<1> QED
  BY <1>1, <1>2 DEF LongestHop, LongestOf

(* The recursion of the reference has one solution, its walks of length n. *)
LEMMA WalksByLengthAre ==
  ASSUME errand \in ErrandType
  PROVE  \A n \in 0 .. LongestHop : WalksByLength[n] = WalksOf(errand, n)
<1> DEFINE D == 0 .. LongestHop
           h == [n \in D |-> WalksOf(errand, n)]
           g == WalksByLength
<1>1. LongestHop \in Nat
  BY LongestIs
<1>2. ASSUME NEW n \in D PROVE h[n] = WalksStep(h, n)
  <2>1. CASE n = 0
    <3>1. errand.start \in Places
      BY DEF ErrandType
    <3>2. AtStart \in PathSet
      BY <3>1 DEF AtStart, PathSet
    <3>3. WalksOf(errand, 0) = {AtStart}
      BY <3>1, <3>2, WalkZero DEF WalksOf, AtStart
    <3> QED
      BY <2>1, <3>3 DEF WalksStep
  <2>2. CASE n # 0
    <3> DEFINE m == n - 1
    <3>1. m \in D /\ m \in Nat /\ n = m + 1 /\ n \in D
      BY <1>1, <2>2
    <3>2. h[n] = WalksOf(errand, n) /\ h[m] = WalksOf(errand, m)
      BY <3>1
    <3> HIDE DEF m, h, D
    <3>3. UNION {WalkOn(walk) : walk \in WalksOf(errand, m)} = WalksOf(errand, m + 1)
      BY <3>1, WalksStepIs
    <3>4. h[n] = UNION {WalkOn(walk) : walk \in h[m]}
      BY <3>1, <3>2, <3>3
    <3>5. h[n] = UNION {WalkOn(walk) : walk \in h[n - 1]}
      BY <3>4 DEF m
    <3> QED
      BY <2>2, <3>5 DEF WalksStep
  <2> QED
    BY <2>1, <2>2
<1>3. h = [n \in D |-> WalksStep(h, n)]
  <2>1. h = [n \in D |-> h[n]]
    OBVIOUS
  <2> HIDE DEF h, D
  <2> QED
    BY <1>2, <2>1
<1>4. g = [n \in D |-> WalksStep(g, n)]
  <2> HIDE DEF h
  <2> QED
    BY <1>3, Zenon DEF WalksByLength
<1> DEFINE Bad == {n \in D : g[n] # h[n]}
<1>5. Bad = {}
  <2> SUFFICES ASSUME Bad # {} PROVE FALSE
    OBVIOUS
  <2>1. Bad \in SUBSET Nat
    BY <1>1
  <2>2. PICK n \in Bad : \A m \in Bad : n <= m
    <3> HIDE DEF Bad
    <3> QED
      BY <2>1, LeastNumber
  <2>3. n \in D /\ g[n] # h[n]
    BY <2>2
  <2> HIDE DEF g, h
  <2>4. g[n] = WalksStep(g, n)
    <3> HIDE DEF D
    <3> QED
      BY <1>4, <2>3
  <2>5. CASE n = 0
    BY <1>2, <2>3, <2>4, <2>5 DEF WalksStep
  <2>6. CASE n # 0
    <3>1. n - 1 \in D /\ ~(n <= n - 1)
      BY <1>1, <2>3, <2>6
    <3>2. g[n - 1] = h[n - 1]
      BY <2>2, <3>1
    <3>3. WalksStep(g, n) = WalksStep(h, n)
      BY <3>2 DEF WalksStep
    <3> QED
      BY <1>2, <2>3, <2>4, <3>3
  <2> QED
    BY <2>5, <2>6
<1> QED
  BY <1>5

(* The walks of the reference, and the shortest of them to each end *)
LEMMA ShortestWalksAre ==
  ASSUME errand \in ErrandType, NEW w
  PROVE  w \in ShortestWalks <=>
           w \in PathSet /\ Last(w.nodes) \in Places /\ w \in ShortestTo(errand, Last(w.nodes))
<1> DEFINE D == errand.min .. LongestHop
           walks == UNION {WalksByLength[n] : n \in D}
<1>1. LongestHop = LongestOf(errand) /\ LongestHop \in Nat /\ errand.min \in Nat
  BY LongestIs
<1>2. \A n \in D : n \in Nat /\ n \in 0 .. LongestHop
  BY <1>1
<1>3. \A x : x \in walks <=> \E n \in D : IsWalk(errand, x, n)
  <2>1. \A n \in D : WalksByLength[n] = WalksOf(errand, n)
    BY <1>2, WalksByLengthAre
  <2>2. \A x : x \in walks <=> \E n \in D : x \in WalksByLength[n]
    <3> HIDE DEF D
    <3> QED
      OBVIOUS
  <2>3. \A x, n : x \in WalksOf(errand, n) <=> IsWalk(errand, x, n)
    BY Zenon DEF WalksOf, IsWalk
  <2> HIDE DEF D, walks
  <2> QED
    BY <2>1, <2>2, <2>3
<1>4. ShortestWalks = {x \in walks : \A y \in walks : Last(y.nodes) = Last(x.nodes) => Len(x.edges) <= Len(y.edges)}
  BY ShortestWalksIs
<1>5. \A x, n : n \in D /\ IsWalk(errand, x, n) => x \in PathSet /\ Last(x.nodes) \in Places /\ Len(x.edges) = n
  BY <1>2, WalkEnd
<1> HIDE DEF walks
<1>6. ASSUME w \in ShortestWalks
      PROVE  w \in PathSet /\ Last(w.nodes) \in Places /\ w \in ShortestTo(errand, Last(w.nodes))
  <2>1. PICK n \in D : IsWalk(errand, w, n)
    BY <1>3, <1>4, <1>6
  <2>2. w \in PathSet /\ Last(w.nodes) \in Places /\ Len(w.edges) = n
    BY <1>5, <2>1
  <2>3. ASSUME NEW m \in D, NEW x \in PathSet, IsWalk(errand, x, m), Last(x.nodes) = Last(w.nodes)
        PROVE  n <= m
    <3>1. x \in walks /\ Len(x.edges) = m
      BY <1>3, <1>5, <2>3
    <3> QED
      BY <1>4, <1>6, <2>2, <2>3, <3>1
  <2> QED
    BY <1>1, <2>1, <2>2, <2>3 DEF ShortestTo
<1>7. ASSUME w \in ShortestTo(errand, Last(w.nodes))
      PROVE  w \in ShortestWalks
  <2>1. PICK n \in D :
          /\ IsWalk(errand, w, n)
          /\ \A m \in D, x \in PathSet :
               IsWalk(errand, x, m) /\ Last(x.nodes) = Last(w.nodes) => n <= m
    BY <1>1, <1>7 DEF ShortestTo
  <2>2. w \in walks /\ Len(w.edges) = n
    BY <1>3, <1>5, <2>1
  <2>3. ASSUME NEW y \in walks, Last(y.nodes) = Last(w.nodes)
        PROVE  Len(w.edges) <= Len(y.edges)
    <3>1. PICK m \in D : IsWalk(errand, y, m)
      BY <1>3
    <3>2. y \in PathSet /\ Len(y.edges) = m
      BY <1>5, <3>1
    <3> QED
      BY <2>1, <2>2, <2>3, <3>1, <3>2
  <2> QED
    BY <1>4, <2>2, <2>3
<1> QED
  BY <1>6, <1>7

(* Induction, over a set of numbers *)
LEMMA EveryNumber ==
  ASSUME NEW B, 0 \in B, \A n \in Nat : n \in B => n + 1 \in B
  PROVE  \A n \in Nat : n \in B
<1> DEFINE Bad == {n \in Nat : n \notin B}
<1> SUFFICES ASSUME Bad # {} PROVE FALSE
  OBVIOUS
<1>1. PICK n \in Bad : \A m \in Bad : n <= m
  <2>1. Bad \in SUBSET Nat
    OBVIOUS
  <2> HIDE DEF Bad
  <2> QED
    BY <2>1, LeastNumber
<1>2. n \in Nat /\ n \notin B /\ n # 0
  BY <1>1
<1>3. n - 1 \in Nat /\ ~(n <= n - 1) /\ (n - 1) + 1 = n
  BY <1>2
<1>4. n - 1 \in B
  BY <1>1, <1>3
<1> QED
  BY <1>2, <1>3, <1>4

(* The parts of a joint sequence *)
LEMMA Joint ==
  ASSUME NEW S, NEW a \in Seq(S), NEW b \in Seq(S)
  PROVE  /\ a \o b \in Seq(S) /\ Len(a \o b) = Len(a) + Len(b) /\ Len(a) \in Nat /\ Len(b) \in Nat
         /\ \A j \in 1 .. Len(a) : (a \o b)[j] = a[j]
         /\ \A j \in 1 .. Len(b) : (a \o b)[Len(a) + j] = b[j]
<1>1. a \o b \in Seq(S) /\ Len(a \o b) = Len(a) + Len(b) /\ Len(a) \in Nat /\ Len(b) \in Nat
  OBVIOUS
<1>2. \A j \in 1 .. Len(a) + Len(b) : (a \o b)[j] = IF j <= Len(a) THEN a[j] ELSE b[j - Len(a)]
  OBVIOUS
<1>3. ASSUME NEW j \in 1 .. Len(b) PROVE (a \o b)[Len(a) + j] = b[j]
  <2>1. Len(a) + j \in 1 .. Len(a) + Len(b) /\ ~(Len(a) + j <= Len(a)) /\ (Len(a) + j) - Len(a) = j
    BY <1>1
  <2> QED
    BY <1>2, <2>1
<1> QED
  BY <1>1, <1>2, <1>3

(* The recursion of FlattenSeq *)
FlatStep(ss, f, i) == IF i = 1 THEN ss[i] ELSE f[i - 1] \o ss[i]
Flat(ss) == CHOOSE f : f = [i \in 1 .. Len(ss) |-> FlatStep(ss, f, i)]

(* FlattenSeq chooses this function: the two definitions are one formula.  *)
LEMMA FlattenIs ==
  ASSUME NEW ss
  PROVE  FlattenSeq(ss) = IF Len(ss) = 0 THEN ss ELSE Flat(ss)[Len(ss)]
  BY Zenon DEF FlattenSeq, Flat, FlatStep

(* The recursion has a solution, and it is one of sequences. *)
LEMMA FlatUnfolds ==
  ASSUME NEW S, NEW ss \in Seq(Seq(S)), Len(ss) # 0
  PROVE  /\ Flat(ss)[1] = ss[1]
         /\ \A i \in 1 .. Len(ss) : i # 1 => Flat(ss)[i] = Flat(ss)[i - 1] \o ss[i]
         /\ \A i \in 1 .. Len(ss) : Flat(ss)[i] \in Seq(S)
<1> DEFINE D == 1 .. Len(ss)
           T == Seq(S)
           rank == [i \in D |-> i]
           E == [x \in [D -> T] \X D |-> IF x[2] = 1 THEN ss[1] ELSE x[1][x[2] - 1] \o ss[x[2]]]
<1>1. Len(ss) \in Nat /\ \A i \in D : ss[i] \in T
  BY ElementOfSeq
<1>2. \A i \in D : i # 1 => i - 1 \in D
  BY <1>1
<1>3. \A x, y \in T : x \o y \in T
  OBVIOUS
<1>4. E \in [[D -> T] \X D -> T]
  <2> SUFFICES ASSUME NEW x \in [D -> T] \X D
               PROVE  (IF x[2] = 1 THEN ss[1] ELSE x[1][x[2] - 1] \o ss[x[2]]) \in T
    OBVIOUS
  <2>1. x[1] \in [D -> T] /\ x[2] \in D /\ 1 \in D
    BY <1>1
  <2> HIDE DEF D, T
  <2> QED
    BY <1>1, <1>2, <1>3, <2>1
<1>5. ASSUME NEW f \in [D -> T], NEW g \in [D -> T], NEW v \in D,
             \A u \in D : rank[u] < rank[v] => f[u] = g[u]
      PROVE  E[<<f, v>>] = E[<<g, v>>]
  <2>1. v # 1 => f[v - 1] = g[v - 1]
    <3> SUFFICES ASSUME v # 1 PROVE f[v - 1] = g[v - 1]
      OBVIOUS
    <3>1. v - 1 \in D /\ rank[v - 1] < rank[v]
      BY <1>1, <1>2
    <3> QED
      BY <1>5, <3>1
  <2>2. <<f, v>> \in [D -> T] \X D /\ <<g, v>> \in [D -> T] \X D
    BY <1>5
  <2> HIDE DEF D, T
  <2> QED
    BY <2>1, <2>2
<1>6. \E f \in [D -> T] : f = [v \in D |-> E[<<f, v>>]]
  <2>1. rank \in [D -> Nat] /\ \A v \in D : rank[v] <= Len(ss)
    OBVIOUS
  <2>2. <<>> \in T
    OBVIOUS
  <2>3. \A f, g \in [D -> T], v \in D :
           (\A u \in D : rank[u] < rank[v] => f[u] = g[u]) => E[<<f, v>>] = E[<<g, v>>]
    BY <1>5
  <2> HIDE DEF D, T, rank, E
  <2>4. Ranked(D, T, rank, Len(ss), E, <<>>)
    BY <1>1, <1>4, <2>1, <2>2, <2>3 DEF Ranked
  <2> QED
    BY <2>4, RankedRecursion
<1>7. \E f : f = [i \in D |-> FlatStep(ss, f, i)]
  <2>1. PICK f \in [D -> T] : f = [v \in D |-> E[<<f, v>>]]
    BY <1>6
  <2>2. ASSUME NEW v \in D PROVE E[<<f, v>>] = FlatStep(ss, f, v)
    <3>1. <<f, v>> \in [D -> T] \X D
      OBVIOUS
    <3> HIDE DEF D, T
    <3> QED
      BY <3>1 DEF FlatStep
  <2> HIDE DEF E, D, T
  <2> QED
    BY <2>1, <2>2
<1> DEFINE F == Flat(ss)
<1>8. F = [i \in D |-> FlatStep(ss, F, i)]
  BY <1>7, Zenon DEF Flat
<1> HIDE DEF F
<1>9. \A i \in D : F[i] = FlatStep(ss, F, i)
  <2> HIDE DEF D
  <2> QED
    BY <1>8
<1>10. /\ F[1] = ss[1]
       /\ \A i \in D : i # 1 => F[i] = F[i - 1] \o ss[i]
  <2>1. 1 \in D
    BY <1>1
  <2> HIDE DEF D
  <2> QED
    BY <1>9, <2>1 DEF FlatStep
<1>11. \A n \in Nat : n \in {m \in Nat : m \in D => F[m] \in T}
  <2> DEFINE B == {m \in Nat : m \in D => F[m] \in T}
  <2>1. 0 \in B
    OBVIOUS
  <2>2. ASSUME NEW n \in Nat, n \in B PROVE n + 1 \in B
    <3> SUFFICES ASSUME n + 1 \in D PROVE F[n + 1] \in T
      OBVIOUS
    <3>1. CASE n = 0
      BY <1>1, <1>10, <3>1
    <3>2. CASE n # 0
      <4>1. n \in D /\ (n + 1) - 1 = n /\ n + 1 # 1
        BY <3>2
      <4>2. F[n] \in T /\ ss[n + 1] \in T
        BY <1>1, <2>2, <4>1
      <4>3. F[n + 1] = F[n] \o ss[n + 1]
        BY <1>10, <4>1
      <4> QED
        BY <1>3, <4>2, <4>3
    <3> QED
      BY <3>1, <3>2
  <2>3. \A n \in Nat : n \in B
    <3> HIDE DEF B
    <3> QED
      BY <2>1, <2>2, EveryNumber
  <2> QED
    BY <2>3
<1>12. \A i \in D : F[i] \in T
  <2>1. \A i \in D : i \in Nat
    BY <1>1
  <2> HIDE DEF D, T
  <2> QED
    BY <1>11, <2>1
<1> QED
  BY <1>10, <1>12 DEF F

(* Where the elements of the parts are in the flattened sequence: part i   *)
(* begins after at[i - 1] elements.                                        *)
FlatAt(ss, flat, at) ==
  /\ at \in [0 .. Len(ss) -> Nat] /\ at[0] = 0
  /\ \A i \in 1 .. Len(ss) : at[i] = at[i - 1] + Len(ss[i])
  /\ \A i, j \in 0 .. Len(ss) : i <= j => at[i] <= at[j]
  /\ Len(flat) = at[Len(ss)]
  /\ \A i \in 1 .. Len(ss) : \A j \in 1 .. Len(ss[i]) :
       at[i - 1] + j \in 1 .. Len(flat) /\ flat[at[i - 1] + j] = ss[i][j]
  /\ \A k \in 1 .. Len(flat) : \E i \in 1 .. Len(ss) : \E j \in 1 .. Len(ss[i]) : k = at[i - 1] + j

(* FlattenSeq lays the sequences out one after the other.                  *)
LEMMA Flattened ==
  ASSUME NEW S, NEW ss \in Seq(Seq(S))
  PROVE  FlattenSeq(ss) \in Seq(S) /\ \E at : FlatAt(ss, FlattenSeq(ss), at)
<1> DEFINE n == Len(ss)
           T == Seq(S)
<1>1. n \in Nat /\ \A i \in 1 .. n : ss[i] \in T /\ Len(ss[i]) \in Nat
  <2>1. n \in Nat /\ \A i \in 1 .. n : ss[i] \in T
    BY ElementOfSeq
  <2> QED
    BY <2>1
<1>2. CASE n = 0
  <2>1. ss = <<>> /\ FlattenSeq(ss) = <<>> /\ Len(<<>>) = 0
    BY <1>2, FlattenIs
  <2>2. FlatAt(ss, FlattenSeq(ss), [i \in 0 .. 0 |-> 0])
    BY <2>1 DEF FlatAt
  <2> QED
    BY <2>1, <2>2
<1>3. CASE n # 0
  <2> DEFINE F == Flat(ss)
             at == [i \in 0 .. n |-> IF i = 0 THEN 0 ELSE Len(F[i])]
  <2>1. /\ F[1] = ss[1] /\ \A i \in 1 .. n : i # 1 => F[i] = F[i - 1] \o ss[i]
        /\ \A i \in 1 .. n : F[i] \in T
    BY <1>3, FlatUnfolds
  <2>2. FlattenSeq(ss) = F[n]
    BY <1>3, FlattenIs
  <2> HIDE DEF F
  <2>3. \A i \in 1 .. n : F[i] \in T /\ Len(F[i]) \in Nat /\ at[i] = Len(F[i])
    BY <1>1, <2>1
  <2>4. at \in [0 .. n -> Nat] /\ at[0] = 0
    BY <1>1, <2>3
  <2> HIDE DEF at
  <2>5. ASSUME NEW i \in 1 .. n
        PROVE  /\ i - 1 \in 0 .. n /\ at[i - 1] \in Nat
               /\ at[i] = at[i - 1] + Len(ss[i])
               /\ \A j \in 1 .. at[i - 1] : F[i][j] = F[i - 1][j]
               /\ \A j \in 1 .. Len(ss[i]) : F[i][at[i - 1] + j] = ss[i][j]
    <3>0. i - 1 \in 0 .. n
      BY <1>1
    <3>1. i - 1 \in 0 .. n /\ at[i - 1] \in Nat
      BY <2>4, <3>0
    <3>2. CASE i = 1
      <4>1. at[0] = 0 /\ at[1] = Len(ss[1]) /\ i - 1 = 0 /\ F[1] = ss[1] /\ Len(ss[1]) \in Nat
        BY <1>1, <2>1, <2>3, <2>4, <3>2
      <4> QED
        BY <3>1, <3>2, <4>1
    <3>3. CASE i # 1
      <4> DEFINE m == i - 1
      <4>1. m \in 1 .. n /\ i - 1 = m
        BY <1>1, <3>3
      <4> HIDE DEF m
      <4>2. F[i] = F[m] \o ss[i] /\ F[m] \in T /\ ss[i] \in T /\ at[m] = Len(F[m]) /\ at[i] = Len(F[i])
        BY <1>1, <2>1, <2>3, <3>3, <4>1
      <4>3. /\ Len(F[i]) = Len(F[m]) + Len(ss[i])
            /\ \A j \in 1 .. Len(F[m]) : F[i][j] = F[m][j]
            /\ \A j \in 1 .. Len(ss[i]) : F[i][Len(F[m]) + j] = ss[i][j]
        <5> DEFINE x == F[m]
                   y == ss[i]
        <5>1. x \in Seq(S) /\ y \in Seq(S) /\ F[i] = x \o y
          BY <4>2
        <5> HIDE DEF x, y
        <5>2. /\ Len(x \o y) = Len(x) + Len(y)
              /\ \A j \in 1 .. Len(x) : (x \o y)[j] = x[j]
              /\ \A j \in 1 .. Len(y) : (x \o y)[Len(x) + j] = y[j]
          BY <5>1, Joint
        <5> QED
          BY <5>1, <5>2 DEF x, y
      <4> QED
        BY <3>1, <4>1, <4>2, <4>3
    <3> QED
      BY <3>2, <3>3
  <2> DEFINE Held(m) ==
               /\ \A i \in 0 .. m : at[i] <= at[m]
               /\ \A i \in 1 .. m : \A j \in 1 .. Len(ss[i]) :
                    at[i - 1] + j \in 1 .. at[m] /\ F[m][at[i - 1] + j] = ss[i][j]
               /\ \A k \in 1 .. at[m] : \E i \in 1 .. m : \E j \in 1 .. Len(ss[i]) : k = at[i - 1] + j
             B == {m \in Nat : m <= n => Held(m)}
  <2>6. \A m \in Nat : m \in B
    <3>1. 0 \in B
      BY <2>4
    <3>2. ASSUME NEW m \in Nat, m \in B PROVE m + 1 \in B
      <4> SUFFICES ASSUME m + 1 <= n PROVE Held(m + 1)
        <5> HIDE DEF Held
        <5>1. m + 1 \in Nat
          OBVIOUS
        <5> QED
          BY <5>1
      <4>0. m + 1 \in 1 .. n /\ (m + 1) - 1 = m /\ m \in 0 .. n /\ m + 1 \in 0 .. n /\ m <= n
        BY <1>1
      <4>1. m + 1 \in 1 .. n /\ Held(m) /\ (m + 1) - 1 = m /\ m \in 0 .. n /\ m + 1 \in 0 .. n
        <5> HIDE DEF Held
        <5> QED
          BY <3>2, <4>0
      <4>2. /\ at[m] \in Nat /\ at[m + 1] = at[m] + Len(ss[m + 1]) /\ Len(ss[m + 1]) \in Nat
            /\ \A j \in 1 .. at[m] : F[m + 1][j] = F[m][j]
            /\ \A j \in 1 .. Len(ss[m + 1]) : F[m + 1][at[m] + j] = ss[m + 1][j]
        BY <1>1, <2>5, <4>1
      <4>3. at[m + 1] \in Nat /\ at[m] <= at[m + 1]
        BY <4>2
      <4>4. \A i \in 0 .. m + 1 : at[i] <= at[m + 1]
        <5> SUFFICES ASSUME NEW i \in 0 .. m + 1 PROVE at[i] <= at[m + 1]
          OBVIOUS
        <5>0. i \in 0 .. n
          BY <1>1, <4>0
        <5>1. at[i] \in Nat
          BY <2>4, <5>0
        <5>2. CASE i = m + 1
          BY <4>3, <5>1, <5>2
        <5>3. CASE i # m + 1
          <6>1. i \in 0 .. m
            BY <5>3
          <6>2. at[i] <= at[m]
            BY <4>1, <6>1
          <6> QED
            BY <4>2, <4>3, <5>1, <6>2
        <5> QED
          BY <5>2, <5>3
      <4>5. ASSUME NEW i \in 1 .. m + 1, NEW j \in 1 .. Len(ss[i])
            PROVE  at[i - 1] + j \in 1 .. at[m + 1] /\ F[m + 1][at[i - 1] + j] = ss[i][j]
        <5>1. CASE i = m + 1
          <6>1. j \in 1 .. Len(ss[m + 1]) /\ i - 1 = m
            BY <4>5, <5>1
          <6>2. at[m] + j \in 1 .. at[m + 1] /\ F[m + 1][at[m] + j] = ss[m + 1][j]
            BY <4>2, <6>1
          <6> QED
            BY <5>1, <6>1, <6>2
        <5>2. CASE i # m + 1
          <6>1. i \in 1 .. m
            BY <5>2
          <6>2. at[i - 1] + j \in 1 .. at[m] /\ F[m][at[i - 1] + j] = ss[i][j]
            BY <4>1, <4>5, <6>1
          <6> DEFINE k == at[i - 1] + j
          <6>a. k \in 1 .. at[m]
            BY <6>2
          <6> HIDE DEF k
          <6>b. k \in 1 .. at[m + 1]
            BY <4>2, <4>3, <6>a
          <6>3. k \in 1 .. at[m + 1] /\ F[m + 1][k] = F[m][k]
            BY <4>2, <6>a, <6>b
          <6> QED
            BY <6>2, <6>3 DEF k
        <5> QED
          BY <5>1, <5>2
      <4>6. ASSUME NEW k \in 1 .. at[m + 1]
            PROVE  \E i \in 1 .. m + 1 : \E j \in 1 .. Len(ss[i]) : k = at[i - 1] + j
        <5>1. CASE k <= at[m]
          <6>1. k \in 1 .. at[m]
            BY <4>2, <5>1
          <6>2. PICK i \in 1 .. m : \E j \in 1 .. Len(ss[i]) : k = at[i - 1] + j
            BY <4>1, <6>1
          <6>3. i \in 1 .. m + 1
            OBVIOUS
          <6> QED
            BY <6>2, <6>3
        <5>2. CASE ~(k <= at[m])
          <6>1. k - at[m] \in 1 .. Len(ss[m + 1]) /\ k = at[m] + (k - at[m])
            BY <4>2, <5>2
          <6>2. m + 1 \in 1 .. m + 1
            OBVIOUS
          <6> QED
            BY <4>1, <6>1, <6>2
        <5> QED
          BY <5>1, <5>2
      <4> QED
        BY <4>4, <4>5, <4>6
    <3> HIDE DEF B
    <3> QED
      BY <3>1, <3>2, EveryNumber
  <2>7. ASSUME NEW m \in 0 .. n PROVE Held(m)
    <3>1. m \in Nat /\ m <= n
      BY <1>1
    <3>2. m \in B
      BY <2>6, <3>1
    <3> HIDE DEF Held
    <3> QED
      BY <3>1, <3>2
  <2>8. n \in 0 .. n /\ n \in 1 .. n
    BY <1>1, <1>3
  <2>9. at[n] = Len(F[n]) /\ F[n] \in T
    BY <2>3, <2>8
  <2>10. \A i, j \in 0 .. n : i <= j => at[i] <= at[j]
    <3> SUFFICES ASSUME NEW i \in 0 .. n, NEW j \in 0 .. n, i <= j PROVE at[i] <= at[j]
      OBVIOUS
    <3>1. i \in 0 .. j
      BY <1>1
    <3> QED
      BY <2>7, <3>1
  <2>11. FlatAt(ss, FlattenSeq(ss), at)
    <3>1. Held(n)
      BY <2>7, <2>8
    <3>2. \A i \in 1 .. n : at[i] = at[i - 1] + Len(ss[i])
      BY <2>5
    <3> QED
      BY <2>2, <2>4, <2>9, <2>10, <3>1, <3>2 DEF FlatAt
  <2> QED
    BY <2>2, <2>9, <2>11
<1> QED
  BY <1>2, <1>3

(* A flattened sequence has the elements of its parts, and each once if no *)
(* two of them are equal.                                                  *)
LEMMA FlattenedRange ==
  ASSUME NEW S, NEW ss \in Seq(Seq(S))
  PROVE  /\ FlattenSeq(ss) \in Seq(S)
         /\ \A x : x \in Range(FlattenSeq(ss)) <=> \E i \in 1 .. Len(ss) : \E j \in 1 .. Len(ss[i]) : x = ss[i][j]
<1>1. PICK at : FlatAt(ss, FlattenSeq(ss), at)
  BY Flattened
<1> DEFINE flat == FlattenSeq(ss)
<1>2. flat \in Seq(S)
  BY Flattened
<1> HIDE DEF flat
<1>3. /\ \A i \in 1 .. Len(ss) : \A j \in 1 .. Len(ss[i]) :
           at[i - 1] + j \in 1 .. Len(flat) /\ flat[at[i - 1] + j] = ss[i][j]
      /\ \A k \in 1 .. Len(flat) : \E i \in 1 .. Len(ss) : \E j \in 1 .. Len(ss[i]) : k = at[i - 1] + j
  BY <1>1 DEF FlatAt, flat
<1>4. DOMAIN flat = 1 .. Len(flat)
  BY <1>2
<1>5. ASSUME NEW x \in Range(flat)
      PROVE  \E i \in 1 .. Len(ss) : \E j \in 1 .. Len(ss[i]) : x = ss[i][j]
  <2>1. PICK k \in 1 .. Len(flat) : flat[k] = x
    BY <1>4 DEF Range
  <2>2. PICK i \in 1 .. Len(ss) : \E j \in 1 .. Len(ss[i]) : k = at[i - 1] + j
    BY <1>3
  <2>4. PICK j \in 1 .. Len(ss[i]) : k = at[i - 1] + j
    BY <2>2
  <2>3. flat[at[i - 1] + j] = ss[i][j]
    BY <1>3
  <2> QED
    BY <2>1, <2>3, <2>4
<1>6. ASSUME NEW i \in 1 .. Len(ss), NEW j \in 1 .. Len(ss[i])
      PROVE  ss[i][j] \in Range(flat)
  <2>1. at[i - 1] + j \in 1 .. Len(flat) /\ flat[at[i - 1] + j] = ss[i][j]
    BY <1>3
  <2> DEFINE k == at[i - 1] + j
  <2> HIDE DEF k
  <2>2. k \in DOMAIN flat /\ flat[k] = ss[i][j]
    BY <1>4, <2>1 DEF k
  <2> QED
    BY <2>2 DEF Range
<1> QED
  BY <1>2, <1>5, <1>6 DEF flat

(* No element of a flattened sequence is there twice if no two elements of *)
(* its parts are equal.                                                    *)
LEMMA FlattenedOnce ==
  ASSUME NEW S, NEW ss \in Seq(Seq(S)),
         \A i, k \in 1 .. Len(ss) : \A j \in 1 .. Len(ss[i]), l \in 1 .. Len(ss[k]) :
             ss[i][j] = ss[k][l] => i = k /\ j = l
  PROVE  IsInjective(FlattenSeq(ss))
<1>1. PICK at : FlatAt(ss, FlattenSeq(ss), at)
  BY Flattened
<1> DEFINE flat == FlattenSeq(ss)
<1>2. flat \in Seq(S)
  BY Flattened
<1> HIDE DEF flat
<1>3. /\ \A i \in 1 .. Len(ss) : \A j \in 1 .. Len(ss[i]) :
           at[i - 1] + j \in 1 .. Len(flat) /\ flat[at[i - 1] + j] = ss[i][j]
      /\ \A k \in 1 .. Len(flat) : \E i \in 1 .. Len(ss) : \E j \in 1 .. Len(ss[i]) : k = at[i - 1] + j
  BY <1>1 DEF FlatAt, flat
<1>4. DOMAIN flat = 1 .. Len(flat)
  BY <1>2
<1>5. ASSUME NEW a \in 1 .. Len(flat), NEW b \in 1 .. Len(flat), flat[a] = flat[b]
      PROVE  a = b
  <2>6. PICK i \in 1 .. Len(ss) : \E j \in 1 .. Len(ss[i]) : a = at[i - 1] + j
    BY <1>3
  <2>1. PICK j \in 1 .. Len(ss[i]) : a = at[i - 1] + j
    BY <2>6
  <2>7. PICK k \in 1 .. Len(ss) : \E l \in 1 .. Len(ss[k]) : b = at[k - 1] + l
    BY <1>3
  <2>2. PICK l \in 1 .. Len(ss[k]) : b = at[k - 1] + l
    BY <2>7
  <2>3. flat[a] = ss[i][j] /\ flat[b] = ss[k][l]
    BY <1>3, <2>1, <2>2
  <2>4. ss[i][j] = ss[k][l]
    BY <1>5, <2>3
  <2>5. i = k /\ j = l
    BY <2>4
  <2> QED
    BY <2>1, <2>2, <2>5
<1> QED
  BY <1>4, <1>5 DEF IsInjective, flat

(* Two flattened sequences are as long if their parts are. *)
LEMMA FlattenedLength ==
  ASSUME NEW S, NEW T, NEW ss \in Seq(Seq(S)), NEW tt \in Seq(Seq(T)),
         Len(ss) = Len(tt), \A i \in 1 .. Len(ss) : Len(ss[i]) = Len(tt[i])
  PROVE  Len(FlattenSeq(ss)) = Len(FlattenSeq(tt))
<1>1. PICK at : FlatAt(ss, FlattenSeq(ss), at)
  BY Flattened
<1>2. PICK bt : FlatAt(tt, FlattenSeq(tt), bt)
  BY Flattened
<1> DEFINE n == Len(ss)
<1>3. n \in Nat /\ n = Len(tt)
  OBVIOUS
<1>4. /\ at[0] = 0 /\ \A i \in 1 .. n : at[i] = at[i - 1] + Len(ss[i])
      /\ Len(FlattenSeq(ss)) = at[n]
  BY <1>1 DEF FlatAt
<1>5. /\ bt[0] = 0 /\ \A i \in 1 .. n : bt[i] = bt[i - 1] + Len(ss[i])
      /\ Len(FlattenSeq(tt)) = bt[n]
  BY <1>2, <1>3 DEF FlatAt
<1> HIDE DEF n
<1> DEFINE B == {m \in Nat : m <= n => at[m] = bt[m]}
<1>6. \A m \in Nat : m \in B
  <2>1. 0 \in B
    BY <1>4, <1>5
  <2>2. ASSUME NEW m \in Nat, m \in B PROVE m + 1 \in B
    <3> SUFFICES ASSUME m + 1 <= n PROVE at[m + 1] = bt[m + 1]
      OBVIOUS
    <3>1. m + 1 \in 1 .. n /\ (m + 1) - 1 = m /\ at[m] = bt[m]
      BY <1>3, <2>2
    <3>2. at[m + 1] = at[m] + Len(ss[m + 1]) /\ bt[m + 1] = bt[m] + Len(ss[m + 1])
      BY <1>4, <1>5, <3>1
    <3> QED
      BY <3>1, <3>2
  <2> HIDE DEF B
  <2> QED
    BY <2>1, <2>2, EveryNumber
<1>7. at[n] = bt[n]
  BY <1>3, <1>6
<1> QED
  BY <1>4, <1>5, <1>7

(* A sequence without repetition is as long as the set of its elements.    *)
LEMMA OnceLength ==
  ASSUME NEW S, NEW q \in Seq(S), IsInjective(q)
  PROVE  IsFiniteSet(Range(q)) /\ Cardinality(Range(q)) = Len(q)
<1> DEFINE n == Len(q)
<1>1. /\ n \in Nat /\ DOMAIN q = 1 .. n /\ q \in [1 .. n -> S]
      /\ \A i, j \in 1 .. n : q[i] = q[j] => i = j
  BY DEF IsInjective
<1>2. IsFiniteSet(1 .. n) /\ Cardinality(1 .. n) = n
  BY <1>1, FS_Interval
<1>3. q \in Bijection(1 .. n, Range(q))
  <2>1. q \in [1 .. n -> Range(q)]
    BY <1>1 DEF Range
  <2>2. \A x \in Range(q) : \E i \in 1 .. n : q[i] = x
    BY <1>1 DEF Range
  <2> QED
    BY <1>1, <2>1, <2>2 DEF Bijection, Injection, Surjection, IsInjective
<1>4. ExistsBijection(1 .. n, Range(q))
  BY <1>3 DEF ExistsBijection
<1>5. IsFiniteSet(Range(q)) /\ Cardinality(Range(q)) = Cardinality(1 .. n)
  BY <1>2, <1>4, FS_Bijection
<1> QED
  BY <1>2, <1>5

(* The shortest ways to a node are the walks as long as its distance.      *)
WalksTo(t) == {w \in PathSet : IsWalk(errand, w, dist[t]) /\ Last(w.nodes) = t}

(* What the search has of a node that it knows *)
LEMMA KnownFacts ==
  ASSUME ErrandInv, NEW v \in Places, Known(v)
  PROVE  /\ dist[v] \in Nat /\ dist[v] <= dist[hand] + 1 /\ dist[hand] \in Nat
         /\ preds[v] \in Seq([from : Places, eid : Nat])
         /\ errand.start \in Places /\ Known(errand.start)
         /\ dist[errand.start] = 0 /\ preds[errand.start] = <<>>
         /\ v # errand.start => 1 \in DOMAIN preds[v] /\ dist[v] # 0
         /\ \A p \in Range(preds[v]) :
              /\ p \in [from : Places, eid : Nat] /\ Known(p.from)
              /\ dist[p.from] \in Nat /\ dist[v] = dist[p.from] + 1
              /\ [nbr |-> v, eid |-> p.eid] \in EdgesOf(errand, p.from)
              /\ [nbr |-> v, eid |-> p.eid] \in Adj
<1>1. /\ errand \in ErrandType /\ dist \in [Places -> Nat \cup {Unseen}] /\ hand \in Places
      /\ preds \in [Places -> Seq([from : Places, eid : Nat])] /\ errand.start \in Places
  BY DEF ErrandInv, ErrandTypeOK, ErrandType
<1>2. \A u \in Places : Known(u) => dist[u] \in Nat
  BY <1>1 DEF Known
<1>3. dist[errand.start] = 0 /\ preds[errand.start] = <<>> /\ Known(errand.start)
  BY DEF ErrandInv, PredecessorsAreTight, Known, Unseen
<1>4. Known(hand) /\ dist[v] <= dist[hand] + 1
  BY DEF ErrandInv, LevelByLevel
<1>5. preds[v] \in Seq([from : Places, eid : Nat])
  BY <1>1
<1>6. ASSUME NEW p \in Range(preds[v])
      PROVE  /\ p \in [from : Places, eid : Nat] /\ Known(p.from)
             /\ dist[p.from] \in Nat /\ dist[v] = dist[p.from] + 1
             /\ [nbr |-> v, eid |-> p.eid] \in EdgesOf(errand, p.from)
             /\ [nbr |-> v, eid |-> p.eid] \in Adj
  <2>1. p \in [from : Places, eid : Nat]
    BY <1>5, Elements
  <2>2. Known(p.from) /\ dist[v] = dist[p.from] + 1 /\ [nbr |-> v, eid |-> p.eid] \in Range(AdjsOf(p.from))
    BY DEF ErrandInv, PredecessorsAreTight
  <2>3. p.from \in Places
    BY <2>1
  <2> QED
    BY <1>1, <1>2, <2>1, <2>2, <2>3, EdgesAre
<1>7. ASSUME v # errand.start
      PROVE  1 \in DOMAIN preds[v] /\ dist[v] # 0
  <2>1. preds[v] # <<>>
    BY <1>7 DEF ErrandInv, PredecessorsAreTight
  <2>2. 1 \in DOMAIN preds[v]
    BY <1>5, <2>1
  <2>3. preds[v][1] \in Range(preds[v])
    BY <2>2 DEF Range
  <2> QED
    <3> DEFINE p == preds[v][1]
    <3>1. dist[p.from] \in Nat /\ dist[v] = dist[p.from] + 1
      BY <1>6, <2>3
    <3> HIDE DEF p
    <3>2. dist[v] # 0
      BY <3>1
    <3> QED
      BY <2>2, <3>2
<1> QED
  BY <1>2, <1>3, <1>4, <1>5, <1>6, <1>7, <1>1

(* A predecessor is one step from the shortest ways to it to a shortest way. *)
LEMMA WayOn ==
  ASSUME ErrandInv, NEW v \in Places, Known(v), NEW p \in Range(preds[v]), NEW w \in WalksTo(p.from)
  PROVE  Onwards(w, v, p.eid) \in WalksTo(v)
<1>1. /\ p \in [from : Places, eid : Nat] /\ Known(p.from)
      /\ dist[p.from] \in Nat /\ dist[v] = dist[p.from] + 1
      /\ [nbr |-> v, eid |-> p.eid] \in EdgesOf(errand, p.from)
      /\ [nbr |-> v, eid |-> p.eid] \in Adj
  BY KnownFacts
<1> DEFINE a == [nbr |-> v, eid |-> p.eid]
<1>2. a \in Adj /\ a.nbr = v /\ a.eid = p.eid
  BY <1>1
<1>3. w \in PathSet /\ IsWalk(errand, w, dist[p.from]) /\ Last(w.nodes) = p.from
  BY DEF WalksTo
<1>4. a \in EdgesOf(errand, Last(w.nodes))
  BY <1>1, <1>3
<1> HIDE DEF a
<1>5. IsWalk(errand, Onwards(w, a.nbr, a.eid), dist[p.from] + 1)
  BY <1>1, <1>2, <1>3, <1>4, WalkMore
<1>6. Onwards(w, v, p.eid) \in PathSet /\ Last(Onwards(w, v, p.eid).nodes) = v
  <2>1. p.eid \in Nat
    BY <1>1
  <2> QED
    BY <1>3, <2>1, OnwardsFacts
<1> QED
  BY <1>1, <1>2, <1>5, <1>6 DEF WalksTo

(* The way to the source of no hop *)
LEMMA WayZero ==
  ASSUME ErrandInv
  PROVE  /\ AtStart \in PathSet /\ WalksTo(errand.start) = {AtStart}
         /\ \A w : IsWalk(errand, w, 0) <=> w = AtStart
         /\ Last(AtStart.nodes) = errand.start
<1>1. errand.start \in Places /\ dist[errand.start] = 0
  BY DEF ErrandInv, ErrandTypeOK, ErrandType, PredecessorsAreTight
<1>2. AtStart \in PathSet /\ Last(AtStart.nodes) = errand.start
  BY <1>1 DEF AtStart, PathSet, Last
<1>3. \A w : IsWalk(errand, w, 0) <=> w = AtStart
  BY <1>1, WalkZero DEF AtStart
<1> QED
  BY <1>1, <1>2, <1>3 DEF WalksTo

(* FirstChain, as the function it chooses *)
ChainStep(f, v) ==
  IF v = errand.start THEN AtStart
  ELSE Onwards(f[preds[v][1].from], v, preds[v][1].eid)
ChainTo == CHOOSE f : f = [v \in Range(sighted) |-> ChainStep(f, v)]

(* The two definitions are one formula.                                    *)
LEMMA FirstChainIs ==
  ASSUME NEW t
  PROVE  FirstChain(t) = ChainTo[t]
  BY Zenon DEF FirstChain, ChainTo, ChainStep

(* Read back from the first predecessors, a node has one of its shortest   *)
(* ways.                                                                   *)
LEMMA FirstChainWalks ==
  ASSUME ErrandInv, ListInv, NEW t \in Places, Known(t)
  PROVE  FirstChain(t) \in WalksTo(t)
<1> DEFINE D == Range(sighted)
           T == PathSet
           rank == [v \in D |-> dist[v]]
           E == [x \in [D -> T] \X D |-> ChainStep(x[1], x[2])]
<1>1. \A v : v \in D <=> v \in Places /\ Known(v)
  BY DEF ListInv, SightedInv
<1>2. ASSUME NEW v \in D, v # errand.start
      PROVE  /\ preds[v][1] \in Range(preds[v]) /\ preds[v][1].from \in D /\ preds[v][1].eid \in Nat
             /\ dist[v] = dist[preds[v][1].from] + 1
  <2>1. 1 \in DOMAIN preds[v]
    BY <1>1, <1>2, KnownFacts
  <2>2. preds[v][1] \in Range(preds[v])
    BY <2>1 DEF Range
  <2>3. /\ preds[v][1] \in [from : Places, eid : Nat] /\ Known(preds[v][1].from)
        /\ dist[v] = dist[preds[v][1].from] + 1
    BY <1>1, <2>2, KnownFacts
  <2> QED
    BY <1>1, <2>2, <2>3
<1>3. \A v \in D : v \in Places /\ dist[v] \in Nat /\ dist[v] <= dist[hand] + 1 /\ dist[hand] \in Nat
  BY <1>1, KnownFacts
<1>4. AtStart \in T
  BY WayZero
<1> HIDE DEF D
<1>5. E \in [[D -> T] \X D -> T]
  <2> SUFFICES ASSUME NEW f \in [D -> T], NEW v \in D
               PROVE  ChainStep(f, v) \in T
    OBVIOUS
  <2>1. CASE v = errand.start
    BY <1>4, <2>1 DEF ChainStep
  <2>2. CASE v # errand.start
    <3>1. preds[v][1].from \in D /\ preds[v][1].eid \in Nat /\ v \in Places
      BY <1>2, <1>3, <2>2
    <3>2. f[preds[v][1].from] \in T
      BY <3>1
    <3>3. Onwards(f[preds[v][1].from], v, preds[v][1].eid) \in T
      BY <3>1, <3>2, OnwardsFacts
    <3> QED
      BY <2>2, <3>3 DEF ChainStep
  <2> QED
    BY <2>1, <2>2
<1>6. \A f, g \in [D -> T], v \in D :
        (\A u \in D : rank[u] < rank[v] => f[u] = g[u]) => E[<<f, v>>] = E[<<g, v>>]
  <2> SUFFICES ASSUME NEW f \in [D -> T], NEW g \in [D -> T], NEW v \in D,
                      \A u \in D : rank[u] < rank[v] => f[u] = g[u]
               PROVE  ChainStep(f, v) = ChainStep(g, v)
    OBVIOUS
  <2>1. v # errand.start => f[preds[v][1].from] = g[preds[v][1].from]
    <3> SUFFICES ASSUME v # errand.start PROVE f[preds[v][1].from] = g[preds[v][1].from]
      OBVIOUS
    <3>1. preds[v][1].from \in D /\ rank[preds[v][1].from] < rank[v]
      <4>1. preds[v][1].from \in D /\ dist[v] = dist[preds[v][1].from] + 1
        BY <1>2
      <4> QED
        BY <1>3, <4>1
    <3> QED
      BY <3>1
  <2> QED
    BY <2>1 DEF ChainStep
<1>7. \E f \in [D -> T] : f = [v \in D |-> E[<<f, v>>]]
  <2>1. CASE D = {}
    <3>1. [v \in D |-> AtStart] \in [D -> T]
      BY <1>4
    <3> QED
      BY <2>1, <3>1
  <2>2. CASE D # {}
    <3>1. rank \in [D -> Nat] /\ dist[hand] + 1 \in Nat /\ \A v \in D : rank[v] <= dist[hand] + 1
      BY <1>3, <2>2
    <3> HIDE DEF T, rank, E
    <3>2. Ranked(D, T, rank, dist[hand] + 1, E, AtStart)
      BY <1>4, <1>5, <1>6, <3>1 DEF Ranked
    <3> QED
      BY <3>2, RankedRecursion
  <2> QED
    BY <2>1, <2>2
<1>8. \E f : f = [v \in D |-> ChainStep(f, v)]
  <2>1. PICK f \in [D -> T] : f = [v \in D |-> E[<<f, v>>]]
    BY <1>7
  <2>2. \A v \in D : E[<<f, v>>] = ChainStep(f, v)
    OBVIOUS
  <2> HIDE DEF E
  <2> QED
    BY <2>1, <2>2
<1>9. ChainTo = [v \in D |-> ChainStep(ChainTo, v)]
  BY <1>8, Zenon DEF ChainTo, D
<1>10. \A v \in D : ChainTo[v] = ChainStep(ChainTo, v)
  BY <1>9
<1> DEFINE B == {n \in Nat : \A v \in D : dist[v] = n => ChainTo[v] \in WalksTo(v)}
<1>11. 0 \in B
  <2> SUFFICES ASSUME NEW v \in D, dist[v] = 0 PROVE ChainTo[v] \in WalksTo(v)
    OBVIOUS
  <2>1. v = errand.start
    BY <1>1, KnownFacts DEF D
  <2>2. ChainTo[v] = AtStart
    BY <1>10, <2>1 DEF ChainStep
  <2> QED
    BY <2>1, <2>2, WayZero
<1>12. ASSUME NEW n \in Nat, n \in B PROVE n + 1 \in B
  <2> SUFFICES ASSUME NEW v \in D, dist[v] = n + 1 PROVE ChainTo[v] \in WalksTo(v)
    OBVIOUS
  <2>1. v # errand.start
    BY <1>1, KnownFacts
  <2> DEFINE p == preds[v][1]
  <2>2. p \in Range(preds[v]) /\ p.from \in D /\ dist[v] = dist[p.from] + 1
    BY <1>2, <2>1
  <2>3. ChainTo[v] = Onwards(ChainTo[p.from], v, p.eid)
    BY <1>10, <2>1 DEF ChainStep
  <2> HIDE DEF p
  <2>4. dist[p.from] = n
    BY <1>3, <2>2
  <2>5. ChainTo[p.from] \in WalksTo(p.from)
    BY <1>12, <2>2, <2>4
  <2> QED
    BY <1>1, <2>2, <2>3, <2>5, WayOn
<1>13. \A n \in Nat : n \in B
  <2> HIDE DEF B
  <2> QED
    BY <1>11, <1>12, EveryNumber
<1>14. t \in D /\ dist[t] \in Nat
  BY <1>1, <1>3
<1>15. ChainTo[t] \in WalksTo(t)
  BY <1>13, <1>14
<1> QED
  BY <1>15, FirstChainIs

Over == fan = <<>> /\ queue = <<>>
(* no deeper than the search went *)
Near(v) == Known(v) /\ (stopAt # NoBound => dist[v] <= stopAt)

(* When the search is over nothing is overlooked. *)
LEMMA OverFacts ==
  ASSUME ErrandInv, Over, NEW v \in Places, Known(v), ~AtCap(v), ~Settled(v),
         NEW a \in EdgesOf(errand, v)
  PROVE  /\ a \in Adj /\ a.nbr \in Places /\ a.eid \in Nat
         /\ Known(a.nbr) /\ dist[a.nbr] <= dist[v] + 1
         /\ dist[a.nbr] = dist[v] + 1 => Way(v, a) \in Range(preds[a.nbr])
<1>1. errand \in ErrandType
  BY DEF ErrandInv, ErrandTypeOK
<1>2. a \in Range(AdjsOf(v)) /\ a \in Adj
  BY <1>1, EdgesAre
<1>3. Range(queue) = {} /\ Range(fan) = {}
  BY DEF Over, Range
<1>4. /\ Known(a.nbr) /\ dist[a.nbr] <= dist[v] + 1
      /\ dist[a.nbr] = dist[v] + 1 => Way(v, a) \in Range(preds[a.nbr])
  BY <1>2, <1>3 DEF ErrandInv, NothingIsOverlooked
<1> QED
  BY <1>2, <1>4 DEF Adj

(* When the search is over it knows the end of every walk of no more hops  *)
(* than it went, at no greater distance.                                   *)
LEMMA WalksAreKnown ==
  ASSUME ErrandInv, Over,
         NEW n \in Nat, errand.max # NoBound => n <= errand.max, stopAt # NoBound => n <= stopAt,
         NEW w, IsWalk(errand, w, n)
  PROVE  Known(Last(w.nodes)) /\ dist[Last(w.nodes)] \in Nat /\ dist[Last(w.nodes)] <= n
<1> DEFINE Within(m) == (errand.max # NoBound => m <= errand.max) /\ (stopAt # NoBound => m <= stopAt)
           B == {m \in Nat : Within(m) =>
                   \A x \in PathSet : IsWalk(errand, x, m) =>
                     Known(Last(x.nodes)) /\ dist[Last(x.nodes)] \in Nat /\ dist[Last(x.nodes)] <= m}
<1>0. /\ errand.max # NoBound => errand.max \in Nat
      /\ stopAt # NoBound => stopAt \in Nat
      /\ errand \in ErrandType /\ errand.start \in Places
  BY DEF ErrandInv, ErrandTypeOK, ErrandType
<1>1. 0 \in B
  <2> SUFFICES ASSUME NEW x \in PathSet, IsWalk(errand, x, 0)
               PROVE  Known(Last(x.nodes)) /\ dist[Last(x.nodes)] \in Nat /\ dist[Last(x.nodes)] <= 0
    OBVIOUS
  <2>1. Last(x.nodes) = errand.start
    BY WayZero
  <2>2. dist[errand.start] = 0 /\ Known(errand.start)
    BY DEF ErrandInv, PredecessorsAreTight, Known, Unseen
  <2> QED
    BY <2>1, <2>2
<1>2. ASSUME NEW m \in Nat, m \in B PROVE m + 1 \in B
  <2> SUFFICES ASSUME Within(m + 1), NEW x \in PathSet, IsWalk(errand, x, m + 1)
               PROVE  Known(Last(x.nodes)) /\ dist[Last(x.nodes)] \in Nat /\ dist[Last(x.nodes)] <= m + 1
    <3> HIDE DEF Within
    <3> QED
      OBVIOUS
  <2>1. Within(m)
    BY <1>0
  <2>2. PICK y \in PathSet, a \in Adj :
            /\ IsWalk(errand, y, m) /\ a \in EdgesOf(errand, Last(y.nodes)) /\ a.nbr = Last(x.nodes)
    BY WalkLess
  <2> DEFINE u == Last(y.nodes)
  <2>3. u \in Places
    BY <2>2, WalkEnd
  <2>4. Known(u) /\ dist[u] \in Nat /\ dist[u] <= m
    BY <1>2, <2>1, <2>2
  <2> HIDE DEF u
  <2>5. ~AtCap(u) /\ ~Settled(u)
    <3>1. errand.max # NoBound => ~(dist[u] >= errand.max)
      BY <1>0, <2>4
    <3>2. stopAt # NoBound => ~(dist[u] >= stopAt)
      BY <1>0, <2>4
    <3> QED
      BY <3>1, <3>2 DEF AtCap, Settled
  <2>6. a \in EdgesOf(errand, u)
    BY <2>2 DEF u
  <2>7. Known(a.nbr) /\ dist[a.nbr] <= dist[u] + 1 /\ a.nbr \in Places
    BY <2>3, <2>4, <2>5, <2>6, OverFacts
  <2>8. dist[a.nbr] \in Nat
    BY <2>7, KnownFacts
  <2>9. dist[a.nbr] <= m + 1
    BY <2>4, <2>7, <2>8
  <2> QED
    BY <2>2, <2>7, <2>8, <2>9
<1>3. n \in B
  <2> HIDE DEF B
  <2> QED
    BY <1>1, <1>2, EveryNumber
<1>4. w \in PathSet
  BY DEF IsWalk
<1> QED
  BY <1>3, <1>4

(* A shortest way to a node, but for the source, is one to a predecessor   *)
(* and the step from there.                                                *)
LEMMA WayBack ==
  ASSUME ErrandInv, ListInv, Over, NEW v \in Places, Near(v), v # errand.start, NEW w \in WalksTo(v)
  PROVE  \E p \in Range(preds[v]) : Near(p.from) /\ \E x \in WalksTo(p.from) : w = Onwards(x, v, p.eid)
<1>1. Known(v) /\ dist[v] \in Nat /\ dist[v] # 0
  BY KnownFacts DEF Near
<1>2. /\ errand.max # NoBound => errand.max \in Nat /\ dist[v] <= errand.max
      /\ stopAt # NoBound => stopAt \in Nat /\ dist[v] <= stopAt
  <2>1. errand.max # NoBound => errand.max \in Nat
    BY DEF ErrandInv, ErrandTypeOK, ErrandType
  <2>2. stopAt # NoBound => stopAt \in Nat
    BY DEF ErrandInv, ErrandTypeOK
  <2>3. errand.max # NoBound => dist[v] <= errand.max
    BY DEF ListInv, CapInv
  <2> QED
    BY <2>1, <2>2, <2>3 DEF Near
<1> DEFINE n == dist[v] - 1
<1>3. n \in Nat /\ dist[v] = n + 1
  BY <1>1
<1> HIDE DEF n
<1>4. IsWalk(errand, w, n + 1) /\ Last(w.nodes) = v
  BY <1>3 DEF WalksTo
<1>5. PICK x \in PathSet, a \in Adj :
          /\ IsWalk(errand, x, n) /\ a \in EdgesOf(errand, Last(x.nodes))
          /\ w = Onwards(x, a.nbr, a.eid) /\ a.nbr = v
  BY <1>3, <1>4, WalkLess
<1> DEFINE u == Last(x.nodes)
<1>6. u \in Places
  BY <1>3, <1>5, WalkEnd
<1>7. /\ errand.max # NoBound => n <= errand.max /\ ~(n >= errand.max)
      /\ stopAt # NoBound => n <= stopAt /\ ~(n >= stopAt)
  BY <1>2, <1>3
<1>8. Known(u) /\ dist[u] \in Nat /\ dist[u] <= n
  BY <1>3, <1>5, <1>7, WalksAreKnown
<1>9. ~AtCap(u) /\ ~Settled(u)
  <2> HIDE DEF u
  <2>1. errand.max # NoBound => ~(dist[u] >= errand.max)
    BY <1>2, <1>3, <1>7, <1>8
  <2>2. stopAt # NoBound => ~(dist[u] >= stopAt)
    BY <1>2, <1>3, <1>7, <1>8
  <2> QED
    BY <2>1, <2>2 DEF AtCap, Settled
<1>10. dist[v] <= dist[u] + 1 /\ (dist[v] = dist[u] + 1 => Way(u, a) \in Range(preds[v]))
  BY <1>5, <1>6, <1>8, <1>9, OverFacts
<1>11. dist[u] = n
  <2> HIDE DEF u
  <2> QED
    BY <1>3, <1>8, <1>10
<1>12. Way(u, a) \in Range(preds[v])
  BY <1>3, <1>10, <1>11
<1>13. Near(u) /\ x \in WalksTo(u)
  <2>1. stopAt # NoBound => dist[u] <= stopAt
    BY <1>7, <1>11
  <2> QED
    BY <1>5, <1>8, <1>11, <2>1 DEF Near, WalksTo
<1> QED
  BY <1>5, <1>12, <1>13 DEF Way

-----------------------------------------------------------------------------
(* AllChains, as the function it chooses *)

Extended(before, v, eid) == [j \in DOMAIN before |-> Onwards(before[j], v, eid)]
PartsOf(f, v) == [i \in DOMAIN preds[v] |-> Extended(f[preds[v][i].from], v, preds[v][i].eid)]
AllStep(f, v) == IF v = errand.start THEN <<AtStart>> ELSE FlattenSeq(PartsOf(f, v))
AllTo == CHOOSE f : f = [v \in Range(sighted) |-> AllStep(f, v)]

(* The two definitions are one formula.                                    *)
LEMMA AllChainsIs ==
  ASSUME NEW t
  PROVE  AllChains(t) = AllTo[t]
  BY Zenon DEF AllChains, AllTo, AllStep, PartsOf, Extended

(* Every path, one node on *)
LEMMA ExtendedFacts ==
  ASSUME NEW before \in Seq(PathSet), NEW v \in Places, NEW k \in Nat
  PROVE  /\ Extended(before, v, k) \in Seq(PathSet) /\ Len(before) \in Nat
         /\ Len(Extended(before, v, k)) = Len(before)
         /\ \A j \in 1 .. Len(before) :
              before[j] \in PathSet /\ Extended(before, v, k)[j] = Onwards(before[j], v, k)
<1>1. DOMAIN before = 1 .. Len(before) /\ Len(before) \in Nat /\ \A j \in 1 .. Len(before) : before[j] \in PathSet
  BY ElementOfSeq
<1>2. Extended(before, v, k) = [j \in 1 .. Len(before) |-> Onwards(before[j], v, k)]
  BY <1>1 DEF Extended
<1>3. \A j \in 1 .. Len(before) : Onwards(before[j], v, k) \in PathSet
  BY <1>1, OnwardsFacts
<1> DEFINE s == [j \in 1 .. Len(before) |-> Onwards(before[j], v, k)]
<1>4. s \in Seq(PathSet) /\ Len(s) = Len(before)
  BY <1>1, <1>3
<1> QED
  BY <1>1, <1>2, <1>4

(* The parts of all paths to a node *)
LEMMA PartsFacts ==
  ASSUME ErrandInv, NEW v \in Places, Known(v),
         NEW f, \A p \in Range(preds[v]) : f[p.from] \in Seq(PathSet)
  PROVE  /\ PartsOf(f, v) \in Seq(Seq(PathSet)) /\ Len(PartsOf(f, v)) = Len(preds[v])
         /\ DOMAIN preds[v] = 1 .. Len(preds[v]) /\ Len(preds[v]) \in Nat
         /\ \A i \in 1 .. Len(preds[v]) :
              /\ preds[v][i] \in Range(preds[v])
              /\ f[preds[v][i].from] \in Seq(PathSet)
              /\ PartsOf(f, v)[i] = Extended(f[preds[v][i].from], v, preds[v][i].eid)
              /\ Len(PartsOf(f, v)[i]) = Len(f[preds[v][i].from])
              /\ \A j \in 1 .. Len(f[preds[v][i].from]) :
                   /\ f[preds[v][i].from][j] \in PathSet
                   /\ PartsOf(f, v)[i][j] = Onwards(f[preds[v][i].from][j], v, preds[v][i].eid)
<1>1. DOMAIN preds[v] = 1 .. Len(preds[v]) /\ Len(preds[v]) \in Nat
  BY KnownFacts
<1> DEFINE N == Len(preds[v])
           s == [i \in 1 .. N |-> Extended(f[preds[v][i].from], v, preds[v][i].eid)]
<1>2. PartsOf(f, v) = s
  BY <1>1 DEF PartsOf
<1>3. ASSUME NEW i \in 1 .. N
      PROVE  preds[v][i] \in Range(preds[v]) /\ preds[v][i].eid \in Nat /\ f[preds[v][i].from] \in Seq(PathSet)
  <2>1. preds[v][i] \in Range(preds[v])
    BY <1>1 DEF Range
  <2>2. preds[v][i] \in [from : Places, eid : Nat]
    BY <2>1, KnownFacts
  <2> QED
    BY <2>1, <2>2
<1>4. \A i \in 1 .. N : s[i] = Extended(f[preds[v][i].from], v, preds[v][i].eid)
  OBVIOUS
<1>5. ASSUME NEW i \in 1 .. N
      PROVE  /\ s[i] \in Seq(PathSet) /\ Len(s[i]) = Len(f[preds[v][i].from])
             /\ \A j \in 1 .. Len(f[preds[v][i].from]) :
                   /\ f[preds[v][i].from][j] \in PathSet
                   /\ s[i][j] = Onwards(f[preds[v][i].from][j], v, preds[v][i].eid)
  <2> DEFINE b == f[preds[v][i].from]
             k == preds[v][i].eid
  <2>1. b \in Seq(PathSet) /\ k \in Nat /\ s[i] = Extended(b, v, k)
    BY <1>3, <1>4
  <2> HIDE DEF b, k, s
  <2>2. /\ s[i] \in Seq(PathSet) /\ Len(s[i]) = Len(b)
        /\ \A j \in 1 .. Len(b) : b[j] \in PathSet /\ s[i][j] = Onwards(b[j], v, k)
    BY <2>1, ExtendedFacts
  <2> QED
    BY <2>2 DEF b, k
<1>6. s \in Seq(Seq(PathSet)) /\ Len(s) = N
  <2>1. \A i \in 1 .. N : Extended(f[preds[v][i].from], v, preds[v][i].eid) \in Seq(PathSet)
    BY <1>4, <1>5
  <2> DEFINE T == Seq(PathSet)
  <2>2. s \in [1 .. N -> T]
    BY <2>1
  <2> HIDE DEF T, s, N
  <2>3. N \in Nat
    BY <1>1 DEF N
  <2>4. s \in Seq(T) /\ Len(s) = N
    BY <2>2, <2>3
  <2> QED
    BY <2>4 DEF T
<1> HIDE DEF s
<1> QED
  BY <1>1, <1>2, <1>3, <1>4, <1>5, <1>6

(* The recursion of AllChains has a solution: a node is farther than its   *)
(* predecessors.                                                           *)
LEMMA AllToUnfolds ==
  ASSUME ErrandInv, ListInv
  PROVE  \A v \in Places : Known(v) => AllTo[v] = AllStep(AllTo, v)
<1> DEFINE D == Range(sighted)
           T == Seq(PathSet)
           rank == [v \in D |-> dist[v]]
           E == [x \in [D -> T] \X D |-> AllStep(x[1], x[2])]
<1>1. \A v : v \in D <=> v \in Places /\ Known(v)
  BY DEF ListInv, SightedInv
<1>2. \A v \in D : \A p \in Range(preds[v]) : p.from \in D /\ dist[v] = dist[p.from] + 1
  <2> SUFFICES ASSUME NEW v \in D, NEW p \in Range(preds[v])
               PROVE  p.from \in D /\ dist[v] = dist[p.from] + 1
    OBVIOUS
  <2>1. p \in [from : Places, eid : Nat] /\ Known(p.from) /\ dist[v] = dist[p.from] + 1
    BY <1>1, KnownFacts
  <2> QED
    BY <1>1, <2>1
<1>3. \A v \in D : v \in Places /\ dist[v] \in Nat /\ dist[v] <= dist[hand] + 1 /\ dist[hand] \in Nat
  BY <1>1, KnownFacts
<1>4. <<>> \in T /\ <<AtStart>> \in T
  BY WayZero
<1> HIDE DEF D
<1>5. ASSUME NEW f \in [D -> T], NEW v \in D
      PROVE  AllStep(f, v) \in T
  <2>1. CASE v = errand.start
    BY <1>4, <2>1 DEF AllStep
  <2>2. CASE v # errand.start
    <3>1. \A p \in Range(preds[v]) : f[p.from] \in Seq(PathSet)
      BY <1>2
    <3>2. PartsOf(f, v) \in Seq(Seq(PathSet))
      BY <1>1, <3>1, PartsFacts
    <3>3. FlattenSeq(PartsOf(f, v)) \in T
      BY <3>2, Flattened
    <3> QED
      BY <2>2, <3>3 DEF AllStep
  <2> QED
    BY <2>1, <2>2
<1>6. E \in [[D -> T] \X D -> T]
  <2> HIDE DEF T
  <2> QED
    BY <1>5
<1>7. ASSUME NEW f, NEW g, NEW v \in D,
             \A u \in D : rank[u] < rank[v] => f[u] = g[u]
      PROVE  AllStep(f, v) = AllStep(g, v)
  <2>1. \A p \in Range(preds[v]) : f[p.from] = g[p.from]
    <3> SUFFICES ASSUME NEW p \in Range(preds[v]) PROVE f[p.from] = g[p.from]
      OBVIOUS
    <3>1. p.from \in D /\ dist[v] = dist[p.from] + 1
      BY <1>2
    <3>2. rank[p.from] < rank[v]
      BY <1>3, <3>1
    <3> QED
      BY <1>7, <3>1, <3>2
  <2>2. \A i \in DOMAIN preds[v] : f[preds[v][i].from] = g[preds[v][i].from]
    BY <2>1 DEF Range
  <2>3. PartsOf(f, v) = PartsOf(g, v)
    BY <2>2 DEF PartsOf
  <2> QED
    BY <2>3 DEF AllStep
<1>8. \A f, g \in [D -> T], v \in D :
        (\A u \in D : rank[u] < rank[v] => f[u] = g[u]) => E[<<f, v>>] = E[<<g, v>>]
  <2> SUFFICES ASSUME NEW f \in [D -> T], NEW g \in [D -> T], NEW v \in D,
                      \A u \in D : rank[u] < rank[v] => f[u] = g[u]
               PROVE  E[<<f, v>>] = E[<<g, v>>]
    OBVIOUS
  <2>1. AllStep(f, v) = AllStep(g, v)
    BY <1>7
  <2> HIDE DEF T
  <2>2. E[<<f, v>>] = AllStep(f, v) /\ E[<<g, v>>] = AllStep(g, v)
    OBVIOUS
  <2> QED
    BY <2>1, <2>2
<1>9. \E f \in [D -> T] : f = [v \in D |-> E[<<f, v>>]]
  <2>1. CASE D = {}
    <3>1. [v \in D |-> <<>>] \in [D -> T]
      BY <1>4
    <3> QED
      BY <2>1, <3>1
  <2>2. CASE D # {}
    <3>1. rank \in [D -> Nat] /\ dist[hand] + 1 \in Nat /\ \A v \in D : rank[v] <= dist[hand] + 1
      BY <1>3, <2>2
    <3>2. <<>> \in T
      BY <1>4
    <3> HIDE DEF T, rank, E
    <3>3. Ranked(D, T, rank, dist[hand] + 1, E, <<>>)
      BY <1>6, <1>8, <3>1, <3>2 DEF Ranked
    <3> QED
      BY <3>3, RankedRecursion
  <2> QED
    BY <2>1, <2>2
<1>10. \E f : f = [v \in D |-> AllStep(f, v)]
  <2>1. PICK f \in [D -> T] : f = [v \in D |-> E[<<f, v>>]]
    BY <1>9
  <2>2. \A v \in D : E[<<f, v>>] = AllStep(f, v)
    <3> HIDE DEF T
    <3> QED
      OBVIOUS
  <2> HIDE DEF E
  <2> QED
    BY <2>1, <2>2
<1>11. AllTo = [v \in D |-> AllStep(AllTo, v)]
  BY <1>10, Zenon DEF AllTo, D
<1> QED
  BY <1>1, <1>11

(* Some of the shortest ways to a node, each once; all of them as deep as  *)
(* the search went                                                         *)
WaysOnce(paths, v) ==
  /\ paths \in Seq(PathSet) /\ IsInjective(paths)
  /\ Range(paths) \subseteq WalksTo(v)
  /\ Near(v) => Range(paths) = WalksTo(v)

(* If the chains of the predecessors are such, those of the node are.      *)
LEMMA AllStepOnce ==
  ASSUME ErrandInv, ListInv, Over, NEW v \in Places, Known(v), v # errand.start,
         NEW f, \A p \in Range(preds[v]) : WaysOnce(f[p.from], p.from)
  PROVE  WaysOnce(FlattenSeq(PartsOf(f, v)), v)
<1> DEFINE N == Len(preds[v])
           ss == PartsOf(f, v)
           p(i) == preds[v][i]
           b(i) == f[preds[v][i].from]
<1>1. \A q \in Range(preds[v]) : f[q.from] \in Seq(PathSet)
  BY DEF WaysOnce
<1>2. /\ ss \in Seq(Seq(PathSet)) /\ Len(ss) = N /\ DOMAIN preds[v] = 1 .. N /\ N \in Nat
      /\ \A i \in 1 .. N :
           /\ p(i) \in Range(preds[v]) /\ b(i) \in Seq(PathSet) /\ Len(ss[i]) = Len(b(i))
           /\ \A j \in 1 .. Len(b(i)) : b(i)[j] \in PathSet /\ ss[i][j] = Onwards(b(i)[j], v, p(i).eid)
  <2>1. /\ PartsOf(f, v) \in Seq(Seq(PathSet)) /\ Len(PartsOf(f, v)) = Len(preds[v])
        /\ DOMAIN preds[v] = 1 .. Len(preds[v]) /\ Len(preds[v]) \in Nat
        /\ \A i \in 1 .. Len(preds[v]) :
             /\ preds[v][i] \in Range(preds[v])
             /\ f[preds[v][i].from] \in Seq(PathSet)
             /\ PartsOf(f, v)[i] = Extended(f[preds[v][i].from], v, preds[v][i].eid)
             /\ Len(PartsOf(f, v)[i]) = Len(f[preds[v][i].from])
             /\ \A j \in 1 .. Len(f[preds[v][i].from]) :
                   /\ f[preds[v][i].from][j] \in PathSet
                   /\ PartsOf(f, v)[i][j] = Onwards(f[preds[v][i].from][j], v, preds[v][i].eid)
    BY <1>1, PartsFacts, ZenonT(60)
  <2> QED
    BY <2>1
<1>3. \A i \in 1 .. N : p(i).from \in Places /\ p(i).eid \in Nat /\ p(i) \in [from : Places, eid : Nat]
  <2> SUFFICES ASSUME NEW i \in 1 .. N
               PROVE  p(i).from \in Places /\ p(i).eid \in Nat /\ p(i) \in [from : Places, eid : Nat]
    OBVIOUS
  <2>1. p(i) \in [from : Places, eid : Nat]
    BY <1>2, KnownFacts
  <2> QED
    BY <2>1
<1>4. \A i \in 1 .. N : WaysOnce(b(i), p(i).from) /\ DOMAIN b(i) = 1 .. Len(b(i))
  BY <1>2
<1> HIDE DEF N, ss, p, b
<1>5. \A i \in 1 .. N : \A j \in 1 .. Len(b(i)) : b(i)[j] \in WalksTo(p(i).from)
  BY <1>4 DEF WaysOnce, Range
<1>6. /\ FlattenSeq(ss) \in Seq(PathSet)
      /\ \A x : x \in Range(FlattenSeq(ss)) <=> \E i \in 1 .. Len(ss) : \E j \in 1 .. Len(ss[i]) : x = ss[i][j]
  <2>1. ss \in Seq(Seq(PathSet))
    BY <1>2
  <2> QED
    BY <2>1, FlattenedRange
<1>7. IsInjective(FlattenSeq(ss))
  <2>1. ASSUME NEW i \in 1 .. N, NEW k \in 1 .. N, NEW j \in 1 .. Len(b(i)), NEW l \in 1 .. Len(b(k)),
               ss[i][j] = ss[k][l]
        PROVE  i = k /\ j = l
    <3>1. /\ ss[i][j] = Onwards(b(i)[j], v, p(i).eid) /\ ss[k][l] = Onwards(b(k)[l], v, p(k).eid)
          /\ b(i)[j] \in PathSet /\ b(k)[l] \in PathSet
      BY <1>2
    <3>2. b(i)[j] = b(k)[l] /\ p(i).eid = p(k).eid
      <4> DEFINE x == b(i)[j]
                 y == b(k)[l]
                 m == p(i).eid
                 o == p(k).eid
      <4>1. x \in PathSet /\ y \in PathSet /\ m \in Nat /\ o \in Nat /\ Onwards(x, v, m) = Onwards(y, v, o)
        BY <1>3, <2>1, <3>1
      <4> HIDE DEF x, y, m, o
      <4>2. x = y /\ m = o
        BY <4>1, OnwardsOnce
      <4> QED
        BY <4>2 DEF x, y, m, o
    <3>3. p(i).from = p(k).from
      <4>1. b(i)[j] \in WalksTo(p(i).from) /\ b(k)[l] \in WalksTo(p(k).from)
        BY <1>5
      <4> QED
        BY <3>2, <4>1 DEF WalksTo
    <3>4. p(i) = p(k)
      BY <1>3, <3>2, <3>3
    <3>5. i = k
      <4>1. IsInjective(preds[v])
        BY DEF ListInv, PredsInv
      <4> QED
        BY <1>2, <3>4, <4>1 DEF IsInjective, p
    <3>6. j = l
      <4>1. IsInjective(b(i)) /\ DOMAIN b(i) = 1 .. Len(b(i))
        BY <1>4 DEF WaysOnce
      <4> QED
        BY <2>1, <3>2, <3>5, <4>1 DEF IsInjective
    <3> QED
      BY <3>5, <3>6
  <2>2. \A i, k \in 1 .. Len(ss) : \A j \in 1 .. Len(ss[i]), l \in 1 .. Len(ss[k]) :
             ss[i][j] = ss[k][l] => i = k /\ j = l
    BY <1>2, <2>1
  <2> QED
    BY <1>2, <2>2, FlattenedOnce
<1>8. ASSUME NEW x \in Range(FlattenSeq(ss))
      PROVE  x \in WalksTo(v)
  <2>0. PICK i \in 1 .. Len(ss) : \E j \in 1 .. Len(ss[i]) : x = ss[i][j]
    BY <1>6
  <2>1. i \in 1 .. N /\ \E j \in 1 .. Len(b(i)) : x = ss[i][j]
    BY <1>2, <2>0
  <2>2. PICK j \in 1 .. Len(b(i)) : x = ss[i][j]
    BY <2>1
  <2>3. x = Onwards(b(i)[j], v, p(i).eid) /\ b(i)[j] \in WalksTo(p(i).from) /\ p(i) \in Range(preds[v])
    BY <1>2, <1>5, <2>2
  <2> QED
    BY <2>3, WayOn
<1>9. ASSUME Near(v), NEW w \in WalksTo(v)
      PROVE  w \in Range(FlattenSeq(ss))
  <2>1. PICK q \in Range(preds[v]) : Near(q.from) /\ \E x \in WalksTo(q.from) : w = Onwards(x, v, q.eid)
    BY <1>9, WayBack
  <2>2. PICK x \in WalksTo(q.from) : w = Onwards(x, v, q.eid)
    BY <2>1
  <2>3. PICK i \in 1 .. N : q = p(i)
    BY <1>2 DEF Range, p
  <2>4. x \in Range(b(i))
    BY <1>4, <2>1, <2>2, <2>3 DEF WaysOnce
  <2>5. PICK j \in 1 .. Len(b(i)) : x = b(i)[j]
    BY <1>4, <2>4 DEF Range
  <2>6. w = ss[i][j] /\ j \in 1 .. Len(ss[i]) /\ i \in 1 .. Len(ss)
    BY <1>2, <2>2, <2>3, <2>5
  <2> QED
    BY <1>6, <2>6
<1> QED
  BY <1>6, <1>7, <1>8, <1>9 DEF WaysOnce, ss

(* Read back from all predecessors, a node has all its shortest ways, each *)
(* once.                                                                   *)
LEMMA AllChainsOnce ==
  ASSUME ErrandInv, ListInv, Over, NEW t \in Places, Known(t)
  PROVE  WaysOnce(AllChains(t), t)
<1> DEFINE B == {n \in Nat : \A v \in Places : Known(v) /\ dist[v] = n => WaysOnce(AllTo[v], v)}
<1>1. WaysOnce(<<AtStart>>, errand.start)
  <2>1. AtStart \in PathSet /\ WalksTo(errand.start) = {AtStart}
    BY WayZero
  <2>2. <<AtStart>> \in Seq(PathSet) /\ Range(<<AtStart>>) = {AtStart} /\ IsInjective(<<AtStart>>)
    BY <2>1 DEF Range, IsInjective
  <2> QED
    BY <2>1, <2>2 DEF WaysOnce
<1>2. ASSUME NEW n \in Nat, \A v \in Places : Known(v) /\ dist[v] + 1 = n => WaysOnce(AllTo[v], v)
      PROVE  n \in B
  <2> SUFFICES ASSUME NEW v \in Places, Known(v), dist[v] = n PROVE WaysOnce(AllTo[v], v)
    OBVIOUS
  <2>1. AllTo[v] = AllStep(AllTo, v)
    BY AllToUnfolds
  <2>2. CASE v = errand.start
    BY <1>1, <2>1, <2>2 DEF AllStep
  <2>3. CASE v # errand.start
    <3>1. ASSUME NEW p \in Range(preds[v]) PROVE WaysOnce(AllTo[p.from], p.from)
      <4>1. p \in [from : Places, eid : Nat] /\ Known(p.from) /\ dist[v] = dist[p.from] + 1
        BY KnownFacts
      <4>2. p.from \in Places
        BY <4>1
      <4> QED
        BY <1>2, <4>1, <4>2
    <3>2. WaysOnce(FlattenSeq(PartsOf(AllTo, v)), v)
      BY <2>3, <3>1, AllStepOnce
    <3> QED
      BY <2>1, <2>3, <3>2 DEF AllStep
  <2> QED
    BY <2>2, <2>3
<1>3. 0 \in B
  <2>1. \A v \in Places : Known(v) => dist[v] \in Nat
    BY KnownFacts
  <2>2. \A v \in Places : ~(Known(v) /\ dist[v] + 1 = 0)
    <3> SUFFICES ASSUME NEW v \in Places, Known(v), dist[v] + 1 = 0 PROVE FALSE
      OBVIOUS
    <3> QED
      BY <2>1
  <2> HIDE DEF B
  <2> QED
    BY <1>2, <2>2
<1>4. ASSUME NEW n \in Nat, n \in B PROVE n + 1 \in B
  <2>1. \A v \in Places : Known(v) => dist[v] \in Nat
    BY KnownFacts
  <2>2. \A v \in Places : Known(v) /\ dist[v] + 1 = n + 1 => WaysOnce(AllTo[v], v)
    <3> SUFFICES ASSUME NEW v \in Places, Known(v), dist[v] + 1 = n + 1 PROVE WaysOnce(AllTo[v], v)
      OBVIOUS
    <3>1. dist[v] = n
      BY <2>1
    <3> QED
      BY <1>4, <3>1
  <2> HIDE DEF B
  <2> QED
    BY <1>2, <2>2
<1>5. \A n \in Nat : n \in B
  <2> HIDE DEF B
  <2> QED
    BY <1>3, <1>4, EveryNumber
<1>6. dist[t] \in Nat
  BY KnownFacts
<1> QED
  BY <1>5, <1>6, AllChainsIs

(* The sum of PathCount, as the function that FoldLeft chooses             *)
SumStep(f, q, g, s) == IF s = {} THEN 0 ELSE g[s \ {Max(s)}] + f[q[Max(s)].from]
SumTo(f, q) == CHOOSE g : g = [s \in SUBSET DOMAIN q |-> SumStep(f, q, g, s)]
SumOver(f, q) == FoldLeft(LAMBDA sum, p : sum + f[p.from], 0, q)

(* The two definitions are one formula.                                    *)
LEMMA SumIs ==
  ASSUME NEW f, NEW q
  PROVE  SumOver(f, q) = SumTo(f, q)[DOMAIN q]
  BY Zenon DEF SumOver, SumTo, SumStep, FoldLeft, MapThenFoldSet

(* The last of a set of places in a sequence *)
LEMMA LastOf ==
  ASSUME NEW n \in Nat, NEW s \in SUBSET (1 .. n), s # {}
  PROVE  /\ Max(s) \in s /\ \A y \in s : Max(s) >= y
         /\ s \ {Max(s)} \in SUBSET (1 .. n)
         /\ Cardinality(s) \in Nat /\ Cardinality(s \ {Max(s)}) \in Nat
         /\ Cardinality(s \ {Max(s)}) < Cardinality(s)
<1>1. \E x \in s : \A y \in s : x >= y
  <2> DEFINE T == {n - y : y \in s}
  <2>1. T \in SUBSET Nat /\ T # {}
    <3>1. \A y \in s : n - y \in Nat
      OBVIOUS
    <3> QED
      BY <3>1
  <2>2. PICK k \in T : \A l \in T : k <= l
    <3> HIDE DEF T
    <3> QED
      BY <2>1, LeastNumber
  <2>3. PICK x \in s : k = n - x
    BY <2>2
  <2>4. \A y \in s : n - x <= n - y
    BY <2>2, <2>3
  <2> HIDE DEF T
  <2>5. \A y \in s : y \in 1 .. n
    OBVIOUS
  <2>7. \A y \in s : y \in Int
    BY <2>5
  <2>6. \A y \in s : x >= y
    BY <2>3, <2>4, <2>7
  <2> QED
    BY <2>6
<1>2. Max(s) \in s /\ \A y \in s : Max(s) >= y
  BY <1>1, Zenon DEF Max
<1>3. IsFiniteSet(s)
  <2>1. IsFiniteSet(1 .. n)
    BY FS_Interval
  <2> QED
    BY <2>1, FS_Subset
<1>4. IsFiniteSet(s \ {Max(s)}) /\ Cardinality(s \ {Max(s)}) = Cardinality(s) - 1
  BY <1>2, <1>3, FS_RemoveElement
<1>5. Cardinality(s) \in Nat /\ Cardinality(s \ {Max(s)}) \in Nat
  BY <1>3, <1>4, FS_CardinalityType
<1>6. s \ {Max(s)} \in SUBSET (1 .. n)
  OBVIOUS
<1> DEFINE c == Cardinality(s)
           d == Cardinality(s \ {Max(s)})
<1>7. c \in Nat /\ d = c - 1
  BY <1>4, <1>5
<1> HIDE DEF c, d
<1>8. d < c
  BY <1>7
<1> QED
  BY <1>2, <1>5, <1>6, <1>8 DEF c, d

(* The sum over a sequence is what its partial sums come to.               *)
Adds(f, q, n, at) ==
  /\ n \in Nat /\ DOMAIN q = 1 .. n /\ \A i \in 1 .. n : f[q[i].from] \in Nat
  /\ at[0] = 0 /\ \A i \in 1 .. n : at[i] = at[i - 1] + f[q[i].from]

(* The sum over a sequence is what its partial sums come to.               *)
LEMMA SumOverIs ==
  ASSUME NEW f, NEW q, NEW n, NEW at, Adds(f, q, n, at)
  PROVE  SumOver(f, q) = at[n]
<1>0. /\ n \in Nat /\ DOMAIN q = 1 .. n /\ \A i \in 1 .. n : f[q[i].from] \in Nat
      /\ at[0] = 0 /\ \A i \in 1 .. n : at[i] = at[i - 1] + f[q[i].from]
  BY DEF Adds
<1> USE <1>0
<1> DEFINE D == SUBSET (1 .. n)
           T == Nat
           rank == [s \in D |-> Cardinality(s)]
           E == [x \in [D -> T] \X D |-> SumStep(f, q, x[1], x[2])]
           G == SumTo(f, q)
<1>1. ASSUME NEW s \in D, s # {}
      PROVE  /\ Max(s) \in 1 .. n /\ s \ {Max(s)} \in D /\ rank[s \ {Max(s)}] < rank[s]
  BY <1>1, LastOf
<1>2. \A s \in D : Cardinality(s) \in Nat /\ Cardinality(s) <= n
  <2>1. IsFiniteSet(1 .. n) /\ Cardinality(1 .. n) = n
    BY FS_Interval
  <2> QED
    BY <2>1, FS_Subset, FS_CardinalityType
<1>3. rank \in [D -> Nat] /\ \A s \in D : rank[s] <= n
  BY <1>2
<1>4. ASSUME NEW g \in [D -> T], NEW s \in D
      PROVE  SumStep(f, q, g, s) \in T
  <2>1. CASE s = {}
    BY <2>1 DEF SumStep
  <2>2. CASE s # {}
    <3>1. g[s \ {Max(s)}] \in Nat /\ f[q[Max(s)].from] \in Nat
      BY <1>1, <2>2
    <3> QED
      BY <2>2, <3>1 DEF SumStep
  <2> QED
    BY <2>1, <2>2
<1>5. ASSUME NEW g, NEW h, NEW s \in D, \A u \in D : rank[u] < rank[s] => g[u] = h[u]
      PROVE  SumStep(f, q, g, s) = SumStep(f, q, h, s)
  <2>1. s # {} => g[s \ {Max(s)}] = h[s \ {Max(s)}]
    BY <1>1, <1>5
  <2> QED
    BY <2>1 DEF SumStep
<1> HIDE DEF D, rank
<1>6. E \in [[D -> T] \X D -> T]
  <2> HIDE DEF T
  <2> QED
    BY <1>4
<1>7. \A g, h \in [D -> T], s \in D :
        (\A u \in D : rank[u] < rank[s] => g[u] = h[u]) => E[<<g, s>>] = E[<<h, s>>]
  <2> SUFFICES ASSUME NEW g \in [D -> T], NEW h \in [D -> T], NEW s \in D,
                      \A u \in D : rank[u] < rank[s] => g[u] = h[u]
               PROVE  E[<<g, s>>] = E[<<h, s>>]
    OBVIOUS
  <2>1. SumStep(f, q, g, s) = SumStep(f, q, h, s)
    BY <1>5
  <2> HIDE DEF T
  <2>2. E[<<g, s>>] = SumStep(f, q, g, s) /\ E[<<h, s>>] = SumStep(f, q, h, s)
    OBVIOUS
  <2> QED
    BY <2>1, <2>2
<1>8. \E g \in [D -> T] : g = [s \in D |-> E[<<g, s>>]]
  <2>1. 0 \in T
    OBVIOUS
  <2> HIDE DEF T, E
  <2>2. Ranked(D, T, rank, n, E, 0)
    BY <1>3, <1>6, <1>7, <2>1 DEF Ranked
  <2> QED
    BY <2>2, RankedRecursion
<1>9. \E g : g = [s \in D |-> SumStep(f, q, g, s)]
  <2>1. PICK g \in [D -> T] : g = [s \in D |-> E[<<g, s>>]]
    BY <1>8
  <2>2. \A s \in D : E[<<g, s>>] = SumStep(f, q, g, s)
    <3> HIDE DEF T
    <3> QED
      OBVIOUS
  <2> HIDE DEF E
  <2> QED
    BY <2>1, <2>2
<1>10. G = [s \in D |-> SumStep(f, q, G, s)]
  <2>1. D = SUBSET DOMAIN q
    BY DEF D
  <2> QED
    BY <1>9, <2>1, Zenon DEF SumTo
<1> HIDE DEF G
<1>11. \A s \in D : G[s] = SumStep(f, q, G, s)
  BY <1>10
<1> DEFINE B == {m \in Nat : m <= n => G[1 .. m] = at[m]}
<1>12. 0 \in B
  <2>1. 1 .. 0 = {} /\ {} \in D
    BY DEF D
  <2>2. G[{}] = 0
    BY <1>11, <2>1 DEF SumStep
  <2> QED
    BY <2>1, <2>2
<1>13. ASSUME NEW m \in Nat, m \in B PROVE m + 1 \in B
  <2> SUFFICES ASSUME m + 1 <= n PROVE G[1 .. m + 1] = at[m + 1]
    OBVIOUS
  <2> DEFINE s == 1 .. m + 1
  <2>0. m + 1 \in 1 .. m + 1 /\ m + 1 \in 1 .. n /\ \A i \in 1 .. m + 1 : i \in 1 .. n
    OBVIOUS
  <2>1. s \in D /\ s # {} /\ s \in SUBSET (1 .. n) /\ m + 1 \in s /\ m + 1 \in 1 .. n
    <3>1. s \in SUBSET (1 .. n) /\ m + 1 \in s
      BY <2>0
    <3> HIDE DEF s
    <3> QED
      BY <2>0, <3>1 DEF D
  <2>2. Max(s) \in s /\ Max(s) >= m + 1
    <3> HIDE DEF s
    <3> QED
      BY <2>1, LastOf
  <2>3. Max(s) = m + 1
    BY <2>2
  <2>4. s \ {m + 1} = 1 .. m
    OBVIOUS
  <2> HIDE DEF s
  <2>5. G[s] = G[1 .. m] + f[q[m + 1].from]
    BY <1>11, <2>1, <2>3, <2>4 DEF SumStep
  <2>6. G[1 .. m] = at[m]
    BY <1>13
  <2>7. at[m + 1] = at[m] + f[q[m + 1].from]
    <3>1. (m + 1) - 1 = m
      OBVIOUS
    <3> QED
      BY <2>1, <3>1
  <2> QED
    BY <2>5, <2>6, <2>7 DEF s
<1>14. n \in B
  <2> HIDE DEF B
  <2> QED
    BY <1>12, <1>13, EveryNumber
<1>15. SumOver(f, q) = G[1 .. n]
  BY SumIs DEF G
<1> QED
  BY <1>14, <1>15

(* PathCount, as the function it chooses *)
CountStep(f, v) == IF v = errand.start THEN 1 ELSE SumOver(f, preds[v])
CountTo == CHOOSE f : f = [v \in Range(sighted) |-> CountStep(f, v)]

(* The two definitions are one formula.                                    *)
LEMMA PathCountIs ==
  ASSUME NEW t
  PROVE  PathCount(t) = CountTo[t]
  BY Zenon DEF PathCount, CountTo, CountStep, SumOver

(* The count of a node is the number of its chains if that of its          *)
(* predecessors is.                                                        *)
LEMMA CountStepIs ==
  ASSUME ErrandInv, ListInv, Over, NEW v \in Places, Known(v),
         NEW f, \A p \in Range(preds[v]) : f[p.from] = Len(AllTo[p.from])
  PROVE  CountStep(f, v) = Len(AllTo[v])
<1>1. AllTo[v] = AllStep(AllTo, v)
  BY AllToUnfolds
<1>2. CASE v = errand.start
  BY <1>1, <1>2 DEF AllStep, CountStep
<1>3. CASE v # errand.start
  <2> DEFINE q == preds[v]
             n == Len(q)
             ss == PartsOf(AllTo, v)
  <2>1. \A p \in Range(preds[v]) : AllTo[p.from] \in Seq(PathSet)
    <3> SUFFICES ASSUME NEW p \in Range(preds[v]) PROVE AllTo[p.from] \in Seq(PathSet)
      OBVIOUS
    <3>1. p \in [from : Places, eid : Nat] /\ Known(p.from)
      BY KnownFacts
    <3>2. p.from \in Places
      BY <3>1
    <3>3. WaysOnce(AllChains(p.from), p.from)
      BY <3>1, <3>2, AllChainsOnce
    <3> QED
      BY <3>3, AllChainsIs DEF WaysOnce
  <2>2. /\ ss \in Seq(Seq(PathSet)) /\ Len(ss) = n /\ DOMAIN q = 1 .. n /\ n \in Nat
        /\ \A i \in 1 .. n : q[i] \in Range(q) /\ Len(ss[i]) = Len(AllTo[q[i].from])
    <3>1. /\ PartsOf(AllTo, v) \in Seq(Seq(PathSet)) /\ Len(PartsOf(AllTo, v)) = Len(preds[v])
          /\ DOMAIN preds[v] = 1 .. Len(preds[v]) /\ Len(preds[v]) \in Nat
          /\ \A i \in 1 .. Len(preds[v]) :
               /\ preds[v][i] \in Range(preds[v])
               /\ AllTo[preds[v][i].from] \in Seq(PathSet)
               /\ PartsOf(AllTo, v)[i] = Extended(AllTo[preds[v][i].from], v, preds[v][i].eid)
               /\ Len(PartsOf(AllTo, v)[i]) = Len(AllTo[preds[v][i].from])
               /\ \A j \in 1 .. Len(AllTo[preds[v][i].from]) :
                     /\ AllTo[preds[v][i].from][j] \in PathSet
                     /\ PartsOf(AllTo, v)[i][j] = Onwards(AllTo[preds[v][i].from][j], v, preds[v][i].eid)
      BY <2>1, PartsFacts, ZenonT(60)
    <3> QED
      BY <3>1
  <2>3. \A i \in 1 .. n : AllTo[q[i].from] \in Seq(PathSet) /\ f[q[i].from] = Len(AllTo[q[i].from])
    BY <2>1, <2>2
  <2> HIDE DEF q, n, ss
  <2>4. \A i \in 1 .. n : f[q[i].from] \in Nat
    BY <2>3, LenProperties
  <2>5. PICK at : FlatAt(ss, FlattenSeq(ss), at)
    <3>1. ss \in Seq(Seq(PathSet))
      BY <2>2
    <3> QED
      BY <3>1, Flattened
  <2>6. /\ at[0] = 0 /\ \A i \in 1 .. n : at[i] = at[i - 1] + Len(ss[i])
        /\ Len(FlattenSeq(ss)) = at[n]
    BY <2>2, <2>5 DEF FlatAt
  <2>7. \A i \in 1 .. n : at[i] = at[i - 1] + f[q[i].from]
    BY <2>2, <2>3, <2>6
  <2>8. SumOver(f, q) = at[n]
    <3>1. n \in Nat /\ DOMAIN q = 1 .. n /\ at[0] = 0
      BY <2>2, <2>6
    <3>2. \A i \in 1 .. n : f[q[i].from] \in Nat
      BY <2>4
    <3>3. \A i \in 1 .. n : at[i] = at[i - 1] + f[q[i].from]
      BY <2>7
    <3>4. Adds(f, q, n, at)
      BY <3>1, <3>2, <3>3 DEF Adds
    <3> QED
      BY <3>4, SumOverIs
  <2> QED
    BY <1>1, <1>3, <2>6, <2>8 DEF AllStep, CountStep, q, ss
<1> QED
  BY <1>2, <1>3

(* The paths are counted as they would be read back.                       *)
LEMMA PathCountExact ==
  ASSUME ErrandInv, ListInv, Over, NEW t \in Places, Known(t)
  PROVE  PathCount(t) = Len(AllChains(t))
<1> DEFINE D == Range(sighted)
           h == [v \in D |-> Len(AllTo[v])]
<1>1. \A v : v \in D <=> v \in Places /\ Known(v)
  BY DEF ListInv, SightedInv
<1>2. \A v \in D : v \in Places /\ Known(v) /\ dist[v] \in Nat
  BY <1>1, KnownFacts
<1>3. \A v \in D : \A p \in Range(preds[v]) : p.from \in D /\ dist[v] = dist[p.from] + 1
  <2> SUFFICES ASSUME NEW v \in D, NEW p \in Range(preds[v])
               PROVE  p.from \in D /\ dist[v] = dist[p.from] + 1
    OBVIOUS
  <2>1. p \in [from : Places, eid : Nat] /\ Known(p.from) /\ dist[v] = dist[p.from] + 1
    BY <1>1, KnownFacts
  <2> QED
    BY <1>1, <2>1
<1> HIDE DEF D
<1>4. \E f : f = [v \in D |-> CountStep(f, v)]
  <2>1. ASSUME NEW v \in D PROVE h[v] = CountStep(h, v)
    <3>1. \A p \in Range(preds[v]) : h[p.from] = Len(AllTo[p.from])
      BY <1>3
    <3> HIDE DEF h
    <3>2. CountStep(h, v) = Len(AllTo[v])
      BY <1>2, <3>1, CountStepIs
    <3> QED
      BY <3>2 DEF h
  <2>2. h = [v \in D |-> h[v]]
    OBVIOUS
  <2> HIDE DEF h
  <2> QED
    BY <2>1, <2>2
<1> DEFINE G == CountTo
<1>5. G = [v \in D |-> CountStep(G, v)]
  BY <1>4, Zenon DEF CountTo, D
<1> HIDE DEF G
<1>6. \A v \in D : G[v] = CountStep(G, v)
  BY <1>5
<1> DEFINE B == {n \in Nat : \A v \in D : dist[v] = n => G[v] = Len(AllTo[v])}
<1>7. ASSUME NEW n \in Nat, \A v \in D : dist[v] + 1 = n => G[v] = Len(AllTo[v])
      PROVE  n \in B
  <2> SUFFICES ASSUME NEW v \in D, dist[v] = n PROVE G[v] = Len(AllTo[v])
    OBVIOUS
  <2>1. \A p \in Range(preds[v]) : G[p.from] = Len(AllTo[p.from])
    BY <1>3, <1>7
  <2>2. CountStep(G, v) = Len(AllTo[v])
    BY <1>2, <2>1, CountStepIs
  <2> QED
    BY <1>6, <2>2
<1>8. 0 \in B
  <2>1. \A v \in D : dist[v] + 1 # 0
    BY <1>2
  <2> HIDE DEF B
  <2> QED
    BY <1>7, <2>1
<1>9. ASSUME NEW n \in Nat, n \in B PROVE n + 1 \in B
  <2>1. \A v \in D : dist[v] + 1 = n + 1 => dist[v] = n
    BY <1>2
  <2>2. \A v \in D : dist[v] + 1 = n + 1 => G[v] = Len(AllTo[v])
    BY <1>9, <2>1
  <2> HIDE DEF B
  <2> QED
    BY <1>7, <2>2
<1>10. \A n \in Nat : n \in B
  <2> HIDE DEF B
  <2> QED
    BY <1>8, <1>9, EveryNumber
<1>11. t \in D /\ dist[t] \in Nat
  BY <1>1, <1>2
<1>12. G[t] = Len(AllTo[t])
  BY <1>10, <1>11
<1> QED
  BY <1>12, PathCountIs, AllChainsIs DEF G

(* Between the source and a node there is one at every distance, so no     *)
(* distance is as large as the number of nodes.                            *)
LEMMA DistancesAreBound ==
  ASSUME ErrandInv, ListInv, NEW t \in Places, Known(t)
  PROVE  dist[t] \in Nat /\ dist[t] + 1 <= Cardinality(Places) /\ dist[t] <= LongestOf(errand)
<1> DEFINE d == dist[t]
           B == {k \in Nat : k <= d => \E v \in Places : Known(v) /\ dist[v] = d - k}
<1>1. d \in Nat
  BY KnownFacts
<1>2. 0 \in B
  BY <1>1
<1>3. ASSUME NEW k \in Nat, k \in B PROVE k + 1 \in B
  <2> SUFFICES ASSUME k + 1 <= d
               PROVE  \E v \in Places : Known(v) /\ dist[v] = d - (k + 1)
    OBVIOUS
  <2>1. PICK v \in Places : Known(v) /\ dist[v] = d - k
    BY <1>1, <1>3
  <2>2. dist[v] # 0
    BY <1>1, <2>1
  <2>3. v # errand.start
    BY <2>1, <2>2, KnownFacts
  <2>4. preds[v][1] \in Range(preds[v])
    BY <2>1, <2>3, KnownFacts DEF Range
  <2> DEFINE p == preds[v][1]
  <2>5. p \in [from : Places, eid : Nat] /\ Known(p.from) /\ dist[p.from] \in Nat /\ dist[v] = dist[p.from] + 1
    BY <2>1, <2>4, KnownFacts
  <2> HIDE DEF p
  <2>6. p.from \in Places
    BY <2>5
  <2>7. dist[p.from] = d - (k + 1)
    BY <1>1, <2>1, <2>5
  <2> QED
    BY <2>5, <2>6, <2>7
<1>4. \A k \in Nat : k \in B
  <2> HIDE DEF B
  <2> QED
    BY <1>2, <1>3, EveryNumber
<1>5. ASSUME NEW k \in 0 .. d PROVE \E v \in Places : Known(v) /\ dist[v] = k
  <2>1. d - k \in Nat /\ d - k <= d /\ d - (d - k) = k
    BY <1>1
  <2>2. d - k \in B
    BY <1>4, <2>1
  <2> QED
    BY <2>1, <2>2
<1> HIDE DEF B, d
<1> DEFINE f == [k \in 0 .. d |-> CHOOSE v \in Places : Known(v) /\ dist[v] = k]
<1>6. \A k \in 0 .. d : f[k] \in Places /\ dist[f[k]] = k
  <2> TAKE k \in 0 .. d
  <2>1. f[k] = CHOOSE v \in Places : Known(v) /\ dist[v] = k
    OBVIOUS
  <2> HIDE DEF f
  <2> QED
    BY <1>5, <2>1
<1>7. f \in Injection(0 .. d, Places)
  <2>1. f \in [0 .. d -> Places]
    BY <1>6
  <2>2. \A j, k \in 0 .. d : f[j] = f[k] => j = k
    <3> HIDE DEF f
    <3> QED
      BY <1>6
  <2> HIDE DEF f
  <2> QED
    BY <2>1, <2>2 DEF Injection, IsInjective
<1>8. IsFiniteSet(0 .. d) /\ Cardinality(0 .. d) = d + 1
  <2>1. 0 \in Int /\ d \in Int /\ ~(0 > d) /\ d - 0 + 1 = d + 1
    BY <1>1
  <2> QED
    BY <2>1, FS_Interval
<1>9. Cardinality(0 .. d) <= Cardinality(Places)
  <2> HIDE DEF f
  <2> QED
    BY <1>7, PlacesAssumption, FS_Injection
<1>10. Cardinality(Places) \in Nat
  BY PlacesAssumption, FS_CardinalityType
<1>11. d <= LongestOf(errand)
  <2>1. errand.max # NoBound => d <= errand.max
    BY DEF ListInv, CapInv, d
  <2>2. d <= Cardinality(Places)
    BY <1>1, <1>8, <1>9, <1>10
  <2> QED
    BY <2>1, <2>2 DEF LongestOf
<1> QED
  BY <1>1, <1>8, <1>9, <1>11 DEF d

(* A node a row may end at, if it is known, is one the search went as deep *)
(* as.                                                                     *)
LEMMA KnownIsNear ==
  ASSUME ErrandInv, ListInv, NEW t \in Places, errand.targets # {} => t \in errand.targets, Known(t)
  PROVE  Near(t)
<1>1. stopAt # NoBound => dist[t] <= stopAt
  <2> SUFFICES ASSUME stopAt # NoBound PROVE dist[t] <= stopAt
    OBVIOUS
  <2>1. errand.targets # {}
    BY DEF ListInv, CapInv
  <2> QED
    BY <2>1 DEF ErrandInv, TargetsAreCounted
<1> QED
  BY <1>1 DEF Near

(* Paths that are the shortest ways W, as the selector asks: all of them,  *)
(* or one; the paths themselves when they are read                         *)
Selected(paths, W) ==
  /\ paths \in Seq(PathSet) /\ Len(paths) # 0 /\ W # {}
  /\ Len(paths) = IF errand.all THEN Cardinality(W) ELSE 1
  /\ errand.track => Range(paths) \subseteq W
  /\ errand.track /\ errand.all => W \subseteq Range(paths)

(* What stands for a path that nothing reads *)
LEMMA NoPathIs == NoPath \in PathSet
  BY DEF NoPath, PathSet

(* Rows whose paths nobody reads still have as many of them.               *)
LEMMA RepeatedIs ==
  ASSUME NEW n \in Nat
  PROVE  [i \in 1 .. n |-> NoPath] \in Seq(PathSet) /\ Len([i \in 1 .. n |-> NoPath]) = n
<1> DEFINE x == NoPath
<1>1. x \in PathSet
  BY NoPathIs
<1> HIDE DEF x
<1>2. [i \in 1 .. n |-> x] \in [1 .. n -> PathSet]
  BY <1>1
<1>3. [i \in 1 .. n |-> x] \in Seq(PathSet) /\ Len([i \in 1 .. n |-> x]) = n
  BY <1>2
<1> QED
  BY <1>3 DEF x

(* The paths to a node are its shortest ways.                              *)
LEMMA PathsToAre ==
  ASSUME ErrandInv, ListInv, Over, NEW t \in Places, Near(t)
  PROVE  /\ Selected(PathsTo(t), WalksTo(t))
         /\ errand.all => /\ Len(PathsTo(t)) = Len(AllChains(t))
                          /\ errand.track => PathsTo(t) = AllChains(t)
<1>1. Known(t)
  BY DEF Near
<1>2. FirstChain(t) \in WalksTo(t) /\ FirstChain(t) \in PathSet
  BY <1>1, FirstChainWalks DEF WalksTo
<1>3. /\ AllChains(t) \in Seq(PathSet) /\ IsInjective(AllChains(t))
      /\ Range(AllChains(t)) = WalksTo(t)
  BY <1>1, AllChainsOnce DEF WaysOnce
<1>4. Cardinality(WalksTo(t)) = Len(AllChains(t)) /\ Len(AllChains(t)) # 0
  <2> DEFINE c == AllChains(t)
             W == WalksTo(t)
  <2>1. c \in Seq(PathSet) /\ IsInjective(c) /\ Range(c) = W
    BY <1>3
  <2> HIDE DEF c, W
  <2>2. Cardinality(Range(c)) = Len(c)
    BY <2>1, OnceLength
  <2>3. DOMAIN c = 1 .. Len(c) /\ W # {}
    BY <1>2, <2>1, ElementOfSeq DEF W
  <2>4. Len(c) # 0
    BY <2>1, <2>3 DEF Range
  <2> QED
    BY <2>1, <2>2, <2>4 DEF c, W
<1>5. errand.all \in BOOLEAN /\ errand.track \in BOOLEAN
  BY DEF ErrandInv, ErrandTypeOK, ErrandType
<1>6. CASE ~errand.all /\ errand.track
  <2>1. PathsTo(t) = <<FirstChain(t)>>
    BY <1>6 DEF PathsTo
  <2>2. \A x \in PathSet : <<x>> \in Seq(PathSet) /\ Len(<<x>>) = 1 /\ Range(<<x>>) = {x}
    BY DEF Range
  <2> QED
    BY <1>2, <1>6, <2>1, <2>2 DEF Selected
<1>7. CASE ~errand.all /\ ~errand.track
  <2>1. PathsTo(t) = <<NoPath>>
    BY <1>7 DEF PathsTo
  <2>2. <<NoPath>> \in Seq(PathSet) /\ Len(<<NoPath>>) = 1
    BY NoPathIs
  <2> QED
    BY <1>2, <1>7, <2>1, <2>2 DEF Selected
<1>8. CASE errand.all /\ errand.track
  <2>1. PathsTo(t) = AllChains(t)
    BY <1>8 DEF PathsTo
  <2> QED
    BY <1>2, <1>3, <1>4, <1>8, <2>1 DEF Selected
<1>9. CASE errand.all /\ ~errand.track
  <2>1. PathsTo(t) = [i \in 1 .. PathCount(t) |-> NoPath]
    BY <1>9 DEF PathsTo
  <2>2. PathCount(t) = Len(AllChains(t)) /\ PathCount(t) \in Nat
    BY <1>1, <1>3, PathCountExact, LenProperties
  <2>3. PathsTo(t) \in Seq(PathSet) /\ Len(PathsTo(t)) = PathCount(t)
    BY <2>1, <2>2, RepeatedIs
  <2> QED
    BY <1>2, <1>4, <1>9, <2>2, <2>3 DEF Selected
<1> QED
  BY <1>5, <1>6, <1>7, <1>8, <1>9

(* No walk of the reference to a node the search goes to is shorter than   *)
(* its distance.                                                           *)
LEMMA NoneIsShorter ==
  ASSUME ErrandInv, ListInv, Over, NEW t \in Places, errand.targets # {} => t \in errand.targets,
         NEW m \in Nat, m <= LongestOf(errand), NEW w, IsWalk(errand, w, m), Last(w.nodes) = t
  PROVE  Known(t) /\ dist[t] \in Nat /\ dist[t] <= m
<1>1. errand.max # NoBound => m <= errand.max
  BY DEF LongestOf
<1>2. CASE stopAt = NoBound \/ m <= stopAt
  <2>1. Known(Last(w.nodes)) /\ dist[Last(w.nodes)] \in Nat /\ dist[Last(w.nodes)] <= m
    BY <1>1, <1>2, WalksAreKnown
  <2> QED
    BY <2>1
<1>3. CASE stopAt # NoBound /\ ~(m <= stopAt)
  <2>1. errand.targets # {}
    BY <1>3 DEF ListInv, CapInv
  <2>2. Known(t) /\ dist[t] <= stopAt
    BY <1>3, <2>1 DEF ErrandInv, TargetsAreCounted, TargetsLeft
  <2>3. dist[t] \in Nat /\ stopAt \in Nat
    BY <1>3, <2>2, KnownFacts DEF ErrandInv, ErrandTypeOK
  <2> QED
    BY <1>3, <2>2, <2>3
<1> QED
  BY <1>2, <1>3

(* A node the search did not find has no walk in the reference; of one it  *)
(* found, the shortest walks are its shortest ways.                        *)
LEMMA ShortestToIs ==
  ASSUME ErrandInv, ListInv, Over, NEW t \in Places, errand.targets # {} => t \in errand.targets,
         errand.min = 0 \/ (errand.min = 1 /\ t # errand.start)
  PROVE  ShortestTo(errand, t) = IF Known(t) THEN WalksTo(t) ELSE {}
<1>1. LongestOf(errand) \in Nat /\ errand.min \in Nat
  BY LongestIs DEF ErrandInv, ErrandTypeOK
<1>2. \A m \in errand.min .. LongestOf(errand) : m \in Nat /\ m <= LongestOf(errand)
  BY <1>1
<1>3. CASE ~Known(t)
  <2>1. ASSUME NEW w \in ShortestTo(errand, t) PROVE FALSE
    <3>1. PICK n \in errand.min .. LongestOf(errand) : IsWalk(errand, w, n) /\ Last(w.nodes) = t
      BY DEF ShortestTo
    <3> QED
      BY <1>2, <1>3, <3>1, NoneIsShorter
  <2> QED
    BY <1>3, <2>1
<1>4. CASE Known(t)
  <2>1. dist[t] \in errand.min .. LongestOf(errand)
    <3>1. dist[t] \in Nat /\ dist[t] <= LongestOf(errand)
      BY <1>4, DistancesAreBound
    <3>2. errand.min <= dist[t]
      <4>1. CASE errand.min = 0
        BY <3>1, <4>1
      <4>2. CASE errand.min = 1 /\ t # errand.start
        <5>1. dist[t] # 0
          BY <1>4, <4>2, KnownFacts
        <5> QED
          BY <3>1, <4>2, <5>1
      <4> QED
        BY <4>1, <4>2
    <3> QED
      BY <1>1, <3>1, <3>2
  <2>2. \A m \in errand.min .. LongestOf(errand), x \in PathSet :
          IsWalk(errand, x, m) /\ Last(x.nodes) = t => dist[t] <= m
    BY <1>2, NoneIsShorter
  <2>3. FirstChain(t) \in WalksTo(t)
    BY <1>4, FirstChainWalks
  <2>4. ASSUME NEW w \in WalksTo(t) PROVE w \in ShortestTo(errand, t)
    BY <2>1, <2>2 DEF ShortestTo, WalksTo
  <2>5. ASSUME NEW w \in ShortestTo(errand, t) PROVE w \in WalksTo(t)
    <3>1. PICK n \in errand.min .. LongestOf(errand) :
            /\ IsWalk(errand, w, n) /\ Last(w.nodes) = t
            /\ \A m \in errand.min .. LongestOf(errand), x \in PathSet :
                 IsWalk(errand, x, m) /\ Last(x.nodes) = t => n <= m
      BY DEF ShortestTo
    <3>2. w \in PathSet
      BY DEF ShortestTo
    <3>3. n <= dist[t]
      BY <2>1, <2>3, <3>1 DEF WalksTo
    <3>4. dist[t] <= n
      BY <2>2, <3>1, <3>2
    <3>5. n = dist[t]
      BY <1>2, <2>1, <3>3, <3>4
    <3> QED
      BY <3>1, <3>2, <3>5 DEF WalksTo
  <2> QED
    BY <1>4, <2>4, <2>5
<1> QED
  BY <1>3, <1>4

ClosingType == [len : Nat, tail : Places, eid : Nat]

(* The shortest of the ways back, as they were listed                      *)
LEMMA ShortestFacts ==
  ASSUME NEW q \in Seq(ClosingType)
  PROVE  /\ Shortest(q) \in Seq(ClosingType)
         /\ \A c : c \in Range(Shortest(q)) <=> c \in Range(q) /\ \A d \in Range(q) : c.len <= d.len
         /\ IsInjective(q) => IsInjective(Shortest(q))
<1> DEFINE n == Len(q)
           T == ClosingType
           ss == [i \in 1 .. n |-> IF IsLeast(q, i) THEN <<q[i]>> ELSE <<>>]
<1>1. n \in Nat /\ DOMAIN q = 1 .. n /\ \A i \in 1 .. n : q[i] \in T
  BY ElementOfSeq
<1>2. Shortest(q) = FlattenSeq(ss)
  BY <1>1 DEF Shortest
<1> HIDE DEF T
<1>3. \A x \in T : <<x>> \in Seq(T) /\ Len(<<x>>) = 1 /\ <<x>>[1] = x
  OBVIOUS
<1>4. <<>> \in Seq(T) /\ Len(<<>>) = 0
  OBVIOUS
<1>5. \A i \in 1 .. n : (IF IsLeast(q, i) THEN <<q[i]>> ELSE <<>>) \in Seq(T)
  BY <1>1, <1>3, <1>4
<1>6. ss \in Seq(Seq(T)) /\ Len(ss) = n
  <2> DEFINE R == Seq(T)
  <2>1. ss \in [1 .. n -> R]
    BY <1>5
  <2> HIDE DEF R, ss
  <2>2. ss \in Seq(R) /\ Len(ss) = n
    BY <1>1, <2>1
  <2> QED
    BY <2>2 DEF R
<1>7. ASSUME NEW i \in 1 .. n, NEW j \in 1 .. Len(ss[i])
      PROVE  IsLeast(q, i) /\ j = 1 /\ ss[i][j] = q[i]
  <2>1. ss[i] = IF IsLeast(q, i) THEN <<q[i]>> ELSE <<>>
    OBVIOUS
  <2> HIDE DEF ss
  <2>2. CASE IsLeast(q, i)
    <3>1. ss[i] = <<q[i]>> /\ Len(ss[i]) = 1 /\ ss[i][1] = q[i]
      BY <1>1, <1>3, <2>1, <2>2
    <3>2. j = 1
      BY <3>1
    <3> QED
      BY <2>2, <3>1, <3>2
  <2>3. CASE ~IsLeast(q, i)
    <3>1. Len(ss[i]) = 0
      BY <1>4, <2>1, <2>3
    <3> QED
      BY <3>1
  <2> QED
    BY <2>2, <2>3
<1>8. ASSUME NEW i \in 1 .. n, IsLeast(q, i)
      PROVE  1 \in 1 .. Len(ss[i]) /\ ss[i][1] = q[i]
  <2>1. ss[i] = <<q[i]>>
    BY <1>8
  <2> HIDE DEF ss
  <2> QED
    BY <1>1, <1>3, <2>1
<1> HIDE DEF ss
<1>9. /\ FlattenSeq(ss) \in Seq(T)
      /\ \A x : x \in Range(FlattenSeq(ss)) <=> \E i \in 1 .. Len(ss) : \E j \in 1 .. Len(ss[i]) : x = ss[i][j]
  <2>1. ss \in Seq(Seq(T))
    BY <1>6
  <2> QED
    BY <2>1, FlattenedRange
<1>10. ASSUME NEW c
       PROVE  c \in Range(FlattenSeq(ss)) <=> c \in Range(q) /\ \A d \in Range(q) : c.len <= d.len
  <2>1. c \in Range(FlattenSeq(ss)) <=> \E i \in 1 .. n : IsLeast(q, i) /\ c = q[i]
    <3>1. ASSUME c \in Range(FlattenSeq(ss)) PROVE \E i \in 1 .. n : IsLeast(q, i) /\ c = q[i]
      <4>1. \E i \in 1 .. Len(ss) : \E j \in 1 .. Len(ss[i]) : c = ss[i][j]
        BY <1>9, <3>1
      <4>2. PICK i \in 1 .. n : \E j \in 1 .. Len(ss[i]) : c = ss[i][j]
        BY <1>6, <4>1
      <4>3. PICK j \in 1 .. Len(ss[i]) : c = ss[i][j]
        BY <4>2
      <4> QED
        BY <1>7, <4>3
    <3>2. ASSUME NEW i \in 1 .. n, IsLeast(q, i), c = q[i] PROVE c \in Range(FlattenSeq(ss))
      <4>1. i \in 1 .. Len(ss) /\ 1 \in 1 .. Len(ss[i]) /\ c = ss[i][1]
        BY <1>6, <1>8, <3>2
      <4> QED
        BY <1>9, <4>1
    <3> QED
      BY <3>1, <3>2
  <2>2. \A i \in 1 .. n : IsLeast(q, i) <=> \A d \in Range(q) : q[i].len <= d.len
    BY <1>1 DEF IsLeast, Range
  <2>3. c \in Range(q) <=> \E i \in 1 .. n : c = q[i]
    BY <1>1 DEF Range
  <2> QED
    BY <2>1, <2>2, <2>3
<1>11. ASSUME IsInjective(q) PROVE IsInjective(FlattenSeq(ss))
  <2>1. ASSUME NEW i \in 1 .. n, NEW k \in 1 .. n, NEW j \in 1 .. Len(ss[i]), NEW l \in 1 .. Len(ss[k]),
               ss[i][j] = ss[k][l]
        PROVE  i = k /\ j = l
    <3>1. j = 1 /\ l = 1 /\ q[i] = q[k]
      BY <1>7, <2>1
    <3> QED
      BY <1>1, <1>11, <3>1 DEF IsInjective
  <2>2. ss \in Seq(Seq(T))
    BY <1>6
  <2>3. \A i, k \in 1 .. Len(ss) : \A j \in 1 .. Len(ss[i]), l \in 1 .. Len(ss[k]) :
             ss[i][j] = ss[k][l] => i = k /\ j = l
    BY <1>6, <2>1
  <2> QED
    BY <2>2, <2>3, FlattenedOnce
<1> QED
  BY <1>2, <1>9, <1>10, <1>11 DEF T

(* Of some ways back there is a shortest.                                  *)
LEMMA ShortestIsThere ==
  ASSUME NEW q \in Seq(ClosingType), q # <<>>
  PROVE  Shortest(q) # <<>>
<1> DEFINE S == {c.len : c \in Range(q)}
<1>1. \A c \in Range(q) : c \in ClosingType
  BY Elements
<1>2. S \in SUBSET Nat
  BY <1>1 DEF ClosingType
<1>3. 1 \in DOMAIN q
  BY DEF ClosingType
<1>4. q[1] \in Range(q)
  BY <1>3 DEF Range
<1>5. S # {}
  BY <1>4
<1>6. PICK k \in S : \A l \in S : k <= l
  <2> HIDE DEF S
  <2> QED
    BY <1>2, <1>5, LeastNumber
<1>7. PICK c \in Range(q) : c.len = k
  BY <1>6
<1>8. \A d \in Range(q) : c.len <= d.len
  BY <1>6, <1>7
<1>9. c \in Range(Shortest(q))
  BY <1>8, ShortestFacts
<1> QED
  BY <1>9 DEF Range

(* With a path of at least one hop asked for there are no targets.         *)
LEMMA OneHopFacts ==
  ASSUME ErrandInv, ListInv, errand.min = 1
  PROVE  /\ errand.targets = {} /\ stopAt = NoBound
         /\ closing \in Seq(ClosingType) /\ LongestOf(errand) \in Nat
         /\ errand.start \in Places
         /\ errand.max # NoBound => errand.max \in Nat /\ LongestOf(errand) = errand.max
<1>1. errand \in Errands
  BY DEF ListInv, CapInv
<1>2. errand.targets = {}
  BY <1>1, ErrandAssumption
<1>3. errand \in ErrandType /\ closing \in Seq(ClosingType) /\ errand.start \in Places
  BY DEF ErrandInv, ErrandTypeOK, ErrandType, ClosingType
<1>4. errand.max # NoBound => errand.max \in Nat
  BY <1>3 DEF ErrandType
<1>5. LongestOf(errand) \in Nat
  BY <1>3, LongestIs
<1> QED
  BY <1>2, <1>3, <1>4, <1>5 DEF ListInv, CapInv, LongestOf

(* A way back, after a shortest way to its tail, is a walk of the          *)
(* reference to the source.                                                *)
LEMMA BackIsWalk ==
  ASSUME ErrandInv, ListInv, errand.min = 1,
         NEW c \in Range(closing), NEW x \in WalksTo(c.tail)
  PROVE  /\ c \in ClosingType /\ Known(c.tail) /\ c.tail \in Places
         /\ c.len \in 1 .. LongestOf(errand) /\ c.len = dist[c.tail] + 1
         /\ IsWalk(errand, Onwards(x, errand.start, c.eid), c.len)
         /\ Onwards(x, errand.start, c.eid) \in PathSet
         /\ Last(Onwards(x, errand.start, c.eid).nodes) = errand.start
<1> DEFINE u == c.tail
<1>1. /\ u \in Places /\ Known(u) /\ ~AtCap(u)
      /\ \E a \in ToStart(u) : c = Back(u, a)
  BY DEF ListInv, ClosingInv
<1>2. PICK a \in ToStart(u) : c = Back(u, a)
  BY <1>1
<1>3. /\ c \in ClosingType /\ errand.start \in Places /\ LongestOf(errand) \in Nat
      /\ errand.max # NoBound => errand.max \in Nat /\ LongestOf(errand) = errand.max
  BY OneHopFacts, Elements
<1>4. dist[u] \in Nat /\ dist[u] + 1 <= Cardinality(Places) /\ dist[u] <= LongestOf(errand)
  BY <1>1, DistancesAreBound
<1>5. c.len = dist[u] + 1 /\ c.eid = a.eid
  BY <1>2 DEF Back
<1>6. errand \in ErrandType
  BY DEF ErrandInv, ErrandTypeOK
<1>7. a \in EdgesOf(errand, u) /\ a \in Adj /\ a.nbr = errand.start /\ a.eid \in Nat
  <2>1. a \in EdgesOf(errand, u) /\ a \in Adj /\ a.nbr = errand.start
    BY <1>1, <1>2, <1>6, EdgesAre DEF ToStart
  <2> QED
    BY <2>1 DEF Adj
<1>8. x \in PathSet /\ IsWalk(errand, x, dist[u]) /\ Last(x.nodes) = u
  BY DEF WalksTo
<1> HIDE DEF u
<1>9. IsWalk(errand, Onwards(x, errand.start, c.eid), dist[u] + 1)
  <2>1. a \in EdgesOf(errand, Last(x.nodes))
    BY <1>7, <1>8
  <2>2. IsWalk(errand, Onwards(x, a.nbr, a.eid), dist[u] + 1)
    BY <1>4, <1>7, <1>8, <2>1, WalkMore
  <2> QED
    BY <1>5, <1>7, <2>2
<1>10. dist[u] + 1 <= LongestOf(errand)
  <2>1. CASE errand.max = NoBound
    BY <1>4, <2>1 DEF LongestOf
  <2>2. CASE errand.max # NoBound
    <3>1. ~(dist[u] >= errand.max)
      BY <1>1, <2>2 DEF AtCap
    <3> QED
      BY <1>3, <1>4, <2>2, <3>1
  <2> QED
    BY <2>1, <2>2
<1>11. c.len \in 1 .. LongestOf(errand)
  BY <1>3, <1>4, <1>5, <1>10
<1>12. /\ Onwards(x, errand.start, c.eid) \in PathSet
       /\ Last(Onwards(x, errand.start, c.eid).nodes) = errand.start
  BY <1>3, <1>5, <1>7, <1>8, OnwardsFacts
<1> QED
  BY <1>1, <1>3, <1>5, <1>9, <1>11, <1>12 DEF u

(* Every walk of the reference to the source has a way back that is no     *)
(* longer; one that is no longer than it goes that way.                    *)
LEMMA WalkGoesBack ==
  ASSUME ErrandInv, ListInv, Over, errand.min = 1,
         NEW m \in 1 .. LongestOf(errand), NEW w, IsWalk(errand, w, m), Last(w.nodes) = errand.start
  PROVE  \E c \in Range(closing) :
           /\ c.len \in Nat /\ c.len <= m
           /\ m <= c.len => \E x \in WalksTo(c.tail) : w = Onwards(x, errand.start, c.eid)
<1>1. /\ stopAt = NoBound /\ LongestOf(errand) \in Nat
      /\ errand.max # NoBound => errand.max \in Nat /\ LongestOf(errand) = errand.max
  BY OneHopFacts
<1> DEFINE n == m - 1
<1>2. n \in Nat /\ m = n + 1 /\ m <= LongestOf(errand)
  BY <1>1
<1> HIDE DEF n
<1>3. PICK x \in PathSet, a \in Adj :
          /\ IsWalk(errand, x, n) /\ a \in EdgesOf(errand, Last(x.nodes))
          /\ w = Onwards(x, a.nbr, a.eid) /\ a.nbr = errand.start
  BY <1>2, WalkLess
<1> DEFINE u == Last(x.nodes)
<1>4. u \in Places
  BY <1>2, <1>3, WalkEnd
<1>5. errand.max # NoBound => n <= errand.max /\ ~(n >= errand.max)
  BY <1>1, <1>2
<1>6. Known(u) /\ dist[u] \in Nat /\ dist[u] <= n
  BY <1>1, <1>2, <1>3, <1>5, WalksAreKnown
<1>7. a \in ToStart(u)
  <2>1. errand \in ErrandType
    BY DEF ErrandInv, ErrandTypeOK
  <2> QED
    BY <1>3, <1>4, <2>1, EdgesAre DEF ToStart
<1>8. ~AtCap(u)
  <2> HIDE DEF u
  <2>1. errand.max # NoBound => ~(dist[u] >= errand.max)
    BY <1>1, <1>2, <1>5, <1>6
  <2> QED
    BY <2>1 DEF AtCap
<1>9. Range(queue) = {} /\ Range(fan) = {}
  BY DEF Over, Range
<1>10. Back(u, a) \in Range(closing)
  <2>1. errand.min >= 1
    OBVIOUS
  <2> QED
    BY <1>4, <1>6, <1>7, <1>8, <1>9, <2>1 DEF ListInv, ClosingInv
<1> DEFINE c == Back(u, a)
<1>11. c.len = dist[u] + 1 /\ c.tail = u /\ c.eid = a.eid
  BY DEF Back
<1> HIDE DEF c, u
<1>12. c.len \in Nat /\ c.len <= m
  BY <1>2, <1>6, <1>11
<1>13. ASSUME m <= c.len PROVE x \in WalksTo(c.tail) /\ w = Onwards(x, errand.start, c.eid)
  <2>1. dist[u] = n
    BY <1>2, <1>6, <1>11, <1>13
  <2>2. x \in WalksTo(u)
    BY <1>3, <2>1 DEF WalksTo, u
  <2> QED
    BY <1>3, <1>11, <2>2
<1> QED
  BY <1>10, <1>12, <1>13 DEF c

(* The paths of the rows back to the source, and the walks they are        *)
BackOver(c) ==
  LET paths == PathsTo(c.tail) IN [i \in DOMAIN paths |-> Closed(paths[i], c)]
BackPaths ==
  LET least == Shortest(closing) IN
  IF errand.all THEN FlattenSeq([n \in DOMAIN least |-> BackOver(least[n])]) ELSE BackOver(least[1])
BackSet(c) == {Onwards(x, errand.start, c.eid) : x \in WalksTo(c.tail)}

(* The rows back to the source are the rows over BackPaths, unless the     *)
(* shortest way back is out of bounds.                                     *)
LEMMA RowsBackIs ==
  RowsBack = IF \/ Shortest(closing) = <<>> \/ Shortest(closing)[1].len < errand.min
                \/ errand.max # NoBound /\ Shortest(closing)[1].len > errand.max
             THEN <<>> ELSE RowsOver(errand.start, BackPaths)
<1>1. CASE errand.all
  BY <1>1 DEF RowsBack, BackPaths, BackOver
<1>2. CASE ~errand.all
  BY <1>2 DEF RowsBack, BackPaths, BackOver
<1> QED
  BY <1>1, <1>2

(* The shortest ways back, of some, are within the bounds.                 *)
LEMMA LeastBack ==
  ASSUME ErrandInv, ListInv, errand.min = 1, closing # <<>>
  PROVE  /\ Shortest(closing) \in Seq(ClosingType) /\ Len(Shortest(closing)) \in Nat
         /\ DOMAIN Shortest(closing) = 1 .. Len(Shortest(closing))
         /\ 1 \in 1 .. Len(Shortest(closing)) /\ Shortest(closing) # <<>>
         /\ \A i \in 1 .. Len(Shortest(closing)) :
              /\ Shortest(closing)[i] \in Range(Shortest(closing))
              /\ Shortest(closing)[i] \in Range(closing)
         /\ \A c \in Range(Shortest(closing)) : c \in Range(closing) /\ \A d \in Range(closing) : c.len <= d.len
         /\ RowsBack = RowsOver(errand.start, BackPaths)
<1> DEFINE q == Shortest(closing)
<1>1. /\ closing \in Seq(ClosingType) /\ LongestOf(errand) \in Nat
      /\ errand.max # NoBound => errand.max \in Nat /\ LongestOf(errand) = errand.max
  BY OneHopFacts
<1>2. q \in Seq(ClosingType) /\ q # <<>>
  BY <1>1, ShortestFacts, ShortestIsThere
<1>3. \A c \in Range(q) : c \in Range(closing) /\ \A d \in Range(closing) : c.len <= d.len
  BY <1>1, ShortestFacts
<1>4. RowsBack = IF \/ q = <<>> \/ q[1].len < errand.min
                    \/ errand.max # NoBound /\ q[1].len > errand.max
                 THEN <<>> ELSE RowsOver(errand.start, BackPaths)
  BY RowsBackIs
<1> HIDE DEF q
<1>5. Len(q) \in Nat /\ DOMAIN q = 1 .. Len(q) /\ 1 \in 1 .. Len(q)
  BY <1>2 DEF ClosingType
<1>6. \A i \in 1 .. Len(q) : q[i] \in Range(q) /\ q[i] \in Range(closing)
  BY <1>3, <1>5 DEF Range
<1>7. q[1].len \in 1 .. LongestOf(errand)
  <2> DEFINE c == q[1]
  <2>1. c \in Range(closing)
    BY <1>5, <1>6
  <2>2. c.tail \in Places /\ Known(c.tail)
    BY <2>1 DEF ListInv, ClosingInv
  <2>3. FirstChain(c.tail) \in WalksTo(c.tail)
    BY <2>2, FirstChainWalks
  <2> HIDE DEF c
  <2>4. c.len \in 1 .. LongestOf(errand)
    BY <2>1, <2>3, BackIsWalk
  <2> QED
    BY <2>4 DEF c
<1>8. RowsBack = RowsOver(errand.start, BackPaths)
  BY <1>1, <1>2, <1>4, <1>7
<1> QED
  BY <1>2, <1>3, <1>5, <1>6, <1>8 DEF q

(* The shortest walks of the reference back to the source are the ones     *)
(* that the shortest ways back end.                                        *)
LEMMA ShortestBackIs ==
  ASSUME ErrandInv, ListInv, Over, errand.min = 1
  PROVE  \A w : w \in ShortestTo(errand, errand.start) <=>
                  \E c \in Range(closing) :
                     (\A d \in Range(closing) : c.len <= d.len) /\ w \in BackSet(c)
<1> DEFINE s == errand.start
           M == LongestOf(errand)
<1>1. M \in Nat
  BY OneHopFacts
<1>2. ASSUME NEW c \in Range(closing)
      PROVE  FirstChain(c.tail) \in WalksTo(c.tail)
  <2>1. c.tail \in Places /\ Known(c.tail)
    BY DEF ListInv, ClosingInv
  <2> QED
    BY <2>1, FirstChainWalks
<1>3. ASSUME NEW c \in Range(closing), \A d \in Range(closing) : c.len <= d.len,
             NEW x \in WalksTo(c.tail)
      PROVE  Onwards(x, s, c.eid) \in ShortestTo(errand, s)
  <2> DEFINE w == Onwards(x, s, c.eid)
  <2>1. c.len \in 1 .. M /\ IsWalk(errand, w, c.len) /\ w \in PathSet /\ Last(w.nodes) = s
    BY BackIsWalk
  <2> HIDE DEF w
  <2>2. ASSUME NEW m \in 1 .. M, NEW y \in PathSet, IsWalk(errand, y, m), Last(y.nodes) = s
        PROVE  c.len <= m
    <3>1. PICK d \in Range(closing) : d.len \in Nat /\ d.len <= m
      BY <2>2, WalkGoesBack
    <3> QED
      BY <1>3, <2>1, <3>1
  <2>3. w \in ShortestTo(errand, s)
    BY <2>1, <2>2 DEF ShortestTo
  <2> QED
    BY <2>3 DEF w
<1>4. ASSUME NEW w \in ShortestTo(errand, s)
      PROVE  \E c \in Range(closing) :
                (\A d \in Range(closing) : c.len <= d.len) /\ \E x \in WalksTo(c.tail) : w = Onwards(x, s, c.eid)
  <2>1. PICK n \in 1 .. M :
          /\ IsWalk(errand, w, n) /\ Last(w.nodes) = s
          /\ \A m \in 1 .. M, x \in PathSet :
               IsWalk(errand, x, m) /\ Last(x.nodes) = s => n <= m
    BY DEF ShortestTo
  <2>2. ASSUME NEW d \in Range(closing) PROVE d.len \in Nat /\ n <= d.len
    <3>1. PICK x : x \in WalksTo(d.tail)
      BY <1>2
    <3>2. /\ d.len \in 1 .. M
          /\ IsWalk(errand, Onwards(x, s, d.eid), d.len)
          /\ Onwards(x, s, d.eid) \in PathSet
          /\ Last(Onwards(x, s, d.eid).nodes) = s
      BY <3>1, BackIsWalk
    <3> QED
      BY <1>1, <2>1, <3>2
  <2>3. PICK c \in Range(closing) :
           /\ c.len \in Nat /\ c.len <= n
           /\ n <= c.len => \E x \in WalksTo(c.tail) : w = Onwards(x, s, c.eid)
    BY <2>1, WalkGoesBack
  <2>4. n <= c.len /\ c.len = n
    BY <1>1, <2>2, <2>3
  <2>5. \A d \in Range(closing) : c.len <= d.len
    BY <2>2, <2>4
  <2> QED
    BY <2>3, <2>4, <2>5
<1>5. \A w, c : w \in BackSet(c) <=> \E x \in WalksTo(c.tail) : w = Onwards(x, s, c.eid)
  BY DEF BackSet
<1>6. ASSUME NEW w, NEW c \in Range(closing), \A d \in Range(closing) : c.len <= d.len, w \in BackSet(c)
      PROVE  w \in ShortestTo(errand, s)
  <2>1. PICK x \in WalksTo(c.tail) : w = Onwards(x, s, c.eid)
    BY <1>5, <1>6
  <2>2. Onwards(x, s, c.eid) \in ShortestTo(errand, s)
    BY <1>3, <1>6
  <2> QED
    BY <2>1, <2>2
<1>7. ASSUME NEW w, w \in ShortestTo(errand, s)
      PROVE  \E c \in Range(closing) : (\A d \in Range(closing) : c.len <= d.len) /\ w \in BackSet(c)
  <2>1. PICK c \in Range(closing) :
           (\A d \in Range(closing) : c.len <= d.len) /\ \E x \in WalksTo(c.tail) : w = Onwards(x, s, c.eid)
    BY <1>4, <1>7
  <2>2. w \in BackSet(c)
    BY <1>5, <2>1
  <2> QED
    BY <2>1, <2>2
<1> QED
  BY <1>6, <1>7

(* Over one way back                                                       *)
LEMMA BackOverFacts ==
  ASSUME ErrandInv, ListInv, Over, errand.min = 1, NEW c \in Range(closing)
  PROVE  /\ c.tail \in Places /\ Known(c.tail) /\ Near(c.tail)
         /\ c \in ClosingType /\ c.eid \in Nat /\ errand.start \in Places
         /\ BackOver(c) \in Seq(PathSet) /\ Len(BackOver(c)) = Len(PathsTo(c.tail))
         /\ errand.track => BackOver(c) = Extended(PathsTo(c.tail), errand.start, c.eid)
         /\ Selected(PathsTo(c.tail), WalksTo(c.tail))
         /\ errand.all => /\ Len(PathsTo(c.tail)) = Len(AllChains(c.tail))
                          /\ errand.track => PathsTo(c.tail) = AllChains(c.tail)
         /\ WaysOnce(AllChains(c.tail), c.tail)
<1> DEFINE u == c.tail
<1>1. u \in Places /\ Known(u) /\ stopAt = NoBound /\ errand.start \in Places /\ closing \in Seq(ClosingType)
  BY OneHopFacts DEF ListInv, ClosingInv
<1>2. Near(u)
  BY <1>1 DEF Near
<1>3. c \in ClosingType /\ c.eid \in Nat
  BY <1>1, Elements DEF ClosingType
<1>4. /\ Selected(PathsTo(u), WalksTo(u))
      /\ errand.all => /\ Len(PathsTo(u)) = Len(AllChains(u))
                       /\ errand.track => PathsTo(u) = AllChains(u)
  BY <1>1, <1>2, PathsToAre
<1>5. WaysOnce(AllChains(u), u)
  BY <1>1, AllChainsOnce
<1> DEFINE P == PathsTo(u)
<1>6. P \in Seq(PathSet)
  BY <1>4 DEF Selected
<1>7. BackOver(c) = [i \in DOMAIN P |-> Closed(P[i], c)]
  BY DEF BackOver
<1>8. errand.track => BackOver(c) = Extended(P, errand.start, c.eid)
  <2> SUFFICES ASSUME errand.track PROVE BackOver(c) = Extended(P, errand.start, c.eid)
    OBVIOUS
  <2>1. \A x : Closed(x, c) = Onwards(x, errand.start, c.eid)
    BY DEF Closed
  <2> HIDE DEF P
  <2> QED
    BY <1>7, <2>1 DEF Extended
<1> HIDE DEF P, u
<1>9. BackOver(c) \in Seq(PathSet) /\ Len(BackOver(c)) = Len(P)
  <2>1. DOMAIN P = 1 .. Len(P) /\ Len(P) \in Nat /\ \A i \in 1 .. Len(P) : P[i] \in PathSet
    BY <1>6, ElementOfSeq
  <2>2. ASSUME NEW i \in 1 .. Len(P) PROVE Closed(P[i], c) \in PathSet
    <3>1. P[i] \in PathSet
      BY <2>1
    <3>2. Onwards(P[i], errand.start, c.eid) \in PathSet
      BY <1>1, <1>3, <3>1, OnwardsFacts
    <3> QED
      BY <3>2, NoPathIs DEF Closed
  <2> DEFINE n == Len(P)
             f == [i \in 1 .. n |-> Closed(P[i], c)]
  <2>3. BackOver(c) = f
    BY <1>7, <2>1
  <2>4. f \in [1 .. n -> PathSet]
    BY <2>2
  <2>5. n \in Nat
    BY <2>1
  <2> HIDE DEF n, f
  <2>6. f \in Seq(PathSet) /\ Len(f) = n
    BY <2>4, <2>5
  <2> QED
    BY <2>3, <2>6 DEF n
<1> QED
  BY <1>1, <1>2, <1>3, <1>4, <1>5, <1>8, <1>9 DEF P, u

(* They are selected as the ways to any other node are.                    *)
LEMMA BackSelected ==
  ASSUME ErrandInv, ListInv, Over, errand.min = 1, closing # <<>>,
         errand.all => ~LoopBothWays
  PROVE  Selected(BackPaths, ShortestTo(errand, errand.start))
<1> DEFINE L == Shortest(closing)
           k == Len(L)
           W == ShortestTo(errand, errand.start)
           s == errand.start
<1>1. /\ L \in Seq(ClosingType) /\ k \in Nat /\ DOMAIN L = 1 .. k /\ 1 \in 1 .. k
      /\ \A i \in 1 .. k : L[i] \in Range(L) /\ L[i] \in Range(closing)
      /\ \A c \in Range(L) : c \in Range(closing) /\ \A d \in Range(closing) : c.len <= d.len
  BY LeastBack
<1>2. closing \in Seq(ClosingType) /\ s \in Places
  BY OneHopFacts
<1>3. \A w : w \in W <=> \E c \in Range(closing) :
                     (\A d \in Range(closing) : c.len <= d.len) /\ w \in BackSet(c)
  BY ShortestBackIs
<1>4. \A c \in Range(closing) : (\A d \in Range(closing) : c.len <= d.len) => c \in Range(L)
  BY <1>2, ShortestFacts
<1>5. BackPaths = IF errand.all THEN FlattenSeq([n \in 1 .. k |-> BackOver(L[n])]) ELSE BackOver(L[1])
  BY <1>1 DEF BackPaths
<1>6. errand.all => IsInjective(L)
  <2>1. errand.all => IsInjective(closing)
    BY DEF ListInv, ClosingInv
  <2> QED
    BY <1>2, <2>1, ShortestFacts
<1> HIDE DEF L, W, k
<1>7. \A w : w \in W <=> \E i \in 1 .. k : w \in BackSet(L[i])
  <2>1. \A c : c \in Range(L) <=> \E i \in 1 .. k : c = L[i]
    BY <1>1 DEF Range
  <2>2. \A w : w \in W <=> \E c \in Range(L) : w \in BackSet(c)
    BY <1>1, <1>3, <1>4
  <2> QED
    BY <2>1, <2>2
<1>8. ASSUME NEW i \in 1 .. k
      PROVE  /\ L[i].tail \in Places /\ Known(L[i].tail) /\ Near(L[i].tail)
             /\ L[i] \in ClosingType /\ L[i].eid \in Nat
             /\ BackOver(L[i]) \in Seq(PathSet) /\ Len(BackOver(L[i])) = Len(PathsTo(L[i].tail))
             /\ errand.track => BackOver(L[i]) = Extended(PathsTo(L[i].tail), s, L[i].eid)
             /\ Selected(PathsTo(L[i].tail), WalksTo(L[i].tail))
             /\ errand.all => /\ Len(PathsTo(L[i].tail)) = Len(AllChains(L[i].tail))
                               /\ errand.track => PathsTo(L[i].tail) = AllChains(L[i].tail)
             /\ WaysOnce(AllChains(L[i].tail), L[i].tail)
  <2>1. L[i] \in Range(closing)
    BY <1>1
  <2> QED
    BY <2>1, BackOverFacts
<1>9. W # {}
  <2>1. PICK x : x \in WalksTo(L[1].tail)
    BY <1>1, <1>8 DEF Selected
  <2>2. Onwards(x, s, L[1].eid) \in BackSet(L[1])
    BY <2>1 DEF BackSet
  <2> QED
    BY <1>1, <1>7, <2>2
<1>10. CASE ~errand.all
  <2> DEFINE c == L[1]
             P == PathsTo(c.tail)
             B == BackOver(c)
  <2>1. /\ B \in Seq(PathSet) /\ Len(B) = Len(P) /\ Selected(P, WalksTo(c.tail)) /\ c.eid \in Nat
        /\ errand.track => B = Extended(P, s, c.eid)
        /\ BackPaths = B
    BY <1>1, <1>5, <1>8, <1>10
  <2>2. \A w \in BackSet(c) : w \in W
    BY <1>1, <1>7
  <2> HIDE DEF c, P, B
  <2>3. P \in Seq(PathSet) /\ Len(P) = 1 /\ (errand.track => Range(P) \subseteq WalksTo(c.tail))
    BY <2>1, <1>10 DEF Selected
  <2>4. ASSUME errand.track, NEW j \in 1 .. Len(B) PROVE B[j] \in W
    <3>1. B[j] = Onwards(P[j], s, c.eid) /\ P[j] \in WalksTo(c.tail)
      <4>1. Extended(P, s, c.eid)[j] = Onwards(P[j], s, c.eid)
        BY <1>2, <2>1, <2>3, ExtendedFacts
      <4>2. P[j] \in Range(P)
        BY <2>1, <2>3 DEF Range
      <4> QED
        BY <2>1, <2>3, <2>4, <4>1, <4>2
    <3> QED
      BY <2>2, <3>1 DEF BackSet
  <2>5. errand.track => Range(B) \subseteq W
    <3>1. DOMAIN B = 1 .. Len(B)
      BY <2>1, ElementOfSeq
    <3> QED
      BY <2>4, <3>1 DEF Range
  <2> QED
    BY <1>9, <1>10, <2>1, <2>3, <2>5 DEF Selected, W
<1>11. CASE errand.all
  <2> DEFINE C(i) == AllChains(L[i].tail)
             ss == [n \in 1 .. k |-> BackOver(L[n])]
             tt == [n \in 1 .. k |-> Extended(AllChains(L[n].tail), s, L[n].eid)]
  <2>1. ASSUME NEW i \in 1 .. k
        PROVE  /\ C(i) \in Seq(PathSet) /\ IsInjective(C(i)) /\ Range(C(i)) = WalksTo(L[i].tail)
               /\ tt[i] = Extended(C(i), s, L[i].eid) /\ tt[i] \in Seq(PathSet)
               /\ Len(tt[i]) = Len(C(i)) /\ Len(C(i)) \in Nat
               /\ \A j \in 1 .. Len(C(i)) : C(i)[j] \in PathSet /\ tt[i][j] = Onwards(C(i)[j], s, L[i].eid)
               /\ ss[i] \in Seq(PathSet) /\ Len(ss[i]) = Len(tt[i])
               /\ errand.track => ss[i] = tt[i]
    <3>1. C(i) \in Seq(PathSet) /\ IsInjective(C(i)) /\ Range(C(i)) = WalksTo(L[i].tail)
      BY <1>8 DEF WaysOnce
    <3>2. tt[i] = Extended(C(i), s, L[i].eid) /\ ss[i] = BackOver(L[i])
      OBVIOUS
    <3> HIDE DEF tt, ss
    <3>3. /\ BackOver(L[i]) \in Seq(PathSet) /\ Len(BackOver(L[i])) = Len(C(i)) /\ L[i].eid \in Nat
          /\ errand.track => BackOver(L[i]) = Extended(C(i), s, L[i].eid)
      <4>1. /\ BackOver(L[i]) \in Seq(PathSet) /\ Len(BackOver(L[i])) = Len(PathsTo(L[i].tail)) /\ L[i].eid \in Nat
            /\ errand.track => BackOver(L[i]) = Extended(PathsTo(L[i].tail), s, L[i].eid)
        BY <1>8
      <4>2. /\ Len(PathsTo(L[i].tail)) = Len(AllChains(L[i].tail))
            /\ errand.track => PathsTo(L[i].tail) = AllChains(L[i].tail)
        <5> DEFINE c == L[i]
        <5>1. c \in Range(closing)
          BY <1>1
        <5> HIDE DEF c
        <5>2. /\ Len(PathsTo(c.tail)) = Len(AllChains(c.tail))
              /\ errand.track => PathsTo(c.tail) = AllChains(c.tail)
          BY <1>11, <5>1, BackOverFacts
        <5> QED
          BY <5>2 DEF c
      <4> QED
        BY <4>1, <4>2
    <3> HIDE DEF C
    <3>4. /\ Extended(C(i), s, L[i].eid) \in Seq(PathSet) /\ Len(C(i)) \in Nat
          /\ Len(Extended(C(i), s, L[i].eid)) = Len(C(i))
          /\ \A j \in 1 .. Len(C(i)) :
              C(i)[j] \in PathSet /\ Extended(C(i), s, L[i].eid)[j] = Onwards(C(i)[j], s, L[i].eid)
      BY <1>2, <3>1, <3>3, ExtendedFacts
    <3> QED
      BY <3>1, <3>2, <3>3, <3>4
  <2>2. ss \in Seq(Seq(PathSet)) /\ Len(ss) = k /\ tt \in Seq(Seq(PathSet)) /\ Len(tt) = k
    <3> DEFINE R == Seq(PathSet)
    <3>1. ss \in [1 .. k -> R] /\ tt \in [1 .. k -> R]
      BY <2>1
    <3> HIDE DEF R, ss, tt
    <3>2. ss \in Seq(R) /\ Len(ss) = k /\ tt \in Seq(R) /\ Len(tt) = k
      BY <1>1, <3>1
    <3> QED
      BY <3>2 DEF R
  <2>3. BackPaths = FlattenSeq(ss)
    BY <1>5, <1>11
  <2>4. errand.track => ss = tt
    <3>1. errand.track => \A i \in 1 .. k : BackOver(L[i]) = Extended(AllChains(L[i].tail), s, L[i].eid)
      BY <2>1
    <3> QED
      BY <3>1
  <2> HIDE DEF ss, tt, C
  <2>5. Len(FlattenSeq(ss)) = Len(FlattenSeq(tt))
    <3>1. Len(ss) = Len(tt) /\ \A i \in 1 .. Len(ss) : Len(ss[i]) = Len(tt[i])
      BY <2>1, <2>2
    <3>2. ss \in Seq(Seq(PathSet)) /\ tt \in Seq(Seq(PathSet))
      BY <2>2
    <3> QED
      BY <3>1, <3>2, FlattenedLength, SMTT(30)
  <2>6. \A x : x \in Range(FlattenSeq(tt)) <=> \E i \in 1 .. Len(tt) : \E j \in 1 .. Len(tt[i]) : x = tt[i][j]
    BY <2>2, FlattenedRange
  <2>7. FlattenSeq(ss) \in Seq(PathSet) /\ FlattenSeq(tt) \in Seq(PathSet)
    BY <2>2, FlattenedRange
  <2>8. Range(FlattenSeq(tt)) = W
    <3>1. ASSUME NEW i \in 1 .. k, NEW x
          PROVE  x \in BackSet(L[i]) <=> \E j \in 1 .. Len(tt[i]) : x = tt[i][j]
      <4>1. \A y : y \in WalksTo(L[i].tail) <=> \E j \in 1 .. Len(C(i)) : y = C(i)[j]
        <5>1. DOMAIN C(i) = 1 .. Len(C(i)) /\ Range(C(i)) = WalksTo(L[i].tail)
          BY <2>1, ElementOfSeq
        <5> QED
          BY <5>1 DEF Range
      <4>2. x \in BackSet(L[i]) <=> \E y \in WalksTo(L[i].tail) : x = Onwards(y, s, L[i].eid)
        BY DEF BackSet
      <4> QED
        BY <2>1, <4>1, <4>2
    <3>2. \A x : x \in Range(FlattenSeq(tt)) <=> \E i \in 1 .. k : x \in BackSet(L[i])
      <4> TAKE x
      <4>1. (\E i \in 1 .. k : x \in BackSet(L[i])) <=> \E i \in 1 .. k : \E j \in 1 .. Len(tt[i]) : x = tt[i][j]
        BY <3>1
      <4>2. x \in Range(FlattenSeq(tt)) <=> \E i \in 1 .. k : \E j \in 1 .. Len(tt[i]) : x = tt[i][j]
        BY <2>2, <2>6
      <4> QED
        BY <4>1, <4>2
    <3>3. \A x : x \in Range(FlattenSeq(tt)) <=> x \in W
      BY <1>7, <3>2
    <3> QED
      BY <3>3
  <2>9. IsInjective(FlattenSeq(tt))
    <3>1. ASSUME NEW i \in 1 .. k, NEW n \in 1 .. k, NEW j \in 1 .. Len(tt[i]), NEW l \in 1 .. Len(tt[n]),
                 tt[i][j] = tt[n][l]
          PROVE  i = n /\ j = l
      <4> DEFINE x == C(i)[j]
                 y == C(n)[l]
      <4>1. /\ j \in 1 .. Len(C(i)) /\ l \in 1 .. Len(C(n)) /\ x \in PathSet /\ y \in PathSet
            /\ Onwards(x, s, L[i].eid) = Onwards(y, s, L[n].eid)
        BY <2>1, <3>1
      <4>2. x \in WalksTo(L[i].tail) /\ y \in WalksTo(L[n].tail)
        <5>1. DOMAIN C(i) = 1 .. Len(C(i)) /\ DOMAIN C(n) = 1 .. Len(C(n))
          BY <2>1, ElementOfSeq
        <5>2. x \in Range(C(i)) /\ y \in Range(C(n))
          BY <4>1, <5>1 DEF Range
        <5> QED
          BY <2>1, <5>2
      <4> HIDE DEF x, y
      <4>3. x = y /\ L[i].eid = L[n].eid
        <5>1. L[i].eid \in Nat /\ L[n].eid \in Nat
          BY <1>8
        <5>2. /\ x \in PathSet /\ y \in PathSet /\ s \in Places
              /\ Onwards(x, s, L[i].eid) = Onwards(y, s, L[n].eid)
          BY <1>2, <4>1
        <5> HIDE DEF s
        <5> QED
          BY <5>1, <5>2, OnwardsOnce, SMTT(30)
      <4>4. L[i].tail = L[n].tail
        BY <4>2, <4>3 DEF WalksTo
      <4>5. L[i].len = L[n].len
        <5>1. /\ L[i] \in Range(closing) /\ L[n] \in Range(closing)
              /\ L[i].len <= L[n].len /\ L[n].len <= L[i].len
          BY <1>1
        <5>2. L[i].len \in Nat /\ L[n].len \in Nat
          BY <1>8 DEF ClosingType
        <5> QED
          BY <5>1, <5>2
      <4>6. L[i] = L[n]
        BY <1>8, <4>3, <4>4, <4>5 DEF ClosingType
      <4>7. i = n
        BY <1>1, <1>6, <1>11, <4>6 DEF IsInjective
      <4>8. j = l
        <5>1. C(i) \in Seq(PathSet) /\ IsInjective(C(i)) /\ C(i)[j] = C(i)[l] /\ l \in 1 .. Len(C(i))
          BY <2>1, <4>1, <4>3, <4>7 DEF x, y
        <5>2. DOMAIN C(i) = 1 .. Len(C(i))
          BY <5>1, ElementOfSeq
        <5> QED
          BY <4>1, <5>1, <5>2 DEF IsInjective
      <4> QED
        BY <4>7, <4>8
    <3>2. \A i, n \in 1 .. Len(tt) : \A j \in 1 .. Len(tt[i]), l \in 1 .. Len(tt[n]) :
             tt[i][j] = tt[n][l] => i = n /\ j = l
      BY <2>2, <3>1
    <3> QED
      BY <2>2, <3>2, FlattenedOnce
  <2>10. Len(BackPaths) = Cardinality(W)
    <3> DEFINE F == FlattenSeq(tt)
    <3>1. F \in Seq(PathSet) /\ IsInjective(F) /\ Range(F) = W
      BY <2>7, <2>8, <2>9
    <3> HIDE DEF F
    <3>2. Cardinality(Range(F)) = Len(F)
      BY <3>1, OnceLength
    <3> QED
      BY <2>3, <2>5, <3>1, <3>2 DEF F
  <2>11. errand.track => Range(BackPaths) = W
    BY <2>3, <2>4, <2>8
  <2>12. Len(BackPaths) # 0
    <3> DEFINE F == FlattenSeq(tt)
    <3>1. F \in Seq(PathSet) /\ Range(F) # {}
      BY <1>9, <2>7, <2>8
    <3> HIDE DEF F
    <3>2. DOMAIN F = 1 .. Len(F)
      BY <3>1, ElementOfSeq
    <3>3. Len(F) # 0
      BY <3>1, <3>2 DEF Range
    <3> QED
      BY <2>3, <2>5, <3>3 DEF F
  <2> QED
    BY <1>9, <1>11, <2>3, <2>7, <2>10, <2>11, <2>12 DEF Selected, W
<1> QED
  BY <1>10, <1>11

(* A row, the path it holds, and where the rows to a node are: next to     *)
(* each other, over the paths to it                                        *)
RowSet == [end : Places, nodes : Seq(Places), edges : Seq(Nat)]
RowPath(row) == [nodes |-> row.nodes, edges |-> row.edges]
RowsAt(ans, v) == {n \in DOMAIN ans : ans[n].end = v}
Block(ans, v, paths) ==
  \E off \in Nat :
    /\ RowsAt(ans, v) = off + 1 .. off + Len(paths)
    /\ \A i \in 1 .. Len(paths) : RowPath(ans[off + i]) = paths[i]

(* The rows to a node are exact.                                           *)
ExactAt(e, ans, v) ==
  /\ RowsAt(ans, v) # {} <=> ShortestTo(e, v) # {}
  /\ ShortestTo(e, v) # {} =>
       Cardinality(RowsAt(ans, v)) = IF e.all THEN Cardinality(ShortestTo(e, v)) ELSE 1
  /\ e.track => {RowPath(ans[n]) : n \in RowsAt(ans, v)} \subseteq ShortestTo(e, v)
  /\ e.track /\ e.all => ShortestTo(e, v) \subseteq {RowPath(ans[n]) : n \in RowsAt(ans, v)}

ExactRows(e, ans) ==
  /\ ans \in Seq(RowSet)
  /\ \A v \in Places : (e.targets # {} => v \in e.targets) => ExactAt(e, ans, v)

(* No rows to a node that no walk of the reference ends at, or one block   *)
(* of them over its shortest walks, are exact.                             *)
LEMMA BlockIsExact ==
  ASSUME NEW ans, NEW v,
         \/ RowsAt(ans, v) = {} /\ ShortestTo(errand, v) = {}
         \/ \E paths : Selected(paths, ShortestTo(errand, v)) /\ Block(ans, v, paths)
  PROVE  ExactAt(errand, ans, v)
<1> DEFINE W == ShortestTo(errand, v)
           A == RowsAt(ans, v)
           Q == {RowPath(ans[n]) : n \in A}
<1>1. CASE A = {} /\ W = {}
  BY <1>1 DEF ExactAt
<1>2. CASE \E paths : Selected(paths, W) /\ Block(ans, v, paths)
  <2>1. PICK paths : Selected(paths, W) /\ Block(ans, v, paths)
    BY <1>2
  <2>2. PICK off \in Nat :
          /\ A = off + 1 .. off + Len(paths)
          /\ \A i \in 1 .. Len(paths) : RowPath(ans[off + i]) = paths[i]
    BY <2>1 DEF Block
  <2> HIDE DEF A, W
  <2>3. /\ paths \in Seq(PathSet) /\ Len(paths) # 0 /\ W # {}
        /\ Len(paths) = IF errand.all THEN Cardinality(W) ELSE 1
        /\ errand.track => Range(paths) \subseteq W
        /\ errand.track /\ errand.all => W \subseteq Range(paths)
    BY <2>1 DEF Selected
  <2> DEFINE k == Len(paths)
  <2>4. k \in Nat /\ DOMAIN paths = 1 .. k
    <3>1. paths \in Seq(PathSet)
      BY <2>3
    <3> QED
      BY <3>1, ElementOfSeq
  <2> HIDE DEF k
  <2>6. Cardinality(A) = k
    <3>1. A = off + 1 .. off + k /\ off + 1 \in Int /\ off + k \in Int
      BY <2>2, <2>4 DEF k
    <3>2. Cardinality(off + 1 .. off + k) = IF off + 1 > off + k THEN 0 ELSE (off + k) - (off + 1) + 1
      BY <3>1, FS_Interval
    <3> QED
      BY <2>2, <2>4, <3>1, <3>2
  <2>7. Q = Range(paths)
    <3>1. ASSUME NEW n \in A PROVE RowPath(ans[n]) \in Range(paths)
      <4>1. n - off \in 1 .. k /\ off + (n - off) = n
        BY <2>2, <2>4 DEF k
      <4>2. RowPath(ans[n]) = paths[n - off]
        BY <2>2, <4>1 DEF k
      <4> QED
        BY <2>4, <4>1, <4>2 DEF Range
    <3>2. ASSUME NEW i \in 1 .. k PROVE \E n \in A : paths[i] = RowPath(ans[n])
      <4>1. off + i \in A /\ RowPath(ans[off + i]) = paths[i]
        BY <2>2, <2>4 DEF k
      <4> QED
        BY <4>1
    <3> QED
      BY <2>4, <3>1, <3>2 DEF Range
  <2>8. k # 0
    BY <2>3 DEF k
  <2>9. A # {}
    BY <2>2, <2>4, <2>8 DEF k
  <2> QED
    BY <2>3, <2>6, <2>7, <2>9 DEF ExactAt, A, W, k
<1> QED
  BY <1>1, <1>2

(* What the rows over some paths are                                       *)
LEMMA RowsOverFacts ==
  ASSUME NEW paths \in Seq(PathSet), NEW v \in Places
  PROVE  /\ RowsOver(v, paths) \in Seq(RowSet) /\ Len(RowsOver(v, paths)) = Len(paths) /\ Len(paths) \in Nat
         /\ \A i \in 1 .. Len(paths) :
              RowsOver(v, paths)[i].end = v /\ RowPath(RowsOver(v, paths)[i]) = paths[i]
<1> DEFINE n == Len(paths)
           row(i) == [end |-> v, nodes |-> paths[i].nodes, edges |-> paths[i].edges]
           f == [i \in 1 .. n |-> row(i)]
<1>1. n \in Nat /\ DOMAIN paths = 1 .. n /\ \A i \in 1 .. n : paths[i] \in PathSet
  BY ElementOfSeq
<1>2. RowsOver(v, paths) = f
  BY <1>1 DEF RowsOver
<1>3. ASSUME NEW i \in 1 .. n
      PROVE  row(i) \in RowSet /\ row(i).end = v /\ RowPath(row(i)) = paths[i]
  <2>1. paths[i] \in PathSet
    BY <1>1
  <2>2. \A x \in PathSet : x.nodes \in Seq(Places) /\ x.edges \in Seq(Nat)
                           /\ x = [nodes |-> x.nodes, edges |-> x.edges]
    BY DEF PathSet
  <2> QED
    BY <2>1, <2>2 DEF RowSet, RowPath
<1>4. \A i \in 1 .. n : f[i] = row(i)
  OBVIOUS
<1>5. f \in [1 .. n -> RowSet]
  BY <1>3
<1> HIDE DEF f, n, row
<1>6. f \in Seq(RowSet) /\ Len(f) = n
  <2> DEFINE R == RowSet
  <2>1. f \in [1 .. n -> R]
    BY <1>5
  <2> HIDE DEF R
  <2>2. f \in Seq(R) /\ Len(f) = n
    BY <1>1, <2>1
  <2> QED
    BY <2>2 DEF R
<1>7. \A i \in 1 .. n : f[i].end = v /\ RowPath(f[i]) = paths[i]
  BY <1>3, <1>4
<1> QED
  BY <1>1, <1>2, <1>6, <1>7 DEF n

(* The paths to any known node are paths.                                  *)
LEMMA PathsToType ==
  ASSUME ErrandInv, ListInv, Over, NEW t \in Places, Known(t)
  PROVE  PathsTo(t) \in Seq(PathSet)
<1>1. FirstChain(t) \in PathSet
  BY FirstChainWalks DEF WalksTo
<1>2. AllChains(t) \in Seq(PathSet)
  BY AllChainsOnce DEF WaysOnce
<1>3. PathCount(t) \in Nat
  <2> DEFINE c == AllChains(t)
  <2>1. c \in Seq(PathSet)
    BY <1>2
  <2> HIDE DEF c
  <2>2. Len(c) \in Nat
    BY <2>1, LenProperties
  <2> QED
    BY <2>2, PathCountExact DEF c
<1>4. [i \in 1 .. PathCount(t) |-> NoPath] \in Seq(PathSet)
  BY <1>3, RepeatedIs
<1>5. errand.all \in BOOLEAN /\ errand.track \in BOOLEAN
  BY DEF ErrandInv, ErrandTypeOK, ErrandType
<1>6. \A x \in PathSet : <<x>> \in Seq(PathSet)
  OBVIOUS
<1>7. CASE ~errand.all /\ errand.track
  BY <1>1, <1>6, <1>7 DEF PathsTo
<1>8. CASE ~errand.all /\ ~errand.track
  BY <1>6, <1>8, NoPathIs DEF PathsTo
<1>9. CASE errand.all /\ errand.track
  BY <1>2, <1>9 DEF PathsTo
<1>10. CASE errand.all /\ ~errand.track
  BY <1>4, <1>10 DEF PathsTo
<1> QED
  BY <1>5, <1>7, <1>8, <1>9, <1>10

(* The rows that end at a node are in one place of a list of lists of them *)
(* when the lists are of different nodes.                                  *)
EndsAre(ss, ends) ==
  /\ DOMAIN ends = 1 .. Len(ss) /\ IsInjective(ends)
  /\ \A i \in 1 .. Len(ss) : \A j \in 1 .. Len(ss[i]) : ss[i][j].end = ends[i]
Lies(rows, flat, v) ==
  \E off \in Nat :
    /\ RowsAt(flat, v) = off + 1 .. off + Len(rows)
    /\ \A j \in 1 .. Len(rows) : off + j \in 1 .. Len(flat) /\ flat[off + j] = rows[j]
Together(ss, ends, flat, v) ==
  /\ v \notin Range(ends) => RowsAt(flat, v) = {}
  /\ \A i \in 1 .. Len(ss) : ends[i] = v => Lies(ss[i], flat, v)

(* The rows that end at a node are in one place of a list of lists of them *)
(* when the lists are of different nodes.                                  *)
LEMMA RowsTogether ==
  ASSUME NEW ss \in Seq(Seq(RowSet)), NEW ends, EndsAre(ss, ends), NEW v
  PROVE  Together(ss, ends, FlattenSeq(ss), v)
<1>0. /\ DOMAIN ends = 1 .. Len(ss) /\ IsInjective(ends)
      /\ \A i \in 1 .. Len(ss) : \A j \in 1 .. Len(ss[i]) : ss[i][j].end = ends[i]
  BY DEF EndsAre
<1>1. PICK at : FlatAt(ss, FlattenSeq(ss), at)
  BY Flattened
<1> DEFINE flat == FlattenSeq(ss)
           n == Len(ss)
<1>2. flat \in Seq(RowSet)
  BY Flattened
<1>3. n \in Nat /\ \A i \in 1 .. n : Len(ss[i]) \in Nat
  <2>1. n \in Nat /\ \A i \in 1 .. n : ss[i] \in Seq(RowSet)
    BY ElementOfSeq
  <2> QED
    BY <2>1, LenProperties
<1> HIDE DEF flat, n
<1>4. /\ \A i \in 0 .. n : at[i] \in Nat
      /\ \A i \in 1 .. n : \A j \in 1 .. Len(ss[i]) :
           at[i - 1] + j \in 1 .. Len(flat) /\ flat[at[i - 1] + j] = ss[i][j]
      /\ \A k \in 1 .. Len(flat) : \E i \in 1 .. n : \E j \in 1 .. Len(ss[i]) : k = at[i - 1] + j
  BY <1>1 DEF FlatAt, flat, n
<1>5. DOMAIN flat = 1 .. Len(flat) /\ Len(flat) \in Nat
  BY <1>2, ElementOfSeq
<1>6. ASSUME NEW k \in RowsAt(flat, v)
      PROVE  \E i \in 1 .. n : ends[i] = v /\ \E j \in 1 .. Len(ss[i]) : k = at[i - 1] + j
  <2>1. k \in 1 .. Len(flat) /\ flat[k].end = v
    BY <1>5 DEF RowsAt
  <2>2. PICK i \in 1 .. n : \E j \in 1 .. Len(ss[i]) : k = at[i - 1] + j
    BY <1>4, <2>1
  <2>3. PICK j \in 1 .. Len(ss[i]) : k = at[i - 1] + j
    BY <2>2
  <2>4. flat[k] = ss[i][j]
    BY <1>4, <2>3
  <2>5. ss[i][j].end = ends[i]
    BY <1>0 DEF n
  <2> QED
    BY <2>1, <2>3, <2>4, <2>5
<1>7. ASSUME v \notin Range(ends) PROVE RowsAt(flat, v) = {}
  <2>1. \A i \in 1 .. n : ends[i] # v
    BY <1>0, <1>7 DEF Range, n
  <2> QED
    BY <1>6, <2>1
<1>8. ASSUME NEW i \in 1 .. n, ends[i] = v
      PROVE  Lies(ss[i], flat, v)
  <2> DEFINE off == at[i - 1]
             m == Len(ss[i])
  <2>1. off \in Nat /\ m \in Nat
    BY <1>3, <1>4
  <2>2. \A j \in 1 .. m : off + j \in 1 .. Len(flat) /\ flat[off + j] = ss[i][j]
    BY <1>4
  <2>3. ASSUME NEW k \in RowsAt(flat, v) PROVE \E j \in 1 .. m : k = off + j
    <3>1. PICK o \in 1 .. n : ends[o] = v /\ \E j \in 1 .. Len(ss[o]) : k = at[o - 1] + j
      BY <1>6
    <3>2. o = i
      BY <1>0, <1>8, <3>1 DEF IsInjective, n
    <3> QED
      BY <3>1, <3>2
  <2>4. ASSUME NEW j \in 1 .. m PROVE off + j \in RowsAt(flat, v)
    <3>1. off + j \in DOMAIN flat /\ flat[off + j] = ss[i][j]
      BY <1>5, <2>2
    <3>2. ss[i][j].end = v
      BY <1>0, <1>8 DEF n
    <3> QED
      BY <3>1, <3>2 DEF RowsAt
  <2> HIDE DEF off, m
  <2>5. RowsAt(flat, v) = off + 1 .. off + m
    <3>1. \A k \in RowsAt(flat, v) : k \in off + 1 .. off + m
      BY <2>1, <2>3
    <3>2. ASSUME NEW k \in off + 1 .. off + m PROVE k \in RowsAt(flat, v)
      <4>1. k - off \in 1 .. m /\ off + (k - off) = k
        BY <2>1
      <4> QED
        BY <2>4, <4>1
    <3> QED
      BY <3>1, <3>2
  <2> QED
    BY <2>1, <2>2, <2>5 DEF off, m, Lies
<1> QED
  BY <1>7, <1>8 DEF flat, n, Together

(* The rows of Report, those of the ways forth and those of the ways back  *)
RowsForth == FlattenSeq([n \in DOMAIN sighted |-> RowsTo(sighted[n])])

(* The rows to a node that is not the source, or to any when a path of no  *)
(* hops will do, are the ones over the paths to it.                        *)
LEMMA RowsForthAre ==
  ASSUME ErrandInv, ListInv, Over, errand.min \in 0 .. 1
  PROVE  /\ RowsForth \in Seq(RowSet)
         /\ \A v \in Places :
              /\ ~Known(v) => RowsAt(RowsForth, v) = {}
              /\ errand.min = 1 /\ v = errand.start => RowsAt(RowsForth, v) = {}
              /\ Known(v) /\ (errand.min = 1 => v # errand.start) =>
                   \E off \in Nat :
                     /\ RowsAt(RowsForth, v) = off + 1 .. off + Len(PathsTo(v))
                     /\ \A j \in 1 .. Len(PathsTo(v)) :
                          /\ off + j \in 1 .. Len(RowsForth)
                          /\ RowPath(RowsForth[off + j]) = PathsTo(v)[j]
<1> DEFINE n == Len(sighted)
           ss == [i \in 1 .. n |-> RowsTo(sighted[i])]
           Goes(v) == errand.min = 1 => v # errand.start
<1>1. sighted \in Seq(Places) /\ errand.start \in Places /\ errand.min \in Nat
  BY DEF ErrandInv, ErrandTypeOK, ErrandType
<1>2. n \in Nat /\ DOMAIN sighted = 1 .. n /\ \A i \in 1 .. n : sighted[i] \in Places
  BY <1>1, ElementOfSeq
<1>3. /\ \A v \in Places : Known(v) <=> \E i \in 1 .. n : sighted[i] = v
      /\ IsInjective(sighted) /\ Range(sighted) = {v \in Places : Known(v)}
  BY <1>2 DEF ListInv, SightedInv, Range
<1> HIDE DEF n
<1>4. ASSUME NEW v \in Places, Known(v)
      PROVE  /\ Goes(v) => RowsTo(v) = RowsOver(v, PathsTo(v))
             /\ ~Goes(v) => RowsTo(v) = <<>>
             /\ RowsTo(v) \in Seq(RowSet)
             /\ \A j \in 1 .. Len(RowsTo(v)) : RowsTo(v)[j].end = v
             /\ PathsTo(v) \in Seq(PathSet)
  <2>1. PathsTo(v) \in Seq(PathSet)
    BY <1>4, PathsToType
  <2>2. /\ RowsOver(v, PathsTo(v)) \in Seq(RowSet) /\ Len(RowsOver(v, PathsTo(v))) = Len(PathsTo(v))
        /\ \A i \in 1 .. Len(PathsTo(v)) : RowsOver(v, PathsTo(v))[i].end = v
    BY <2>1, RowsOverFacts
  <2>3. <<>> \in Seq(RowSet) /\ Len(<<>>) = 0
    OBVIOUS
  <2>4. dist[v] \in Nat /\ (v # errand.start => dist[v] # 0) /\ dist[errand.start] = 0
    BY <1>4, KnownFacts
  <2>5. CASE Goes(v)
    <3>1. ~(dist[v] < errand.min)
      BY <2>4, <2>5
    <3>2. RowsTo(v) = RowsOver(v, PathsTo(v))
      BY <3>1 DEF RowsTo
    <3> QED
      BY <2>1, <2>2, <2>5, <3>2
  <2>6. CASE ~Goes(v)
    <3>1. dist[v] < errand.min
      BY <2>4, <2>6
    <3>2. RowsTo(v) = <<>>
      BY <3>1 DEF RowsTo
    <3> QED
      BY <2>1, <2>3, <2>6, <3>2
  <2> QED
    BY <2>5, <2>6
<1>5. RowsForth = FlattenSeq(ss)
  BY <1>2 DEF RowsForth
<1>6. \A i \in 1 .. n : ss[i] = RowsTo(sighted[i]) /\ Known(sighted[i]) /\ sighted[i] \in Places
  BY <1>2, <1>3
<1>7. ss \in Seq(Seq(RowSet)) /\ Len(ss) = n
  <2> DEFINE R == Seq(RowSet)
  <2>1. ss \in [1 .. n -> R]
    BY <1>4, <1>6
  <2> HIDE DEF R, ss
  <2>2. ss \in Seq(R) /\ Len(ss) = n
    BY <1>2, <2>1
  <2> QED
    BY <2>2 DEF R
<1> HIDE DEF ss
<1>8. \A i \in 1 .. Len(ss) : \A j \in 1 .. Len(ss[i]) : ss[i][j].end = sighted[i]
  <2> SUFFICES ASSUME NEW i \in 1 .. n, NEW j \in 1 .. Len(ss[i]) PROVE ss[i][j].end = sighted[i]
    BY <1>7
  <2> DEFINE v == sighted[i]
  <2>1. v \in Places /\ Known(v) /\ ss[i] = RowsTo(v)
    BY <1>6
  <2> HIDE DEF v
  <2>2. \A k \in 1 .. Len(RowsTo(v)) : RowsTo(v)[k].end = v
    BY <1>4, <2>1
  <2> QED
    BY <2>1, <2>2 DEF v
<1>9. ASSUME NEW v PROVE Together(ss, sighted, RowsForth, v)
  <2>1. EndsAre(ss, sighted)
    BY <1>2, <1>3, <1>7, <1>8 DEF EndsAre
  <2>2. ss \in Seq(Seq(RowSet))
    BY <1>7
  <2> QED
    BY <1>5, <2>1, <2>2, RowsTogether
<1>10. RowsForth \in Seq(RowSet)
  BY <1>5, <1>7, Flattened
<1>11. ASSUME NEW v \in Places, Known(v) PROVE Lies(RowsTo(v), RowsForth, v)
  <2>1. PICK i \in 1 .. n : sighted[i] = v
    BY <1>3, <1>11
  <2>2. ss[i] = RowsTo(v) /\ i \in 1 .. Len(ss)
    BY <1>6, <1>7, <2>1
  <2>3. Lies(ss[i], RowsForth, v)
    BY <1>9, <2>1, <2>2 DEF Together
  <2> QED
    BY <2>2, <2>3
<1>12. ASSUME NEW v \in Places, ~Known(v) PROVE RowsAt(RowsForth, v) = {}
  <2>1. v \notin Range(sighted)
    BY <1>3, <1>12
  <2> QED
    BY <1>9, <2>1 DEF Together
<1>13. ASSUME NEW v \in Places, ~Goes(v) PROVE RowsAt(RowsForth, v) = {}
  <2>1. CASE ~Known(v)
    BY <1>12, <2>1
  <2>2. CASE Known(v)
    <3>1. RowsTo(v) = <<>> /\ Len(RowsTo(v)) = 0
      BY <1>4, <1>13, <2>2
    <3>2. PICK off \in Nat : RowsAt(RowsForth, v) = off + 1 .. off + Len(RowsTo(v))
      BY <1>11, <2>2 DEF Lies
    <3>3. off + 1 .. off + 0 = {}
      OBVIOUS
    <3> QED
      BY <3>1, <3>2, <3>3
  <2> QED
    BY <2>1, <2>2
<1>14. ASSUME NEW v \in Places, Known(v), Goes(v)
       PROVE  \E off \in Nat :
                /\ RowsAt(RowsForth, v) = off + 1 .. off + Len(PathsTo(v))
                /\ \A j \in 1 .. Len(PathsTo(v)) :
                     off + j \in 1 .. Len(RowsForth) /\ RowPath(RowsForth[off + j]) = PathsTo(v)[j]
  <2>1. RowsTo(v) = RowsOver(v, PathsTo(v)) /\ PathsTo(v) \in Seq(PathSet)
    BY <1>4, <1>14
  <2>2. /\ Len(RowsTo(v)) = Len(PathsTo(v))
        /\ \A i \in 1 .. Len(PathsTo(v)) : RowPath(RowsTo(v)[i]) = PathsTo(v)[i]
    BY <2>1, RowsOverFacts
  <2>3. PICK off \in Nat :
                /\ RowsAt(RowsForth, v) = off + 1 .. off + Len(RowsTo(v))
                /\ \A j \in 1 .. Len(RowsTo(v)) :
                     off + j \in 1 .. Len(RowsForth) /\ RowsForth[off + j] = RowsTo(v)[j]
    BY <1>11, <1>14 DEF Lies
  <2> QED
    BY <2>2, <2>3
<1> QED
  BY <1>10, <1>12, <1>13, <1>14

(* After the rows of the ways forth, those of the ways back                *)
LEMMA RowsJoined ==
  ASSUME NEW a \in Seq(RowSet), NEW b \in Seq(RowSet), NEW v
  PROVE  /\ a \o b \in Seq(RowSet)
         /\ RowsAt(b, v) = {} => RowsAt(a \o b, v) = RowsAt(a, v)
         /\ RowsAt(a, v) = {} => RowsAt(a \o b, v) = {Len(a) + j : j \in RowsAt(b, v)}
         /\ \A j \in 1 .. Len(a) : (a \o b)[j] = a[j]
         /\ \A j \in 1 .. Len(b) : (a \o b)[Len(a) + j] = b[j]
         /\ Len(a) \in Nat /\ Len(b) \in Nat /\ DOMAIN a = 1 .. Len(a) /\ DOMAIN b = 1 .. Len(b)
<1> DEFINE c == a \o b
           m == Len(a)
           k == Len(b)
<1>1. /\ c \in Seq(RowSet) /\ Len(c) = m + k /\ m \in Nat /\ k \in Nat
      /\ \A j \in 1 .. m : c[j] = a[j]
      /\ \A j \in 1 .. k : c[m + j] = b[j]
  BY Joint
<1> HIDE DEF c
<1>2. DOMAIN a = 1 .. m /\ DOMAIN b = 1 .. k /\ DOMAIN c = 1 .. m + k
  BY <1>1, ElementOfSeq
<1> HIDE DEF m, k
<1>3. \A j \in 1 .. m : j \in RowsAt(c, v) <=> j \in RowsAt(a, v)
  <2>1. \A j \in 1 .. m : j \in 1 .. m + k
    BY <1>1
  <2> QED
    BY <1>1, <1>2, <2>1 DEF RowsAt
<1>4. \A j \in 1 .. k : m + j \in RowsAt(c, v) <=> j \in RowsAt(b, v)
  <2>1. \A j \in 1 .. k : m + j \in 1 .. m + k
    BY <1>1
  <2> QED
    BY <1>1, <1>2, <2>1 DEF RowsAt
<1>5. ASSUME NEW i \in 1 .. m + k PROVE i \in 1 .. m \/ \E j \in 1 .. k : i = m + j
  <2>1. CASE i <= m
    BY <1>1, <2>1
  <2>2. CASE ~(i <= m)
    <3>1. i - m \in 1 .. k /\ i = m + (i - m)
      BY <1>1, <2>2
    <3> QED
      BY <3>1
  <2> QED
    BY <2>1, <2>2
<1>6. \A i \in RowsAt(c, v) : i \in 1 .. m + k
  BY <1>2 DEF RowsAt
<1>7. \A j \in RowsAt(a, v) : j \in 1 .. m
  BY <1>2 DEF RowsAt
<1>8. \A j \in RowsAt(b, v) : j \in 1 .. k
  BY <1>2 DEF RowsAt
<1>9. RowsAt(b, v) = {} => RowsAt(c, v) = RowsAt(a, v)
  BY <1>3, <1>4, <1>5, <1>6, <1>7
<1>10. ASSUME RowsAt(a, v) = {} PROVE RowsAt(c, v) = {m + j : j \in RowsAt(b, v)}
  <2>1. ASSUME NEW i \in RowsAt(c, v) PROVE \E j \in RowsAt(b, v) : i = m + j
    <3>1. i \in 1 .. m \/ \E j \in 1 .. k : i = m + j
      BY <1>5, <1>6
    <3>2. i \notin 1 .. m
      BY <1>3, <1>10
    <3>3. PICK j \in 1 .. k : i = m + j
      BY <3>1, <3>2
    <3>4. j \in RowsAt(b, v)
      BY <1>4, <3>3
    <3> QED
      BY <3>3, <3>4
  <2>2. ASSUME NEW j \in RowsAt(b, v) PROVE m + j \in RowsAt(c, v)
    BY <1>4, <1>8
  <2> QED
    BY <2>1, <2>2
<1> QED
  BY <1>1, <1>2, <1>9, <1>10 DEF c, m, k

(* The rows of a search that takes paths of no hops or of one hop at least *)
(* are exact.                                                              *)
LEMMA AnswersAreExact ==
  ASSUME ErrandInv, ListInv, Over, errand.min \in 0 .. 1,
         errand.all /\ errand.min = 1 => ~LoopBothWays
  PROVE  ExactRows(errand, RowsForth \o RowsBack)
<1> DEFINE ans == RowsForth \o RowsBack
           s == errand.start
           F == RowsForth
           R == RowsBack
<1>1. s \in Places /\ closing \in Seq(ClosingType)
  BY DEF ErrandInv, ErrandTypeOK, ErrandType, ClosingType
<1>2. /\ F \in Seq(RowSet)
      /\ \A v \in Places :
              /\ ~Known(v) => RowsAt(F, v) = {}
              /\ errand.min = 1 /\ v = s => RowsAt(F, v) = {}
              /\ Known(v) /\ (errand.min = 1 => v # s) =>
                   \E off \in Nat :
                     /\ RowsAt(F, v) = off + 1 .. off + Len(PathsTo(v))
                     /\ \A j \in 1 .. Len(PathsTo(v)) :
                          /\ off + j \in 1 .. Len(F)
                          /\ RowPath(F[off + j]) = PathsTo(v)[j]
  BY RowsForthAre
<1>3. closing = <<>> => R = <<>>
  <2> SUFFICES ASSUME closing = <<>> PROVE R = <<>>
    OBVIOUS
  <2> DEFINE L == Shortest(closing)
  <2>1. Range(closing) = {}
    BY DEF Range
  <2>2. L \in Seq(ClosingType) /\ Range(L) = {}
    BY <1>1, <2>1, ShortestFacts
  <2> HIDE DEF L
  <2>3. L = <<>>
    <3> DEFINE T == ClosingType
    <3>1. L \in Seq(T)
      BY <2>2
    <3> HIDE DEF T
    <3>2. DOMAIN L = 1 .. Len(L) /\ Len(L) \in Nat
      BY <3>1
    <3>3. Len(L) = 0
      <4>1. \A i \in 1 .. Len(L) : L[i] \in Range(L)
        BY <3>2 DEF Range
      <4>2. ~(1 \in 1 .. Len(L))
        BY <2>2, <4>1
      <4> QED
        BY <3>2, <4>2
    <3> QED
      BY <3>1, <3>3, EmptySeq
  <2> QED
    BY <2>3, RowsBackIs DEF L
<1>4. closing # <<>> => errand.min = 1
  BY DEF ListInv, ClosingInv
<1>5. closing # <<>> =>
        /\ Selected(BackPaths, ShortestTo(errand, s)) /\ R = RowsOver(s, BackPaths)
        /\ BackPaths \in Seq(PathSet)
  BY <1>4, BackSelected, LeastBack DEF Selected
<1>6. closing # <<>> =>
        /\ R \in Seq(RowSet) /\ Len(R) = Len(BackPaths) /\ Len(BackPaths) \in Nat
        /\ \A i \in 1 .. Len(BackPaths) : R[i].end = s /\ RowPath(R[i]) = BackPaths[i]
  BY <1>1, <1>5, RowsOverFacts
<1> HIDE DEF R
<1>7. /\ R \in Seq(RowSet) /\ \A i \in DOMAIN R : R[i].end = s
  <2>1. <<>> \in Seq(RowSet) /\ DOMAIN <<>> = {}
    OBVIOUS
  <2>2. CASE closing = <<>>
    BY <1>3, <2>1, <2>2
  <2>3. CASE closing # <<>>
    <3>1. DOMAIN R = 1 .. Len(R)
      BY <1>6, <2>3, ElementOfSeq
    <3> QED
      BY <1>6, <2>3, <3>1
  <2> QED
    BY <2>2, <2>3
<1> HIDE DEF F
<1>8. ASSUME NEW v
      PROVE  /\ ans \in Seq(RowSet)
             /\ RowsAt(R, v) = {} => RowsAt(ans, v) = RowsAt(F, v)
             /\ RowsAt(F, v) = {} => RowsAt(ans, v) = {Len(F) + j : j \in RowsAt(R, v)}
             /\ \A j \in 1 .. Len(F) : ans[j] = F[j]
             /\ \A j \in 1 .. Len(R) : ans[Len(F) + j] = R[j]
             /\ Len(F) \in Nat /\ Len(R) \in Nat /\ DOMAIN F = 1 .. Len(F) /\ DOMAIN R = 1 .. Len(R)
  <2>1. ans = F \o R
    BY DEF F, R
  <2> HIDE DEF ans
  <2>2. F \in Seq(RowSet) /\ R \in Seq(RowSet)
    BY <1>2, <1>7
  <2> QED
    BY <2>1, <2>2, RowsJoined
<1> HIDE DEF ans
<1>9. ASSUME NEW v \in Places, errand.targets # {} => v \in errand.targets
      PROVE  \/ RowsAt(ans, v) = {} /\ ShortestTo(errand, v) = {}
             \/ \E paths : Selected(paths, ShortestTo(errand, v)) /\ Block(ans, v, paths)
  <2>1. CASE errand.min = 0 \/ v # s
    <3>1. RowsAt(R, v) = {}
      <4>1. CASE v # s
        BY <1>7, <4>1 DEF RowsAt
      <4>2. CASE errand.min = 0
        <5>1. R = <<>>
          BY <1>3, <1>4, <4>2
        <5>2. DOMAIN R = {}
          BY <5>1
        <5> QED
          BY <5>2 DEF RowsAt
      <4> QED
        BY <2>1, <4>1, <4>2
    <3>2. RowsAt(ans, v) = RowsAt(F, v)
      BY <1>8, <3>1
    <3>3. ShortestTo(errand, v) = IF Known(v) THEN WalksTo(v) ELSE {}
      <4>1. errand.min = 0 \/ (errand.min = 1 /\ v # errand.start)
        BY <2>1
      <4> QED
        BY <1>9, <4>1, ShortestToIs
    <3>4. CASE ~Known(v)
      BY <1>2, <3>2, <3>3, <3>4
    <3>5. CASE Known(v)
      <4>1. Selected(PathsTo(v), WalksTo(v))
        BY <1>9, <3>5, KnownIsNear, PathsToAre
      <4>2. PICK off \in Nat :
                     /\ RowsAt(F, v) = off + 1 .. off + Len(PathsTo(v))
                     /\ \A j \in 1 .. Len(PathsTo(v)) :
                          /\ off + j \in 1 .. Len(F)
                          /\ RowPath(F[off + j]) = PathsTo(v)[j]
        BY <1>2, <2>1, <3>5
      <4>3. \A j \in 1 .. Len(PathsTo(v)) : RowPath(ans[off + j]) = PathsTo(v)[j]
        BY <1>8, <4>2
      <4>4. Block(ans, v, PathsTo(v))
        BY <3>2, <4>2, <4>3 DEF Block
      <4> QED
        BY <3>3, <3>5, <4>1, <4>4
    <3> QED
      BY <3>4, <3>5
  <2>2. CASE errand.min = 1 /\ v = s
    <3>1. RowsAt(F, v) = {}
      BY <1>1, <1>2, <2>2
    <3>2. RowsAt(ans, v) = {Len(F) + j : j \in RowsAt(R, v)}
      BY <1>8, <3>1
    <3>3. RowsAt(R, v) = 1 .. Len(R) /\ Len(R) \in Nat /\ Len(F) \in Nat
      BY <1>7, <1>8, <2>2 DEF RowsAt
    <3>4. CASE closing = <<>>
      <4>1. DOMAIN R = {}
        BY <1>3, <3>4
      <4>2. RowsAt(ans, v) = {}
        BY <3>2, <4>1 DEF RowsAt
      <4>3. Range(closing) = {}
        BY <3>4 DEF Range
      <4>4. ShortestTo(errand, v) = {}
        BY <2>2, <4>3, ShortestBackIs
      <4> QED
        BY <4>2, <4>4
    <3>5. CASE closing # <<>>
      <4> DEFINE P == BackPaths
                 off == Len(F)
                 k == Len(R)
      <4>1. Selected(P, ShortestTo(errand, v)) /\ Len(P) = k
        BY <1>5, <1>6, <2>2, <3>5
      <4>2. RowsAt(ans, v) = off + 1 .. off + k
        <5>1. RowsAt(ans, v) = {off + j : j \in 1 .. k} /\ off \in Nat /\ k \in Nat
          BY <3>2, <3>3
        <5> HIDE DEF off, k
        <5>2. ASSUME NEW i \in off + 1 .. off + k PROVE \E j \in 1 .. k : i = off + j
          <6>1. i - off \in 1 .. k /\ i = off + (i - off)
            BY <5>1
          <6> QED
            BY <6>1
        <5>3. \A j \in 1 .. k : off + j \in off + 1 .. off + k
          BY <5>1
        <5> QED
          BY <5>1, <5>2, <5>3
      <4>3. \A j \in 1 .. k : RowPath(ans[off + j]) = P[j]
        BY <1>6, <1>8, <3>5
      <4>4. Block(ans, v, P)
        <5>1. off \in Nat
          BY <3>3
        <5> HIDE DEF P, off, k
        <5> QED
          BY <4>1, <4>2, <4>3, <5>1 DEF Block
      <4> QED
        BY <4>1, <4>4
    <3> QED
      BY <3>4, <3>5
  <2> QED
    BY <2>1, <2>2
<1>10. ans \in Seq(RowSet)
  BY <1>8
<1>11. ExactRows(errand, ans)
  BY <1>9, <1>10, BlockIsExact DEF ExactRows
<1> QED
  BY <1>11 DEF ans

(* Rows that are exact at each node are what the reference asks for.       *)
LEMMA ExactRowsShortest ==
  ASSUME errand \in ErrandType, ExactRows(errand, answers)
  PROVE  ShortestPathsAreExact
<1> DEFINE Asked(v) == errand.targets # {} => v \in errand.targets
           walks == {w \in ShortestWalks : Asked(Last(w.nodes))}
           ends == {Last(w.nodes) : w \in walks}
           at(v) == {n \in Kept : answers[n].end = v}
           path(n) == [nodes |-> answers[n].nodes, edges |-> answers[n].edges]
           shortest(v) == {w \in walks : Last(w.nodes) = v}
<1>1. /\ answers \in Seq(RowSet)
      /\ \A v \in Places : Asked(v) => ExactAt(errand, answers, v)
  BY DEF ExactRows
<1>2. \A n \in DOMAIN answers : answers[n].end \in Places
  <2>1. answers \in Seq(RowSet)
    BY <1>1
  <2>2. \A n \in DOMAIN answers : answers[n] \in RowSet
    BY <2>1, ElementOfSeq
  <2> QED
    BY <2>2 DEF RowSet
<1>3. \A v, w : w \in ShortestTo(errand, v) => w \in PathSet /\ Last(w.nodes) = v
  BY DEF ShortestTo
<1>4. \A w : w \in ShortestWalks <=>
           w \in PathSet /\ Last(w.nodes) \in Places /\ w \in ShortestTo(errand, Last(w.nodes))
  BY ShortestWalksAre
<1>5. \A v \in Places : Asked(v) => shortest(v) = ShortestTo(errand, v)
  <2> SUFFICES ASSUME NEW v \in Places, Asked(v) PROVE shortest(v) = ShortestTo(errand, v)
    OBVIOUS
  <2>1. ASSUME NEW w \in shortest(v) PROVE w \in ShortestTo(errand, v)
    BY <1>4
  <2>2. ASSUME NEW w \in ShortestTo(errand, v) PROVE w \in shortest(v)
    <3>1. w \in PathSet /\ Last(w.nodes) = v
      BY <1>3
    <3>2. w \in ShortestWalks
      BY <1>4, <3>1
    <3> QED
      BY <3>1, <3>2
  <2> HIDE DEF shortest
  <2> QED
    BY <2>1, <2>2
<1>6. \A v : v \in ends <=> v \in Places /\ Asked(v) /\ ShortestTo(errand, v) # {}
  <2> TAKE v
  <2>1. v \in ends <=> \E w \in ShortestWalks : Asked(Last(w.nodes)) /\ v = Last(w.nodes)
    OBVIOUS
  <2> HIDE DEF ends
  <2>2. ASSUME v \in ends PROVE v \in Places /\ Asked(v) /\ ShortestTo(errand, v) # {}
    BY <1>4, <2>1, <2>2
  <2>3. ASSUME v \in Places, Asked(v), ShortestTo(errand, v) # {} PROVE v \in ends
    <3>1. PICK w : w \in ShortestTo(errand, v)
      BY <2>3
    <3>2. w \in PathSet /\ Last(w.nodes) = v
      BY <1>3, <3>1
    <3>3. w \in ShortestWalks
      BY <1>4, <2>3, <3>1, <3>2
    <3> QED
      BY <2>1, <2>3, <3>2, <3>3
  <2> QED
    BY <2>2, <2>3
<1>7. \A v \in Places : Asked(v) => at(v) = RowsAt(answers, v)
  BY DEF Kept, RowsAt
<1>8. \A n \in DOMAIN answers : path(n) = RowPath(answers[n])
  BY DEF RowPath
<1>9. {answers[n].end : n \in Kept} = ends
  <2>1. ASSUME NEW n \in Kept PROVE answers[n].end \in ends
    <3> DEFINE v == answers[n].end
    <3>1. v \in Places /\ Asked(v) /\ n \in RowsAt(answers, v)
      BY <1>2 DEF Kept, RowsAt
    <3> HIDE DEF v, ends
    <3>2. ShortestTo(errand, v) # {}
      BY <1>1, <3>1 DEF ExactAt
    <3>3. v \in ends
      BY <1>6, <3>1, <3>2
    <3> QED
      BY <3>3 DEF v
  <2>2. ASSUME NEW v \in ends PROVE \E n \in Kept : v = answers[n].end
    <3> HIDE DEF ends
    <3>1. v \in Places /\ Asked(v) /\ ShortestTo(errand, v) # {}
      BY <1>6
    <3>2. RowsAt(answers, v) # {}
      BY <1>1, <3>1 DEF ExactAt
    <3> QED
      BY <3>1, <3>2 DEF RowsAt, Kept
  <2> HIDE DEF ends
  <2> QED
    BY <2>1, <2>2
<1>10. ASSUME NEW v \in ends
       PROVE  /\ Cardinality(at(v)) = IF errand.all THEN Cardinality(shortest(v)) ELSE 1
              /\ errand.track =>
                  /\ {path(n) : n \in at(v)} \subseteq shortest(v)
                  /\ errand.all => shortest(v) \subseteq {path(n) : n \in at(v)}
  <2> HIDE DEF ends
  <2>1. v \in Places /\ Asked(v) /\ ShortestTo(errand, v) # {}
    BY <1>6
  <2>2. at(v) = RowsAt(answers, v) /\ shortest(v) = ShortestTo(errand, v)
    BY <1>5, <1>7, <2>1
  <2>3. \A n \in RowsAt(answers, v) : path(n) = RowPath(answers[n])
    BY <1>8 DEF RowsAt
  <2> HIDE DEF at, shortest, path
  <2>4. {path(n) : n \in at(v)} = {RowPath(answers[n]) : n \in RowsAt(answers, v)}
    BY <2>2, <2>3
  <2>5. ExactAt(errand, answers, v)
    BY <1>1, <2>1
  <2> QED
    BY <2>1, <2>2, <2>4, <2>5 DEF ExactAt
<1> QED
  BY <1>9, <1>10 DEF ShortestPathsAreExact

(* A loop at the source, walked as an undirected edge and as a way back,   *)
(* stands in both adjacency lists and ends two ways back.                  *)
LoopTwice == errand.all /\ errand.min >= 1 /\ LoopBothWays

RowsInv == reported /\ errand.min <= 1 /\ ~LoopTwice => ExactRows(errand, answers)

(* Report writes exact rows.                                               *)
LEMMA ReportExact ==
  ASSUME ErrandInv, ListInv, Report
  PROVE  RowsInv'
<1> SUFFICES ASSUME errand'.min <= 1, ~LoopTwice'
             PROVE  ExactRows(errand', answers')
  BY DEF RowsInv
<1>1. errand' = errand /\ answers' = RowsForth \o RowsBack /\ Over
  BY DEF Report, RowsForth, Over
<1>2. LoopTwice' <=> LoopTwice
  BY <1>1 DEF LoopTwice, LoopBothWays, ToStart, AdjsOf
<1>3. errand.min \in Nat
  BY DEF ErrandInv, ErrandTypeOK, ErrandType
<1>4. errand.min \in 0 .. 1
  BY <1>1, <1>3
<1>5. errand.all /\ errand.min = 1 => ~LoopBothWays
  BY <1>2 DEF LoopTwice
<1>6. ExactRows(errand, RowsForth \o RowsBack)
  BY <1>1, <1>4, <1>5, AnswersAreExact
<1> QED
  BY <1>1, <1>6

(* Rows that are out stay as they are.                                     *)
LEMMA RowsNextInv == ErrandInv /\ ListInv /\ RowsInv /\ [ErrandNext]_errandVars => RowsInv'
<1> SUFFICES ASSUME ErrandInv, ListInv, RowsInv, [ErrandNext]_errandVars
             PROVE  RowsInv'
  OBVIOUS
<1>1. CASE Report
  BY <1>1, ReportExact
<1>2. CASE UNCHANGED <<errand, answers, reported>>
  <2>1. LoopTwice' <=> LoopTwice
    BY <1>2 DEF LoopTwice, LoopBothWays, ToStart, AdjsOf
  <2> QED
    BY <1>2, <2>1 DEF RowsInv
<1>3. Report \/ UNCHANGED <<errand, answers, reported>>
  BY DEF ErrandNext, StopSearch, Expand, Sight, Rejoin, LookPast, Look, errandVars
<1> QED
  BY <1>1, <1>2, <1>3

(* ANY SHORTEST and ALL SHORTEST answer the shortest paths: for every      *)
(* graph, source, direction, upper bound and filter, the rows of           *)
(* shortest_path are those of the reference - each node that a path        *)
(* reaches, once over one of its shortest paths, or once for each of them  *)
(* - with `*` or `+` for the lower bound. Left out is ALL SHORTEST over an *)
(* undirected loop at the source, which the code walks once from either    *)
(* adjacency list, and lower bounds above one, which the code applies to   *)
(* the shortest distance.                                                  *)
THEOREM ShortestPathsExact ==
  ErrandSpec => [](errand.min <= 1 /\ ~LoopTwice => ShortestPathsAreExact)
<1>1. ErrandInit => ListInv /\ RowsInv
  BY ListInitInv DEF ErrandInit, RowsInv
<1>2. ErrandInv /\ RowsInv => (errand.min <= 1 /\ ~LoopTwice => ShortestPathsAreExact)
  <2> SUFFICES ASSUME ErrandInv, RowsInv, errand.min <= 1, ~LoopTwice PROVE ShortestPathsAreExact
    OBVIOUS
  <2>1. CASE reported
    BY <2>1, ExactRowsShortest DEF RowsInv, ErrandInv, ErrandTypeOK
  <2>2. CASE ~reported
    BY <2>2 DEF ShortestPathsAreExact
  <2> QED
    BY <2>1, <2>2
<1> QED
  BY <1>1, <1>2, ListNextInv, RowsNextInv, SearchInvariant, PTL DEF ErrandSpec

-----------------------------------------------------------------------------
(***************************************************************************)
(* The partitions of algo.rs are exact, for every graph and every order of *)
(* its vertices and edges.                                                 *)
(*                                                                         *)
(* The reference, a fold over the nodes, is unfolded as the one of the     *)
(* weighted searches was: it is the least family of sets that hold their   *)
(* node and are closed under the edges.  Union-find: a root is what any    *)
(* function says that is constant along parents, so compression moves no   *)
(* root and union moves exactly one.  Tarjan: every edge of a vertex on    *)
(* the stack is still to come or counted in a link, so that when the link  *)
(* of a frame is its own index, no edge leaves what lies above it on the   *)
(* stack but to what is resolved; and all of that leads to one another.    *)
(***************************************************************************)

(* The fold of ReachedBy, unfolded: what one more node adds, what it       *)
(* begins with, and the fold as a function on the sets of nodes.           *)
Through(k, reach) ==
  [v \in Nodes |-> IF k \in reach[v] THEN reach[v] \cup reach[k] ELSE reach[v]]
OneStep(E) == [v \in Nodes |-> {v} \cup {e[2] : e \in {f \in E : f[1] = v}}]
ReachStep(E, g, s) == IF s = {} THEN OneStep(E) ELSE Through(Chosen(s), g[s \ {Chosen(s)}])
ReachUnfolds(E, D, g) == g = [s \in D |-> ReachStep(E, g, s)]
ReachFold(E) == CHOOSE g : ReachUnfolds(E, SUBSET Nodes, g)

(* The reference is the fold over all nodes: the two definitions are one   *)
(* formula.                                                                *)
LEMMA ReachedByIs ==
  ASSUME NEW E
  PROVE  ReachedBy(E) = ReachFold(E)[Nodes]
  BY Zenon DEF ReachedBy, ReachFold, ReachUnfolds, ReachStep, Through, OneStep, Chosen, FoldSet, MapThenFoldSet

(* The sets of fewer than n nodes                                          *)
FewerNodes(n) == {s \in SUBSET Nodes : Cardinality(s) < n}

(* Taking the chosen node from a set leaves a smaller set.                 *)
LEMMA OneNodeFewer ==
  ASSUME NEW s \in SUBSET Nodes, s # {}
  PROVE  /\ Chosen(s) \in s /\ Chosen(s) \in Nodes
         /\ s \ {Chosen(s)} \in SUBSET Nodes
         /\ Cardinality(s) \in Nat
         /\ Cardinality(s \ {Chosen(s)}) \in Nat
         /\ Cardinality(s \ {Chosen(s)}) < Cardinality(s)
<1>1. Chosen(s) \in s
  BY Zenon DEF Chosen
<1>2. IsFiniteSet(s)
  BY FS_Subset, ComponentsAssumption
<1>3. /\ IsFiniteSet(s \ {Chosen(s)})
      /\ Cardinality(s \ {Chosen(s)}) = Cardinality(s) - 1
  BY <1>1, <1>2, FS_RemoveElement
<1>4. Cardinality(s) \in Nat /\ Cardinality(s \ {Chosen(s)}) \in Nat
  BY <1>2, <1>3, FS_CardinalityType
<1> QED
  BY <1>1, <1>3, <1>4

(* The recursion of the fold has a solution, by the least number of nodes  *)
(* for which it has none.                                                  *)
LEMMA ReachFoldUnfolds ==
  ASSUME NEW E
  PROVE  ReachUnfolds(E, SUBSET Nodes, ReachFold(E))
<1> DEFINE Bad == {n \in Nat : ~ \E g : ReachUnfolds(E, FewerNodes(n), g)}
<1>1. Bad = {}
  <2> SUFFICES ASSUME Bad # {} PROVE FALSE
    OBVIOUS
  <2>1. PICK n \in Bad : \A m \in Bad : n <= m
    BY LeastNumber
  <2>2. n \in Nat /\ ~ \E g : ReachUnfolds(E, FewerNodes(n), g)
    BY <2>1
  <2>3. CASE n = 0
    <3>1. FewerNodes(0) = {}
      <4>1. \A s \in SUBSET Nodes : Cardinality(s) \in Nat
        BY FS_Subset, FS_CardinalityType, ComponentsAssumption
      <4> QED
        BY <4>1 DEF FewerNodes
    <3>2. ReachUnfolds(E, {}, [s \in {} |-> 0])
      BY DEF ReachUnfolds
    <3> QED
      BY <2>2, <2>3, <3>1, <3>2
  <2>4. CASE n # 0
    <3>1. n - 1 \in Nat /\ n - 1 \notin Bad
      BY <2>1, <2>2, <2>4
    <3>2. PICK g : ReachUnfolds(E, FewerNodes(n - 1), g)
      BY <3>1
    <3> DEFINE h == [s \in FewerNodes(n) |-> ReachStep(E, g, s)]
    <3>3. ASSUME NEW s \in FewerNodes(n)
          PROVE  ReachStep(E, g, s) = ReachStep(E, h, s)
      <4>1. CASE s = {}
        BY <4>1 DEF ReachStep
      <4>2. CASE s # {}
        <5> DEFINE t == s \ {Chosen(s)}
        <5>1. t \in FewerNodes(n - 1) /\ t \in FewerNodes(n)
          BY <2>2, <4>2, OneNodeFewer DEF FewerNodes
        <5>2. g[t] = ReachStep(E, g, t) /\ h[t] = ReachStep(E, g, t)
          BY <3>2, <5>1, Zenon DEF ReachUnfolds
        <5> QED
          BY <4>2, <5>2 DEF ReachStep
      <4> QED
        BY <4>1, <4>2
    <3>4. ReachUnfolds(E, FewerNodes(n), h)
      <4> HIDE DEF h
      <4>1. h = [s \in FewerNodes(n) |-> ReachStep(E, g, s)]
        BY DEF h
      <4> QED
        BY <3>3, <4>1 DEF ReachUnfolds
    <3> QED
      BY <2>2, <3>4
  <2> QED
    BY <2>3, <2>4
<1>2. Cardinality(Nodes) \in Nat
  BY FS_CardinalityType, ComponentsAssumption
<1>3. FewerNodes(Cardinality(Nodes) + 1) = SUBSET Nodes
  <2>1. \A s \in SUBSET Nodes : Cardinality(s) \in Nat /\ Cardinality(s) <= Cardinality(Nodes)
    BY FS_Subset, FS_CardinalityType, ComponentsAssumption
  <2> QED
    BY <1>2, <2>1 DEF FewerNodes
<1>4. \E g : ReachUnfolds(E, SUBSET Nodes, g)
  <2> DEFINE n == Cardinality(Nodes) + 1
  <2>1. n \in Nat /\ n \notin Bad
    BY <1>1, <1>2
  <2> QED
    BY <1>3, <2>1
<1> QED
  BY <1>4, Zenon DEF ReachFold

(* A set that no edge of E leaves *)
IsClosed(E, C) == \A e \in E : e[1] \in C => e[2] \in C

(* What the fold has after the nodes of s: every node reaches itself and   *)
(* the ends of its edges, what it reaches through a node of s, and nothing *)
(* outside a closed set.                                                   *)
ReachesBy(E, s, reach) ==
  /\ reach \in [Nodes -> SUBSET Nodes]
  /\ \A v \in Nodes : v \in reach[v]
  /\ \A e \in E : e[2] \in reach[e[1]]
  /\ \A k \in s, v \in Nodes : k \in reach[v] => reach[k] \subseteq reach[v]
  /\ \A C \in SUBSET Nodes : \A v \in C : IsClosed(E, C) => reach[v] \subseteq C

(* What the fold begins with                                               *)
LEMMA OneStepReaches ==
  ASSUME NEW E \in SUBSET (Nodes \X Nodes)
  PROVE  ReachesBy(E, {}, OneStep(E))
<1>1. \A v \in Nodes : OneStep(E)[v] = {v} \cup {e[2] : e \in {f \in E : f[1] = v}}
  BY DEF OneStep
<1>2. OneStep(E) \in [Nodes -> SUBSET Nodes]
  BY DEF OneStep
<1>3. \A C \in SUBSET Nodes : \A v \in C : IsClosed(E, C) => OneStep(E)[v] \subseteq C
  BY <1>1 DEF IsClosed
<1> QED
  BY <1>1, <1>2, <1>3 DEF ReachesBy

(* One more node to go through                                             *)
LEMMA ThroughReaches ==
  ASSUME NEW E \in SUBSET (Nodes \X Nodes), NEW s \in SUBSET Nodes, NEW k \in Nodes,
         NEW reach, ReachesBy(E, s, reach)
  PROVE  ReachesBy(E, s \cup {k}, Through(k, reach))
<1> DEFINE more == Through(k, reach)
<1>0. reach \in [Nodes -> SUBSET Nodes]
  BY DEF ReachesBy
<1>1. \A v \in Nodes : more[v] = IF k \in reach[v] THEN reach[v] \cup reach[k] ELSE reach[v]
  BY DEF Through
<1>2. more \in [Nodes -> SUBSET Nodes]
  BY <1>0 DEF Through
<1> HIDE DEF more
<1>3. \A v \in Nodes : reach[v] \subseteq more[v]
  BY <1>1
<1>4. ASSUME NEW j \in s \cup {k}, NEW v \in Nodes, j \in more[v]
      PROVE  more[j] \subseteq more[v]
  <2>1. \A i \in s, u \in Nodes : i \in reach[u] => reach[i] \subseteq reach[u]
    BY DEF ReachesBy
  <2>2. k \in reach[k]
    BY DEF ReachesBy
  <2>3. CASE j = k
    BY <1>1, <1>4, <2>2, <2>3
  <2>4. CASE j \in s
    BY <1>1, <1>4, <2>1, <2>4
  <2> QED
    BY <2>3, <2>4
<1>5. ASSUME NEW C \in SUBSET Nodes, NEW v \in C, IsClosed(E, C)
      PROVE  more[v] \subseteq C
  <2>1. \A u \in C : reach[u] \subseteq C
    BY <1>5 DEF ReachesBy
  <2> QED
    BY <1>1, <2>1
<1>6. \A v \in Nodes : v \in more[v]
  BY <1>3 DEF ReachesBy
<1>7. \A e \in E : e[2] \in more[e[1]]
  BY <1>3 DEF ReachesBy
<1> QED
  BY <1>2, <1>4, <1>5, <1>6, <1>7 DEF ReachesBy, more

(* What the fold has after any set of nodes                                *)
LEMMA ReachFoldReaches ==
  ASSUME NEW E \in SUBSET (Nodes \X Nodes)
  PROVE  \A s \in SUBSET Nodes : ReachesBy(E, s, ReachFold(E)[s])
<1> DEFINE Sizes == {Cardinality(s) : s \in {t \in SUBSET Nodes : ~ReachesBy(E, t, ReachFold(E)[t])}}
<1> SUFFICES ASSUME ~ \A s \in SUBSET Nodes : ReachesBy(E, s, ReachFold(E)[s])
             PROVE  FALSE
  OBVIOUS
<1>1. \A s \in SUBSET Nodes : Cardinality(s) \in Nat
  BY FS_Subset, FS_CardinalityType, ComponentsAssumption
<1>2. Sizes \in SUBSET Nat /\ Sizes # {}
  BY <1>1
<1>3. PICK n \in Sizes : \A m \in Sizes : n <= m
  <2> HIDE DEF Sizes
  <2> QED
    BY <1>2, LeastNumber
<1>4. PICK s \in SUBSET Nodes : ~ReachesBy(E, s, ReachFold(E)[s]) /\ Cardinality(s) = n
  BY <1>3
<1>5. \A t \in SUBSET Nodes : Cardinality(t) < Cardinality(s) => ReachesBy(E, t, ReachFold(E)[t])
  BY <1>1, <1>3, <1>4
<1>6. ReachFold(E)[s] = ReachStep(E, ReachFold(E), s)
  <2>1. ReachFold(E) = [t \in SUBSET Nodes |-> ReachStep(E, ReachFold(E), t)]
    BY ReachFoldUnfolds DEF ReachUnfolds
  <2> QED
    BY <2>1
<1>7. CASE s = {}
  <2>1. ReachFold(E)[s] = OneStep(E)
    BY <1>6, <1>7 DEF ReachStep
  <2> QED
    BY <1>4, <1>7, <2>1, OneStepReaches
<1>8. CASE s # {}
  <2> DEFINE k == Chosen(s)
             t == s \ {k}
  <2>1. k \in s /\ k \in Nodes /\ t \in SUBSET Nodes /\ Cardinality(t) < Cardinality(s)
    BY <1>8, OneNodeFewer
  <2>2. ReachFold(E)[s] = Through(k, ReachFold(E)[t])
    BY <1>6, <1>8 DEF ReachStep
  <2>3. ReachesBy(E, t, ReachFold(E)[t])
    BY <1>5, <2>1
  <2>4. t \cup {k} = s
    BY <2>1
  <2>5. ReachesBy(E, t \cup {k}, Through(k, ReachFold(E)[t]))
    <3> HIDE DEF k, t
    <3> QED
      BY <2>1, <2>3, ThroughReaches
  <2> QED
    BY <1>4, <2>2, <2>4, <2>5
<1> QED
  BY <1>7, <1>8

(* ReachedBy, without its recursion: the least sets that hold a node and   *)
(* are closed under the edges.                                             *)
LEMMA ReachedByFacts ==
  ASSUME NEW E \in SUBSET (Nodes \X Nodes)
  PROVE  /\ ReachedBy(E) \in [Nodes -> SUBSET Nodes]
         /\ \A v \in Nodes : v \in ReachedBy(E)[v]
         /\ \A e \in E : e[2] \in ReachedBy(E)[e[1]]
         /\ \A v \in Nodes : \A w \in ReachedBy(E)[v] : ReachedBy(E)[w] \subseteq ReachedBy(E)[v]
         /\ \A C \in SUBSET Nodes : \A v \in C : IsClosed(E, C) => ReachedBy(E)[v] \subseteq C
<1>1. ReachesBy(E, Nodes, ReachedBy(E))
  BY ReachedByIs, ReachFoldReaches
<1> QED
  BY <1>1 DEF ReachesBy

(* The numbers of the nodes have a bound. *)
LEMMA NodesAreBounded == \E n \in Nat : \A v \in Nodes : v < n
<1> DEFINE Bad(s) == \A n \in Nat : \E v \in s : ~ (v < n)
           Sizes == {Cardinality(s) : s \in {t \in SUBSET Nodes : Bad(t)}}
<1>1. \A s \in SUBSET Nodes : Cardinality(s) \in Nat
  BY FS_Subset, FS_CardinalityType, ComponentsAssumption
<1> SUFFICES ASSUME Bad(Nodes) PROVE FALSE
  OBVIOUS
<1>2. Sizes \in SUBSET Nat /\ Sizes # {}
  BY <1>1
<1>3. PICK n \in Sizes : \A m \in Sizes : n <= m
  <2> HIDE DEF Sizes
  <2> QED
    BY <1>2, LeastNumber
<1>4. PICK s \in SUBSET Nodes : Bad(s) /\ Cardinality(s) = n
  BY <1>3
<1>5. s # {}
  BY <1>4
<1> DEFINE k == Chosen(s)
           t == s \ {k}
<1>6. k \in Nat /\ t \in SUBSET Nodes /\ Cardinality(t) < Cardinality(s)
  BY <1>5, OneNodeFewer, ComponentsAssumption
<1>7. ~Bad(t)
  BY <1>1, <1>3, <1>4, <1>6
<1>8. PICK b \in Nat : \A v \in t : v < b
  BY <1>7
<1> DEFINE c == IF k < b THEN b ELSE k + 1
<1>9. c \in Nat /\ k < c /\ b <= c
  BY <1>6
<1>10. \A v \in s : v < c
  <2> HIDE DEF c, k
  <2> QED
    BY <1>8, <1>9, ComponentsAssumption
<1> QED
  BY <1>4, <1>9, <1>10

-----------------------------------------------------------------------------
(* The forest of union-find, for any forest p *)

Walks(p, D, g) == g = [v \in D |-> IF p[v] = v THEN <<v>> ELSE <<v>> \o g[p[v]]]
WalkOf(p) == CHOOSE g : Walks(p, Nodes, g)
TrailOf(p, x) == WalkOf(p)[x]
RootOf(p, x) == Last(TrailOf(p, x))

(* The trail and the root find() walks to are those of the forest.         *)
LEMMA TrailIs ==
  ASSUME NEW x
  PROVE  Trail(x) = TrailOf(parent, x) /\ Root(x) = RootOf(parent, x)
<1>1. Trail(x) = TrailOf(parent, x)
  BY Zenon DEF Trail, TrailOf, WalkOf, Walks
<1> QED
  BY <1>1 DEF Root, RootOf

(* parents are never greater: what union keeps *)
Downward(p) == p \in [Nodes -> Nodes] /\ \A v \in Nodes : p[v] <= v

(* The types of such a forest                                              *)
LEMMA DownwardFacts ==
  ASSUME NEW p, Downward(p)
  PROVE  \A v \in Nodes : v \in Nat /\ p[v] \in Nodes /\ p[v] \in Nat /\ p[v] <= v
BY ComponentsAssumption DEF Downward

(* The walk of find() ends: its recursion has a solution, by the least     *)
(* bound on the nodes for which it has none.                               *)
LEMMA WalkUnfolds ==
  ASSUME NEW p, Downward(p)
  PROVE  Walks(p, Nodes, WalkOf(p))
<1> DEFINE Below(n) == {v \in Nodes : v < n}
           Bad == {n \in Nat : ~ \E g : Walks(p, Below(n), g)}
<1>0. \A v \in Nodes : v \in Nat /\ p[v] \in Nodes /\ p[v] \in Nat /\ p[v] <= v
  BY DownwardFacts
<1>1. Bad = {}
  <2> SUFFICES ASSUME Bad # {} PROVE FALSE
    OBVIOUS
  <2>1. PICK n \in Bad : \A m \in Bad : n <= m
    BY LeastNumber
  <2>2. n \in Nat /\ ~ \E g : Walks(p, Below(n), g)
    BY <2>1
  <2>3. CASE n = 0
    <3>1. Below(0) = {}
      BY <1>0
    <3>2. Walks(p, {}, [s \in {} |-> 0])
      BY DEF Walks
    <3> QED
      BY <2>2, <2>3, <3>1, <3>2
  <2>4. CASE n # 0
    <3>1. n - 1 \in Nat /\ n - 1 \notin Bad
      <4>1. n - 1 \in Nat /\ n - 1 < n
        BY <2>2, <2>4
      <4> HIDE DEF Bad
      <4> QED
        BY <2>1, <2>2, <4>1
    <3>2. PICK g : Walks(p, Below(n - 1), g)
      BY <3>1
    <3> DEFINE Next1(f, v) == IF p[v] = v THEN <<v>> ELSE <<v>> \o f[p[v]]
               h == [v \in Below(n) |-> Next1(g, v)]
    <3>3. ASSUME NEW v \in Below(n)
          PROVE  Next1(g, v) = Next1(h, v)
      <4>1. CASE p[v] = v
        BY <4>1
      <4>2. CASE p[v] # v
        <5>1. p[v] \in Below(n - 1) /\ p[v] \in Below(n)
          BY <1>0, <2>2, <4>2
        <5>2. g[p[v]] = Next1(g, p[v]) /\ h[p[v]] = Next1(g, p[v])
          BY <3>2, <5>1, Zenon DEF Walks
        <5> QED
          BY <4>2, <5>2
      <4> QED
        BY <4>1, <4>2
    <3>4. Walks(p, Below(n), h)
      <4>1. h = [v \in Below(n) |-> Next1(g, v)]
        OBVIOUS
      <4> HIDE DEF h, Below
      <4>2. h = [v \in Below(n) |-> Next1(h, v)]
        BY <3>3, <4>1
      <4> QED
        BY <4>2 DEF Walks
    <3> QED
      BY <2>2, <3>4
  <2> QED
    BY <2>3, <2>4
<1>2. PICK n \in Nat : \A v \in Nodes : v < n
  BY NodesAreBounded
<1>3. Below(n) = Nodes
  BY <1>2
<1>4. \E g : Walks(p, Nodes, g)
  <2>1. n \notin Bad
    BY <1>1
  <2> QED
    BY <1>3, <2>1
<1> QED
  BY <1>4, Zenon DEF WalkOf

(* A trail with one more vertex in front                                   *)
LEMMA Prepended ==
  ASSUME NEW v \in Nodes, NEW s \in Seq(Nodes), s # <<>>
  PROVE  /\ <<v>> \o s \in Seq(Nodes) /\ <<v>> \o s # <<>>
         /\ Last(<<v>> \o s) = Last(s)
         /\ Range(<<v>> \o s) = {v} \cup Range(s)
<1> DEFINE t == <<v>> \o s
<1>1. /\ t \in Seq(Nodes) /\ Len(t) = Len(s) + 1 /\ Len(s) \in Nat /\ Len(s) > 0
      /\ \A i \in 1 .. Len(t) : t[i] = IF i = 1 THEN v ELSE s[i - 1]
  BY ConcatProperties
<1>2. DOMAIN t = 1 .. Len(t) /\ DOMAIN s = 1 .. Len(s)
  BY <1>1
<1> HIDE DEF t
<1>3. Last(t) = Last(s)
  <2>1. Len(t) \in 1 .. Len(t) /\ Len(t) # 1 /\ Len(t) - 1 = Len(s)
    BY <1>1
  <2> QED
    BY <1>1, <2>1 DEF Last
<1>4. Range(t) = {v} \cup Range(s)
  <2>1. ASSUME NEW x \in Range(t) PROVE x \in {v} \cup Range(s)
    <3>1. PICK i \in 1 .. Len(t) : x = t[i]
      BY <1>2, <2>1 DEF Range
    <3>2. CASE i = 1
      BY <1>1, <3>1, <3>2
    <3>3. CASE i # 1
      <4>1. i - 1 \in 1 .. Len(s)
        BY <1>1, <3>1, <3>3
      <4> QED
        BY <1>1, <1>2, <3>1, <3>3, <4>1 DEF Range
    <3> QED
      BY <3>2, <3>3
  <2>2. v \in Range(t)
    <3>1. 1 \in 1 .. Len(t)
      BY <1>1
    <3>2. t[1] = v
      BY <1>1, <3>1
    <3> QED
      BY <1>2, <3>1, <3>2 DEF Range
  <2>3. ASSUME NEW x \in Range(s) PROVE x \in Range(t)
    <3>1. PICK i \in 1 .. Len(s) : x = s[i]
      BY <1>2, <2>3 DEF Range
    <3>2. i + 1 \in 1 .. Len(t) /\ i + 1 # 1 /\ (i + 1) - 1 = i
      BY <1>1, <3>1
    <3>3. t[i + 1] = s[i]
      BY <1>1, <3>2
    <3> QED
      BY <1>2, <3>1, <3>2, <3>3 DEF Range
  <2> QED
    BY <2>1, <2>2, <2>3
<1>5. t # <<>>
  BY <1>1
<1> QED
  BY <1>1, <1>3, <1>4, <1>5 DEF t

(* A trail ends at a root, which is no greater than where it began, and    *)
(* all its vertices have that root.                                        *)
LEMMA TrailFacts ==
  ASSUME NEW p, Downward(p)
  PROVE  \A v \in Nodes :
           /\ TrailOf(p, v) \in Seq(Nodes) /\ TrailOf(p, v) # <<>>
           /\ v \in Range(TrailOf(p, v))
           /\ RootOf(p, v) \in Nodes /\ RootOf(p, v) <= v
           /\ p[RootOf(p, v)] = RootOf(p, v)
           /\ RootOf(p, v) = IF p[v] = v THEN v ELSE RootOf(p, p[v])
           /\ \A u \in Range(TrailOf(p, v)) : u \in Nodes /\ RootOf(p, u) = RootOf(p, v)
<1> DEFINE Good(v) ==
           /\ TrailOf(p, v) \in Seq(Nodes) /\ TrailOf(p, v) # <<>>
           /\ v \in Range(TrailOf(p, v))
           /\ RootOf(p, v) \in Nodes /\ RootOf(p, v) <= v
           /\ p[RootOf(p, v)] = RootOf(p, v)
           /\ RootOf(p, v) = IF p[v] = v THEN v ELSE RootOf(p, p[v])
           /\ \A u \in Range(TrailOf(p, v)) : u \in Nodes /\ RootOf(p, u) = RootOf(p, v)
<1>0. \A v \in Nodes : v \in Nat /\ p[v] \in Nodes /\ p[v] \in Nat /\ p[v] <= v
  BY DownwardFacts
<1>1. \A v \in Nodes : TrailOf(p, v) = IF p[v] = v THEN <<v>> ELSE <<v>> \o TrailOf(p, p[v])
  <2> DEFINE g == WalkOf(p)
  <2>1. g = [v \in Nodes |-> IF p[v] = v THEN <<v>> ELSE <<v>> \o g[p[v]]]
    BY WalkUnfolds DEF Walks
  <2> HIDE DEF g
  <2>2. \A v \in Nodes : g[v] = IF p[v] = v THEN <<v>> ELSE <<v>> \o g[p[v]]
    BY <2>1
  <2> QED
    BY <2>2 DEF g, TrailOf
<1> SUFFICES ASSUME {v \in Nodes : ~Good(v)} # {} PROVE FALSE
  OBVIOUS
<1>2. PICK v \in {v \in Nodes : ~Good(v)} : \A u \in {v_1 \in Nodes : ~Good(v_1)} : v <= u
  <2> DEFINE B == {v \in Nodes : ~Good(v)}
  <2>1. B \in SUBSET Nat
    BY <1>0
  <2> HIDE DEF B
  <2>2. B # {} => \E v \in B : \A u \in B : v <= u
    BY <2>1, LeastNumber
  <2> QED
    BY <2>2 DEF B
<1>3. CASE p[v] = v
  <2>1. TrailOf(p, v) = <<v>>
    BY <1>1, <1>3
  <2>2. Last(<<v>>) = v /\ Range(<<v>>) = {v}
    BY DEF Last, Range
  <2>3. RootOf(p, v) = v
    BY <2>1, <2>2 DEF RootOf
  <2>4. <<v>> \in Seq(Nodes) /\ <<v>> # <<>>
    OBVIOUS
  <2>5. Good(v)
    BY <1>0, <1>3, <2>1, <2>2, <2>3, <2>4
  <2> QED
    BY <1>2, <2>5
<1>4. CASE p[v] # v
  <2>1. p[v] \in Nodes /\ p[v] < v /\ Good(p[v])
    <3>1. p[v] \in Nodes /\ p[v] < v
      BY <1>0, <1>4
    <3> QED
      BY <1>0, <1>2, <3>1
  <2> DEFINE s == TrailOf(p, p[v])
  <2>2. TrailOf(p, v) = <<v>> \o s
    BY <1>1, <1>4
  <2>3. s \in Seq(Nodes) /\ s # <<>>
    BY <2>1
  <2>4. /\ <<v>> \o s \in Seq(Nodes) /\ <<v>> \o s # <<>>
        /\ Last(<<v>> \o s) = Last(s)
        /\ Range(<<v>> \o s) = {v} \cup Range(s)
    <3> HIDE DEF s
    <3> QED
      BY <2>3, Prepended
  <2>5. RootOf(p, v) = RootOf(p, p[v])
    BY <2>2, <2>4 DEF RootOf
  <2>6. \A u \in Range(s) : u \in Nodes /\ RootOf(p, u) = RootOf(p, p[v])
    BY <2>1
  <2>7. /\ RootOf(p, p[v]) \in Nodes /\ RootOf(p, p[v]) <= p[v]
        /\ p[RootOf(p, p[v])] = RootOf(p, p[v])
    BY <2>1
  <2>8. RootOf(p, v) \in Nodes /\ RootOf(p, v) <= v /\ p[RootOf(p, v)] = RootOf(p, v)
    BY <1>0, <2>1, <2>5, <2>7
  <2>9. \A u \in Range(TrailOf(p, v)) : u \in Nodes /\ RootOf(p, u) = RootOf(p, v)
    BY <2>2, <2>4, <2>5, <2>6
  <2>10. v \in Range(TrailOf(p, v)) /\ TrailOf(p, v) \in Seq(Nodes) /\ TrailOf(p, v) # <<>>
    BY <2>2, <2>4
  <2>11. Good(v)
    BY <1>4, <2>5, <2>8, <2>9, <2>10
  <2> QED
    BY <1>2, <2>11
<1> QED
  BY <1>3, <1>4

(* A root is what any function says that is constant along parents. *)
LEMMA RootIsUnique ==
  ASSUME NEW p, Downward(p), NEW f,
         \A v \in Nodes : f[v] = IF p[v] = v THEN v ELSE f[p[v]]
  PROVE  \A v \in Nodes : RootOf(p, v) = f[v]
<1> DEFINE B == {v \in Nodes : RootOf(p, v) # f[v]}
<1>0. \A v \in Nodes : v \in Nat /\ p[v] \in Nodes /\ p[v] \in Nat /\ p[v] <= v
  BY DownwardFacts
<1> SUFFICES ASSUME B # {} PROVE FALSE
  OBVIOUS
<1>1. PICK v \in B : \A u \in B : v <= u
  <2>1. B \in SUBSET Nat
    BY <1>0
  <2> HIDE DEF B
  <2> QED
    BY <2>1, LeastNumber
<1>2. RootOf(p, v) = IF p[v] = v THEN v ELSE RootOf(p, p[v])
  BY TrailFacts
<1>3. CASE p[v] = v
  BY <1>1, <1>2, <1>3
<1>4. CASE p[v] # v
  <2>1. p[v] \in Nodes /\ p[v] < v
    BY <1>0, <1>4
  <2>2. RootOf(p, p[v]) = f[p[v]]
    BY <1>0, <1>1, <2>1
  <2> QED
    BY <1>1, <1>2, <1>4, <2>2
<1> QED
  BY <1>3, <1>4

(* Pointing vertices at the root they have moves no root.                  *)
LEMMA PointedRoots ==
  ASSUME NEW p, Downward(p), NEW T \in SUBSET Nodes, NEW r \in Nodes,
         \A u \in T : RootOf(p, u) = r, p[r] = r
  PROVE  LET q == [v \in Nodes |-> IF v \in T THEN r ELSE p[v]]
         IN  /\ Downward(q)
             /\ \A v \in Nodes : RootOf(q, v) = RootOf(p, v)
<1> DEFINE q == [v \in Nodes |-> IF v \in T THEN r ELSE p[v]]
           f == [v \in Nodes |-> RootOf(p, v)]
<1>0. \A v \in Nodes : v \in Nat /\ p[v] \in Nodes /\ p[v] \in Nat /\ p[v] <= v
  BY DownwardFacts
<1>1. \A v \in Nodes : RootOf(p, v) = IF p[v] = v THEN v ELSE RootOf(p, p[v])
  BY TrailFacts
<1>2. Downward(q)
  <2>1. \A v \in Nodes : RootOf(p, v) <= v
    BY TrailFacts
  <2> QED
    BY <1>0, <2>1 DEF Downward
<1>3. \A v \in Nodes : f[v] = IF q[v] = v THEN v ELSE f[q[v]]
  <2> SUFFICES ASSUME NEW v \in Nodes PROVE f[v] = IF q[v] = v THEN v ELSE f[q[v]]
    OBVIOUS
  <2>1. RootOf(p, r) = r
    BY <1>1
  <2>2. CASE v \in T
    BY <2>1, <2>2
  <2>3. CASE v \notin T
    BY <1>0, <1>1, <2>3
  <2> QED
    BY <2>2, <2>3
<1>4. \A v \in Nodes : RootOf(q, v) = f[v]
  <2> HIDE DEF q, f
  <2> QED
    BY <1>2, <1>3, RootIsUnique
<1> QED
  BY <1>2, <1>4

(* Compression keeps the roots. *)
LEMMA CompressedRoots ==
  ASSUME NEW p, Downward(p), NEW x \in Nodes, NEW b, Downward(b),
         \A v \in Nodes : RootOf(b, v) = RootOf(p, v)
  PROVE  /\ Downward(Compressed(b, TrailOf(p, x)))
         /\ \A v \in Nodes : RootOf(Compressed(b, TrailOf(p, x)), v) = RootOf(p, v)
<1> DEFINE T == Range(TrailOf(p, x))
           r == RootOf(p, x)
           q == [v \in Nodes |-> IF v \in T THEN r ELSE b[v]]
<1>1. T \subseteq Nodes /\ r \in Nodes /\ \A u \in T : RootOf(b, u) = r
  BY TrailFacts
<1>2. RootOf(p, r) = r
  BY TrailFacts
<1>3. b[r] = r
  <2>1. RootOf(b, r) = r
    BY <1>1, <1>2
  <2>2. b[RootOf(b, r)] = RootOf(b, r)
    BY <1>1, TrailFacts
  <2> QED
    BY <2>1, <2>2
<1>4. q = Compressed(b, TrailOf(p, x))
  BY DEF Compressed, RootOf
<1>5. Downward(q) /\ \A v \in Nodes : RootOf(q, v) = RootOf(b, v)
  <2> HIDE DEF T, r
  <2> QED
    BY <1>1, <1>3, PointedRoots
<1> QED
  BY <1>4, <1>5

(* One root hung below another *)
LEMMA JoinedRoots ==
  ASSUME NEW p, Downward(p), NEW high \in Nodes, NEW least \in Nodes, least <= high,
         p[high] = high, p[least] = least, NEW q \in [Nodes -> Nodes],
         \A v \in Nodes : q[v] = IF v = high THEN least ELSE p[v]
  PROVE  /\ Downward(q)
         /\ \A v \in Nodes : RootOf(q, v) = IF RootOf(p, v) = high THEN least ELSE RootOf(p, v)
<1> DEFINE f == [v \in Nodes |-> IF RootOf(p, v) = high THEN least ELSE RootOf(p, v)]
<1>0. \A v \in Nodes : v \in Nat /\ p[v] \in Nodes /\ p[v] \in Nat /\ p[v] <= v
  BY DownwardFacts
<1>1. \A v \in Nodes : RootOf(p, v) = IF p[v] = v THEN v ELSE RootOf(p, p[v])
  BY TrailFacts
<1>3. \A v \in Nodes : q[v] = IF v = high THEN least ELSE p[v]
  OBVIOUS
<1>4. Downward(q)
  BY <1>0, <1>3, ComponentsAssumption DEF Downward
<1>5. \A v \in Nodes : f[v] = IF q[v] = v THEN v ELSE f[q[v]]
  <2> SUFFICES ASSUME NEW v \in Nodes PROVE f[v] = IF q[v] = v THEN v ELSE f[q[v]]
    OBVIOUS
  <2>1. RootOf(p, high) = high /\ RootOf(p, least) = least
    BY <1>1
  <2>2. CASE v = high
    BY <1>3, <2>1, <2>2
  <2>3. CASE v # high
    <3>1. q[v] = p[v] /\ p[v] \in Nodes
      BY <1>0, <1>3, <2>3
    <3>2. RootOf(p, v) = IF p[v] = v THEN v ELSE RootOf(p, p[v])
      BY <1>1
    <3> QED
      BY <2>3, <3>1, <3>2
  <2> QED
    BY <2>2, <2>3
<1>6. \A v \in Nodes : RootOf(q, v) = f[v]
  <2> HIDE DEF f
  <2> QED
    BY <1>4, <1>5, RootIsUnique
<1> QED
  BY <1>4, <1>6

(* The least of some numbers                                               *)
LEMMA MinOf ==
  ASSUME NEW T \in SUBSET Nat, T # {}
  PROVE  Min(T) \in T /\ \A y \in T : Min(T) <= y
<1>1. \E x \in T : \A y \in T : x <= y
  BY LeastNumber
<1> QED
  BY <1>1, Zenon DEF Min

(* A member that no other is below is the least.                           *)
LEMMA MinIs ==
  ASSUME NEW T \in SUBSET Nat, NEW m \in T, \A y \in T : m <= y
  PROVE  Min(T) = m
<1>1. Min(T) \in T /\ \A y \in T : Min(T) <= y
  BY MinOf
<1>2. Min(T) <= m /\ m <= Min(T) /\ m \in Nat /\ Min(T) \in Nat
  BY <1>1
<1> QED
  BY <1>2

(* A member that no other is above is the greatest.                        *)
LEMMA MaxIs ==
  ASSUME NEW T \in SUBSET Nat, NEW m \in T, \A y \in T : m >= y
  PROVE  Max(T) = m
<1>1. Max(T) \in T /\ \A y \in T : Max(T) >= y
  BY Zenon DEF Max
<1>2. Max(T) >= m /\ m >= Max(T) /\ m \in Nat /\ Max(T) \in Nat
  BY <1>1
<1> QED
  BY <1>2

(* union() merges two trees under the smaller root and moves no other. *)
LEMMA UnitedRoots ==
  ASSUME Downward(parent), NEW a \in Nodes, NEW b \in Nodes
  PROVE  \E least \in {Root(a), Root(b)}, high \in {Root(a), Root(b)} :
            /\ {Root(a), Root(b)} = {least, high}
            /\ Downward(United(a, b))
            /\ \A v \in Nodes : RootOf(United(a, b), v) = IF Root(v) = high THEN least ELSE Root(v)
<1> DEFINE first == Compressed(parent, TrailOf(parent, a))
           forest == Compressed(first, TrailOf(parent, b))
           ra == RootOf(parent, a)
           rb == RootOf(parent, b)
           least == IF ra <= rb THEN ra ELSE rb
           high == IF ra <= rb THEN rb ELSE ra
<1>1. Downward(first) /\ \A v \in Nodes : RootOf(first, v) = RootOf(parent, v)
  BY CompressedRoots
<1>2. Downward(forest) /\ \A v \in Nodes : RootOf(forest, v) = RootOf(parent, v)
  <2> HIDE DEF first
  <2> QED
    BY <1>1, CompressedRoots
<1>3. ra \in Nodes /\ rb \in Nodes /\ ra \in Nat /\ rb \in Nat
  BY TrailFacts, ComponentsAssumption
<1>4. forest[ra] = ra /\ forest[rb] = rb
  <2> HIDE DEF forest
  <2>1. RootOf(parent, ra) = ra /\ RootOf(parent, rb) = rb
    BY TrailFacts
  <2>2. RootOf(forest, ra) = ra /\ RootOf(forest, rb) = rb
    BY <1>2, <1>3, <2>1
  <2>3. \A v \in Nodes : forest[RootOf(forest, v)] = RootOf(forest, v)
    BY <1>2, TrailFacts
  <2> HIDE DEF ra, rb
  <2> QED
    BY <1>3, <2>2, <2>3
<1>5. /\ least \in Nodes /\ high \in Nodes /\ least <= high
      /\ {ra, rb} = {least, high}
      /\ forest[high] = high /\ forest[least] = least
  <2> HIDE DEF forest, ra, rb
  <2> QED
    BY <1>3, <1>4
<1>6. Min({ra, rb}) = least /\ Max({ra, rb}) = high
  <2> HIDE DEF ra, rb
  <2>1. {ra, rb} \in SUBSET Nat /\ least \in {ra, rb} /\ high \in {ra, rb}
    BY <1>3
  <2>2. \A y \in {ra, rb} : least <= y /\ high >= y
    BY <1>3
  <2> HIDE DEF least, high
  <2> QED
    BY <2>1, <2>2, MinIs, MaxIs
<1>7. United(a, b) = [forest EXCEPT ![high] = least]
  <2>1. \A x : Trail(x) = TrailOf(parent, x) /\ Root(x) = RootOf(parent, x)
    BY TrailIs
  <2>2. United(a, b) = [Compressed(Compressed(parent, Trail(a)), Trail(b))
                          EXCEPT ![Max({Root(a), Root(b)})] = Min({Root(a), Root(b)})]
    BY Zenon DEF United
  <2> HIDE DEF least, high
  <2> QED
    BY <1>6, <2>1, <2>2
<1>8. /\ Downward(United(a, b))
      /\ \A v \in Nodes : RootOf(United(a, b), v) =
                            IF RootOf(forest, v) = high THEN least ELSE RootOf(forest, v)
  <2> DEFINE q == United(a, b)
  <2>1. q = [forest EXCEPT ![high] = least]
    BY <1>7
  <2> HIDE DEF forest, high, least, q
  <2>3. forest \in [Nodes -> Nodes]
    BY <1>2 DEF Downward
  <2>4. q \in [Nodes -> Nodes] /\ \A v \in Nodes : q[v] = IF v = high THEN least ELSE forest[v]
    BY <1>5, <2>1, <2>3
  <2>2. /\ Downward(q)
        /\ \A v \in Nodes : RootOf(q, v) = IF RootOf(forest, v) = high THEN least ELSE RootOf(forest, v)
    BY <1>2, <1>5, <2>4, JoinedRoots
  <2> QED
    BY <2>2 DEF q
<1>9. \A x : Root(x) = RootOf(parent, x)
  BY TrailIs
<1>10. \A v \in Nodes : RootOf(United(a, b), v) = IF Root(v) = high THEN least ELSE Root(v)
  <2> HIDE DEF forest, high, least
  <2> QED
    BY <1>2, <1>8, <1>9
<1>11. {Root(a), Root(b)} = {ra, rb}
  BY <1>9
<1>12. Downward(United(a, b))
  BY <1>8
<1> HIDE DEF forest, high, least, ra, rb
<1> QED
  BY <1>5, <1>10, <1>11, <1>12

(* what the edges united so far join                                       *)
Joined == BothWays(edges \ pending)

(* The invariant of union-find: parents go down, edges united so far have  *)
(* one root, and a root is joined with all that hangs below it.            *)
ForestInv ==
  /\ edges \subseteq Arcs /\ pending \subseteq edges
  /\ Downward(parent)
  /\ \A e \in edges \ pending : Root(e[1]) = Root(e[2])
  /\ \A v \in Nodes : Root(v) \in ReachedBy(Joined)[v]

(* The root in the next state is that of the next forest.                  *)
LEMMA RootNext == \A x : Root(x)' = RootOf(parent', x)
<1>1. \A x : Trail(x)' = TrailOf(parent', x)
  BY Zenon DEF Trail, TrailOf, WalkOf, Walks
<1> QED
  BY <1>1 DEF Root, RootOf

(* Where edges may be walked both ways, reaching is mutual.                *)
LEMMA BothWaysFacts ==
  ASSUME NEW E \in SUBSET Arcs
  PROVE  /\ BothWays(E) \in SUBSET (Nodes \X Nodes)
         /\ \A e \in E : e[1] \in Nodes /\ e[2] \in Nodes
         /\ \A v, w \in Nodes : w \in ReachedBy(BothWays(E))[v] => v \in ReachedBy(BothWays(E))[w]
<1> DEFINE F == BothWays(E)
           R == ReachedBy(F)
<1>1. F \in SUBSET (Nodes \X Nodes) /\ \A e \in E : e[1] \in Nodes /\ e[2] \in Nodes
  BY ComponentsAssumption DEF BothWays
<1>2. \A e \in F : <<e[2], e[1]>> \in F /\ e[1] \in Nodes /\ e[2] \in Nodes
  BY <1>1, ComponentsAssumption DEF BothWays
<1> HIDE DEF F
<1>3. /\ R \in [Nodes -> SUBSET Nodes]
      /\ \A v \in Nodes : v \in R[v]
      /\ \A e \in F : e[2] \in R[e[1]]
      /\ \A v \in Nodes : \A w \in R[v] : R[w] \subseteq R[v]
      /\ \A C \in SUBSET Nodes : \A v \in C : IsClosed(F, C) => R[v] \subseteq C
  BY <1>1, ReachedByFacts
<1> HIDE DEF R
<1>4. ASSUME NEW v \in Nodes, NEW w \in R[v]
      PROVE  v \in R[w]
  <2> DEFINE C == {u \in Nodes : v \in R[u]}
  <2>1. v \in C
    BY <1>3
  <2>2. ASSUME NEW e \in F, e[1] \in C PROVE e[2] \in C
    <3>1. <<e[2], e[1]>> \in F /\ e[1] \in Nodes /\ e[2] \in Nodes
      BY <1>2
    <3>2. e[1] \in R[e[2]]
      BY <1>3, <3>1
    <3>3. R[e[1]] \subseteq R[e[2]]
      BY <1>3, <3>1, <3>2
    <3> QED
      BY <2>2, <3>1, <3>3
  <2>3. R[v] \subseteq C
    <3>1. IsClosed(F, C)
      BY <2>2 DEF IsClosed
    <3> HIDE DEF C
    <3> QED
      BY <1>3, <2>1, <3>1 DEF C
  <2> QED
    BY <2>3
<1> QED
  BY <1>1, <1>4 DEF F, R

(* With more edges no node reaches less.                                   *)
LEMMA ReachGrows ==
  ASSUME NEW E \in SUBSET (Nodes \X Nodes), NEW F \in SUBSET (Nodes \X Nodes), E \subseteq F
  PROVE  \A v \in Nodes : ReachedBy(E)[v] \subseteq ReachedBy(F)[v]
<1> DEFINE R == ReachedBy(F)
<1>1. /\ R \in [Nodes -> SUBSET Nodes]
      /\ \A v \in Nodes : v \in R[v]
      /\ \A e \in F : e[2] \in R[e[1]]
      /\ \A v \in Nodes : \A w \in R[v] : R[w] \subseteq R[v]
  BY ReachedByFacts
<1> HIDE DEF R
<1>2. ASSUME NEW v \in Nodes PROVE IsClosed(E, R[v])
  BY <1>1 DEF IsClosed
<1>3. \A C \in SUBSET Nodes : \A v \in C : IsClosed(E, C) => ReachedBy(E)[v] \subseteq C
  BY ReachedByFacts
<1> QED
  BY <1>1, <1>2, <1>3 DEF R

(* at the start every node is its own root *)
LEMMA ForestInitInv == ComponentsInit => ForestInv
<1> SUFFICES ASSUME ComponentsInit PROVE ForestInv
  OBVIOUS
<1>1. edges \subseteq Arcs /\ pending \subseteq edges /\ edges \ pending = {}
  BY DEF ComponentsInit
<1>2. Downward(parent)
  BY ComponentsAssumption DEF ComponentsInit, Downward
<1>3. \A v \in Nodes : Root(v) = v
  <2>1. \A v \in Nodes : parent[v] = v
    BY DEF ComponentsInit
  <2> QED
    BY <1>2, <2>1, TrailFacts, TrailIs
<1>4. \A v \in Nodes : v \in ReachedBy(Joined)[v]
  BY <1>1, BothWaysFacts, ReachedByFacts DEF Joined
<1> QED
  BY <1>1, <1>2, <1>3, <1>4 DEF ForestInv

(* One more edge is united: the two trees become one, and what hangs in it *)
(* is joined by the edges united so far.                                   *)
LEMMA UniteEdgeInv ==
  ASSUME ForestInv, NEW e \in edges, UniteEdge(e)
  PROVE  ForestInv'
<1> DEFINE a == e[1]
           b == e[2]
           done == edges \ pending
           R == ReachedBy(BothWays(done))
           S == ReachedBy(BothWays(done \cup {e}))
<1>1. /\ e \in pending /\ parent' = United(a, b) /\ pending' = pending \ {e} /\ edges' = edges
      /\ a \in Nodes /\ b \in Nodes /\ pending \subseteq edges /\ edges \subseteq Arcs
      /\ Downward(parent)
  BY ComponentsAssumption DEF UniteEdge, ForestInv
<1>2. edges' \ pending' = done \cup {e} /\ Joined' = BothWays(done \cup {e}) /\ done \cup {e} \in SUBSET Arcs
  BY <1>1 DEF Joined
<1>3. PICK least \in {Root(a), Root(b)}, high \in {Root(a), Root(b)} :
            /\ {Root(a), Root(b)} = {least, high}
            /\ Downward(United(a, b))
            /\ \A v \in Nodes : RootOf(United(a, b), v) = IF Root(v) = high THEN least ELSE Root(v)
  <2> HIDE DEF a, b
  <2> QED
    BY <1>1, UnitedRoots
<1>4. \A x : Root(x)' = RootOf(United(a, b), x)
  <2>1. \A x : Root(x)' = RootOf(parent', x)
    BY RootNext
  <2> HIDE DEF a, b
  <2> QED
    BY <1>1, <2>1
<1>5. \A v \in Nodes : Root(v)' = IF Root(v) = high THEN least ELSE Root(v)
  <2> HIDE DEF a, b
  <2> QED
    BY <1>3, <1>4
<1>6. ASSUME NEW f \in edges' \ pending' PROVE (Root(f[1]) = Root(f[2]))'
  <2>1. f[1] \in Nodes /\ f[2] \in Nodes
    BY <1>2, <1>6, BothWaysFacts
  <2>2. CASE f = e
    <3> HIDE DEF a, b
    <3>1. Root(a)' = Root(b)'
      BY <1>1, <1>3, <1>5
    <3> QED
      BY <2>2, <3>1 DEF a, b
  <2>3. CASE f \in done
    <3>1. Root(f[1]) = Root(f[2])
      BY <2>3 DEF ForestInv
    <3> QED
      BY <1>5, <2>1, <3>1
  <2> QED
    BY <1>2, <1>6, <2>2, <2>3
<1>7. \A v \in Nodes : R[v] \subseteq S[v]
  <2>1. /\ BothWays(done) \in SUBSET (Nodes \X Nodes)
        /\ BothWays(done \cup {e}) \in SUBSET (Nodes \X Nodes)
    BY <1>2, BothWaysFacts
  <2>2. BothWays(done) \subseteq BothWays(done \cup {e})
    BY DEF BothWays
  <2> HIDE DEF done
  <2> QED
    BY <2>1, <2>2, ReachGrows
<1>8. /\ S \in [Nodes -> SUBSET Nodes]
      /\ \A v \in Nodes : \A w \in S[v] : S[w] \subseteq S[v]
      /\ b \in S[a]
      /\ \A v, w \in Nodes : w \in S[v] => v \in S[w]
  <2>1. BothWays(done \cup {e}) \in SUBSET (Nodes \X Nodes)
    BY <1>2, BothWaysFacts
  <2>2. e \in BothWays(done \cup {e})
    BY DEF BothWays
  <2>3. \A v, w \in Nodes : w \in S[v] => v \in S[w]
    <3> HIDE DEF done
    <3> QED
      BY <1>2, BothWaysFacts
  <2> HIDE DEF done
  <2> QED
    BY <2>1, <2>2, <2>3, ReachedByFacts
<1>9. \A v \in Nodes : Root(v) \in S[v]
  <2>1. \A v \in Nodes : Root(v) \in R[v]
    BY DEF ForestInv, Joined
  <2> HIDE DEF R, S
  <2> QED
    BY <1>7, <2>1
<1>10. ASSUME NEW v \in Nodes PROVE (Root(v) \in ReachedBy(Joined)[v])'
  <2> HIDE DEF S, a, b
  <2>1. Root(a) \in S[b] /\ Root(b) \in S[a]
    <3>1. a \in S[b]
      BY <1>1, <1>8
    <3> QED
      BY <1>1, <1>8, <1>9, <3>1
  <2>2. Root(a) \in S[a] /\ Root(b) \in S[b]
    BY <1>1, <1>9
  <2>3. least \in S[a] /\ least \in S[b]
    BY <2>1, <2>2
  <2>4. Root(v)' \in S[v]
    <3>1. CASE Root(v) # high
      BY <1>5, <1>9, <3>1
    <3>2. CASE Root(v) = high
      <4>1. Root(v)' = least
        BY <1>5, <3>2
      <4>2. PICK c \in {a, b} : Root(c) = high
        OBVIOUS
      <4>3. c \in Nodes /\ least \in S[c] /\ high \in S[v] /\ high \in S[c]
        BY <1>1, <1>9, <2>3, <3>2, <4>2
      <4>4. high \in Nodes /\ S[high] \subseteq S[v]
        BY <1>8, <4>3
      <4>5. c \in S[high]
        BY <1>8, <4>3, <4>4
      <4>6. S[c] \subseteq S[high]
        BY <1>8, <4>4, <4>5
      <4> QED
        BY <4>1, <4>3, <4>4, <4>6
    <3> QED
      BY <3>1, <3>2
  <2>5. ReachedBy(Joined)' = S
    BY <1>2 DEF S
  <2> QED
    BY <2>4, <2>5
<1>11. Downward(parent)'
  <2> HIDE DEF a, b
  <2> QED
    BY <1>1, <1>3
<1>12. edges' \subseteq Arcs /\ pending' \subseteq edges'
  BY <1>1
<1> QED
  BY <1>6, <1>10, <1>11, <1>12 DEF ForestInv

(* Steps of the other algorithm leave the forest alone.                    *)
LEMMA ForestStays ==
  ASSUME ForestInv, UNCHANGED <<edges, pending, parent>>
  PROVE  ForestInv'
<1>1. \A x : Root(x)' = Root(x)
  BY TrailIs, RootNext
<1>2. Joined' = Joined
  BY DEF Joined
<1> QED
  BY <1>1, <1>2 DEF ForestInv

(* Every step keeps the forest.                                            *)
LEMMA ForestNextInv == ForestInv /\ [ComponentsNext]_componentVars => ForestInv'
<1> SUFFICES ASSUME ForestInv, [ComponentsNext]_componentVars PROVE ForestInv'
  OBVIOUS
<1>1. CASE UNCHANGED componentVars
  BY <1>1, ForestStays DEF componentVars
<1>2. ASSUME NEW e \in edges, UniteEdge(e) PROVE ForestInv'
  BY <1>2, UniteEdgeInv
<1>3. ASSUME NEW v \in Nodes, StartAt(v) PROVE ForestInv'
  BY <1>3, ForestStays DEF StartAt, weakVars
<1>4. ASSUME NEW v \in Nodes, Descend(v) PROVE ForestInv'
  BY <1>4, ForestStays DEF Descend, weakVars
<1>5. ASSUME NEW v \in Nodes, Lower(v) PROVE ForestInv'
  BY <1>5, ForestStays DEF Lower, weakVars
<1>6. CASE Finish
  BY <1>6, ForestStays DEF Finish, weakVars
<1> QED
  BY <1>1, <1>2, <1>3, <1>4, <1>5, <1>6 DEF ComponentsNext

(* The roots of such a forest are the least members of the weak            *)
(* components.                                                             *)
LEMMA WeakExact == ForestInv => WeakComponentsAreExact
<1> SUFFICES ASSUME ForestInv, NEW v \in Nodes
             PROVE  Root(v) = Min(ReachedBy(Joined)[v])
  BY Zenon DEF WeakComponentsAreExact, Joined
<1> DEFINE R == ReachedBy(Joined)
           C == {w \in Nodes : Root(w) = Root(v)}
<1>1. Joined \in SUBSET (Nodes \X Nodes)
  BY BothWaysFacts DEF ForestInv, Joined
<1>2. IsClosed(Joined, C)
  <2>1. edges \ pending \in SUBSET Arcs
    BY DEF ForestInv
  <2>2. \A f \in edges \ pending : f[1] \in Nodes /\ f[2] \in Nodes /\ Root(f[1]) = Root(f[2])
    BY <2>1, BothWaysFacts DEF ForestInv
  <2> QED
    BY <2>2 DEF IsClosed, Joined, BothWays
<1>3. R[v] \subseteq C /\ R[v] \subseteq Nodes
  <2>1. v \in C /\ C \in SUBSET Nodes
    OBVIOUS
  <2> HIDE DEF C
  <2> QED
    BY <1>1, <1>2, <2>1, ReachedByFacts
<1>4. \A w \in Nodes : Root(w) <= w
  BY TrailFacts, TrailIs DEF ForestInv
<1>5. Root(v) \in R[v] /\ \A w \in R[v] : Root(v) <= w
  BY <1>3, <1>4 DEF ForestInv
<1>6. R[v] \in SUBSET Nat
  BY <1>3, ComponentsAssumption
<1> HIDE DEF R
<1>7. Min(R[v]) = Root(v)
  BY <1>5, <1>6, MinIs
<1> QED
  BY <1>7 DEF R

-----------------------------------------------------------------------------

(* the vertices on Tarjan's stack                                          *)
Held == Range(tstack)

(* the vertex of a frame, and its place in the order of discovery          *)
At(i) == frames[i].vertex
Place(i) == order[At(i)]

(* The frames cut the stack into segments: x belongs to the last frame     *)
(* that was discovered no later.                                           *)
Segment(x, i) ==
  /\ Place(i) <= order[x]
  /\ \A j \in DOMAIN frames : i < j => order[x] < Place(j)

(* what leads where, and what leads both ways                              *)
Lead == ReachedBy(edges)
Mutual(v) == {w \in Lead[v] : v \in Lead[w]}
TarjanTypeOK ==
  /\ edges \subseteq Arcs
  /\ order \in [Nodes -> Nat \cup {None}]
  /\ low \in [Nodes -> Nat]
  /\ tstack \in Seq(Nodes)
  /\ frames \in Seq([vertex : Nodes, left : SUBSET Nodes])
  /\ comp \in [Nodes -> Nodes \cup {None}]

(* Discovery indexes differ, and the next one is greater than all.         *)
OrdersAreFresh ==
  /\ \A v, w \in Visited : order[v] = order[w] => v = w
  /\ \A v \in Visited : order[v] < Cardinality(Visited)

(* The stack, and the frames with it, are in the order of discovery.       *)
StackClimbs ==
  /\ Held \subseteq Visited
  /\ \A i, j \in DOMAIN tstack : i < j => order[tstack[i]] < order[tstack[j]]
FramesClimb ==
  /\ \A i \in DOMAIN frames : At(i) \in Held /\ frames[i].left \subseteq Out(At(i))
  /\ \A i, j \in DOMAIN frames : i < j => Place(i) < Place(j)

(* A frame leads to everything on the stack above it, and everything on    *)
(* the stack leads back to some frame below it.                            *)
FramesLead ==
  \A i \in DOMAIN frames, x \in Held : Place(i) <= order[x] => x \in Lead[At(i)]
HeldLeadBack ==
  \A x \in Held : \E i \in DOMAIN frames : Place(i) <= order[x] /\ At(i) \in Lead[x]

(* A link is the index of a vertex on the stack that the frame leads to.   *)
LowsAreHeld ==
  \A i \in DOMAIN frames :
     /\ low[At(i)] <= Place(i)
     /\ \E w \in Held : order[w] = low[At(i)] /\ w \in Lead[At(i)]

(* An edge of a vertex on the stack is still to come, or has been counted  *)
(* in the link of the frame whose segment the vertex is in.                *)
EdgesAreSeen ==
  \A x \in Held : \A w \in Out(x) :
     \/ \E i \in DOMAIN frames : At(i) = x /\ w \in frames[i].left
     \/ /\ w \in Visited
        /\ w \in Held => \A i \in DOMAIN frames : Segment(x, i) => low[At(i)] <= order[w]

(* No edge leaves what is resolved, and its representatives are right.     *)
ResolvedAreClosed ==
  \A e \in edges : e[1] \in Visited \ Held => e[2] \in Visited \ Held
ResolvedAreExact ==
  \A v \in Nodes : comp[v] = IF v \in Visited \ Held THEN Min(Mutual(v)) ELSE None

(* The invariant of Tarjan's algorithm.                                    *)
TarjanInv ==
  /\ TarjanTypeOK /\ OrdersAreFresh /\ StackClimbs /\ FramesClimb /\ FramesLead
  /\ HeldLeadBack /\ LowsAreHeld /\ EdgesAreSeen /\ ResolvedAreClosed /\ ResolvedAreExact

(* What leads where, by the edges of the call                              *)
LEMMA LeadFacts ==
  ASSUME TarjanTypeOK
  PROVE  /\ Lead \in [Nodes -> SUBSET Nodes]
         /\ \A v \in Nodes : v \in Lead[v]
         /\ \A v \in Nodes : \A w \in Out(v) : w \in Nodes /\ w \in Lead[v]
         /\ \A u, v, w \in Nodes : v \in Lead[u] /\ w \in Lead[v] => w \in Lead[u]
         /\ \A C \in SUBSET Nodes : \A v \in C : IsClosed(edges, C) => Lead[v] \subseteq C
<1>1. edges \in SUBSET (Nodes \X Nodes)
  BY ComponentsAssumption DEF TarjanTypeOK
<1>2. /\ Lead \in [Nodes -> SUBSET Nodes]
      /\ \A v \in Nodes : v \in Lead[v]
      /\ \A e \in edges : e[2] \in Lead[e[1]]
      /\ \A v \in Nodes : \A w \in Lead[v] : Lead[w] \subseteq Lead[v]
      /\ \A C \in SUBSET Nodes : \A v \in C : IsClosed(edges, C) => Lead[v] \subseteq C
  BY <1>1, ReachedByFacts DEF Lead
<1>3. \A v \in Nodes : \A w \in Out(v) : w \in Nodes /\ w \in Lead[v]
  BY <1>1, <1>2 DEF Out
<1> QED
  BY <1>2, <1>3

(* the types of what the stacks hold *)
LEMMA StackFacts ==
  ASSUME TarjanInv
  PROVE  /\ DOMAIN tstack = 1 .. Len(tstack) /\ Len(tstack) \in Nat
         /\ DOMAIN frames = 1 .. Len(frames) /\ Len(frames) \in Nat
         /\ \A x \in Visited : x \in Nodes /\ order[x] \in Nat /\ order[x] < Cardinality(Visited)
         /\ \A x \in Held : x \in Nodes /\ x \in Visited /\ order[x] \in Nat
         /\ \A i \in DOMAIN frames : At(i) \in Nodes /\ At(i) \in Held /\ Place(i) \in Nat
         /\ \A i, j \in DOMAIN frames : i < j => Place(i) < Place(j)
         /\ \A v \in Nodes : low[v] \in Nat
         /\ Cardinality(Visited) \in Nat /\ IsFiniteSet(Visited)
<1>1. \A x \in Visited : x \in Nodes /\ order[x] \in Nat
  BY DEF Visited, TarjanInv, TarjanTypeOK
<1>2. \A x \in Visited : order[x] < Cardinality(Visited)
  BY DEF TarjanInv, OrdersAreFresh
<1>3. \A x \in Held : x \in Visited
  BY DEF TarjanInv, StackClimbs
<1>4. \A i \in DOMAIN frames : At(i) \in Held
  BY DEF TarjanInv, FramesClimb
<1>5. Cardinality(Visited) \in Nat /\ IsFiniteSet(Visited)
  <2>1. Visited \subseteq Nodes
    BY DEF Visited
  <2> QED
    BY <2>1, FS_Subset, FS_CardinalityType, ComponentsAssumption
<1>6. /\ DOMAIN tstack = 1 .. Len(tstack) /\ Len(tstack) \in Nat
      /\ DOMAIN frames = 1 .. Len(frames) /\ Len(frames) \in Nat
  BY DEF TarjanInv, TarjanTypeOK
<1>7. \A i, j \in DOMAIN frames : i < j => Place(i) < Place(j)
  BY DEF TarjanInv, FramesClimb
<1>8. \A v \in Nodes : low[v] \in Nat
  BY DEF TarjanInv, TarjanTypeOK
<1>9. \A i \in DOMAIN frames : At(i) \in Nodes /\ At(i) \in Held /\ Place(i) \in Nat
  BY <1>1, <1>3, <1>4 DEF Place
<1> QED
  BY <1>1, <1>2, <1>3, <1>5, <1>6, <1>7, <1>8, <1>9

(* Nothing is visited at the start.                                        *)
LEMMA TarjanInitInv == ComponentsInit => TarjanInv
<1> SUFFICES ASSUME ComponentsInit PROVE TarjanInv
  OBVIOUS
<1>1. /\ edges \subseteq Arcs /\ order = [v \in Nodes |-> None] /\ low = [v \in Nodes |-> 0]
      /\ tstack = <<>> /\ frames = <<>> /\ comp = [v \in Nodes |-> None]
  BY DEF ComponentsInit
<1>2. Visited = {} /\ Held = {} /\ DOMAIN frames = {} /\ DOMAIN tstack = {}
  BY <1>1 DEF Visited, Held, Range
<1>3. TarjanTypeOK
  BY <1>1 DEF TarjanTypeOK
<1>4. OrdersAreFresh /\ StackClimbs /\ FramesClimb /\ FramesLead
  BY <1>2 DEF OrdersAreFresh, StackClimbs, FramesClimb, FramesLead
<1>5. HeldLeadBack /\ LowsAreHeld /\ EdgesAreSeen /\ ResolvedAreClosed
  BY <1>2 DEF HeldLeadBack, LowsAreHeld, EdgesAreSeen, ResolvedAreClosed
<1>6. ResolvedAreExact
  BY <1>1, <1>2 DEF ResolvedAreExact
<1> QED
  BY <1>3, <1>4, <1>5, <1>6 DEF TarjanInv

(* A node is discovered, from the outer loop or from the frame on top. *)
LEMMA DiscoverInv ==
  ASSUME TarjanInv, NEW v \in Nodes \ Visited, NEW below \in Seq([vertex : Nodes, left : SUBSET Nodes]),
         Discover(v, below), UNCHANGED <<edges, comp>>,
         Len(below) = Len(frames),
         \A i \in DOMAIN frames : /\ below[i].vertex = At(i)
                                  /\ below[i].left \subseteq frames[i].left
                                  /\ \A w \in frames[i].left \ below[i].left : w = v,
         frames # <<>> => v \in Out(At(Len(frames)))
  PROVE  TarjanInv'
<1>n. PICK n : n = Len(frames)
  OBVIOUS
<1> DEFINE c == Cardinality(Visited)
           top == [vertex |-> v, left |-> Out(v)]
<1>0. /\ DOMAIN tstack = 1 .. Len(tstack) /\ Len(tstack) \in Nat
      /\ DOMAIN frames = 1 .. n /\ n \in Nat
      /\ \A x \in Visited : x \in Nodes /\ order[x] \in Nat /\ order[x] < c
      /\ \A x \in Held : x \in Nodes /\ x \in Visited /\ order[x] \in Nat
      /\ \A i \in DOMAIN frames : At(i) \in Nodes /\ At(i) \in Held /\ Place(i) \in Nat
      /\ \A i, j \in DOMAIN frames : i < j => Place(i) < Place(j)
      /\ \A u \in Nodes : low[u] \in Nat
      /\ c \in Nat /\ IsFiniteSet(Visited)
  BY <1>n, StackFacts
<1>00. /\ Lead \in [Nodes -> SUBSET Nodes]
       /\ \A u \in Nodes : u \in Lead[u]
       /\ \A u \in Nodes : \A w \in Out(u) : w \in Nodes /\ w \in Lead[u]
       /\ \A u, w, z \in Nodes : w \in Lead[u] /\ z \in Lead[w] => z \in Lead[u]
  BY LeadFacts DEF TarjanInv
<1>1. /\ order' = [order EXCEPT ![v] = c] /\ low' = [low EXCEPT ![v] = c]
      /\ tstack' = Append(tstack, v) /\ frames' = Append(below, top)
      /\ edges' = edges /\ comp' = comp
  BY DEF Discover
<1>2. /\ order \in [Nodes -> Nat \cup {None}] /\ low \in [Nodes -> Nat] /\ tstack \in Seq(Nodes)
      /\ edges \subseteq Arcs /\ comp \in [Nodes -> Nodes \cup {None}]
  BY DEF TarjanInv, TarjanTypeOK
<1>3. /\ order'[v] = c /\ low'[v] = c
      /\ \A u \in Nodes : u # v => order'[u] = order[u] /\ low'[u] = low[u]
  BY <1>1, <1>2
<1>4. Visited' = Visited \cup {v}
  BY <1>0, <1>3, ComponentsAssumption DEF Visited
<1>5. Cardinality(Visited)' = c + 1
  <2>1. v \notin Visited
    OBVIOUS
  <2>2. Cardinality(Visited \cup {v}) = c + 1
    BY <1>0, <2>1, FS_AddElement
  <2> QED
    BY <1>4, <2>2
<1>6. /\ tstack' \in Seq(Nodes) /\ DOMAIN tstack' = 1 .. Len(tstack) + 1
      /\ tstack'[Len(tstack) + 1] = v
      /\ \A i \in 1 .. Len(tstack) : tstack'[i] = tstack[i]
  BY <1>1, <1>2
<1>7. Held' = Held \cup {v}
  <2>1. Held' = {tstack'[i] : i \in 1 .. Len(tstack) + 1}
    BY <1>6 DEF Held, Range
  <2>2. Held = {tstack[i] : i \in 1 .. Len(tstack)}
    BY <1>0 DEF Held, Range
  <2>3. 1 .. Len(tstack) + 1 = (1 .. Len(tstack)) \cup {Len(tstack) + 1}
    BY <1>0
  <2>4. \A x : x \in Held' <=> x \in Held \/ x = v
    BY <1>6, <2>1, <2>2, <2>3
  <2> QED
    BY <2>4
<1>8. Out(v) \subseteq Nodes
  BY <1>00
<1>9. /\ frames' \in Seq([vertex : Nodes, left : SUBSET Nodes])
      /\ DOMAIN frames' = 1 .. n + 1
      /\ frames'[n + 1] = top
      /\ \A i \in 1 .. n : frames'[i] = below[i]
  <2>0. Len(below) = n
    BY <1>n
  <2>1. top \in [vertex : Nodes, left : SUBSET Nodes]
    BY <1>8
  <2> HIDE DEF top
  <2> QED
    BY <1>1, <2>0, <2>1
<1>10. /\ At(n + 1)' = v /\ frames'[n + 1].left = Out(v)
       /\ \A i \in 1 .. n : At(i)' = At(i)
  <2>1. At(n + 1)' = v /\ frames'[n + 1].left = Out(v)
    BY <1>9 DEF At
  <2>2. ASSUME NEW i \in 1 .. n PROVE At(i)' = At(i)
    <3>1. frames'[i].vertex = below[i].vertex /\ below[i].vertex = At(i)
      BY <1>0, <1>9, <2>2
    <3> QED
      BY <3>1 DEF At
  <2> QED
    BY <2>1, <2>2
<1>11. /\ Place(n + 1)' = c
       /\ \A i \in 1 .. n : Place(i)' = Place(i) /\ Place(i) < c /\ At(i) # v
  BY <1>0, <1>3, <1>10 DEF Place
<1>12. Lead' = Lead /\ \A u : Out(u)' = Out(u)
  BY <1>1 DEF Lead, Out
<1>13. \A x \in Visited : x # v /\ order'[x] = order[x] /\ order[x] < c
  BY <1>0, <1>3
<1>14. DOMAIN frames' = DOMAIN frames \cup {n + 1} /\ n + 1 \notin DOMAIN frames
  BY <1>0, <1>9
<1>15. ASSUME NEW x \in Held, NEW i \in DOMAIN frames', Segment(x, i)'
       PROVE  i \in DOMAIN frames /\ Segment(x, i)
  <2>1. Place(i)' <= order[x]
    BY <1>0, <1>13, <1>15 DEF Segment
  <2>2. i \in DOMAIN frames
    BY <1>0, <1>11, <1>13, <1>14, <2>1
  <2> QED
    BY <1>0, <1>11, <1>13, <1>14, <1>15, <2>1, <2>2 DEF Segment
<1> HIDE DEF c, top
<1>21. TarjanTypeOK'
  <2>1. order' \in [Nodes -> Nat \cup {None}]
    BY <1>0, <1>1, <1>2
  <2>2. low' \in [Nodes -> Nat]
    BY <1>0, <1>1, <1>2
  <2> QED
    BY <1>1, <1>2, <1>6, <1>9, <2>1, <2>2 DEF TarjanTypeOK
<1>22. OrdersAreFresh'
  <2>1. \A u, w \in Visited : order[u] = order[w] => u = w
    BY DEF TarjanInv, OrdersAreFresh
  <2>2. \A u, w \in Visited \cup {v} : order'[u] = order'[w] => u = w
    BY <1>0, <1>3, <1>13, <2>1
  <2>3. \A u \in Visited \cup {v} : order'[u] < c + 1
    BY <1>0, <1>3, <1>13
  <2> QED
    BY <1>4, <1>5, <2>2, <2>3 DEF OrdersAreFresh
<1>23. StackClimbs'
  <2>1. \A i, j \in DOMAIN tstack : i < j => order[tstack[i]] < order[tstack[j]]
    BY DEF TarjanInv, StackClimbs
  <2>2. \A i \in DOMAIN tstack : tstack[i] \in Held
    BY DEF Held, Range
  <2>3. ASSUME NEW i \in DOMAIN tstack', NEW j \in DOMAIN tstack', i < j
        PROVE  order'[tstack'[i]] < order'[tstack'[j]]
    <3>1. i \in DOMAIN tstack /\ tstack'[i] = tstack[i] /\ tstack[i] \in Visited
      BY <1>0, <1>6, <2>2, <2>3
    <3>2. CASE j = Len(tstack) + 1
      BY <1>3, <1>6, <1>13, <3>1, <3>2
    <3>3. CASE j # Len(tstack) + 1
      <4>1. j \in DOMAIN tstack /\ tstack'[j] = tstack[j] /\ tstack[j] \in Visited
        BY <1>0, <1>6, <2>2, <3>3
      <4> QED
        BY <1>13, <2>1, <2>3, <3>1, <4>1
    <3> QED
      BY <3>2, <3>3
  <2>4. Held' \subseteq Visited'
    BY <1>0, <1>4, <1>7
  <2> QED
    BY <2>3, <2>4 DEF StackClimbs
<1>24. FramesClimb'
  <2>1. ASSUME NEW i \in DOMAIN frames'
        PROVE  At(i)' \in Held' /\ frames'[i].left \subseteq Out(At(i))'
    <3>1. CASE i \in DOMAIN frames
      <4>1. frames[i].left \subseteq Out(At(i))
        BY <3>1 DEF TarjanInv, FramesClimb
      <4>2. frames'[i].left \subseteq frames[i].left
        BY <1>0, <1>9, <3>1
      <4> QED
        BY <1>0, <1>7, <1>10, <1>12, <3>1, <4>1, <4>2
    <3>2. CASE i = n + 1
      BY <1>7, <1>10, <1>12, <3>2
    <3> QED
      BY <1>14, <3>1, <3>2
  <2>2. \A i, j \in DOMAIN frames' : i < j => Place(i)' < Place(j)'
    BY <1>0, <1>9, <1>11
  <2> QED
    BY <2>1, <2>2 DEF FramesClimb
<1>25. FramesLead'
  <2> SUFFICES ASSUME NEW i \in DOMAIN frames', NEW x \in Held', Place(i)' <= order'[x]
               PROVE  x \in Lead[At(i)']
    BY <1>12 DEF FramesLead
  <2>0. \A j \in DOMAIN frames, y \in Held : Place(j) <= order[y] => y \in Lead[At(j)]
    BY DEF TarjanInv, FramesLead
  <2>1. CASE i \in DOMAIN frames /\ x \in Held
    BY <1>0, <1>10, <1>11, <1>13, <2>0, <2>1
  <2>2. CASE i \in DOMAIN frames /\ x = v
    <3>1. n \in DOMAIN frames /\ Place(i) <= Place(n) /\ v \in Out(At(n))
      <4>1. n \in DOMAIN frames /\ i \in 1 .. n /\ frames # <<>>
        BY <1>0, <2>2
      <4>2. i < n => Place(i) < Place(n)
        BY <1>0, <2>2, <4>1
      <4>3. Place(i) \in Nat /\ Place(n) \in Nat
        BY <1>0, <2>2, <4>1
      <4>4. Place(i) <= Place(n)
        BY <1>0, <4>1, <4>2, <4>3
      <4> QED
        BY <1>n, <4>1, <4>4
    <3>2. At(n) \in Lead[At(i)]
      BY <1>0, <2>0, <2>2, <3>1 DEF Place
    <3>3. v \in Lead[At(n)]
      BY <1>0, <1>00, <3>1
    <3>4. v \in Lead[At(i)]
      BY <1>0, <1>00, <2>2, <3>1, <3>2, <3>3
    <3> QED
      BY <1>0, <1>10, <2>2, <3>4
  <2>3. CASE i = n + 1
    <3>1. x = v
      BY <1>0, <1>7, <1>11, <1>13, <2>3
    <3> QED
      BY <1>00, <1>10, <2>3, <3>1
  <2> QED
    BY <1>7, <1>14, <2>1, <2>2, <2>3
<1>26. HeldLeadBack'
  <2> SUFFICES ASSUME NEW x \in Held'
               PROVE  \E i \in DOMAIN frames' : Place(i)' <= order'[x] /\ At(i)' \in Lead[x]
    BY <1>12 DEF HeldLeadBack
  <2>1. CASE x \in Held
    <3>1. PICK i \in DOMAIN frames : Place(i) <= order[x] /\ At(i) \in Lead[x]
      BY <2>1 DEF TarjanInv, HeldLeadBack
    <3> QED
      BY <1>0, <1>10, <1>11, <1>13, <1>14, <2>1, <3>1
  <2>2. CASE x = v
    BY <1>0, <1>00, <1>3, <1>10, <1>11, <1>14, <2>2
  <2> QED
    BY <1>7, <2>1, <2>2
<1>27. LowsAreHeld'
  <2> SUFFICES ASSUME NEW i \in DOMAIN frames'
               PROVE  /\ low'[At(i)'] <= Place(i)'
                      /\ \E w \in Held' : order'[w] = low'[At(i)'] /\ w \in Lead[At(i)']
    BY <1>12 DEF LowsAreHeld
  <2>1. CASE i \in DOMAIN frames
    <3>1. /\ low[At(i)] <= Place(i)
          /\ \E w \in Held : order[w] = low[At(i)] /\ w \in Lead[At(i)]
      BY <2>1 DEF TarjanInv, LowsAreHeld
    <3>2. low'[At(i)'] = low[At(i)] /\ Place(i)' = Place(i) /\ At(i)' = At(i)
      BY <1>0, <1>3, <1>10, <1>11, <2>1
    <3> QED
      BY <1>0, <1>7, <1>13, <3>1, <3>2
  <2>2. CASE i = n + 1
    BY <1>0, <1>00, <1>3, <1>7, <1>10, <1>11, <2>2
  <2> QED
    BY <1>14, <2>1, <2>2
<1>28. EdgesAreSeen'
  <2> SUFFICES ASSUME NEW x \in Held', NEW w \in Out(x)
               PROVE  \/ \E i \in DOMAIN frames' : At(i)' = x /\ w \in frames'[i].left
                      \/ /\ w \in Visited'
                         /\ w \in Held' => \A i \in DOMAIN frames' : Segment(x, i)' => low'[At(i)'] <= order'[w]
    BY <1>12 DEF EdgesAreSeen
  <2>1. CASE x = v
    BY <1>10, <1>14, <2>1
  <2>2. CASE x \in Held
    <3>0. ASSUME NEW i \in DOMAIN frames', Segment(x, i)'
          PROVE  i \in DOMAIN frames /\ Segment(x, i) /\ low'[At(i)'] = low[At(i)] /\ low[At(i)] <= Place(i)
      <4>1. i \in DOMAIN frames /\ Segment(x, i)
        BY <1>15, <2>2, <3>0
      <4>2. low[At(i)] <= Place(i)
        BY <4>1 DEF TarjanInv, LowsAreHeld
      <4> QED
        BY <1>0, <1>3, <1>10, <1>11, <4>1, <4>2
    <3>1. CASE \E i \in DOMAIN frames : At(i) = x /\ w \in frames[i].left
      <4>1. PICK i \in DOMAIN frames : At(i) = x /\ w \in frames[i].left
        BY <3>1
      <4>2. CASE w \in below[i].left
        BY <1>0, <1>9, <1>10, <1>14, <4>1, <4>2
      <4>3. CASE w \notin below[i].left
        <5>1. w = v
          BY <4>1, <4>3
        <5>2. ASSUME NEW k \in DOMAIN frames', Segment(x, k)'
              PROVE  low'[At(k)'] <= order'[w]
          BY <1>0, <1>3, <1>11, <3>0, <5>1, <5>2
        <5> QED
          BY <1>4, <5>1, <5>2
      <4> QED
        BY <4>2, <4>3
    <3>2. CASE ~ \E i \in DOMAIN frames : At(i) = x /\ w \in frames[i].left
      <4>1. /\ w \in Visited
            /\ w \in Held => \A i \in DOMAIN frames : Segment(x, i) => low[At(i)] <= order[w]
        BY <2>2, <3>2 DEF TarjanInv, EdgesAreSeen
      <4>2. w \in Held' => w \in Held
        BY <1>7, <1>13, <4>1
      <4> QED
        BY <1>4, <1>13, <3>0, <4>1, <4>2
    <3> QED
      BY <3>1, <3>2
  <2> QED
    BY <1>7, <2>1, <2>2
<1>29. Visited' \ Held' = Visited \ Held
  BY <1>0, <1>4, <1>7
<1>30. ResolvedAreClosed'
  BY <1>1, <1>29 DEF TarjanInv, ResolvedAreClosed
<1>31. ResolvedAreExact'
  <2>1. \A u \in Nodes : Mutual(u)' = Mutual(u)
    BY <1>12 DEF Mutual
  <2> QED
    BY <1>1, <1>29, <2>1 DEF TarjanInv, ResolvedAreExact
<1> QED
  BY <1>21, <1>22, <1>23, <1>24, <1>25, <1>26, <1>27, <1>28, <1>30, <1>31 DEF TarjanInv

(* the next vertex of the outer loop *)
LEMMA StartAtInv ==
  ASSUME TarjanInv, NEW v \in Nodes, StartAt(v)
  PROVE  TarjanInv'
<1> DEFINE below == <<>>
<1>1. /\ v \in Nodes \ Visited /\ frames = <<>> /\ Discover(v, <<>>)
      /\ UNCHANGED <<edges, comp>>
  BY DEF StartAt
<1>2. <<>> \in Seq([vertex : Nodes, left : SUBSET Nodes]) /\ Len(<<>>) = 0
  OBVIOUS
<1>3. Len(<<>>) = Len(frames) /\ DOMAIN frames = {}
  BY <1>1
<1> HIDE DEF below
<1> QED
  BY <1>1, <1>2, <1>3, DiscoverInv

(* The frames with the cursor of the one on top moved on                   *)
LEMMA AdvancedFacts ==
  ASSUME TarjanInv, frames # <<>>, NEW w
  PROVE  /\ Advanced(w) \in Seq([vertex : Nodes, left : SUBSET Nodes])
         /\ Len(Advanced(w)) = Len(frames) /\ DOMAIN Advanced(w) = DOMAIN frames
         /\ Len(frames) \in DOMAIN frames /\ TopFrame = frames[Len(frames)]
         /\ \A i \in DOMAIN frames :
              /\ Advanced(w)[i].vertex = At(i)
              /\ Advanced(w)[i].left = IF i = Len(frames) THEN frames[i].left \ {w} ELSE frames[i].left
<1>1. frames \in Seq([vertex : Nodes, left : SUBSET Nodes])
  BY DEF TarjanInv, TarjanTypeOK
<1> DEFINE n == Len(frames)
<1>2. n \in Nat /\ n > 0 /\ DOMAIN frames = 1 .. n /\ n \in DOMAIN frames
  BY <1>1
<1>3. \A i \in 1 .. n : frames[i] \in [vertex : Nodes, left : SUBSET Nodes]
  <2> HIDE DEF n
  <2> QED
    BY <1>1, <1>2, ElementOfSeq DEF n
<1>4. TopFrame = frames[n]
  BY DEF TopFrame, Last
<1>5. /\ DOMAIN Advanced(w) = 1 .. n
      /\ \A i \in 1 .. n : Advanced(w)[i] = IF i = n THEN [frames[i] EXCEPT !.left = @ \ {w}] ELSE frames[i]
  BY <1>2 DEF Advanced
<1>6. \A i \in 1 .. n : /\ Advanced(w)[i] \in [vertex : Nodes, left : SUBSET Nodes]
                        /\ Advanced(w)[i].vertex = frames[i].vertex
                        /\ Advanced(w)[i].left = IF i = n THEN frames[i].left \ {w} ELSE frames[i].left
  <2> SUFFICES ASSUME NEW i \in 1 .. n
               PROVE  /\ Advanced(w)[i] \in [vertex : Nodes, left : SUBSET Nodes]
                      /\ Advanced(w)[i].vertex = frames[i].vertex
                      /\ Advanced(w)[i].left = IF i = n THEN frames[i].left \ {w} ELSE frames[i].left
    OBVIOUS
  <2>1. frames[i] \in [vertex : Nodes, left : SUBSET Nodes]
    BY <1>3
  <2>2. Advanced(w)[i] = IF i = n THEN [frames[i] EXCEPT !.left = @ \ {w}] ELSE frames[i]
    BY <1>5
  <2> HIDE DEF n
  <2> QED
    BY <2>1, <2>2
<1>8. Advanced(w) \in Seq([vertex : Nodes, left : SUBSET Nodes]) /\ Len(Advanced(w)) = n
  <2> DEFINE e == [frames[n] EXCEPT !.left = @ \ {w}]
  <2>1. Advanced(w) = [frames EXCEPT ![n] = e]
    BY DEF Advanced
  <2>2. e \in [vertex : Nodes, left : SUBSET Nodes] /\ n \in 1 .. Len(frames)
    BY <1>2, <1>3
  <2> HIDE DEF e, n
  <2>3. /\ [frames EXCEPT ![n] = e] \in Seq([vertex : Nodes, left : SUBSET Nodes])
        /\ Len([frames EXCEPT ![n] = e]) = Len(frames)
    BY <1>1, <2>2, ExceptSeq
  <2> QED
    BY <2>1, <2>3 DEF n
<1> QED
  BY <1>2, <1>4, <1>5, <1>6, <1>8 DEF At

(* An unvisited neighbour gets a frame of its own.                         *)
LEMMA DescendInv ==
  ASSUME TarjanInv, NEW w \in Nodes, Descend(w)
  PROVE  TarjanInv'
<1> DEFINE below == Advanced(w)
<1>1. /\ w \in Nodes \ Visited /\ frames # <<>> /\ Discover(w, below) /\ w \in TopFrame.left
      /\ UNCHANGED <<edges, comp>>
  BY DEF Descend
<1>2. /\ below \in Seq([vertex : Nodes, left : SUBSET Nodes])
      /\ Len(below) = Len(frames)
      /\ Len(frames) \in DOMAIN frames /\ TopFrame = frames[Len(frames)]
      /\ \A i \in DOMAIN frames :
              /\ below[i].vertex = At(i)
              /\ below[i].left = IF i = Len(frames) THEN frames[i].left \ {w} ELSE frames[i].left
  BY <1>1, AdvancedFacts
<1> HIDE DEF below
<1>3. \A i \in DOMAIN frames : /\ below[i].vertex = At(i)
                               /\ below[i].left \subseteq frames[i].left
                               /\ \A u \in frames[i].left \ below[i].left : u = w
  BY <1>2
<1>4. w \in Out(At(Len(frames)))
  BY <1>1, <1>2 DEF TarjanInv, FramesClimb
<1> QED
  BY <1>1, <1>2, <1>3, <1>4, DiscoverInv

(* A visited neighbour lowers the link of the frame on top, if it is held. *)
LEMMA LowerInv ==
  ASSUME TarjanInv, NEW w \in Nodes, Lower(w)
  PROVE  TarjanInv'
<1>n. PICK n : n = Len(frames)
  OBVIOUS
<1> DEFINE top == At(n)
<1>0. /\ DOMAIN tstack = 1 .. Len(tstack) /\ Len(tstack) \in Nat
      /\ DOMAIN frames = 1 .. n /\ n \in Nat
      /\ \A x \in Visited : x \in Nodes /\ order[x] \in Nat
      /\ \A x \in Held : x \in Nodes /\ x \in Visited /\ order[x] \in Nat
      /\ \A i \in DOMAIN frames : At(i) \in Nodes /\ At(i) \in Held /\ Place(i) \in Nat
      /\ \A i, j \in DOMAIN frames : i < j => Place(i) < Place(j)
      /\ \A u \in Nodes : low[u] \in Nat
  BY <1>n, StackFacts
<1>00. /\ Lead \in [Nodes -> SUBSET Nodes]
       /\ \A u \in Nodes : u \in Lead[u]
       /\ \A u \in Nodes : \A z \in Out(u) : z \in Nodes /\ z \in Lead[u]
       /\ \A u, y, z \in Nodes : y \in Lead[u] /\ z \in Lead[y] => z \in Lead[u]
  BY LeadFacts DEF TarjanInv
<1>1. /\ frames # <<>> /\ w \in TopFrame.left /\ w \in Visited /\ frames' = Advanced(w)
      /\ low' = IF OnStack(w) THEN [low EXCEPT ![TopFrame.vertex] = Min({@, order[w]})] ELSE low
      /\ edges' = edges /\ order' = order /\ tstack' = tstack /\ comp' = comp
  BY DEF Lower
<1>2. /\ Advanced(w) \in Seq([vertex : Nodes, left : SUBSET Nodes])
      /\ DOMAIN Advanced(w) = DOMAIN frames
      /\ n \in DOMAIN frames /\ TopFrame = frames[n]
      /\ \A i \in DOMAIN frames :
              /\ Advanced(w)[i].vertex = At(i)
              /\ Advanced(w)[i].left = IF i = n THEN frames[i].left \ {w} ELSE frames[i].left
  BY <1>n, <1>1, AdvancedFacts
<1>3. /\ DOMAIN frames' = DOMAIN frames
      /\ \A i \in DOMAIN frames : At(i)' = At(i)
      /\ \A i \in DOMAIN frames :
           frames'[i].left = IF i = n THEN frames[i].left \ {w} ELSE frames[i].left
      /\ frames' \in Seq([vertex : Nodes, left : SUBSET Nodes])
  BY <1>1, <1>2 DEF At
<1>4. /\ Visited' = Visited /\ Held' = Held /\ Lead' = Lead /\ \A u : Out(u)' = Out(u)
      /\ \A i \in DOMAIN frames : Place(i)' = Place(i)
  BY <1>1, <1>3 DEF Visited, Held, Lead, Out, Place
<1>5. w \in Out(top) /\ w \in Nodes /\ order[w] \in Nat /\ top \in Nodes /\ low[top] \in Nat
  BY <1>0, <1>1, <1>2 DEF TarjanInv, FramesClimb
<1>6. low \in [Nodes -> Nat]
  BY DEF TarjanInv, TarjanTypeOK
<1>7. Min({low[top], order[w]}) = IF low[top] <= order[w] THEN low[top] ELSE order[w]
  <2> DEFINE m == IF low[top] <= order[w] THEN low[top] ELSE order[w]
             T == {low[top], order[w]}
  <2>1. T \in SUBSET Nat /\ m \in T /\ \A y \in T : m <= y
    BY <1>5
  <2> HIDE DEF m, T
  <2>2. Min(T) = m
    BY <2>1, MinIs
  <2> QED
    BY <2>2 DEF m, T
<1>8. /\ low' \in [Nodes -> Nat]
      /\ \A u \in Nodes : u # top => low'[u] = low[u]
      /\ low'[top] = IF w \in Held /\ order[w] < low[top] THEN order[w] ELSE low[top]
  <2>1. TopFrame.vertex = top
    BY <1>2 DEF At
  <2>2. CASE w \in Held
    <3>1. low' = [low EXCEPT ![top] = Min({low[top], order[w]})]
      BY <1>1, <2>1, <2>2 DEF OnStack, Held
    <3>2. Min({low[top], order[w]}) \in Nat
      BY <1>5, <1>7
    <3> HIDE DEF top
    <3> QED
      BY <1>5, <1>6, <1>7, <2>2, <3>1, <3>2
  <2>3. CASE w \notin Held
    BY <1>1, <1>6, <2>3 DEF OnStack, Held
  <2> QED
    BY <2>2, <2>3
<1>9. \A u \in Nodes : low'[u] <= low[u] /\ low'[u] \in Nat
  <2> HIDE DEF top
  <2> QED
    BY <1>5, <1>6, <1>8
<1>10. \A x \in Held, i \in DOMAIN frames : Segment(x, i)' <=> Segment(x, i)
  BY <1>1, <1>3, <1>4 DEF Segment
<1> HIDE DEF top
<1>21. TarjanTypeOK'
  BY <1>1, <1>3, <1>8 DEF TarjanInv, TarjanTypeOK
<1>22. OrdersAreFresh' /\ StackClimbs'
  BY <1>1, <1>4 DEF TarjanInv, OrdersAreFresh, StackClimbs
<1>23. FramesClimb'
  <2>1. \A i \in DOMAIN frames : At(i) \in Held /\ frames'[i].left \subseteq Out(At(i))
    BY <1>3 DEF TarjanInv, FramesClimb
  <2> QED
    BY <1>0, <1>3, <1>4, <2>1 DEF FramesClimb
<1>24. FramesLead'
  BY <1>0, <1>1, <1>3, <1>4 DEF TarjanInv, FramesLead
<1>25. HeldLeadBack'
  <2>1. ASSUME NEW x \in Held'
        PROVE  \E i \in DOMAIN frames' : Place(i)' <= order'[x] /\ At(i)' \in Lead'[x]
    <3>1. PICK i \in DOMAIN frames : Place(i) <= order[x] /\ At(i) \in Lead[x]
      BY <1>4 DEF TarjanInv, HeldLeadBack
    <3>2. i \in DOMAIN frames' /\ At(i)' = At(i) /\ Place(i)' = Place(i) /\ order' = order /\ Lead' = Lead
      BY <1>1, <1>3, <1>4
    <3> QED
      BY <3>1, <3>2
  <2> QED
    BY <2>1 DEF HeldLeadBack
<1>26. LowsAreHeld'
  <2> SUFFICES ASSUME NEW i \in DOMAIN frames
               PROVE  /\ low'[At(i)] <= Place(i)
                      /\ \E z \in Held : order[z] = low'[At(i)] /\ z \in Lead[At(i)]
    <3> SUFFICES ASSUME NEW i \in DOMAIN frames'
                 PROVE  /\ low'[At(i)'] <= Place(i)'
                        /\ \E z \in Held' : order'[z] = low'[At(i)'] /\ z \in Lead'[At(i)']
      BY Zenon DEF LowsAreHeld
    <3>1. i \in DOMAIN frames /\ At(i)' = At(i) /\ Place(i)' = Place(i)
      BY <1>3, <1>4
    <3>2. order' = order /\ Held' = Held /\ Lead' = Lead
      BY <1>1, <1>4
    <3> QED
      BY <3>1, <3>2
  <2>1. /\ low[At(i)] <= Place(i)
        /\ \E z \in Held : order[z] = low[At(i)] /\ z \in Lead[At(i)]
    BY DEF TarjanInv, LowsAreHeld
  <2>2. low'[At(i)] <= Place(i)
    <3>1. low'[At(i)] <= low[At(i)] /\ low'[At(i)] \in Nat /\ low[At(i)] \in Nat /\ Place(i) \in Nat
      BY <1>0, <1>9
    <3> QED
      BY <2>1, <3>1
  <2>3. CASE low'[At(i)] = low[At(i)]
    BY <2>1, <2>2, <2>3
  <2>4. CASE low'[At(i)] # low[At(i)]
    <3>1. At(i) = top /\ w \in Held /\ low'[At(i)] = order[w]
      BY <1>0, <1>8, <2>4
    <3>2. w \in Lead[top]
      BY <1>00, <1>5
    <3> QED
      BY <2>2, <3>1, <3>2
  <2> QED
    BY <2>3, <2>4
<1>27. EdgesAreSeen'
  <2> SUFFICES ASSUME NEW x \in Held, NEW z \in Out(x)
               PROVE  \/ \E i \in DOMAIN frames : At(i) = x /\ z \in frames'[i].left
                      \/ /\ z \in Visited
                         /\ z \in Held => \A i \in DOMAIN frames : Segment(x, i) => low'[At(i)] <= order[z]
    <3> SUFFICES ASSUME NEW x \in Held', NEW z \in Out(x)'
                 PROVE  \/ \E i \in DOMAIN frames' : At(i)' = x /\ z \in frames'[i].left
                        \/ /\ z \in Visited'
                           /\ z \in Held' => \A i \in DOMAIN frames' : Segment(x, i)' => low'[At(i)'] <= order'[z]
      BY Zenon DEF EdgesAreSeen
    <3>1. x \in Held /\ z \in Out(x)
      BY <1>4
    <3> QED
      BY <1>1, <1>3, <1>4, <1>10, <3>1
  <2>1. CASE \E i \in DOMAIN frames : At(i) = x /\ z \in frames[i].left
    <3>1. PICK i \in DOMAIN frames : At(i) = x /\ z \in frames[i].left
      BY <2>1
    <3>2. CASE i = n /\ z = w
      <4>1. ASSUME NEW k \in DOMAIN frames, Segment(x, k), z \in Held
            PROVE  low'[At(k)] <= order[z]
        <5>1. Place(n) = order[x]
          BY <3>1, <3>2 DEF Place
        <5>2. k = n
          <6>1. n \in DOMAIN frames /\ k \in Nat /\ n \in Nat /\ k <= n /\ Place(n) \in Nat
            BY <1>0, <1>2, <4>1
          <6>2. k < n => order[x] < Place(n)
            BY <4>1, <6>1 DEF Segment
          <6> QED
            BY <5>1, <6>1, <6>2
        <5>3. low'[top] <= order[w]
          BY <1>5, <1>8, <3>2, <4>1
        <5> QED
          BY <3>2, <5>2, <5>3 DEF top
      <4> QED
        BY <1>1, <3>2, <4>1
    <3>3. CASE ~ (i = n /\ z = w)
      BY <1>3, <3>1, <3>3
    <3> QED
      BY <3>2, <3>3
  <2>2. CASE ~ \E i \in DOMAIN frames : At(i) = x /\ z \in frames[i].left
    <3>1. /\ z \in Visited
          /\ z \in Held => \A i \in DOMAIN frames : Segment(x, i) => low[At(i)] <= order[z]
      BY <2>2 DEF TarjanInv, EdgesAreSeen
    <3>2. ASSUME NEW i \in DOMAIN frames, Segment(x, i), z \in Held
          PROVE  low'[At(i)] <= order[z]
      <4>1. low'[At(i)] <= low[At(i)] /\ low'[At(i)] \in Nat /\ low[At(i)] \in Nat /\ order[z] \in Nat
        BY <1>0, <1>9, <3>1
      <4>2. low[At(i)] <= order[z]
        BY <3>1, <3>2
      <4> QED
        BY <4>1, <4>2
    <3> QED
      BY <3>1, <3>2
  <2> QED
    BY <2>1, <2>2
<1>28. ResolvedAreClosed'
  BY <1>1, <1>4 DEF TarjanInv, ResolvedAreClosed
<1>29. ResolvedAreExact'
  <2>1. \A u \in Nodes : Mutual(u)' = Mutual(u)
    BY <1>4 DEF Mutual
  <2> QED
    BY <1>1, <1>4, <2>1 DEF TarjanInv, ResolvedAreExact
<1> QED
  BY <1>21, <1>22, <1>23, <1>24, <1>25, <1>26, <1>27, <1>28, <1>29 DEF TarjanInv

(* What Popped() pops is the upper end of the stack, from v on.            *)
LEMMA PoppedFacts ==
  ASSUME TarjanInv, NEW v \in Held,
         NEW s, s = SubSeq(tstack, 1, Len(tstack) - Cardinality(Popped(v)))
  PROVE  /\ Popped(v) = {x \in Held : order[v] <= order[x]}
         /\ s \in Seq(Nodes)
         /\ Range(s) = Held \ Popped(v)
         /\ \A i, j \in DOMAIN s : i < j => order[s[i]] < order[s[j]]
<1> DEFINE m == Len(tstack)
<1>0. /\ DOMAIN tstack = 1 .. m /\ m \in Nat
      /\ \A x \in Held : x \in Nodes /\ order[x] \in Nat
  BY StackFacts
<1>1. /\ \A i, j \in 1 .. m : i < j => order[tstack[i]] < order[tstack[j]]
      /\ tstack \in Seq(Nodes)
  BY <1>0 DEF TarjanInv, TarjanTypeOK, StackClimbs
<1>2. Held = {tstack[i] : i \in 1 .. m}
  BY <1>0 DEF Held, Range
<1>3. PICK k \in 1 .. m : tstack[k] = v
  BY <1>2
<1> HIDE DEF m
<1>4. \A i \in 1 .. m : tstack[i] \in Held /\ order[tstack[i]] \in Nat
  BY <1>0, <1>2
<1>5. \A i, j \in 1 .. m : tstack[i] = tstack[j] => i = j
  BY <1>0, <1>1, <1>4
<1>6. \A j \in 1 .. m : (\E i \in 1 .. j : tstack[i] = v) <=> k <= j
  BY <1>0, <1>3, <1>5
<1>7. Popped(v) = {tstack[i] : i \in k .. m}
  <2>1. {j \in DOMAIN tstack : \E i \in 1 .. j : tstack[i] = v} = k .. m
    BY <1>0, <1>3, <1>6
  <2> QED
    BY <2>1 DEF Popped
<1>8. \A i \in 1 .. m : order[v] <= order[tstack[i]] <=> k <= i
  BY <1>0, <1>1, <1>3, <1>4
<1>9. Popped(v) = {x \in Held : order[v] <= order[x]}
  <2>1. \A x \in Popped(v) : x \in Held /\ order[v] <= order[x]
    BY <1>0, <1>3, <1>4, <1>7, <1>8
  <2>2. \A x \in Held : order[v] <= order[x] => x \in Popped(v)
    <3> SUFFICES ASSUME NEW x \in Held, order[v] <= order[x] PROVE x \in Popped(v)
      OBVIOUS
    <3>1. PICK i \in 1 .. m : x = tstack[i]
      BY <1>2
    <3>2. i \in k .. m
      BY <1>0, <1>3, <1>8, <3>1
    <3> QED
      BY <1>7, <3>1, <3>2
  <2> QED
    BY <2>1, <2>2
<1>10. Cardinality(Popped(v)) = m - k + 1
  <2> DEFINE f == [i \in k .. m |-> tstack[i]]
  <2>1. IsFiniteSet(k .. m) /\ Cardinality(k .. m) = m - k + 1
    <3>1. k \in Int /\ m \in Int /\ ~(k > m)
      BY <1>0, <1>3
    <3>2. IsFiniteSet(k .. m) /\ Cardinality(k .. m) = IF k > m THEN 0 ELSE m - k + 1
      BY <3>1, FS_Interval
    <3> QED
      BY <3>1, <3>2
  <2>2. f \in Bijection(k .. m, Popped(v))
    <3>1. \A i \in k .. m : f[i] \in Popped(v)
      BY <1>7
    <3>2. \A i, j \in k .. m : f[i] = f[j] => i = j
      BY <1>0, <1>3, <1>5
    <3>3. \A x \in Popped(v) : \E i \in k .. m : f[i] = x
      BY <1>7
    <3>4. f \in [k .. m -> Popped(v)]
      BY <3>1
    <3> HIDE DEF f
    <3> QED
      BY <3>2, <3>3, <3>4 DEF Bijection, Injection, Surjection, IsInjective
  <2> HIDE DEF f
  <2>3. Cardinality(Popped(v)) = Cardinality(k .. m)
    <3>1. ExistsBijection(k .. m, Popped(v))
      BY <2>2 DEF ExistsBijection
    <3> QED
      BY <2>1, <3>1, FS_Bijection
  <2> QED
    BY <2>1, <2>3
<1>11. s = SubSeq(tstack, 1, k - 1)
  <2>1. m - (m - k + 1) = k - 1
    BY <1>0, <1>3
  <2> QED
    BY <1>10, <2>1 DEF m
<1>12. /\ s \in Seq(Nodes) /\ DOMAIN s = 1 .. k - 1
       /\ \A i \in 1 .. k - 1 : s[i] = tstack[i]
  <2>1. 1 \in Int /\ k - 1 \in Int /\ k - 1 <= m /\ k - 1 \in Nat
    BY <1>0, <1>3
  <2>2. \A i \in 1 .. k - 1 : tstack[i] \in Nodes
    BY <1>0, <1>4, <2>1
  <2> DEFINE r == SubSeq(tstack, 1, k - 1)
  <2>5. /\ r \in Seq(Nodes) /\ Len(r) = IF 1 <= k - 1 THEN (k - 1) - 1 + 1 ELSE 0
        /\ \A i \in 1 .. (k - 1) - 1 + 1 : r[i] = tstack[1 + i - 1]
    BY <2>1, <2>2, SubSeqProperties
  <2>6. s = r
    BY <1>11
  <2> HIDE DEF r
  <2>3. /\ s \in Seq(Nodes) /\ Len(s) = IF 1 <= k - 1 THEN (k - 1) - 1 + 1 ELSE 0
        /\ \A i \in 1 .. (k - 1) - 1 + 1 : s[i] = tstack[1 + i - 1]
    BY <2>5, <2>6
  <2>4. Len(s) = k - 1 /\ (k - 1) - 1 + 1 = k - 1 /\ \A i \in 1 .. k - 1 : 1 + i - 1 = i
    BY <1>3, <2>1, <2>3
  <2> QED
    BY <2>3, <2>4
<1>13. Range(s) = Held \ Popped(v)
  <2>1. Range(s) = {tstack[i] : i \in 1 .. k - 1}
    BY <1>12 DEF Range
  <2>2. ASSUME NEW x \in Range(s) PROVE x \in Held \ Popped(v)
    <3>1. PICK i \in 1 .. k - 1 : x = tstack[i]
      BY <2>1
    <3>2. i \in 1 .. m /\ ~(k <= i)
      BY <1>0, <1>3, <3>1
    <3> QED
      BY <1>4, <1>8, <1>9, <3>1, <3>2
  <2>3. ASSUME NEW x \in Held \ Popped(v) PROVE x \in Range(s)
    <3>1. PICK i \in 1 .. m : x = tstack[i]
      BY <1>2
    <3>2. i \in 1 .. k - 1
      BY <1>0, <1>3, <1>8, <1>9, <3>1, <2>3
    <3> QED
      BY <2>1, <3>1, <3>2
  <2> QED
    BY <2>2, <2>3
<1>14. \A i, j \in DOMAIN s : i < j => order[s[i]] < order[s[j]]
  <2>1. \A i \in 1 .. k - 1 : i \in 1 .. m
    BY <1>0, <1>3
  <2> QED
    BY <1>1, <1>12, <2>1
<1> QED
  BY <1>9, <1>12, <1>13, <1>14

(* What Finish does to the frames and the links, popped or not *)
LEMMA FinishFacts ==
  ASSUME TarjanInv, Finish, NEW n, n = Len(frames)
  PROVE  /\ n \in DOMAIN frames /\ n \in Nat /\ n > 0 /\ DOMAIN frames = 1 .. n /\ DOMAIN frames' = 1 .. n - 1
         /\ frames' \in Seq([vertex : Nodes, left : SUBSET Nodes])
         /\ \A i \in 1 .. n - 1 : /\ i \in DOMAIN frames /\ At(i)' = At(i) /\ Place(i)' = Place(i)
                                  /\ frames'[i].left = frames[i].left
         /\ frames[n].left = {} /\ TopFrame.vertex = At(n)
         /\ edges' = edges /\ order' = order /\ Lead' = Lead /\ Visited' = Visited /\ \A u : Out(u)' = Out(u)
         /\ low' \in [Nodes -> Nat]
         /\ \A i \in 1 .. n - 1 :
              low'[At(i)] = IF i = n - 1 /\ low[At(n)] < low[At(i)] THEN low[At(n)] ELSE low[At(i)]
<1>1. /\ frames # <<>> /\ TopFrame.left = {} /\ frames' = Front(frames)
      /\ low' = IF Front(frames) = <<>> THEN low
                ELSE [low EXCEPT ![Last(Front(frames)).vertex] = Min({@, low[TopFrame.vertex]})]
      /\ edges' = edges /\ order' = order
  BY DEF Finish
<1>2. /\ DOMAIN frames = 1 .. n /\ n \in Nat
      /\ \A i \in DOMAIN frames : At(i) \in Nodes /\ At(i) \in Held /\ Place(i) \in Nat
      /\ \A i, j \in DOMAIN frames : i < j => Place(i) < Place(j)
      /\ \A u \in Nodes : low[u] \in Nat
  BY StackFacts
<1>3. frames \in Seq([vertex : Nodes, left : SUBSET Nodes]) /\ low \in [Nodes -> Nat]
  BY DEF TarjanInv, TarjanTypeOK
<1>4. n > 0 /\ n \in DOMAIN frames
  <2>1. n # 0
    BY <1>1, <1>3
  <2> QED
    BY <1>2, <2>1
<1>5. TopFrame = frames[n]
  BY DEF TopFrame, Last
<1>6. /\ frames' \in Seq([vertex : Nodes, left : SUBSET Nodes]) /\ DOMAIN frames' = 1 .. n - 1
      /\ Len(frames') = n - 1
      /\ \A i \in 1 .. n - 1 : frames'[i] = frames[i]
  <2>1. frames' = SubSeq(frames, 1, n - 1)
    BY <1>1 DEF Front
  <2>2. 1 \in Int /\ n - 1 \in Int /\ n - 1 \in Nat /\ n - 1 <= n
    BY <1>2, <1>4
  <2> DEFINE F == [vertex : Nodes, left : SUBSET Nodes]
  <2>3. \A i \in 1 .. n - 1 : frames[i] \in F
    <3>1. \A i \in 1 .. n - 1 : i \in 1 .. Len(frames)
      BY <2>2
    <3> HIDE DEF F
    <3> QED
      BY <1>3, <3>1, ElementOfSeq DEF F
  <2> HIDE DEF F
  <2>4. /\ frames' \in Seq(F) /\ Len(frames') = IF 1 <= n - 1 THEN (n - 1) - 1 + 1 ELSE 0
        /\ \A i \in 1 .. (n - 1) - 1 + 1 : frames'[i] = frames[1 + i - 1]
    BY <2>1, <2>2, <2>3, SubSeqProperties
  <2>5. Len(frames') = n - 1 /\ (n - 1) - 1 + 1 = n - 1 /\ \A i \in 1 .. n - 1 : 1 + i - 1 = i
    BY <2>2, <2>4
  <2>6. DOMAIN frames' = 1 .. n - 1
    BY <2>4, <2>5
  <2> QED
    BY <2>4, <2>5, <2>6 DEF F
<1>7. \A i \in 1 .. n - 1 : /\ i \in DOMAIN frames /\ At(i)' = At(i) /\ Place(i)' = Place(i)
                            /\ frames'[i].left = frames[i].left
  BY <1>1, <1>2, <1>6 DEF At, Place
<1>8. /\ Lead' = Lead /\ Visited' = Visited /\ \A u : Out(u)' = Out(u)
  BY <1>1 DEF Lead, Visited, Out
<1>9. frames[n].left = {} /\ TopFrame.vertex = At(n)
  BY <1>1, <1>5 DEF At
<1>10. /\ low' \in [Nodes -> Nat]
       /\ \A i \in 1 .. n - 1 :
            low'[At(i)] = IF i = n - 1 /\ low[At(n)] < low[At(i)] THEN low[At(n)] ELSE low[At(i)]
  <2>1. CASE n = 1
    <3>1. 1 .. n - 1 = {} /\ Front(frames) = <<>>
      BY <1>1, <1>6, <2>1
    <3> QED
      BY <1>1, <1>3, <3>1
  <2>2. CASE n # 1
    <3> DEFINE u == At(n - 1)
               t == At(n)
    <3>1. n - 1 \in 1 .. n - 1 /\ Front(frames) # <<>> /\ Last(Front(frames)) = frames[n - 1]
      BY <1>1, <1>2, <1>4, <1>6, <2>2 DEF Last
    <3>2. u \in Nodes /\ t \in Nodes /\ low[u] \in Nat /\ low[t] \in Nat
      BY <1>2, <1>4, <1>7, <3>1
    <3>3. low' = [low EXCEPT ![u] = Min({low[u], low[t]})]
      BY <1>1, <1>9, <3>1 DEF At
    <3>4. Min({low[u], low[t]}) = IF low[t] < low[u] THEN low[t] ELSE low[u]
      <4> DEFINE m == IF low[t] < low[u] THEN low[t] ELSE low[u]
                 T == {low[u], low[t]}
      <4>1. T \in SUBSET Nat /\ m \in T /\ \A y \in T : m <= y
        BY <3>2
      <4> HIDE DEF m, T
      <4>2. Min(T) = m
        BY <4>1, MinIs
      <4> QED
        BY <4>2 DEF m, T
    <3> HIDE DEF u, t
    <3>5. Min({low[u], low[t]}) \in Nat
      BY <3>2, <3>4
    <3>6. low' \in [Nodes -> Nat]
      BY <1>3, <3>2, <3>3, <3>5
    <3>7. low'[u] = IF low[t] < low[u] THEN low[t] ELSE low[u]
      BY <1>3, <3>2, <3>3, <3>4
    <3>8. \A x \in Nodes : x # u => low'[x] = low[x]
      BY <1>3, <3>3
    <3>9. ASSUME NEW i \in 1 .. n - 1, i # n - 1 PROVE At(i) # u /\ At(i) \in Nodes
      <4>1. Place(i) < Place(n - 1) /\ Place(i) \in Nat /\ At(i) \in Nodes
        <5>1. i \in DOMAIN frames /\ n - 1 \in DOMAIN frames /\ i < n - 1
          BY <1>2, <1>7, <3>1, <3>9
        <5> QED
          BY <1>2, <5>1
      <4> QED
        BY <4>1 DEF Place, u
    <3> QED
      BY <3>6, <3>7, <3>8, <3>9 DEF u, t
  <2> QED
    BY <2>1, <2>2
<1> QED
  BY <1>1, <1>2, <1>4, <1>6, <1>7, <1>8, <1>9, <1>10

(* The frame on top is left and was no root: what it held is left to the   *)
(* frame below.                                                            *)
LEMMA FinishOpenInv ==
  ASSUME TarjanInv, Finish, low[TopFrame.vertex] # order[TopFrame.vertex]
  PROVE  TarjanInv'
<1>n. PICK n : n = Len(frames)
  OBVIOUS
<1> DEFINE v == At(n)
<1>1. /\ n \in DOMAIN frames /\ n \in Nat /\ n > 0 /\ DOMAIN frames = 1 .. n /\ DOMAIN frames' = 1 .. n - 1
      /\ frames' \in Seq([vertex : Nodes, left : SUBSET Nodes])
      /\ \A i \in 1 .. n - 1 : /\ i \in DOMAIN frames /\ At(i)' = At(i) /\ Place(i)' = Place(i)
                               /\ frames'[i].left = frames[i].left
      /\ frames[n].left = {} /\ TopFrame.vertex = v
      /\ edges' = edges /\ order' = order /\ Lead' = Lead /\ Visited' = Visited /\ \A u : Out(u)' = Out(u)
      /\ low' \in [Nodes -> Nat]
      /\ \A i \in 1 .. n - 1 :
           low'[At(i)] = IF i = n - 1 /\ low[v] < low[At(i)] THEN low[v] ELSE low[At(i)]
  BY <1>n, FinishFacts
<1>2. comp' = comp /\ tstack' = tstack /\ Held' = Held
  <2>1. comp' = comp /\ tstack' = tstack
    BY DEF Finish
  <2> QED
    BY <2>1 DEF Held
<1>3. /\ \A x \in Held : x \in Nodes /\ x \in Visited /\ order[x] \in Nat
      /\ \A i \in DOMAIN frames : At(i) \in Nodes /\ At(i) \in Held /\ Place(i) \in Nat
      /\ \A i, j \in DOMAIN frames : i < j => Place(i) < Place(j)
      /\ \A u \in Nodes : low[u] \in Nat
  BY StackFacts
<1>4. \A u, y, z \in Nodes : y \in Lead[u] /\ z \in Lead[y] => z \in Lead[u]
  BY LeadFacts DEF TarjanInv
<1>5. order[v] = Place(n) /\ v \in Held /\ v \in Nodes
  BY <1>1, <1>3 DEF Place
<1>6. /\ low[v] <= Place(n)
      /\ \E w \in Held : order[w] = low[v] /\ w \in Lead[v]
  BY <1>1 DEF TarjanInv, LowsAreHeld
<1>7. PICK w \in Held : order[w] < Place(n) /\ order[w] = low[v] /\ w \in Lead[v]
  BY <1>1, <1>3, <1>5, <1>6
<1>8. PICK b \in DOMAIN frames : Place(b) <= order[w] /\ At(b) \in Lead[w]
  BY DEF TarjanInv, HeldLeadBack
<1>9. b \in 1 .. n - 1 /\ At(b) \in Lead[v] /\ Place(b) < Place(n)
  <2>1. b # n /\ Place(b) < Place(n)
    <3>1. Place(b) \in Nat /\ Place(n) \in Nat /\ order[w] \in Nat
      BY <1>1, <1>3
    <3> QED
      BY <1>7, <1>8, <3>1
  <2>2. At(b) \in Lead[v]
    BY <1>3, <1>4, <1>5, <1>7, <1>8
  <2> QED
    BY <1>1, <2>1, <2>2
<1>10. n - 1 \in 1 .. n - 1
  BY <1>1, <1>9
<1>11. \A i \in 1 .. n - 1 : /\ low'[At(i)] <= low[At(i)] /\ low'[At(i)] \in Nat /\ low[At(i)] \in Nat
                             /\ i = n - 1 => low'[At(i)] <= low[v]
  <2> SUFFICES ASSUME NEW i \in 1 .. n - 1
               PROVE  /\ low'[At(i)] <= low[At(i)] /\ low'[At(i)] \in Nat /\ low[At(i)] \in Nat
                      /\ i = n - 1 => low'[At(i)] <= low[v]
    OBVIOUS
  <2>1. low[At(i)] \in Nat /\ low[v] \in Nat
    BY <1>1, <1>3, <1>5
  <2>2. low'[At(i)] = IF i = n - 1 /\ low[v] < low[At(i)] THEN low[v] ELSE low[At(i)]
    BY <1>1
  <2> QED
    BY <2>1, <2>2
<1>12. ASSUME NEW x \in Held, NEW i \in 1 .. n - 1, Segment(x, i)'
       PROVE  Segment(x, i) \/ (i = n - 1 /\ Segment(x, n))
  <2>1. /\ Place(i) <= order[x]
        /\ \A j \in 1 .. n - 1 : i < j => order[x] < Place(j)
    BY <1>1, <1>12 DEF Segment
  <2>2. CASE order[x] < Place(n)
    BY <1>1, <2>1, <2>2 DEF Segment
  <2>3. CASE ~ (order[x] < Place(n))
    <3>1. Place(n) <= order[x]
      <4>1. n \in DOMAIN frames
        BY <1>1
      <4>2. Place(n) \in Nat /\ order[x] \in Nat
        BY <1>3, <4>1
      <4> QED
        BY <2>3, <4>2
    <3>2. Segment(x, n)
      BY <1>1, <3>1 DEF Segment
    <3>3. i = n - 1
      <4>1. i < n - 1 => order[x] < Place(n - 1) /\ Place(n - 1) < Place(n)
        <5>1. n - 1 \in DOMAIN frames /\ n \in DOMAIN frames /\ n - 1 < n /\ n - 1 \in 1 .. n - 1
          BY <1>1, <1>10
        <5>2. Place(n - 1) < Place(n)
          BY <1>3, <5>1
        <5>3. i < n - 1 => order[x] < Place(n - 1)
          BY <2>1, <5>1
        <5> QED
          BY <5>2, <5>3
      <4>2. n - 1 \in DOMAIN frames /\ order[x] \in Nat /\ Place(n - 1) \in Nat /\ Place(n) \in Nat
        BY <1>1, <1>3, <1>10
      <4> QED
        BY <1>1, <2>3, <4>1, <4>2
    <3> QED
      BY <3>2, <3>3
  <2> QED
    BY <2>2, <2>3
<1> HIDE DEF v
<1>21. TarjanTypeOK'
  BY <1>1, <1>2 DEF TarjanInv, TarjanTypeOK
<1>22. OrdersAreFresh' /\ StackClimbs'
  BY <1>1, <1>2 DEF TarjanInv, OrdersAreFresh, StackClimbs
<1>23. FramesClimb'
  <2>1. \A i \in 1 .. n - 1 : At(i) \in Held /\ frames'[i].left \subseteq Out(At(i))
    BY <1>1 DEF TarjanInv, FramesClimb
  <2>2. \A i \in DOMAIN frames' : At(i)' \in Held' /\ frames'[i].left \subseteq Out(At(i))'
    BY <1>1, <1>2, <2>1
  <2>3. \A i, j \in DOMAIN frames' : i < j => Place(i)' < Place(j)'
    BY <1>1, <1>3
  <2> QED
    BY <2>2, <2>3 DEF FramesClimb
<1>24. FramesLead'
  <2>1. \A i \in 1 .. n - 1, x \in Held : Place(i) <= order[x] => x \in Lead[At(i)]
    BY <1>1 DEF TarjanInv, FramesLead
  <2> QED
    BY <1>1, <1>2, <2>1 DEF FramesLead
<1>25. HeldLeadBack'
  <2>1. ASSUME NEW x \in Held
        PROVE  \E i \in 1 .. n - 1 : Place(i) <= order[x] /\ At(i) \in Lead[x]
    <3>1. PICK i \in DOMAIN frames : Place(i) <= order[x] /\ At(i) \in Lead[x]
      BY DEF TarjanInv, HeldLeadBack
    <3>2. CASE i = n
      <4>1. Place(b) <= order[x]
        <5>1. Place(b) \in Nat /\ Place(n) \in Nat /\ order[x] \in Nat
          BY <1>1, <1>3
        <5> QED
          BY <1>9, <3>1, <3>2, <5>1
      <4>2. At(b) \in Lead[x]
        BY <1>1, <1>3, <1>4, <1>5, <1>9, <3>1, <3>2 DEF v
      <4> QED
        BY <1>9, <4>1, <4>2
    <3>3. CASE i # n
      BY <1>1, <3>1, <3>3
    <3> QED
      BY <3>2, <3>3
  <2>2. ASSUME NEW x \in Held'
        PROVE  \E i \in DOMAIN frames' : Place(i)' <= order'[x] /\ At(i)' \in Lead'[x]
    <3>1. PICK i \in 1 .. n - 1 : Place(i) <= order[x] /\ At(i) \in Lead[x]
      BY <1>2, <2>1
    <3>2. i \in DOMAIN frames' /\ At(i)' = At(i) /\ Place(i)' = Place(i) /\ order' = order /\ Lead' = Lead
      BY <1>1
    <3> QED
      BY <3>1, <3>2
  <2> QED
    BY <2>2 DEF HeldLeadBack
<1>26. LowsAreHeld'
  <2>1. ASSUME NEW i \in 1 .. n - 1
        PROVE  /\ low'[At(i)] <= Place(i)
               /\ \E z \in Held : order[z] = low'[At(i)] /\ z \in Lead[At(i)]
    <3>1. /\ low[At(i)] <= Place(i)
          /\ \E z \in Held : order[z] = low[At(i)] /\ z \in Lead[At(i)]
      BY <1>1 DEF TarjanInv, LowsAreHeld
    <3>2. low'[At(i)] <= Place(i)
      <4>1. Place(i) \in Nat
        BY <1>1, <1>3
      <4>2. low'[At(i)] <= low[At(i)] /\ low'[At(i)] \in Nat /\ low[At(i)] \in Nat
        BY <1>11
      <4> QED
        BY <3>1, <4>1, <4>2
    <3>3. CASE low'[At(i)] = low[At(i)]
      BY <3>1, <3>2, <3>3
    <3>4. CASE low'[At(i)] # low[At(i)]
      <4>1. i = n - 1 /\ low'[At(i)] = low[v]
        BY <1>1, <3>4
      <4>2. v \in Lead[At(i)]
        <5>1. Place(i) <= order[v]
          <6>1. i \in DOMAIN frames /\ i < n
            BY <1>1
          <6>2. Place(i) < Place(n) /\ Place(i) \in Nat /\ Place(n) \in Nat
            BY <1>1, <1>3, <6>1
          <6> QED
            BY <1>5, <6>2
        <5> QED
          BY <1>1, <1>5, <5>1 DEF TarjanInv, FramesLead
      <4>3. w \in Lead[At(i)]
        BY <1>1, <1>3, <1>4, <1>5, <1>7, <4>2
      <4> QED
        BY <1>7, <3>2, <4>1, <4>3
    <3> QED
      BY <3>3, <3>4
  <2> QED
    BY <1>1, <1>2, <2>1 DEF LowsAreHeld
<1>27. EdgesAreSeen'
  <2>1. ASSUME NEW x \in Held, NEW z \in Out(x)
        PROVE  \/ \E i \in 1 .. n - 1 : At(i) = x /\ z \in frames[i].left
               \/ /\ z \in Visited
                  /\ z \in Held => \A i \in 1 .. n - 1 : Segment(x, i)' => low'[At(i)] <= order[z]
    <3>1. CASE \E i \in DOMAIN frames : At(i) = x /\ z \in frames[i].left
      BY <1>1, <3>1
    <3>2. CASE ~ \E i \in DOMAIN frames : At(i) = x /\ z \in frames[i].left
      <4>1. /\ z \in Visited
            /\ z \in Held => \A i \in DOMAIN frames : Segment(x, i) => low[At(i)] <= order[z]
        BY <3>2 DEF TarjanInv, EdgesAreSeen
      <4>2. ASSUME NEW i \in 1 .. n - 1, Segment(x, i)', z \in Held
            PROVE  low'[At(i)] <= order[z]
        <5>0. order[z] \in Nat /\ low[v] \in Nat /\ low[At(i)] \in Nat /\ low'[At(i)] \in Nat
          BY <1>3, <1>5, <1>11, <4>2
        <5>1. CASE Segment(x, i)
          <6>1. low[At(i)] <= order[z]
            BY <1>1, <4>1, <4>2, <5>1
          <6> QED
            BY <1>11, <5>0, <6>1
        <5>2. CASE i = n - 1 /\ Segment(x, n)
          <6>1. low[v] <= order[z]
            BY <1>1, <4>1, <4>2, <5>2 DEF v
          <6>2. low'[At(i)] <= low[v]
            BY <1>11, <5>2
          <6> QED
            BY <5>0, <6>1, <6>2
        <5> QED
          BY <1>12, <4>2, <5>1, <5>2
      <4> QED
        BY <4>1, <4>2
    <3> QED
      BY <3>1, <3>2
  <2> SUFFICES ASSUME NEW x \in Held', NEW z \in Out(x)'
               PROVE  \/ \E i \in DOMAIN frames' : At(i)' = x /\ z \in frames'[i].left
                      \/ /\ z \in Visited'
                         /\ z \in Held' => \A i \in DOMAIN frames' : Segment(x, i)' => low'[At(i)'] <= order'[z]
    BY Zenon DEF EdgesAreSeen
  <2>2. x \in Held /\ z \in Out(x)
    BY <1>1, <1>2
  <2> QED
    BY <1>1, <1>2, <2>1, <2>2
<1>28. ResolvedAreClosed'
  BY <1>1, <1>2 DEF TarjanInv, ResolvedAreClosed
<1>29. ResolvedAreExact'
  <2>1. \A u \in Nodes : Mutual(u)' = Mutual(u)
    BY <1>1 DEF Mutual
  <2> QED
    BY <1>1, <1>2, <2>1 DEF TarjanInv, ResolvedAreExact
<1> QED
  BY <1>21, <1>22, <1>23, <1>24, <1>25, <1>26, <1>27, <1>28, <1>29 DEF TarjanInv

(* What a root pops is the class of the nodes that lead to each other. *)
LEMMA PoppedIsMutual ==
  ASSUME TarjanInv, frames # <<>>, NEW n, n = Len(frames), frames[n].left = {},
         low[At(n)] = order[At(n)]
  PROVE  LET P == Popped(At(n))
         IN  /\ P = {x \in Held : Place(n) <= order[x]}
             /\ \A e \in edges : e[1] \in P => e[2] \in P \cup (Visited \ Held)
             /\ \A u \in P : Mutual(u) = P
<1> DEFINE v == At(n)
           P == Popped(v)
<1>1. /\ n \in Nat /\ DOMAIN frames = 1 .. n /\ n \in DOMAIN frames
      /\ \A x \in Held : x \in Nodes /\ x \in Visited /\ order[x] \in Nat
      /\ \A i \in DOMAIN frames : At(i) \in Nodes /\ At(i) \in Held /\ Place(i) \in Nat
      /\ \A i, j \in DOMAIN frames : i < j => Place(i) < Place(j)
      /\ \A x \in Visited : x \in Nodes
  <2>1. frames \in Seq([vertex : Nodes, left : SUBSET Nodes])
    BY DEF TarjanInv, TarjanTypeOK
  <2>2. n # 0
    BY <2>1
  <2> QED
    BY <2>2, StackFacts
<1>2. v \in Held /\ v \in Nodes /\ order[v] = Place(n)
  BY <1>1 DEF Place
<1>3. P = {x \in Held : Place(n) <= order[x]}
  <2> HIDE DEF v
  <2> QED
    BY <1>2, PoppedFacts
<1>4. /\ Lead \in [Nodes -> SUBSET Nodes]
      /\ \A u \in Nodes : \A z \in Out(u) : z \in Nodes /\ z \in Lead[u]
      /\ \A u, y, z \in Nodes : y \in Lead[u] /\ z \in Lead[y] => z \in Lead[u]
      /\ \A C \in SUBSET Nodes : \A u \in C : IsClosed(edges, C) => Lead[u] \subseteq C
  BY LeadFacts DEF TarjanInv
<1>5. ASSUME NEW e \in edges, e[1] \in P
      PROVE  e[2] \in P \cup (Visited \ Held)
  <2> DEFINE x == e[1]
             z == e[2]
  <2>1. x \in Held /\ Place(n) <= order[x] /\ z \in Out(x)
    BY <1>3, <1>5 DEF Out
  <2> HIDE DEF x, z
  <2>2. Segment(x, n)
    BY <1>1, <2>1 DEF Segment
  <2>3. ~ \E i \in DOMAIN frames : At(i) = x /\ z \in frames[i].left
    <3> SUFFICES ASSUME NEW i \in DOMAIN frames, At(i) = x, z \in frames[i].left PROVE FALSE
      OBVIOUS
    <3>1. i # n
      OBVIOUS
    <3>2. Place(i) < Place(n) /\ Place(i) = order[x]
      BY <1>1, <3>1 DEF Place
    <3> QED
      BY <1>1, <2>1, <3>2
  <2>4. z \in Visited /\ (z \in Held => low[At(n)] <= order[z])
    BY <1>1, <2>1, <2>2, <2>3 DEF TarjanInv, EdgesAreSeen
  <2>5. z \in P \cup (Visited \ Held)
    BY <1>2, <1>3, <2>4
  <2> QED
    BY <2>5 DEF z
<1> DEFINE Resolved == Visited \ Held
<1>6. IsClosed(edges, Resolved)
  BY DEF TarjanInv, ResolvedAreClosed, IsClosed
<1>7. IsClosed(edges, P \cup Resolved)
  <2> HIDE DEF P
  <2> QED
    BY <1>5, <1>6 DEF IsClosed
<1>8. P \subseteq Held /\ Held \subseteq Nodes /\ Resolved \subseteq Nodes /\ P \cap Resolved = {}
  <2> HIDE DEF P
  <2> QED
    BY <1>1, <1>3
<1>9. ASSUME NEW u \in P, NEW z \in Mutual(u) PROVE z \in P
  <2>1. z \in Lead[u] /\ u \in Lead[z] /\ u \in Nodes
    BY <1>8, <1>9 DEF Mutual
  <2>2. z \in P \cup Resolved
    <3> DEFINE C == P \cup Resolved
    <3>1. C \in SUBSET Nodes /\ u \in C /\ IsClosed(edges, C)
      BY <1>7, <1>8
    <3> HIDE DEF C
    <3>2. Lead[u] \subseteq C
      BY <1>4, <3>1
    <3> QED
      BY <2>1, <3>2 DEF C
  <2>3. z \in Resolved => u \in Resolved
    <3> HIDE DEF P
    <3>1. Resolved \in SUBSET Nodes
      BY <1>8
    <3> HIDE DEF Resolved
    <3>2. z \in Resolved => Lead[z] \subseteq Resolved
      BY <1>4, <1>6, <3>1
    <3> QED
      BY <2>1, <3>2
  <2> HIDE DEF P, Resolved
  <2> QED
    BY <1>8, <2>2, <2>3
<1>10. ASSUME NEW u \in P, NEW z \in P PROVE z \in Lead[u]
  <2>1. u \in Held /\ z \in Held /\ Place(n) <= order[z] /\ u \in Nodes /\ z \in Nodes
    BY <1>1, <1>3
  <2>2. PICK i \in DOMAIN frames : Place(i) <= order[u] /\ At(i) \in Lead[u]
    BY <2>1 DEF TarjanInv, HeldLeadBack
  <2>3. Place(i) <= Place(n)
    BY <1>1
  <2>4. Place(i) <= order[v]
    BY <1>2, <2>3
  <2>5. v \in Lead[At(i)]
    BY <1>2, <2>4 DEF TarjanInv, FramesLead
  <2>6. z \in Lead[v]
    BY <1>1, <2>1 DEF TarjanInv, FramesLead
  <2>7. v \in Lead[u]
    BY <1>1, <1>2, <1>4, <2>1, <2>2, <2>5
  <2> QED
    BY <1>2, <1>4, <2>1, <2>6, <2>7
<1>11. \A u \in P : Mutual(u) = P
  <2> SUFFICES ASSUME NEW u \in P, NEW z \in P PROVE z \in Mutual(u)
    BY <1>9
  <2>1. z \in Lead[u] /\ u \in Lead[z]
    BY <1>10
  <2> QED
    BY <2>1 DEF Mutual
<1> HIDE DEF P
<1>12. P = {x \in Held : Place(n) <= order[x]} /\ (\A e \in edges : e[1] \in P => e[2] \in P \cup (Visited \ Held))
       /\ (\A u \in P : Mutual(u) = P)
  BY <1>3, <1>5, <1>11
<1> QED
  BY <1>12 DEF P

(* The frame on top is left and was a root: its component is popped. *)
LEMMA FinishRootInv ==
  ASSUME TarjanInv, Finish, low[TopFrame.vertex] = order[TopFrame.vertex]
  PROVE  TarjanInv'
<1>n. PICK n : n = Len(frames)
  OBVIOUS
<1> DEFINE v == At(n)
           P == Popped(v)
           Resolved == Visited \ Held
<1>1. /\ n \in DOMAIN frames /\ n \in Nat /\ n > 0 /\ DOMAIN frames = 1 .. n /\ DOMAIN frames' = 1 .. n - 1
      /\ frames' \in Seq([vertex : Nodes, left : SUBSET Nodes])
      /\ \A i \in 1 .. n - 1 : /\ i \in DOMAIN frames /\ At(i)' = At(i) /\ Place(i)' = Place(i)
                               /\ frames'[i].left = frames[i].left
      /\ frames[n].left = {} /\ TopFrame.vertex = v
      /\ edges' = edges /\ order' = order /\ Lead' = Lead /\ Visited' = Visited /\ \A u : Out(u)' = Out(u)
      /\ low' \in [Nodes -> Nat]
      /\ \A i \in 1 .. n - 1 :
           low'[At(i)] = IF i = n - 1 /\ low[v] < low[At(i)] THEN low[v] ELSE low[At(i)]
  BY <1>n, FinishFacts
<1>2. /\ comp' = [w \in Nodes |-> IF w \in P THEN Min(P) ELSE comp[w]]
      /\ tstack' = SubSeq(tstack, 1, Len(tstack) - Cardinality(P))
      /\ frames # <<>>
  BY <1>1 DEF Finish
<1>3. /\ \A x \in Held : x \in Nodes /\ x \in Visited /\ order[x] \in Nat
      /\ \A i \in DOMAIN frames : At(i) \in Nodes /\ At(i) \in Held /\ Place(i) \in Nat
      /\ \A i, j \in DOMAIN frames : i < j => Place(i) < Place(j)
      /\ \A u \in Nodes : low[u] \in Nat
      /\ \A x \in Visited : x \in Nodes
  BY StackFacts
<1>4. order[v] = Place(n) /\ low[v] = Place(n) /\ v \in Held /\ v \in Nodes
  BY <1>1, <1>3 DEF Place
<1>5. /\ P = {x \in Held : Place(n) <= order[x]}
      /\ \A e \in edges : e[1] \in P => e[2] \in P \cup Resolved
      /\ \A u \in P : Mutual(u) = P
  BY <1>n, <1>1, <1>2, <1>4, PoppedIsMutual
<1>6. /\ tstack' \in Seq(Nodes)
      /\ Held' = Held \ P
      /\ \A i, j \in DOMAIN tstack' : i < j => order[tstack'[i]] < order[tstack'[j]]
  <2> HIDE DEF v
  <2>1. /\ tstack' \in Seq(Nodes)
        /\ Range(tstack') = Held \ P
        /\ \A i, j \in DOMAIN tstack' : i < j => order[tstack'[i]] < order[tstack'[j]]
    BY <1>2, <1>4, PoppedFacts
  <2> QED
    BY <2>1 DEF Held
<1> HIDE DEF P, v
<1>7. \A x \in Held' : x \in Held /\ order[x] < Place(n)
  BY <1>1, <1>3, <1>5, <1>6
<1>8. \A x \in Held : order[x] < Place(n) => x \in Held'
  BY <1>1, <1>3, <1>5, <1>6
<1>9. \A i \in 1 .. n - 1 : low'[At(i)] = low[At(i)] /\ low[At(i)] <= Place(i) /\ Place(i) < Place(n) /\ At(i) \in Held'
  <2> SUFFICES ASSUME NEW i \in 1 .. n - 1
               PROVE  /\ low'[At(i)] = low[At(i)] /\ low[At(i)] <= Place(i) /\ Place(i) < Place(n)
                      /\ At(i) \in Held'
    OBVIOUS
  <2>1. i \in DOMAIN frames /\ i < n
    BY <1>1
  <2>2. low[At(i)] <= Place(i)
    BY <2>1 DEF TarjanInv, LowsAreHeld
  <2>3. Place(i) < Place(n)
    BY <1>1, <1>3, <2>1
  <2>4. low'[At(i)] = low[At(i)]
    <3>1. low[At(i)] \in Nat /\ Place(i) \in Nat /\ Place(n) \in Nat
      BY <1>1, <1>3, <2>1
    <3>2. ~ (low[v] < low[At(i)])
      BY <1>4, <2>2, <2>3, <3>1
    <3> QED
      BY <1>1, <3>2
  <2>5. At(i) \in Held /\ order[At(i)] = Place(i)
    BY <1>3, <2>1 DEF Place
  <2> QED
    BY <1>8, <2>2, <2>3, <2>4, <2>5
<1>10. ASSUME NEW x \in Held', NEW i \in 1 .. n - 1, Segment(x, i)'
       PROVE  Segment(x, i)
  <2>1. /\ Place(i)' <= order'[x]
        /\ \A j \in 1 .. n - 1 : i < j => order'[x] < Place(j)'
    BY <1>1, <1>10 DEF Segment
  <2>2. /\ Place(i) <= order[x]
        /\ \A j \in 1 .. n - 1 : i < j => order[x] < Place(j)
    BY <1>1, <2>1
  <2>3. order[x] < Place(n)
    BY <1>7
  <2>4. \A j \in DOMAIN frames : j = n \/ j \in 1 .. n - 1
    BY <1>1
  <2> QED
    BY <2>2, <2>3, <2>4 DEF Segment
<1>11. Visited' \ Held' = Resolved \cup P /\ P \subseteq Held /\ P \subseteq Nodes /\ v \in P
  BY <1>1, <1>3, <1>4, <1>5, <1>6
<1>21. TarjanTypeOK'
  <2>1. P \in SUBSET Nat /\ P # {}
    BY <1>11, ComponentsAssumption
  <2>2. Min(P) \in Nodes
    BY <1>11, <2>1, MinOf
  <2>3. comp \in [Nodes -> Nodes \cup {None}]
    BY DEF TarjanInv, TarjanTypeOK
  <2>4. comp' \in [Nodes -> Nodes \cup {None}]
    BY <1>2, <2>2, <2>3
  <2> QED
    BY <1>1, <1>6, <2>4 DEF TarjanInv, TarjanTypeOK
<1>22. OrdersAreFresh'
  BY <1>1 DEF TarjanInv, OrdersAreFresh
<1>23. StackClimbs'
  BY <1>1, <1>3, <1>6, <1>7 DEF StackClimbs
<1>24. FramesClimb'
  <2>1. \A i \in 1 .. n - 1 : At(i) \in Held' /\ frames'[i].left \subseteq Out(At(i))
    BY <1>1, <1>9 DEF TarjanInv, FramesClimb
  <2>2. \A i \in DOMAIN frames' : At(i)' \in Held' /\ frames'[i].left \subseteq Out(At(i))'
    BY <1>1, <2>1
  <2>3. \A i, j \in DOMAIN frames' : i < j => Place(i)' < Place(j)'
    BY <1>1, <1>3
  <2> QED
    BY <2>2, <2>3 DEF FramesClimb
<1>25. FramesLead'
  <2>1. \A i \in 1 .. n - 1, x \in Held' : Place(i) <= order[x] => x \in Lead[At(i)]
    BY <1>1, <1>7 DEF TarjanInv, FramesLead
  <2> QED
    BY <1>1, <2>1 DEF FramesLead
<1>26. HeldLeadBack'
  <2>1. ASSUME NEW x \in Held'
        PROVE  \E i \in 1 .. n - 1 : Place(i) <= order[x] /\ At(i) \in Lead[x]
    <3>1. x \in Held /\ order[x] < Place(n) /\ order[x] \in Nat
      BY <1>3, <1>7
    <3>2. PICK i \in DOMAIN frames : Place(i) <= order[x] /\ At(i) \in Lead[x]
      BY <3>1 DEF TarjanInv, HeldLeadBack
    <3>3. i # n
      BY <1>1, <1>3, <3>1, <3>2
    <3> QED
      BY <1>1, <3>2, <3>3
  <2> SUFFICES ASSUME NEW x \in Held'
               PROVE  \E i \in DOMAIN frames' : Place(i)' <= order'[x] /\ At(i)' \in Lead'[x]
    BY Zenon DEF HeldLeadBack
  <2>2. PICK i \in 1 .. n - 1 : Place(i) <= order[x] /\ At(i) \in Lead[x]
    BY <2>1
  <2> QED
    BY <1>1, <2>2
<1>27. LowsAreHeld'
  <2>1. ASSUME NEW i \in 1 .. n - 1
        PROVE  \E z \in Held' : order[z] = low[At(i)] /\ z \in Lead[At(i)]
    <3>1. PICK z \in Held : order[z] = low[At(i)] /\ z \in Lead[At(i)]
      BY <1>1 DEF TarjanInv, LowsAreHeld
    <3>0. i \in DOMAIN frames
      BY <1>1
    <3>2. order[z] < Place(n)
      <4>1. order[z] \in Nat /\ Place(i) \in Nat /\ Place(n) \in Nat
        BY <1>1, <1>3, <3>0, <3>1
      <4>2. low[At(i)] <= Place(i) /\ Place(i) < Place(n)
        BY <1>9
      <4> QED
        BY <3>1, <4>1, <4>2
    <3> QED
      BY <1>8, <3>1, <3>2
  <2> QED
    BY <1>1, <1>9, <2>1 DEF LowsAreHeld
<1>28. EdgesAreSeen'
  <2>1. ASSUME NEW x \in Held', NEW z \in Out(x)
        PROVE  \/ \E i \in 1 .. n - 1 : At(i) = x /\ z \in frames[i].left
               \/ /\ z \in Visited
                  /\ z \in Held' => \A i \in 1 .. n - 1 : Segment(x, i)' => low'[At(i)] <= order[z]
    <3>0. x \in Held
      BY <1>7
    <3>1. CASE \E i \in DOMAIN frames : At(i) = x /\ z \in frames[i].left
      BY <1>1, <3>1
    <3>2. CASE ~ \E i \in DOMAIN frames : At(i) = x /\ z \in frames[i].left
      <4>1. /\ z \in Visited
            /\ z \in Held => \A i \in DOMAIN frames : Segment(x, i) => low[At(i)] <= order[z]
        BY <3>0, <3>2 DEF TarjanInv, EdgesAreSeen
      <4>2. ASSUME NEW i \in 1 .. n - 1, Segment(x, i)', z \in Held'
            PROVE  low'[At(i)] <= order[z]
        BY <1>1, <1>7, <1>9, <1>10, <4>1, <4>2
      <4> QED
        BY <4>1, <4>2
    <3> QED
      BY <3>1, <3>2
  <2> SUFFICES ASSUME NEW x \in Held', NEW z \in Out(x)'
               PROVE  \/ \E i \in DOMAIN frames' : At(i)' = x /\ z \in frames'[i].left
                      \/ /\ z \in Visited'
                         /\ z \in Held' => \A i \in DOMAIN frames' : Segment(x, i)' => low'[At(i)'] <= order'[z]
    BY Zenon DEF EdgesAreSeen
  <2>2. z \in Out(x)
    BY <1>1
  <2> QED
    BY <1>1, <2>1, <2>2
<1>29. ResolvedAreClosed'
  <2>1. \A e \in edges : e[1] \in Resolved => e[2] \in Resolved
    BY DEF TarjanInv, ResolvedAreClosed
  <2> HIDE DEF Resolved
  <2> QED
    BY <1>1, <1>5, <1>11, <2>1 DEF ResolvedAreClosed
<1>30. ResolvedAreExact'
  <2>1. \A u \in Nodes : Mutual(u)' = Mutual(u)
    BY <1>1 DEF Mutual
  <2>2. \A u \in Nodes : comp[u] = IF u \in Resolved THEN Min(Mutual(u)) ELSE None
    BY DEF TarjanInv, ResolvedAreExact
  <2>3. \A u \in Nodes : comp'[u] = IF u \in P THEN Min(P) ELSE comp[u]
    BY <1>2
  <2>4. \A u \in P : Min(Mutual(u)) = Min(P)
    BY <1>5
  <2> HIDE DEF Resolved
  <2>5. \A u \in Nodes : comp'[u] = IF u \in Resolved \cup P THEN Min(Mutual(u)) ELSE None
    BY <2>2, <2>3, <2>4
  <2> QED
    BY <1>11, <2>1, <2>5 DEF ResolvedAreExact
<1> QED
  BY <1>21, <1>22, <1>23, <1>24, <1>25, <1>26, <1>27, <1>28, <1>29, <1>30 DEF TarjanInv

(* Steps of the other algorithm leave the stacks alone.                    *)
LEMMA TarjanStays ==
  ASSUME TarjanInv, UNCHANGED <<edges, order, low, tstack, frames, comp>>
  PROVE  TarjanInv'
<1>1. /\ Visited' = Visited /\ Held' = Held /\ Lead' = Lead /\ \A u : Out(u)' = Out(u)
      /\ \A i : At(i)' = At(i)
  BY DEF Visited, Held, Lead, Out, At
<1>2. /\ \A i : Place(i)' = Place(i)
      /\ \A u : Mutual(u)' = Mutual(u)
  BY <1>1 DEF Place, Mutual
<1>3. \A x, i : Segment(x, i)' <=> Segment(x, i)
  BY <1>2 DEF Segment
<1>4. TarjanTypeOK' /\ OrdersAreFresh' /\ StackClimbs' /\ FramesClimb'
  BY <1>1, <1>2 DEF TarjanInv, TarjanTypeOK, OrdersAreFresh, StackClimbs, FramesClimb
<1>5. FramesLead' /\ HeldLeadBack' /\ LowsAreHeld'
  BY <1>1, <1>2 DEF TarjanInv, FramesLead, HeldLeadBack, LowsAreHeld
<1>6. EdgesAreSeen'
  BY <1>1, <1>3 DEF TarjanInv, EdgesAreSeen
<1>7. ResolvedAreClosed' /\ ResolvedAreExact'
  BY <1>1, <1>2 DEF TarjanInv, ResolvedAreClosed, ResolvedAreExact
<1> QED
  BY <1>4, <1>5, <1>6, <1>7 DEF TarjanInv

(* Every step keeps the stacks.                                            *)
LEMMA TarjanNextInv == TarjanInv /\ [ComponentsNext]_componentVars => TarjanInv'
<1> SUFFICES ASSUME TarjanInv, [ComponentsNext]_componentVars PROVE TarjanInv'
  OBVIOUS
<1>1. CASE UNCHANGED componentVars
  BY <1>1, TarjanStays DEF componentVars
<1>2. ASSUME NEW e \in edges, UniteEdge(e) PROVE TarjanInv'
  BY <1>2, TarjanStays DEF UniteEdge, strongVars
<1>3. ASSUME NEW v \in Nodes, StartAt(v) PROVE TarjanInv'
  BY <1>3, StartAtInv
<1>4. ASSUME NEW v \in Nodes, Descend(v) PROVE TarjanInv'
  BY <1>4, DescendInv
<1>5. ASSUME NEW v \in Nodes, Lower(v) PROVE TarjanInv'
  BY <1>5, LowerInv
<1>6. CASE Finish
  BY <1>6, FinishOpenInv, FinishRootInv
<1> QED
  BY <1>1, <1>2, <1>3, <1>4, <1>5, <1>6 DEF ComponentsNext

(* A set with v in it has several members exactly when one is not v.       *)
LEMMA SeveralMembers ==
  ASSUME NEW T \in SUBSET Nodes, NEW v \in T
  PROVE  Cardinality(T) > 1 <=> \E w \in T : w # v
<1>1. IsFiniteSet(T) /\ Cardinality(T) \in Nat
  BY FS_Subset, FS_CardinalityType, ComponentsAssumption
<1> DEFINE R == T \ {v}
<1>2. IsFiniteSet(R) /\ Cardinality(R) = Cardinality(T) - 1
  BY <1>1, FS_RemoveElement
<1>3. Cardinality(R) \in Nat /\ (Cardinality(R) = 0 <=> R = {})
  BY <1>2, FS_CardinalityType, FS_EmptySet
<1>4. R # {} <=> \E w \in T : w # v
  OBVIOUS
<1> HIDE DEF R
<1> QED
  BY <1>1, <1>2, <1>3, <1>4

(* A path back to v of one edge or more starts with an edge of v. *)
LEMMA FirstEdge ==
  ASSUME TarjanTypeOK, NEW v \in Nodes, NEW w \in Lead[v], w # v
  PROVE  \E u \in Out(v) : w \in Lead[u]
<1>1. /\ Lead \in [Nodes -> SUBSET Nodes]
      /\ \A u \in Nodes : u \in Lead[u]
      /\ \A u \in Nodes : \A z \in Out(u) : z \in Nodes /\ z \in Lead[u]
      /\ \A u, y, z \in Nodes : y \in Lead[u] /\ z \in Lead[y] => z \in Lead[u]
      /\ \A C \in SUBSET Nodes : \A u \in C : IsClosed(edges, C) => Lead[u] \subseteq C
  BY LeadFacts
<1> DEFINE C == {v} \cup {z \in Nodes : \E u \in Out(v) : z \in Lead[u]}
<1>2. ASSUME NEW e \in edges, e[1] \in C PROVE e[2] \in C
  <2>1. e[2] \in Out(e[1]) /\ e[1] \in Nodes
    BY <1>2 DEF Out
  <2>2. e[2] \in Nodes /\ e[2] \in Lead[e[1]] /\ e[2] \in Lead[e[2]]
    BY <1>1, <2>1
  <2>3. CASE e[1] = v
    BY <2>1, <2>2, <2>3
  <2>4. CASE e[1] # v
    <3>1. PICK u \in Out(v) : e[1] \in Lead[u]
      BY <1>2, <2>4
    <3>2. e[2] \in Lead[u]
      BY <1>1, <2>1, <2>2, <3>1
    <3> QED
      BY <2>2, <3>1, <3>2
  <2> QED
    BY <2>3, <2>4
<1>3. IsClosed(edges, C) /\ C \in SUBSET Nodes /\ v \in C
  BY <1>2 DEF IsClosed
<1> HIDE DEF C
<1>4. w \in C
  BY <1>1, <1>3
<1> QED
  BY <1>4 DEF C

(* With such stacks, what is resolved is resolved exactly.                 *)
LEMMA StrongExact == TarjanInv => StrongComponentsAreExact
<1> SUFFICES ASSUME TarjanInv PROVE StrongComponentsAreExact
  OBVIOUS
<1>1. /\ Lead \in [Nodes -> SUBSET Nodes]
      /\ \A u \in Nodes : u \in Lead[u]
      /\ \A u \in Nodes : \A z \in Out(u) : z \in Nodes /\ z \in Lead[u]
      /\ \A u, y, z \in Nodes : y \in Lead[u] /\ z \in Lead[y] => z \in Lead[u]
  BY LeadFacts DEF TarjanInv
<1>2. \A v \in Nodes : /\ v \in Mutual(v) /\ Mutual(v) \in SUBSET Nodes /\ Mutual(v) \in SUBSET Nat
                       /\ Min(Mutual(v)) \in Mutual(v)
  <2> SUFFICES ASSUME NEW v \in Nodes
               PROVE  /\ v \in Mutual(v) /\ Mutual(v) \in SUBSET Nodes /\ Mutual(v) \in SUBSET Nat
                      /\ Min(Mutual(v)) \in Mutual(v)
    OBVIOUS
  <2>1. v \in Mutual(v) /\ Mutual(v) \in SUBSET Nodes /\ Mutual(v) \in SUBSET Nat
    BY <1>1, ComponentsAssumption DEF Mutual
  <2> QED
    BY <2>1, MinOf
<1>3. \A v \in Visited : comp[v] = IF v \in Held THEN None ELSE Min(Mutual(v))
  BY DEF Visited, TarjanInv, ResolvedAreExact
<1>4. ASSUME Visited = Nodes, frames = <<>>, NEW v \in Nodes
      PROVE  /\ comp[v] # None
             /\ OnCycle(v) <=> \E w \in Out(v) : v \in Lead[w]
  <2>1. Held = {}
    <3>1. DOMAIN frames = {}
      BY <1>4
    <3> QED
      BY <3>1 DEF TarjanInv, HeldLeadBack
  <2>2. \A w \in Nodes : comp[w] = Min(Mutual(w))
    BY <1>3, <1>4, <2>1
  <2>3. comp[v] # None
    BY <1>2, <2>2, ComponentsAssumption
  <2>4. {w \in Nodes : comp[w] = comp[v]} = Mutual(v)
    <3>1. ASSUME NEW w \in Nodes, comp[w] = comp[v] PROVE w \in Mutual(v)
      <4>1. PICK m \in Mutual(w) : m \in Mutual(v)
        BY <1>2, <2>2, <3>1
      <4>2. /\ m \in Nodes /\ m \in Lead[w] /\ w \in Lead[m] /\ m \in Lead[v] /\ v \in Lead[m]
        BY <1>2, <4>1 DEF Mutual
      <4>3. w \in Lead[v] /\ v \in Lead[w]
        BY <1>1, <4>2
      <4> QED
        BY <4>3 DEF Mutual
    <3>2. ASSUME NEW w \in Mutual(v) PROVE w \in Nodes /\ comp[w] = comp[v]
      <4>1. w \in Nodes /\ w \in Lead[v] /\ v \in Lead[w]
        BY <1>2, <3>2 DEF Mutual
      <4>2. Mutual(w) = Mutual(v)
        <5>1. ASSUME NEW z \in Mutual(w) PROVE z \in Mutual(v)
          <6>1. z \in Nodes /\ z \in Lead[w] /\ w \in Lead[z]
            BY <1>2, <4>1, <5>1 DEF Mutual
          <6>2. z \in Lead[v] /\ v \in Lead[z]
            BY <1>1, <4>1, <6>1
          <6> QED
            BY <6>2 DEF Mutual
        <5>2. ASSUME NEW z \in Mutual(v) PROVE z \in Mutual(w)
          <6>1. z \in Nodes /\ z \in Lead[v] /\ v \in Lead[z]
            BY <1>2, <5>2 DEF Mutual
          <6>2. z \in Lead[w] /\ w \in Lead[z]
            BY <1>1, <4>1, <6>1
          <6> QED
            BY <6>2 DEF Mutual
        <5> QED
          BY <5>1, <5>2
      <4> QED
        BY <2>2, <4>1, <4>2
    <3> QED
      BY <3>1, <3>2
  <2>5. OnCycle(v) <=> (\E w \in Mutual(v) : w # v) \/ v \in Out(v)
    <3>1. Cardinality(Mutual(v)) > 1 <=> \E w \in Mutual(v) : w # v
      BY <1>2, SeveralMembers
    <3>2. <<v, v>> \in edges <=> v \in Out(v)
      <4>1. \A e \in edges : e = <<e[1], e[2]>>
        BY ComponentsAssumption DEF TarjanInv, TarjanTypeOK
      <4> QED
        BY <4>1 DEF Out
    <3> QED
      BY <2>4, <3>1, <3>2 DEF OnCycle
  <2>6. ASSUME NEW w \in Mutual(v), w # v PROVE \E u \in Out(v) : v \in Lead[u]
    <3>1. w \in Nodes /\ w \in Lead[v] /\ v \in Lead[w]
      BY <1>2 DEF Mutual
    <3>2. PICK u \in Out(v) : w \in Lead[u]
      BY <2>6, <3>1, FirstEdge DEF TarjanInv
    <3>3. v \in Lead[u]
      BY <1>1, <3>1, <3>2
    <3> QED
      BY <3>3
  <2>7. ASSUME NEW w \in Out(v), v \in Lead[w] PROVE (\E u \in Mutual(v) : u # v) \/ v \in Out(v)
    <3>1. w \in Lead[v] /\ w \in Nodes
      BY <1>1
    <3>2. w \in Mutual(v)
      BY <2>7, <3>1 DEF Mutual
    <3> QED
      BY <3>2
  <2>8. v \in Out(v) => \E w \in Out(v) : v \in Lead[w]
    BY <1>1
  <2> QED
    BY <2>3, <2>5, <2>6, <2>7, <2>8
<1>5. StrongComponentsAreExact <=>
        (task = "strong" =>
           /\ \A v \in Visited : comp[v] = IF v \in Held THEN None ELSE Min(Mutual(v))
           /\ Visited = Nodes /\ frames = <<>> =>
                \A v \in Nodes : /\ comp[v] # None
                                 /\ OnCycle(v) <=> \E w \in Out(v) : v \in Lead[w])
  BY Zenon DEF StrongComponentsAreExact, Lead, Mutual, Held
<1> QED
  BY <1>3, <1>4, <1>5

(* The invariant of strongly_connected_components, whatever order vertices *)
(* and edges come in.                                                      *)
THEOREM TarjanInvariant == ComponentsSpec => []TarjanInv
<1>1. ComponentsInit => TarjanInv
  BY TarjanInitInv
<1>2. TarjanInv /\ [ComponentsNext]_componentVars => TarjanInv'
  BY TarjanNextInv
<1> QED
  BY <1>1, <1>2, PTL DEF ComponentsSpec

(* The invariant of weakly_connected_components, whatever order the edges  *)
(* come in.                                                                *)
THEOREM ForestInvariant == ComponentsSpec => []ForestInv
<1>1. ComponentsInit => ForestInv
  BY ForestInitInv
<1>2. ForestInv /\ [ComponentsNext]_componentVars => ForestInv'
  BY ForestNextInv
<1> QED
  BY <1>1, <1>2, PTL DEF ComponentsSpec

(* Both partitions of algo.rs name every vertex by the least member of its *)
(* component, at every step for what has been united or resolved so far,   *)
(* and on_cycle finds exactly the vertices a path leads back to: for every *)
(* graph and every order of its vertices and edges.                        *)
THEOREM PartitionsAreExact == ComponentsSpec => []ComponentsAreExact
<1>1. ForestInv /\ TarjanInv => ComponentsAreExact
  BY WeakExact, StrongExact DEF ComponentsAreExact
<1> QED
  BY <1>1, TarjanInvariant, ForestInvariant, PTL
=============================================================================
