---------------------------- MODULE Reachability ----------------------------
(***************************************************************************)
(* How many different nodes the paths of a quantified hop end at, counted  *)
(* by a breadth-first search from all the sources at once instead of over  *)
(* the paths (varlen_distinct_endpoint_count in                            *)
(* crates/lenke-engine/src/exec/fastpath.rs).  A search of nodes is a      *)
(* search of walks: set_reachability_is_exact says for which modes and     *)
(* bounds the paths the mode allows end at the same nodes.  What it        *)
(* refuses is walked path by path (VarLength).                             *)
(***************************************************************************)
EXTENDS Integers, Sequences, FiniteSets, FiniteSetsExt, SequencesExt

CONSTANTS
    Stops,          \* dense node ids
    Questions,      \* a set of records: see QuestionType
    AnyLength       \* u32::MAX, an upper bound left out

QuestionType ==
    [links : Seq([from : Stops, to : Stops]),   \* the wanted edges, by edge id
     src : Seq(Stops),                          \* the source of every input row
     dir : {"out", "in", "both"},
     mode : {"walk", "trail", "simple", "acyclic"},
     min : Nat, max : Nat]

(* A graph is finite; the horizon of this search is below an open bound. *)
ASSUME ReachAssumption ==
    /\ IsFiniteSet(Stops) /\ AnyLength \in Nat
    /\ Questions \subseteq QuestionType
    /\ \A q \in Questions : q.min + Cardinality(Stops) < AnyLength /\ q.max <= AnyLength

VARIABLES
    question,       \* the question asked
    hop,            \* hops taken
    border,         \* frontier, as a set: a node expands once in a level
    visited,        \* nodes that were in a frontier; min <= 1 only
    reached         \* the ends found

reachVars == <<question, hop, border, visited, reached>>

(* Mutant: the lower bound is not looked at. *)
SetReachabilityIsExactAtAnyMin(q) ==
    CASE q.mode = "walk" -> TRUE
      [] q.mode \in {"trail", "simple"} -> q.max <= 1 \/ q.max = AnyLength
      [] q.mode = "acyclic" -> FALSE

SetReachabilityIsExact(q) ==
    CASE q.mode = "walk" -> TRUE
      [] q.mode \in {"trail", "simple"} -> q.max <= 1 \/ (q.max = AnyLength /\ q.min <= 1)
      [] q.mode = "acyclic" -> FALSE

(* A hop from v over edge e, the way the query asks for it. *)
HopsOver(e, v, w) ==
    \/ question.dir \in {"out", "both"} /\ e.from = v /\ e.to = w
    \/ question.dir \in {"in", "both"} /\ e.to = v /\ e.from = w

Neighbours(v) ==
    {w \in Stops : \E n \in DOMAIN question.links : HopsOver(question.links[n], v, w)}
Around(nodes) == UNION {Neighbours(v) : v \in nodes}

ByLevels == question.min >= 2

(* level_cap, or the bound as it is *)
LevelCap ==
    IF ByLevels THEN Min({question.max, question.min + Cardinality(Stops)}) ELSE question.max

ReachInit ==
    /\ question \in {q \in Questions : SetReachabilityIsExact(q)}
    /\ hop = 0
    /\ border = Range(question.src)
    /\ visited = IF ByLevels THEN {} ELSE border
    /\ reached = IF question.min = 0 THEN border ELSE {}

NextHop ==
    /\ hop < LevelCap /\ border # {}
    /\ hop' = hop + 1
    /\ UNCHANGED question

(* min <= 1: every neighbour is an end, and expands when first seen *)
Spread ==
    /\ ~ByLevels /\ NextHop
    /\ reached' = reached \cup Around(border)
    /\ border' = Around(border) \ visited
    /\ visited' = visited \cup Around(border)

(* min >= 2: a node is an end again at every length it can be reached by *)
StepLevel ==
    /\ ByLevels /\ NextHop
    /\ border' = Around(border)
    /\ reached' = IF hop + 1 >= question.min THEN reached \cup Around(border) ELSE reached
    /\ UNCHANGED visited

ReachNext == Spread \/ StepLevel

ReachSpec == ReachInit /\ [][ReachNext]_reachVars

-----------------------------------------------------------------------------
(* The reference: the paths themselves.  Of a path only what the mode      *)
(* forbids to use again is kept, and where it stands.                      *)

Standing(s) == [at |-> s, start |-> s, edges |-> {}, nodes |-> {s}, closed |-> FALSE]

Allows(path, n, w) ==
    CASE question.mode = "walk" -> TRUE
      [] question.mode = "trail" -> n \notin path.edges
      [] question.mode = "simple" -> ~path.closed /\ (w = path.start \/ w \notin path.nodes)
      [] question.mode = "acyclic" -> w \notin path.nodes

(* what the mode does not look at is forgotten, so that a walk stays small *)
Onto(path, n, w) ==
    [path EXCEPT !.at = w,
                 !.edges = IF question.mode = "trail" THEN @ \cup {n} ELSE @,
                 !.nodes = IF question.mode \in {"simple", "acyclic"} THEN @ \cup {w} ELSE @,
                 !.closed = question.mode = "simple" /\ w = path.start]

OneHopOn(paths) ==
    {Onto(x[1], x[2], x[3]) : x \in
        {y \in paths \X (DOMAIN question.links) \X Stops :
            /\ HopsOver(question.links[y[2]], y[1].at, y[3])
            /\ Allows(y[1], y[2], y[3])}}

(* With an open bound the paths are followed for three times the nodes     *)
(* beyond the least length, which is past every trail and simple path, and *)
(* past the first return of every walk.                                    *)
Horizon ==
    IF question.max = AnyLength THEN question.min + 3 * Cardinality(Stops) ELSE question.max

EndsFound ==
    LET ofLength[n \in 0 .. Horizon] ==
            IF n = 0 THEN {Standing(s) : s \in Range(question.src)} ELSE OneHopOn(ofLength[n - 1])
    IN  {path.at : path \in UNION {ofLength[n] : n \in question.min .. Horizon}}

(* When the search is over, the nodes it counts are those the paths of the *)
(* mode end at: over loops, parallel edges and cycles, from several        *)
(* sources, and with a bound left open, where the search stops at a level  *)
(* of its own choosing.                                                    *)
EndpointsAreExact ==
    hop = LevelCap \/ border = {} => reached = EndsFound
=============================================================================
