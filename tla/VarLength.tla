------------------------------ MODULE VarLength ------------------------------
(***************************************************************************)
(* Variable-length hops, -[:T]->{min,max} and repeat()                     *)
(* (crates/lenke-engine/src/exec/varlen.rs): from each source row the      *)
(* engine walks the graph depth first with a stack of frames in place of   *)
(* recursion, reports every path of the wanted length, and forgets on the  *)
(* way back what it marked on the way down.  The path mode says what a     *)
(* path may use twice: a walk anything, a trail no edge, an acyclic path   *)
(* no node, a simple path no node but its source, to end there.            *)
(*                                                                         *)
(* Three consumers share the walk: one keeps the rows and is bounded in    *)
(* rows and in hops, one counts them and is bounded in hops, one keeps the *)
(* distinct ends and is not bounded.  A bound is never a truncation: a     *)
(* bounded consumer that went over refuses to answer.                      *)
(***************************************************************************)
EXTENDS Naturals, Sequences, SequencesExt, FiniteSets, Functions

CONSTANTS
    Sites,          \* dense node ids
    Ties,           \* edge ids
    OutAdj, InAdj,  \* Store::out and Store::inc: [eid, nbr] entries, in order
    Calls           \* the calls of var_length, a set of records: see CallType

CallType ==
    [src : Seq(Sites),                      \* the source of every input row
     dir : {"out", "in", "both"},
     mode : {"walk", "trail", "simple", "acyclic"},
     min : Nat, max : Nat,
     unit : Nat \ {0},                      \* k, the hops of one repetition
     wanted : SUBSET Ties,                  \* the edges that carry a wanted type
     barred : SUBSET Ties,                  \* a repetition may not begin with these
     body : SUBSET Sites,                   \* the targets the body filter lets through
     until : {{}} \cup {{S} : S \in SUBSET Sites},  \* until(pred), or none
     doubleLoops : BOOLEAN,                 \* Gremlin's both()
     sink : {"collect", "count", "distinct"},
     limit : Nat]                           \* limits.trail

ASSUME AdjacencyAssumption ==
    /\ OutAdj \in [Sites -> Seq([eid : Ties, nbr : Sites])]
    /\ InAdj \in [Sites -> Seq([eid : Ties, nbr : Sites])]

(* add_edge appends an edge once to the list of each of its ends. *)
ASSUME ListedOnceAssumption ==
    \A adj \in {OutAdj, InAdj}, v \in Sites :
        \A i, j \in DOMAIN adj[v] : adj[v][i].eid = adj[v][j].eid => i = j

(* until and the body filter are Gremlin's, whose paths are walks. *)
ASSUME CallAssumption ==
    /\ Calls \subseteq CallType
    /\ \A call \in Calls :
         call.mode # "walk" => call.until = {} /\ call.body = Sites

VARIABLES
    ask,            \* the call
    row,            \* the input row the walk is at, 0 before the first
    steps, blown,   \* StepBudget: hops of this source, and whether one had too many
    nodeStack,      \* the nodes of the path, the source first
    edgeStack,      \* its edges, each with the list it was found in
    used,           \* what may not be used again: edges of a trail, else nodes
    stack,          \* VarFrame: [v, cursor]; the length is its place
    rows            \* what was emitted: [row, nodes, edges]

walkVars == <<ask, row, steps, blown, nodeStack, edgeStack, used, stack, rows>>

NodeUnique == ask.mode \in {"simple", "acyclic"}
AtUnit(n) == n % ask.unit = 0

(* adj_nth: the out list, then the in list *)
Outs(v) == IF ask.dir \in {"out", "both"} THEN OutAdj[v] ELSE <<>>
Incs(v) == IF ask.dir \in {"in", "both"} THEN InAdj[v] ELSE <<>>
Degree(v) == Len(Outs(v)) + Len(Incs(v))
AdjNth(v, i) ==
    IF i <= Len(Outs(v))
    THEN [eid |-> Outs(v)[i].eid, nbr |-> Outs(v)[i].nbr, inc |-> FALSE]
    ELSE [eid |-> Incs(v)[i - Len(Outs(v))].eid, nbr |-> Incs(v)[i - Len(Outs(v))].nbr,
          inc |-> TRUE]

(* A loop lies in both lists of its node: an undirected hop takes it once, *)
(* unless both() asks for twice.                                           *)
Walkable(v, a) ==
    /\ a.eid \in ask.wanted
    /\ a.inc /\ ask.dir = "both" /\ a.nbr = v => ask.doubleLoops

-----------------------------------------------------------------------------
(* varlen_enter: what the walk does at the end of a path. *)

(* the body filter and the per-repetition WHERE *)
Blocked(nodes, edges) ==
    LET n == Len(edges) IN
    /\ n > 0
    /\ \/ nodes[n + 1] \notin ask.body
       \/ AtUnit(n) /\ edges[n + 1 - ask.unit].eid \in ask.barred

Until(v) == \E S \in ask.until : v \in S

EmitsAt(nodes, edges) ==
    LET n == Len(edges) IN
    /\ ~Blocked(nodes, edges)
    /\ n >= ask.min /\ AtUnit(n)
    /\ ask.until # {} => Until(nodes[n + 1])

DescendsFrom(nodes, edges) ==
    /\ ~Blocked(nodes, edges)
    /\ ask.until # {} => ~EmitsAt(nodes, edges)
    /\ Len(edges) # ask.max

Emitted(nodes, edges) ==
    IF EmitsAt(nodes, edges)
    THEN Append(rows, [row |-> row, nodes |-> nodes, edges |-> edges])
    ELSE rows

(* should_stop, of the three consumers *)
ShouldStop(tooManyHops) ==
    CASE ask.sink = "collect" -> tooManyHops \/ Len(rows) > ask.limit
      [] ask.sink = "count" -> tooManyHops
      [] ask.sink = "distinct" -> FALSE

(* note_step, if this hop counts as one *)
StepsAfter(counts) == IF counts /\ ask.sink # "distinct" THEN steps + 1 ELSE steps
BlownAfter(counts) == blown \/ StepsAfter(counts) > ask.limit
NoteStep(counts) == steps' = StepsAfter(counts) /\ blown' = BlownAfter(counts)

-----------------------------------------------------------------------------
(* run_varlen and varlen_walk. *)

WalkInit ==
    /\ ask \in Calls
    /\ row = 0 /\ steps = 0 /\ blown = FALSE
    /\ nodeStack = <<>> /\ edgeStack = <<>> /\ used = <<>> /\ stack = <<>>
    /\ rows = <<>>

(* the next source, unless its consumer has had enough *)
StartWalk ==
    LET v == ask.src[row + 1] IN
    /\ stack = <<>> /\ row < Len(ask.src) /\ ~ShouldStop(blown)
    /\ row' = row + 1
    /\ steps' = 0
    /\ rows' = IF EmitsAt(<<v>>, <<>>)
               THEN Append(rows, [row |-> row + 1, nodes |-> <<v>>, edges |-> <<>>])
               ELSE rows
    /\ IF DescendsFrom(<<v>>, <<>>)
       THEN /\ stack' = <<[v |-> v, cursor |-> 1]>>
            /\ nodeStack' = <<v>>
            /\ used' = IF NodeUnique THEN <<v>> ELSE <<>>
       ELSE UNCHANGED <<stack, nodeStack, used>>
    /\ UNCHANGED <<ask, blown, edgeStack>>

Here == Last(stack)
HasNext == stack # <<>> /\ Here.cursor <= Degree(Here.v)
Next1 == AdjNth(Here.v, Here.cursor)
Onward == [stack EXCEPT ![Len(stack)].cursor = @ + 1]

(* varlen_step *)
Closes(a) == ask.mode = "simple" /\ a.nbr = nodeStack[1]

(* Mutant: a trail remembers the edge it came by and no other. *)
CollidesWithLast(a) ==
    \/ ask.mode = "trail" /\ used # <<>> /\ a.eid = used[Len(used)]
    \/ NodeUnique /\ a.nbr \in Range(used)

Collides(a) ==
    \/ ask.mode = "trail" /\ a.eid \in Range(used)
    \/ NodeUnique /\ a.nbr \in Range(used)

Mark(a) ==
    CASE ask.mode = "walk" -> <<>>
      [] ask.mode = "trail" -> <<a.eid>>
      [] NodeUnique -> <<a.nbr>>

NodesOver(a) == Append(nodeStack, a.nbr)
EdgesOver(a) == Append(edgeStack, [eid |-> a.eid, inc |-> a.inc])

(* an edge of another type, the second copy of a loop, or VarStep::Skip *)
PassOver ==
    /\ HasNext
    /\ ~Walkable(Here.v, Next1) \/ (~Closes(Next1) /\ Collides(Next1))
    /\ stack' = Onward
    /\ UNCHANGED <<ask, row, steps, blown, nodeStack, edgeStack, used, rows>>

(* VarStep::Close: the hop back to the source ends a simple path.  It is   *)
(* a hop, and a path, only where a repetition ends.                        *)
CloseCycle ==
    /\ HasNext /\ Walkable(Here.v, Next1) /\ Closes(Next1)
    /\ stack' = Onward
    /\ NoteStep(AtUnit(Len(edgeStack) + 1))
    /\ rows' = Emitted(NodesOver(Next1), EdgesOver(Next1))
    /\ UNCHANGED <<ask, row, nodeStack, edgeStack, used>>

(* VarStep::Go: the hop is counted, and the walk enters its end. *)
TakesHop ==
    /\ HasNext /\ Walkable(Here.v, Next1)
    /\ ~Closes(Next1) /\ ~Collides(Next1)
    /\ NoteStep(TRUE)
    /\ UNCHANGED <<ask, row>>

(* Enter::Iterate *)
GoDeeper ==
    /\ TakesHop /\ ~ShouldStop(BlownAfter(TRUE))
    /\ DescendsFrom(NodesOver(Next1), EdgesOver(Next1))
    /\ rows' = Emitted(NodesOver(Next1), EdgesOver(Next1))
    /\ stack' = Append(Onward, [v |-> Next1.nbr, cursor |-> 1])
    /\ nodeStack' = NodesOver(Next1)
    /\ edgeStack' = EdgesOver(Next1)
    /\ used' = used \o Mark(Next1)

(* Enter::Prune *)
TurnBack ==
    /\ TakesHop /\ ~ShouldStop(BlownAfter(TRUE))
    /\ ~DescendsFrom(NodesOver(Next1), EdgesOver(Next1))
    /\ rows' = Emitted(NodesOver(Next1), EdgesOver(Next1))
    /\ stack' = Onward
    /\ UNCHANGED <<nodeStack, edgeStack, used>>

(* Enter::Stop: every frame is torn down. *)
StopShort ==
    /\ TakesHop /\ ShouldStop(BlownAfter(TRUE))
    /\ stack' = <<>> /\ nodeStack' = <<>> /\ edgeStack' = <<>> /\ used' = <<>>
    /\ UNCHANGED rows

(* a frame whose node has no more edges: its parent takes the hop back *)
Backtrack ==
    /\ stack # <<>> /\ ~HasNext
    /\ stack' = Front(stack)
    /\ nodeStack' = Front(nodeStack)
    /\ edgeStack' = IF edgeStack = <<>> THEN <<>> ELSE Front(edgeStack)
    /\ used' = IF used = <<>> THEN <<>> ELSE Front(used)
    /\ UNCHANGED <<ask, row, steps, blown, rows>>

WalkNext ==
    \/ StartWalk \/ PassOver \/ CloseCycle
    \/ GoDeeper \/ TurnBack \/ StopShort \/ Backtrack

WalkSpec == WalkInit /\ [][WalkNext]_walkVars

-----------------------------------------------------------------------------

Traversed == [eid : Ties, inc : BOOLEAN]
Frame == [v : Sites, cursor : Nat \ {0}]
FoundRow == [row : Nat, nodes : Seq(Sites), edges : Seq(Traversed)]

(* Type invariant. *)
WalkTypeOK ==
    /\ ask \in Calls
    /\ row \in 0 .. Len(ask.src)
    /\ steps \in Nat /\ blown \in BOOLEAN
    /\ nodeStack \in Seq(Sites)
    /\ edgeStack \in Seq(Traversed)
    /\ used \in Seq(Ties \cup Sites)
    /\ stack \in Seq(Frame)
    /\ rows \in Seq(FoundRow)

(* What the frames, the two path stacks and the marks tell each other: the *)
(* stacks hold the path to the frame on top, and the marks are exactly its *)
(* edges, or its nodes, each once.                                         *)
StacksAgree ==
    /\ Len(nodeStack) = Len(stack)
    /\ IF stack = <<>> THEN edgeStack = <<>> ELSE Len(stack) = Len(edgeStack) + 1
    /\ \A i \in DOMAIN stack : stack[i].v = nodeStack[i]
    /\ ask.mode = "walk" => used = <<>>
    /\ ask.mode = "trail" =>
         /\ Len(used) = Len(edgeStack)
         /\ \A i \in DOMAIN used : used[i] = edgeStack[i].eid
    /\ NodeUnique => Len(used) = Len(nodeStack) /\ \A i \in DOMAIN used : used[i] = nodeStack[i]
    /\ \A i, j \in DOMAIN used : used[i] = used[j] => i = j

(* a path as the lists of the graph have it, hop by hop *)
IsPath(nodes, edges) ==
    /\ Len(nodes) = Len(edges) + 1
    /\ \A i \in DOMAIN edges :
         \E j \in 1 .. Degree(nodes[i]) :
            /\ AdjNth(nodes[i], j) = [eid |-> edges[i].eid, nbr |-> nodes[i + 1],
                                      inc |-> edges[i].inc]
            /\ Walkable(nodes[i], AdjNth(nodes[i], j))

(* what the mode allows *)
KeepsMode(nodes, edges) ==
    /\ ask.mode = "trail" =>
         \A i, j \in DOMAIN edges : edges[i].eid = edges[j].eid => i = j
    /\ ask.mode = "acyclic" => \A i, j \in DOMAIN nodes : nodes[i] = nodes[j] => i = j
    /\ ask.mode = "simple" =>
         \A i, j \in DOMAIN nodes :
            i < j /\ nodes[i] = nodes[j] => i = 1 /\ j = Len(nodes)

(* Every row is a path of the graph from its source that keeps the mode,   *)
(* whatever the walk has taken back before, and however it ended.          *)
RowsAreLegal ==
    \A n \in DOMAIN rows :
        /\ rows[n].row \in DOMAIN ask.src
        /\ rows[n].nodes[1] = ask.src[rows[n].row]
        /\ IsPath(rows[n].nodes, rows[n].edges)
        /\ KeepsMode(rows[n].nodes, rows[n].edges)

-----------------------------------------------------------------------------
(* The reference: all the paths, by length, with no marks to take back.    *)

LongerBy1(path) ==
    LET v == Last(path.nodes)
        ways == {AdjNth(v, j) : j \in 1 .. Degree(v)}
    IN  {[nodes |-> Append(path.nodes, a.nbr),
          edges |-> Append(path.edges, [eid |-> a.eid, inc |-> a.inc])] :
            a \in {w \in ways : Walkable(v, w)}}

PathsOf(source) ==
    LET ofLength[n \in 0 .. ask.max] ==
            IF n = 0 THEN {[nodes |-> <<source>>, edges |-> <<>>]}
            ELSE UNION {LongerBy1(path) : path \in ofLength[n - 1]}
    IN  UNION {ofLength[n] : n \in 0 .. ask.max}

CutAt(path, n) ==
    [nodes |-> SubSeq(path.nodes, 1, n + 1), edges |-> SubSeq(path.edges, 1, n)]

(* The hops of a path can be taken one after the other: nothing on the way *)
(* blocks it or ends it, and a simple path closes only where a repetition  *)
(* ends.                                                                   *)
Takes(path) ==
    /\ KeepsMode(path.nodes, path.edges)
    /\ \A n \in 0 .. Len(path.edges) - 1 :
         DescendsFrom(CutAt(path, n).nodes, CutAt(path, n).edges)
    /\ ask.mode = "simple" /\ path.edges # <<>> /\ Last(path.nodes) = path.nodes[1] =>
         AtUnit(Len(path.edges))

Wanted(source) == {path \in PathsOf(source) : Takes(path) /\ EmitsAt(path.nodes, path.edges)}
HopsOf(source) == Cardinality({path \in PathsOf(source) : path.edges # <<>> /\ Takes(path)})

Finished == stack = <<>> /\ (row = Len(ask.src) \/ ShouldStop(blown))
TooManyRows == ask.sink = "collect" /\ Len(rows) > ask.limit

(* The walk finds all the wanted paths of all the sources, each once, with *)
(* its marks put on and taken off along the way; and it refuses only when  *)
(* one source has more hops, or all have more paths, than the limit: a     *)
(* bound decides whether there is an answer, never which.                  *)
PathsAreExact ==
    Finished =>
        IF blown
        THEN \E r \in DOMAIN ask.src : HopsOf(ask.src[r]) > ask.limit
        ELSE LET all == UNION {{[row |-> r, nodes |-> path.nodes, edges |-> path.edges] :
                                   path \in Wanted(ask.src[r])} : r \in DOMAIN ask.src}
             IN  IF TooManyRows
                 THEN Cardinality(all) > ask.limit
                 ELSE Range(rows) = all /\ Cardinality(all) = Len(rows)
=============================================================================
