------------------------------ MODULE MCEngine ------------------------------
(***************************************************************************)
(* The self-contained parts of the native engine in one run: the initial   *)
(* state picks the part that moves, the others stay idle.                  *)
(***************************************************************************)
EXTENDS PreparedSlab, ParseCache, GraphSearch, Components, VarLength, TrailCount, Reachability,
        ShortestPaths, TopK

VARIABLE part

Text(wellFormed, depth, reads, param, id) ==
    [wellFormed |-> wellFormed, depth |-> depth, clock |-> reads, param |-> param, id |-> id]

(* one text of every kind the cache can tell apart *)
MCTexts == {Text(FALSE, 1, "no", "none", 1), Text(TRUE, 2, "no", "value", 2),
            Text(TRUE, 1, "read", "none", 3), Text(TRUE, 1, "named", "value", 4),
            Text(TRUE, 1, "no", "condition", 5), Text(TRUE, 1, "no", "limit", 6)}
MCTraversals == {[wellFormed |-> i # 1, id |-> i] : i \in 1 .. 4}
(* two texts of one hash *)
MCHash == [t \in MCTexts \cup MCTraversals |-> IF t.id = 6 THEN 5 ELSE t.id]

MCLinks == {<<1, 2>>, <<1, 3>>, <<2, 3>>, <<3, 2>>, <<3, 4>>, <<2, 4>>}
MCHints == {<<0, 0, 0, 0>>, <<2, 1, 1, 0>>}
MCArcs == {<<1, 2>>, <<2, 1>>, <<2, 3>>, <<3, 1>>, <<3, 4>>, <<4, 3>>, <<4, 1>>, <<2, 4>>, <<2, 2>>}

(* A loop, two parallel edges, a cycle of two and one of three; the lists  *)
(* are by edge id.                                                         *)
MCEnds == <<<<1, 2>>, <<2, 1>>, <<2, 2>>, <<2, 3>>, <<1, 2>>, <<3, 1>>>>
MCSide(side) == [v \in {1, 2, 3} |->
    LET ids == SelectSeq([e \in DOMAIN MCEnds |-> e], LAMBDA e : MCEnds[e][side] = v)
    IN  [i \in DOMAIN ids |-> [eid |-> ids[i], nbr |-> MCEnds[ids[i]][3 - side]]]]
MCOutAdj == MCSide(1)
MCInAdj == MCSide(2)

Modes == {"walk", "trail", "simple", "acyclic"}
Call(src, dir, pathMode, lengths, unit, wanted, barred, body, until, twice, sink, limit) ==
    [src |-> src, dir |-> dir, mode |-> pathMode, min |-> lengths[1], max |-> lengths[2],
     unit |-> unit, wanted |-> wanted, barred |-> barred, body |-> body, until |-> until,
     doubleLoops |-> twice, sink |-> sink, limit |-> limit]
(* every set of wanted edges, in every mode *)
PlainCalls ==
    {Call(<<1, 2>>, dir, m, lengths, 1, wanted, {}, Sites, {}, FALSE, "collect", 100) :
        dir \in {"out", "both"}, m \in Modes, lengths \in {<<0, 2>>, <<2, 3>>},
        wanted \in SUBSET Ties}
(* quantified groups of two hops, with and without a WHERE *)
GroupCalls ==
    {Call(<<1, 3>>, dir, m, <<0, 4>>, 2, Ties \ {5}, barred, Sites, {}, FALSE, "collect", limit) :
        dir \in {"out", "both"}, m \in Modes \ {"walk"}, barred \in {{}, {4}}, limit \in {4, 100}}
(* repeat(), emit() and until(), and the three consumers at their limits *)
RepeatCalls ==
    {Call(<<2, 1>>, dir, "walk", lengths, 1, Ties \ {5, 6}, {}, body, until, twice, sink, limit) :
        dir \in {"in", "both"}, lengths \in {<<0, 3>>, <<1, 3>>}, body \in {Sites, {1, 2}},
        until \in {{}, {{2}}, {{1, 3}}}, twice \in BOOLEAN,
        sink \in {"collect", "count", "distinct"}, limit \in {3, 9, 100}}
MCCalls == PlainCalls \cup GroupCalls \cup RepeatCalls

(* All graphs of up to four edges on three nodes, as bags of codes, the    *)
(* first of those that differ in the names of the nodes only; and those of *)
(* five edges on two nodes.                                                *)
Coded(x) == [from |-> (x \div 3) + 1, to |-> (x % 3) + 1]
CodesOf(n, codes) == {s \in [1 .. n -> codes] : \A i \in 1 .. n - 1 : s[i] <= s[i + 1]}
Renamed(f, s) ==
    SortSeq([i \in DOMAIN s |-> 3 * f[(s[i] \div 3) + 1] + f[(s[i] % 3) + 1] - 4],
            LAMBDA a, b : a < b)
Renamings == {<<2, 3, 1>>, <<3, 1, 2>>, <<2, 1, 3>>, <<1, 3, 2>>, <<3, 2, 1>>}
Earlier(s, t) == \E i \in DOMAIN s : s[i] < t[i] /\ \A j \in 1 .. i - 1 : s[j] = t[j]
Shapes == {s \in UNION {CodesOf(n, 0 .. 8) : n \in 1 .. 4} :
              \A f \in Renamings : ~Earlier(Renamed(f, s), s)}
DenseShapes == CodesOf(5, {0, 1, 3, 4})
CountOf(s, trail, lengths, pass, body, cut, seed) ==
    [graph |-> [i \in DOMAIN s |-> Coded(s[i])], src |-> <<1, 2, 3, 1>>, trail |-> trail,
     min |-> lengths[1], max |-> lengths[2],
     pass |-> pass, body |-> body, cut |-> cut, seed |-> seed]
MCCounts ==
    {CountOf(s, trail, lengths, Corners, Corners, {}, Corners) :
        s \in Shapes \cup DenseShapes, trail \in BOOLEAN,
        lengths \in {<<0, 2>>, <<1, 1>>, <<2, 2>>, <<1, 3>>, <<3, 3>>, <<0, 4>>, <<4, 4>>}}
    \cup
    {CountOf(s, trail, lengths, masks[1], masks[2], masks[3], masks[4]) :
        s \in Shapes, trail \in BOOLEAN, lengths \in {<<0, 2>>, <<0, 3>>},
        masks \in {<<{1, 2}, Corners, {}, Corners>>, <<Corners, {1, 3}, {}, Corners>>,
                   <<{2, 3}, {1, 2}, {2}, {1, 3}>>}}

(* The modes and bounds over the same graphs; ACYCLIC is always refused.   *)
(* An undirected trail that has to take a hop and may take any number is   *)
(* left to MCReach.                                                        *)
Asked(s, src, dir, pathMode, lengths) ==
    [links |-> [i \in DOMAIN s |-> Coded(s[i])], src |-> src, dir |-> dir, mode |-> pathMode,
     min |-> lengths[1], max |-> lengths[2]]
MCQuestions ==
    {Asked(s, src, dir, "walk", lengths) :
        s \in Shapes, src \in {<<1>>, <<3, 1, 3>>}, dir \in {"out", "both"},
        lengths \in {<<0, 2>>, <<2, 1>>, <<2, 3>>, <<1, AnyLength>>, <<2, AnyLength>>}}
    \cup
    {Asked(s, <<3, 1>>, dir, m, lengths) :
        s \in Shapes, dir \in {"in", "both"}, m \in {"trail", "simple"},
        lengths \in {<<0, 1>>, <<1, 1>>, <<0, AnyLength>>, <<2, AnyLength>>}}
    \cup
    {Asked(s, <<1>>, dir, m, <<1, AnyLength>>) :
        s \in Shapes, dir \in {"out"}, m \in {"trail", "simple"}}
    \cup
    {Asked(s, <<1>>, "both", "simple", <<1, AnyLength>>) : s \in Shapes}

(* Diamonds of four nodes with a chord, a way back, a parallel edge and a  *)
(* loop.  ALL SHORTEST over an undirected loop at the source is left out:  *)
(* see the README.                                                         *)
MCWays == <<<<1, 2>>, <<1, 3>>, <<2, 4>>, <<3, 4>>, <<4, 1>>, <<2, 3>>, <<1, 2>>, <<1, 1>>>>
WaysOf(ids, side) == [v \in 1 .. 4 |->
    LET of == SelectSeq([e \in DOMAIN MCWays |-> e], LAMBDA e : e \in ids /\ MCWays[e][side] = v)
    IN  [i \in DOMAIN of |-> [nbr |-> MCWays[of[i]][3 - side], eid |-> of[i]]]]
Errand(ids, dir, lengths, selects, targets) ==
    [outs |-> WaysOf(ids, 1), incs |-> WaysOf(ids, 2), start |-> 1, dir |-> dir, min |-> lengths[1], max |-> lengths[2],
     all |-> selects[1], track |-> selects[2], targets |-> targets]
Selections == {<<FALSE, TRUE>>, <<TRUE, TRUE>>, <<TRUE, FALSE>>}
MCErrands ==
    {Errand(ids, dir, lengths, selects, {}) :
        ids \in {x \in SUBSET (1 .. 8) : 6 \notin x}, dir \in {"out"},
        lengths \in {<<0, NoBound>>, <<1, 2>>, <<1, NoBound>>}, selects \in Selections}
    \cup
    {Errand(ids, dir, lengths, selects, {}) :
        ids \in SUBSET (1 .. 5), dir \in {"in", "both"},
        lengths \in {<<1, 2>>, <<1, NoBound>>}, selects \in Selections}
    \cup
    {Errand(ids, dir, <<0, NoBound>>, selects, targets) :
        ids \in SUBSET (1 .. 6), dir \in {"out", "both"}, selects \in Selections \ {<<TRUE, FALSE>>},
        targets \in {{4}, {2, 4}, {1, 3}, {1}}}

(* Every column of four or five cells.  With nulls first, the scans that    *)
(* may stop early are given a column that starts with one: see MCTopK.     *)
Plea(column, top, cells, times, filtered, order2, window) ==
    [column |-> column, top |-> top, cells |-> cells, times |-> times, filtered |-> filtered,
     desc |-> order2[1], nullsFirst |-> order2[2], skip |-> window[1], limit |-> window[2]]
Orders == BOOLEAN \X BOOLEAN
MCPleas ==
    LET cellsOf(n, holes) == [1 .. n -> {0, 1} \cup holes]
        plain == {Plea(column, 1, cells, <<>>, FALSE, o, window) :
                    column \in {"num", "temporal"}, cells \in cellsOf(4, {Absent}), o \in Orders,
                    window \in {<<0, 1>>, <<0, 2>>, <<0, 0>>}}
        ranked == {Plea("ranked", top, cells, <<>>, FALSE, o, window) :
                    top \in {1, 2}, cells \in cellsOf(5, {Absent}), o \in Orders,
                    window \in {<<0, 2>>, <<1, 1>>}}
        listed == {Plea("ranked", 1, cells, <<>>, TRUE, o, <<0, 1>>) :
                    cells \in cellsOf(4, {Null, Absent}), o \in {<<FALSE, TRUE>>, <<TRUE, FALSE>>}}
        hops == {Plea("hop", 1, cells, times, FALSE, o, window) :
                    cells \in cellsOf(3, {Absent}), times \in [1 .. 3 -> {1, 2}], o \in Orders,
                    window \in {<<0, 1>>, <<1, 2>>, <<2, 2>>}}
    IN  {p \in plain \cup ranked \cup listed :
            p.column = "ranked" /\ p.nullsFirst =>
                \/ p.cells[1] = Null \/ (p.cells[1] = Absent /\ ~p.filtered)
                \/ \A i \in DOMAIN p.cells : p.cells[i] \in {0, 1}}
        \cup hops

SearchIdle ==
    /\ mode = "idle" /\ heap = {} /\ closed = {} /\ answer = Far
    /\ cost = <<>> /\ hint = <<>> /\ best = <<>>

ComponentsIdle ==
    /\ task = "idle" /\ edges = {} /\ pending = {} /\ parent = <<>> /\ order = <<>>
    /\ low = <<>> /\ tstack = <<>> /\ frames = <<>> /\ comp = <<>>

NoHops == Call(<<>>, "out", "walk", <<0, 0>>, 1, {}, {}, Sites, {}, FALSE, "count", 0)
WalkIdle ==
    /\ ask = NoHops /\ row = 0 /\ steps = 0 /\ blown = FALSE
    /\ nodeStack = <<>> /\ edgeStack = <<>> /\ used = <<>> /\ stack = <<>> /\ rows = <<>>

CountIdle ==
    /\ goal = CountOf(<<>>, FALSE, <<0, 0>>, {}, {}, {}, {}) /\ level = 0
    /\ ways = <<>> /\ ways2 = <<>> /\ trails3 = <<>> /\ total = 0

ReachIdle ==
    /\ question = Asked(<<>>, <<>>, "out", "walk", <<0, 0>>)
    /\ hop = 0 /\ border = {} /\ visited = {} /\ reached = {}

ErrandIdle ==
    /\ errand = Errand({}, "out", <<0, 0>>, <<FALSE, FALSE>>, {})
    /\ dist = <<>> /\ preds = <<>> /\ sighted = <<>> /\ queue = <<>> /\ hand = 0 /\ fan = <<>>
    /\ closing = <<>> /\ missing = 0 /\ stopAt = 0 /\ answers = <<>> /\ reported = FALSE

PageIdle ==
    /\ plea = Plea("hop", 0, <<>>, <<>>, FALSE, <<FALSE, FALSE>>, <<0, 0>>) /\ phase = "idle"
    /\ next = 0 /\ kept = {} /\ atBest = 0 /\ nullsSeen = FALSE /\ line = <<>>
    /\ dropped = 0 /\ page = <<>>

(* One part starts, the rest are idle. *)
EngineInit ==
    /\ SlabInit /\ CacheInit
    /\ part \in {"slab", "gql", "gremlin", "search", "components", "paths", "counts", "reach",
                "shortest", "pages"}
    /\ IF part = "search" THEN SearchInit ELSE SearchIdle
    /\ IF part = "components" THEN ComponentsInit ELSE ComponentsIdle
    /\ IF part = "paths" THEN WalkInit ELSE WalkIdle
    /\ IF part = "counts" THEN CountInit ELSE CountIdle
    /\ IF part = "reach" THEN ReachInit ELSE ReachIdle
    /\ IF part = "shortest" THEN ErrandInit ELSE ErrandIdle
    /\ IF part = "pages" THEN PageInit ELSE PageIdle

SlabPart ==
    /\ part = "slab" /\ SlabNext
    /\ UNCHANGED <<part, cacheVars, searchVars, componentVars, walkVars, countVars, reachVars,
                   errandVars, pageVars>>

GqlPart ==
    /\ part = "gql" /\ GqlStep
    /\ UNCHANGED <<part, slabVars, searchVars, componentVars, walkVars, countVars, reachVars,
                   errandVars, pageVars>>

GremlinPart ==
    /\ part = "gremlin" /\ GremlinStep
    /\ UNCHANGED <<part, slabVars, searchVars, componentVars, walkVars, countVars, reachVars,
                   errandVars, pageVars>>

SearchPart ==
    /\ part = "search" /\ SearchNext
    /\ UNCHANGED <<part, slabVars, cacheVars, componentVars, walkVars, countVars, reachVars,
                   errandVars, pageVars>>

ComponentsPart ==
    /\ part = "components" /\ ComponentsNext
    /\ UNCHANGED <<part, slabVars, cacheVars, searchVars, walkVars, countVars, reachVars,
                   errandVars, pageVars>>

PathsPart ==
    /\ part = "paths" /\ WalkNext
    /\ UNCHANGED <<part, slabVars, cacheVars, searchVars, componentVars, countVars, reachVars,
                   errandVars, pageVars>>

CountsPart ==
    /\ part = "counts" /\ CountNext
    /\ UNCHANGED <<part, slabVars, cacheVars, searchVars, componentVars, walkVars, reachVars,
                   errandVars, pageVars>>

ReachPart ==
    /\ part = "reach" /\ ReachNext
    /\ UNCHANGED <<part, slabVars, cacheVars, searchVars, componentVars, walkVars, countVars,
                   errandVars, pageVars>>

ShortestPart ==
    /\ part = "shortest" /\ ErrandNext
    /\ UNCHANGED <<part, slabVars, cacheVars, searchVars, componentVars, walkVars, countVars,
                   reachVars, pageVars>>

PagesPart ==
    /\ part = "pages" /\ PageNext
    /\ UNCHANGED <<part, slabVars, cacheVars, searchVars, componentVars, walkVars, countVars,
                   reachVars, errandVars>>

EngineNext ==
    \/ SlabPart \/ GqlPart \/ GremlinPart \/ SearchPart \/ ComponentsPart
    \/ PathsPart \/ CountsPart \/ ReachPart \/ ShortestPart \/ PagesPart

engineVars == <<part, slabVars, cacheVars, searchVars, componentVars, walkVars, countVars,
                reachVars, errandVars, pageVars>>

EngineSpec == EngineInit /\ [][EngineNext]_engineVars

(* The stamps of the caches matter by their order only. *)
ByStamp(map, keys) == {<<t, u>> \in keys \X keys : map[t].stamp <= map[u].stamp}
Seen == <<part, slabVars, searchVars, componentVars, walkVars, countVars, reachVars,
          errandVars, pageVars,
          [t \in DOMAIN entries |-> IF IsRefused(t) THEN <<>>
                                    ELSE <<entries[t].maxDepth, entries[t].plan>>],
          ByStamp(entries, DOMAIN entries \ RefusedTexts), ring, cursor, call,
          [t \in DOMAIN gslots |-> gslots[t].plan], ByStamp(gslots, DOMAIN gslots), gseen, gcall>>
=============================================================================
