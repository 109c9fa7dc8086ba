--------------------------- MODULE VarLength_proofs ---------------------------
(***************************************************************************)
(* What a variable-length hop emits, for any graph, call and limit: every  *)
(* row is a path of the graph from its source that keeps the path mode,    *)
(* and a finished walk has emitted every such path, each once.             *)
(*                                                                         *)
(* The first half is the agreement of the stacks: the marks are exactly    *)
(* the edges, or the nodes, of the path the walk stands on, so that a hop  *)
(* the marks allow is a hop the mode allows.  The second half orders all   *)
(* paths as the walk meets them, by the places of their hops in the        *)
(* adjacency lists: at every step the rows are exactly the wanted paths    *)
(* that come before the path on the stacks.                                *)
(*                                                                         *)
(* Last comes Reachability, which counts the ends of such paths without    *)
(* walking them: its count is right wherever the code lets it run, but for *)
(* the undirected open trail.                                              *)
(***************************************************************************)
EXTENDS VarLength, Reachability, SequenceTheorems, FiniteSetTheorems, WellFoundedInduction, TLAPS

(* The lists of the adjacency as functions of the call, so that they keep  *)
(* their meaning over a step: no step changes the call.                    *)
OutsOf(call, v) == IF call.dir \in {"out", "both"} THEN OutAdj[v] ELSE <<>>
IncsOf(call, v) == IF call.dir \in {"in", "both"} THEN InAdj[v] ELSE <<>>
EntryOf(call, v, i) ==
  IF i <= Len(OutsOf(call, v))
  THEN [eid |-> OutsOf(call, v)[i].eid, nbr |-> OutsOf(call, v)[i].nbr, inc |-> FALSE]
  ELSE [eid |-> IncsOf(call, v)[i - Len(OutsOf(call, v))].eid,
        nbr |-> IncsOf(call, v)[i - Len(OutsOf(call, v))].nbr, inc |-> TRUE]
MayWalk(call, v, a) ==
  /\ a.eid \in call.wanted
  /\ a.inc /\ call.dir = "both" /\ a.nbr = v => call.doubleLoops
IsHop(call, v, a) ==
  \E i \in 1 .. Len(OutsOf(call, v)) + Len(IncsOf(call, v)) :
     EntryOf(call, v, i) = a /\ MayWalk(call, v, a)

PathIn(call, nodes, edges) ==
  /\ Len(nodes) = Len(edges) + 1
  /\ \A i \in 1 .. Len(edges) :
       IsHop(call, nodes[i], [eid |-> edges[i].eid, nbr |-> nodes[i + 1], inc |-> edges[i].inc])

Kept(mode, nodes, edges) ==
  /\ mode = "trail" => \A i, j \in 1 .. Len(edges) : edges[i].eid = edges[j].eid => i = j
  /\ mode = "acyclic" => \A i, j \in 1 .. Len(nodes) : nodes[i] = nodes[j] => i = j
  /\ mode = "simple" =>
       \A i, j \in 1 .. Len(nodes) : i < j /\ nodes[i] = nodes[j] => i = 1 /\ j = Len(nodes)

(* a row as the invariant has it *)
LegalRow(call, r) ==
  /\ r.row \in 1 .. Len(call.src)
  /\ r.nodes[1] = call.src[r.row]
  /\ PathIn(call, r.nodes, r.edges)
  /\ Kept(call.mode, r.nodes, r.edges)

(* the invariant over the call of the state, in these terms *)
WalkInv ==
  /\ WalkTypeOK
  /\ StacksAgree
  /\ stack # <<>> => row # 0 /\ nodeStack[1] = ask.src[row] /\ PathIn(ask, nodeStack, edgeStack)
  /\ \A n \in 1 .. Len(rows) : LegalRow(ask, rows[n])

-----------------------------------------------------------------------------
(* Lemmas about sequences and paths. *)

LEMMA FrontOf ==
  ASSUME NEW S, NEW s \in Seq(S), s # <<>>
  PROVE  /\ Front(s) \in Seq(S)
         /\ Len(Front(s)) = Len(s) - 1
         /\ \A i \in 1 .. Len(s) - 1 : Front(s)[i] = s[i]
<1>1. Len(s) \in Nat /\ Len(s) > 0 /\ \A i \in 1 .. Len(s) - 1 : s[i] \in S
  BY EmptySeq, LenProperties, ElementOfSeq
<1> DEFINE n == Len(s) - 1
<1>2. n \in Int /\ \A i \in 1 .. n : s[i] \in S
  BY <1>1
<1> HIDE DEF n
<1>3. /\ SubSeq(s, 1, n) \in Seq(S)
      /\ Len(SubSeq(s, 1, n)) = IF 1 <= n THEN n - 1 + 1 ELSE 0
      /\ \A i \in 1 .. n - 1 + 1 : SubSeq(s, 1, n)[i] = s[1 + i - 1]
  BY <1>2, SubSeqProperties
<1>4. n - 1 + 1 = n /\ \A i \in 1 .. n : 1 + i - 1 = i
  BY <1>2
<1> QED
  BY <1>1, <1>3, <1>4 DEF Front, n

(* A sequence without its last, and one with one more, element by element *)
LEMMA OneLess ==
  ASSUME NEW S, NEW s \in Seq(S), NEW t, t = IF s = <<>> THEN <<>> ELSE Front(s)
  PROVE  /\ t \in Seq(S) /\ DOMAIN t = 1 .. Len(t) /\ Len(t) \in Nat
         /\ Len(t) = IF Len(s) = 0 THEN 0 ELSE Len(s) - 1
         /\ \A i \in 1 .. Len(t) : i \in 1 .. Len(s) /\ t[i] = s[i]
         /\ t = <<>> <=> Len(t) = 0
         /\ s = <<>> <=> Len(s) = 0
<1>1. Len(s) \in Nat /\ (s = <<>> <=> Len(s) = 0)
  BY LenProperties, EmptySeq
<1>2. CASE s = <<>>
  <2>1. t = <<>> /\ t \in Seq(S) /\ Len(t) = 0 /\ Len(s) = 0
    BY <1>1, <1>2, EmptySeq
  <2>2. DOMAIN t = 1 .. Len(t) /\ Len(t) \in Nat
    BY <2>1, LenProperties
  <2>3. \A i \in 1 .. Len(t) : FALSE
    BY <2>1
  <2> QED
    BY <1>2, <2>1, <2>2, <2>3
<1>3. CASE s # <<>>
  <2>1. /\ t \in Seq(S) /\ Len(t) = Len(s) - 1
        /\ \A i \in 1 .. Len(s) - 1 : t[i] = s[i]
    BY <1>3, FrontOf
  <2>2. DOMAIN t = 1 .. Len(t) /\ Len(t) \in Nat /\ (t = <<>> <=> Len(t) = 0)
    BY <2>1, LenProperties, EmptySeq
  <2> QED
    BY <1>1, <1>3, <2>1, <2>2
<1> QED
  BY <1>2, <1>3

LEMMA OneMore ==
  ASSUME NEW S, NEW s \in Seq(S), NEW x \in S, NEW t, t = Append(s, x) \/ t = s \o <<x>>
  PROVE  /\ t \in Seq(S) /\ DOMAIN t = 1 .. Len(t) /\ Len(t) \in Nat
         /\ Len(t) = Len(s) + 1 /\ t # <<>> /\ Len(s) \in Nat
         /\ \A i \in 1 .. Len(t) :
              \/ i = Len(s) + 1 /\ t[i] = x
              \/ i \in 1 .. Len(s) /\ i # Len(s) + 1 /\ t[i] = s[i]
         /\ \A i \in 1 .. Len(s) : i \in 1 .. Len(t) /\ t[i] = s[i]
         /\ t[Len(s) + 1] = x
<1>1. t = Append(s, x)
  BY AppendIsConcat
<1>2. /\ t \in Seq(S) /\ Len(t) = Len(s) + 1 /\ t # <<>>
      /\ \A i \in 1 .. Len(s) : t[i] = s[i]
      /\ t[Len(s) + 1] = x
  BY <1>1, AppendProperties
<1>3. DOMAIN t = 1 .. Len(t) /\ Len(s) \in Nat
  BY <1>2, LenProperties
<1> QED
  BY <1>2, <1>3

(* Marks that differ from one another still do with fewer, or with one     *)
(* more that is none of them.                                              *)
LEMMA FewerDiffer ==
  ASSUME NEW s, NEW t, \A i, j \in 1 .. Len(s) : s[i] = s[j] => i = j,
         \A i \in 1 .. Len(t) : i \in 1 .. Len(s) /\ t[i] = s[i]
  PROVE  \A i, j \in 1 .. Len(t) : t[i] = t[j] => i = j
BY Zenon

LEMMA OneMoreDiffers ==
  ASSUME NEW s, NEW t, NEW x, NEW m,
         \A i, j \in 1 .. Len(s) : s[i] = s[j] => i = j,
         \A i \in 1 .. Len(s) : s[i] # x,
         \A i \in 1 .. Len(t) :
            \/ i = m /\ t[i] = x
            \/ i \in 1 .. Len(s) /\ i # m /\ t[i] = s[i]
  PROVE  \A i, j \in 1 .. Len(t) : t[i] = t[j] => i = j
BY Zenon

(* A legal hop makes a path longer. *)
LEMMA LongerPath ==
  ASSUME NEW call, NEW nodes \in Seq(Sites), NEW edges \in Seq(Traversed),
         PathIn(call, nodes, edges),
         NEW eid \in Ties, NEW nbr \in Sites, NEW inc \in BOOLEAN,
         IsHop(call, nodes[Len(nodes)], [eid |-> eid, nbr |-> nbr, inc |-> inc])
  PROVE  PathIn(call, Append(nodes, nbr), Append(edges, [eid |-> eid, inc |-> inc]))
<1> DEFINE e == [eid |-> eid, inc |-> inc]
           ns == Append(nodes, nbr)
           es == Append(edges, e)
<1>1. e \in Traversed
  BY DEF Traversed
<1>2. /\ Len(es) = Len(edges) + 1 /\ es[Len(edges) + 1] = e
      /\ \A i \in 1 .. Len(edges) : es[i] = edges[i]
  BY <1>1, AppendProperties
<1>3. /\ Len(ns) = Len(nodes) + 1 /\ ns[Len(nodes) + 1] = nbr
      /\ \A i \in 1 .. Len(nodes) : ns[i] = nodes[i]
  BY AppendProperties
<1>4. Len(nodes) = Len(edges) + 1 /\ Len(edges) \in Nat /\ Len(nodes) \in Nat
  BY LenProperties DEF PathIn
<1> HIDE DEF ns, es
<1>5. ASSUME NEW i \in 1 .. Len(es)
      PROVE  IsHop(call, ns[i], [eid |-> es[i].eid, nbr |-> ns[i + 1], inc |-> es[i].inc])
  <2>1. CASE i = Len(es)
    <3>1. ns[i] = nodes[Len(nodes)] /\ ns[i + 1] = nbr /\ es[i] = e
      BY <1>2, <1>3, <1>4, <2>1
    <3> QED
      BY <3>1
  <2>2. CASE i # Len(es)
    <3>1. /\ i \in 1 .. Len(edges)
          /\ ns[i] = nodes[i] /\ ns[i + 1] = nodes[i + 1] /\ es[i] = edges[i]
      BY <1>2, <1>3, <1>4, <1>5, <2>2
    <3> QED
      BY <3>1 DEF PathIn
  <2> QED
    BY <2>1, <2>2
<1>6. PathIn(call, ns, es)
  BY <1>2, <1>3, <1>4, <1>5 DEF PathIn
<1> QED
  BY <1>6 DEF ns, es

(* What is left when the last hop is taken back is a path. *)
LEMMA ShorterPath ==
  ASSUME NEW call, NEW nodes \in Seq(Sites), NEW edges \in Seq(Traversed),
         PathIn(call, nodes, edges), edges # <<>>
  PROVE  /\ PathIn(call, Front(nodes), Front(edges))
         /\ Front(nodes)[1] = nodes[1]
<1> DEFINE ns == Front(nodes)
           es == Front(edges)
<1>1. Len(nodes) = Len(edges) + 1 /\ Len(edges) \in Nat /\ Len(edges) > 0
  BY LenProperties, EmptySeq DEF PathIn
<1>2. Len(es) = Len(edges) - 1 /\ \A i \in 1 .. Len(edges) - 1 : es[i] = edges[i]
  BY <1>1, FrontOf
<1>3. Len(ns) = Len(edges) /\ \A i \in 1 .. Len(edges) : ns[i] = nodes[i]
  BY <1>1, EmptySeq, FrontOf
<1> HIDE DEF ns, es
<1>4. PathIn(call, ns, es)
  BY <1>1, <1>2, <1>3, SMTT(30) DEF PathIn
<1> QED
  BY <1>1, <1>3, <1>4 DEF ns, es

-----------------------------------------------------------------------------
(* What the walk knows at a hop. *)

(* The call is one of those allowed: its parts have their types. *)
LEMMA CallIsTyped ==
  ASSUME WalkTypeOK
  PROVE  /\ ask.src \in Seq(Sites)
         /\ ask.mode \in {"walk", "trail", "simple", "acyclic"}
         /\ ask.dir \in {"out", "in", "both"}
<1>1. ask \in CallType
  BY CallAssumption DEF WalkTypeOK
<1> QED
  BY <1>1 DEF CallType

(* The entry under the cursor is a hop of the graph. *)
LEMMA NextIsHop ==
  ASSUME WalkInv, HasNext
  PROVE  /\ Next1.eid \in Ties /\ Next1.nbr \in Sites /\ Next1.inc \in BOOLEAN
         /\ Next1 = [eid |-> Next1.eid, nbr |-> Next1.nbr, inc |-> Next1.inc]
         /\ Here.v = nodeStack[Len(nodeStack)]
         /\ Walkable(Here.v, Next1) => IsHop(ask, Here.v, Next1)
<1>1. stack \in Seq(Frame) /\ stack # <<>> /\ Len(stack) \in Nat /\ Len(stack) > 0
  BY EmptySeq, LenProperties DEF WalkInv, WalkTypeOK, HasNext
<1>2. Here = stack[Len(stack)] /\ Here \in Frame
  BY <1>1, ElementOfSeq DEF Here, Last
<1>3. Here.v \in Sites /\ Here.cursor \in Nat \ {0}
  BY <1>2 DEF Frame
<1>4. Here.v = nodeStack[Len(nodeStack)]
  BY <1>1, <1>2, LenProperties DEF WalkInv, StacksAgree
<1> DEFINE v == Here.v
           i == Here.cursor
           Entry == [eid : Ties, nbr : Sites]
<1>5. Outs(v) \in Seq(Entry) /\ Incs(v) \in Seq(Entry)
  BY <1>3, EmptySeq, AdjacencyAssumption DEF Outs, Incs
<1>6. Outs(v) = OutsOf(ask, v) /\ Incs(v) = IncsOf(ask, v)
  BY DEF Outs, Incs, OutsOf, IncsOf
<1>7. /\ Len(Outs(v)) \in Nat /\ Len(Incs(v)) \in Nat
      /\ i \in 1 .. Len(Outs(v)) + Len(Incs(v))
  BY <1>3, <1>5, LenProperties DEF HasNext, Degree
<1>8. Next1 = EntryOf(ask, v, i)
  BY <1>6 DEF Next1, AdjNth, EntryOf
<1>9. ASSUME NEW s \in Seq(Entry), NEW j \in 1 .. Len(s)
      PROVE  s[j].eid \in Ties /\ s[j].nbr \in Sites
  <2>1. s[j] \in Entry
    BY <1>9, ElementOfSeq
  <2> QED
    BY <2>1
<1>10. /\ Next1.eid \in Ties /\ Next1.nbr \in Sites /\ Next1.inc \in BOOLEAN
       /\ Next1 = [eid |-> Next1.eid, nbr |-> Next1.nbr, inc |-> Next1.inc]
  <2> HIDE DEF v, i, Entry
  <2>1. CASE i <= Len(Outs(v))
    <3>1. Next1 = [eid |-> Outs(v)[i].eid, nbr |-> Outs(v)[i].nbr, inc |-> FALSE]
      BY <1>6, <1>8, <2>1 DEF EntryOf
    <3>2. Outs(v)[i].eid \in Ties /\ Outs(v)[i].nbr \in Sites
      BY <1>5, <1>7, <1>9, <2>1
    <3> QED
      BY <3>1, <3>2
  <2>2. CASE ~(i <= Len(Outs(v)))
    <3> DEFINE k == i - Len(Outs(v))
    <3>1. Next1 = [eid |-> Incs(v)[k].eid, nbr |-> Incs(v)[k].nbr, inc |-> TRUE]
      BY <1>6, <1>8, <2>2 DEF EntryOf
    <3>2. k \in 1 .. Len(Incs(v))
      BY <1>7, <2>2
    <3>3. Incs(v)[k].eid \in Ties /\ Incs(v)[k].nbr \in Sites
      BY <1>5, <1>9, <3>2
    <3> QED
      BY <3>1, <3>3
  <2> QED
    BY <2>1, <2>2
<1>11. ASSUME Walkable(v, Next1)
       PROVE  IsHop(ask, v, Next1)
  <2>1. MayWalk(ask, v, Next1)
    BY <1>11 DEF Walkable, MayWalk
  <2>2. i \in 1 .. Len(OutsOf(ask, v)) + Len(IncsOf(ask, v))
    BY <1>6, <1>7
  <2> QED
    BY <1>8, <2>1, <2>2 DEF IsHop
<1> QED
  BY <1>4, <1>10, <1>11

(* The next hop makes the path of the stacks longer. *)
LEMMA HopLengthens ==
  ASSUME WalkInv, HasNext, Walkable(Here.v, Next1)
  PROVE  /\ NodesOver(Next1) \in Seq(Sites) /\ EdgesOver(Next1) \in Seq(Traversed)
         /\ PathIn(ask, NodesOver(Next1), EdgesOver(Next1))
         /\ NodesOver(Next1)[1] = ask.src[row]
         /\ row \in 1 .. Len(ask.src)
<1>1. /\ stack # <<>> /\ stack \in Seq(Frame)
      /\ nodeStack \in Seq(Sites) /\ edgeStack \in Seq(Traversed)
      /\ row \in 0 .. Len(ask.src)
  BY DEF WalkInv, WalkTypeOK, HasNext
<1>2. row # 0 /\ nodeStack[1] = ask.src[row] /\ PathIn(ask, nodeStack, edgeStack)
  BY <1>1 DEF WalkInv
<1>3. Len(nodeStack) \in Nat /\ Len(nodeStack) > 0
  BY <1>1, EmptySeq, LenProperties DEF WalkInv, StacksAgree
<1> DEFINE eid == Next1.eid
           nbr == Next1.nbr
           inc == Next1.inc
<1>4. /\ eid \in Ties /\ nbr \in Sites /\ inc \in BOOLEAN
      /\ IsHop(ask, nodeStack[Len(nodeStack)], [eid |-> eid, nbr |-> nbr, inc |-> inc])
  BY NextIsHop
<1>5. [eid |-> eid, inc |-> inc] \in Traversed
  BY <1>4 DEF Traversed
<1> HIDE DEF eid, nbr, inc
<1>6. PathIn(ask, Append(nodeStack, nbr), Append(edgeStack, [eid |-> eid, inc |-> inc]))
  BY <1>1, <1>2, <1>4, LongerPath
<1>7. /\ Append(nodeStack, nbr) \in Seq(Sites)
      /\ Append(nodeStack, nbr)[1] = nodeStack[1]
  BY <1>1, <1>3, <1>4, AppendProperties
<1>8. Append(edgeStack, [eid |-> eid, inc |-> inc]) \in Seq(Traversed)
  BY <1>1, <1>5, AppendProperties
<1>9. row \in 1 .. Len(ask.src)
  <2>1. Len(ask.src) \in Nat
    BY CallIsTyped, LenProperties DEF WalkInv
  <2> QED
    BY <1>1, <1>2, <2>1
<1> QED
  BY <1>2, <1>6, <1>7, <1>8, <1>9 DEF NodesOver, EdgesOver, eid, nbr, inc

(* A hop that no mark forbids, or that closes a simple path on its source, *)
(* keeps the mode.                                                         *)
LEMMA HopKeepsMode ==
  ASSUME WalkInv, HasNext, Walkable(Here.v, Next1), Closes(Next1) \/ ~Collides(Next1)
  PROVE  Kept(ask.mode, NodesOver(Next1), EdgesOver(Next1))
<1> DEFINE eid == Next1.eid
           nbr == Next1.nbr
           e == [eid |-> Next1.eid, inc |-> Next1.inc]
           ns == Append(nodeStack, nbr)
           es == Append(edgeStack, e)
<1>1. /\ nodeStack \in Seq(Sites) /\ edgeStack \in Seq(Traversed)
      /\ used \in Seq(Ties \cup Sites) /\ stack # <<>>
  BY DEF WalkInv, WalkTypeOK, HasNext
<1>2. nbr \in Sites /\ e \in Traversed
  BY NextIsHop DEF Traversed
<1>3. /\ Len(ns) = Len(nodeStack) + 1 /\ ns[Len(nodeStack) + 1] = nbr
      /\ \A i \in 1 .. Len(nodeStack) : ns[i] = nodeStack[i]
  BY <1>1, <1>2, AppendProperties
<1>4. /\ Len(es) = Len(edgeStack) + 1 /\ es[Len(edgeStack) + 1].eid = eid
      /\ \A i \in 1 .. Len(edgeStack) : es[i] = edgeStack[i]
  BY <1>1, <1>2, AppendProperties
<1>5. /\ Len(nodeStack) \in Nat /\ Len(edgeStack) \in Nat /\ Len(used) \in Nat
      /\ DOMAIN used = 1 .. Len(used)
  BY <1>1, LenProperties
<1>6. \A i, j \in 1 .. Len(used) : used[i] = used[j] => i = j
  BY <1>5 DEF WalkInv, StacksAgree
<1> HIDE DEF eid, nbr, e, ns, es
<1>7. ASSUME ask.mode = "trail"
      PROVE  \A i, j \in 1 .. Len(es) : es[i].eid = es[j].eid => i = j
  <2>1. Len(used) = Len(edgeStack) /\ \A i \in 1 .. Len(used) : used[i] = edgeStack[i].eid
    BY <1>5, <1>7 DEF WalkInv, StacksAgree
  <2>2. eid \notin Range(used)
    BY <1>7 DEF Closes, Collides, eid
  <2>3. \A i \in 1 .. Len(edgeStack) : es[i].eid = used[i] /\ es[i].eid # eid
    BY <1>4, <1>5, <2>1, <2>2 DEF Range
  <2> QED
    BY <1>4, <1>5, <1>6, <2>1, <2>3
<1>8. ASSUME ask.mode \in {"simple", "acyclic"}
      PROVE  /\ Len(used) = Len(nodeStack)
             /\ \A i, j \in 1 .. Len(nodeStack) : nodeStack[i] = nodeStack[j] => i = j
  BY <1>5, <1>6, <1>8 DEF WalkInv, StacksAgree, NodeUnique
<1>9. ASSUME ask.mode \in {"simple", "acyclic"}, nbr \notin Range(used)
      PROVE  \A i, j \in 1 .. Len(ns) : ns[i] = ns[j] => i = j
  <2>1. \A i \in 1 .. Len(nodeStack) : ns[i] # nbr
    BY <1>3, <1>5, <1>8, <1>9 DEF WalkInv, StacksAgree, NodeUnique, Range
  <2> QED
    BY <1>3, <1>5, <1>8, <1>9, <2>1
<1>10. ASSUME ask.mode = "simple", nbr = nodeStack[1]
       PROVE  \A i, j \in 1 .. Len(ns) : i < j /\ ns[i] = ns[j] => i = 1 /\ j = Len(ns)
  BY <1>3, <1>5, <1>8, <1>10
<1>11. CASE Closes(Next1)
  <2>1. ask.mode = "simple" /\ nbr = nodeStack[1]
    BY <1>11 DEF Closes, nbr
  <2>2. Kept(ask.mode, ns, es)
    BY <1>10, <2>1 DEF Kept
  <2> QED
    BY <2>2 DEF NodesOver, EdgesOver, ns, es, nbr, e
<1>12. CASE ~Closes(Next1) /\ ~Collides(Next1)
  <2>1. ask.mode \in {"simple", "acyclic"} => nbr \notin Range(used)
    BY <1>12 DEF Collides, NodeUnique, nbr
  <2>2. Len(ns) \in Nat
    BY <1>3, <1>5
  <2>3. Kept(ask.mode, ns, es)
    BY <1>7, <1>9, <2>1, <2>2 DEF Kept
  <2> QED
    BY <2>3 DEF NodesOver, EdgesOver, ns, es, nbr, e
<1> QED
  BY <1>11, <1>12

(* A row that is emitted joins the others; no step changes the call. *)
LEMMA RowsStayLegal ==
  ASSUME WalkInv, ask' = ask,
         \/ rows' = rows
         \/ \E r \in FoundRow : LegalRow(ask, r) /\ rows' = Append(rows, r)
  PROVE  rows' \in Seq(FoundRow) /\ \A n \in 1 .. Len(rows') : LegalRow(ask', rows'[n])
<1>1. rows \in Seq(FoundRow) /\ Len(rows) \in Nat
  BY LenProperties DEF WalkInv, WalkTypeOK
<1>2. \A n \in 1 .. Len(rows) : LegalRow(ask, rows[n])
  BY DEF WalkInv
<1>3. CASE rows' = rows
  BY <1>1, <1>2, <1>3
<1>4. ASSUME NEW r \in FoundRow, LegalRow(ask, r), rows' = Append(rows, r)
      PROVE  rows' \in Seq(FoundRow) /\ \A n \in 1 .. Len(rows') : LegalRow(ask', rows'[n])
  <2>1. /\ rows' \in Seq(FoundRow) /\ Len(rows') = Len(rows) + 1
        /\ \A n \in 1 .. Len(rows) : rows'[n] = rows[n]
        /\ rows'[Len(rows) + 1] = r
    BY <1>1, <1>4, AppendProperties
  <2> QED
    BY <1>1, <1>2, <1>4, <2>1
<1> QED
  BY <1>3, <1>4

(* So does the row of the next hop, when there is one. *)
LEMMA HopEmitsLegal ==
  ASSUME WalkInv, HasNext, Walkable(Here.v, Next1), Closes(Next1) \/ ~Collides(Next1),
         ask' = ask, rows' = Emitted(NodesOver(Next1), EdgesOver(Next1))
  PROVE  rows' \in Seq(FoundRow) /\ \A n \in 1 .. Len(rows') : LegalRow(ask', rows'[n])
<1> DEFINE r == [row |-> row, nodes |-> NodesOver(Next1), edges |-> EdgesOver(Next1)]
<1>1. /\ NodesOver(Next1) \in Seq(Sites) /\ EdgesOver(Next1) \in Seq(Traversed)
      /\ PathIn(ask, NodesOver(Next1), EdgesOver(Next1))
      /\ NodesOver(Next1)[1] = ask.src[row]
      /\ row \in 1 .. Len(ask.src)
  BY HopLengthens
<1>2. Kept(ask.mode, NodesOver(Next1), EdgesOver(Next1))
  BY HopKeepsMode
<1>3. r \in FoundRow
  <2>1. row \in Nat
    BY CallIsTyped, LenProperties DEF WalkInv, WalkTypeOK
  <2> QED
    BY <1>1, <2>1 DEF FoundRow
<1>4. LegalRow(ask, r)
  BY <1>1, <1>2 DEF LegalRow
<1>5. rows' = rows \/ rows' = Append(rows, r)
  BY DEF Emitted
<1> QED
  BY <1>3, <1>4, <1>5, RowsStayLegal

(* What is left to show of a step that keeps the call, once its rows are. *)
WalkKept ==
  /\ row' \in 0 .. Len(ask'.src) /\ steps' \in Nat /\ blown' \in BOOLEAN
  /\ nodeStack' \in Seq(Sites) /\ edgeStack' \in Seq(Traversed)
  /\ used' \in Seq(Ties \cup Sites) /\ stack' \in Seq(Frame)
  /\ StacksAgree'
  /\ stack' # <<>> => /\ row' # 0 /\ nodeStack'[1] = ask'.src[row']
                      /\ PathIn(ask', nodeStack', edgeStack')

LEMMA KeptInv ==
  ASSUME WalkInv, ask' = ask, WalkKept,
         rows' \in Seq(FoundRow), \A n \in 1 .. Len(rows') : LegalRow(ask', rows'[n])
  PROVE  WalkInv'
BY DEF WalkInv, WalkTypeOK, WalkKept

-----------------------------------------------------------------------------
(* The steps. *)

LEMMA WalkInitInv == WalkInit => WalkInv
<1> SUFFICES ASSUME WalkInit PROVE WalkInv
  OBVIOUS
<1>1. ask \in Calls /\ ask \in CallType
  BY CallAssumption DEF WalkInit
<1>2. ask.src \in Seq(Sites)
  BY <1>1 DEF CallType
<1>3. 0 \in 0 .. Len(ask.src)
  BY <1>2, LenProperties
<1>4. /\ Len(<<>>) = 0 /\ DOMAIN <<>> = {}
      /\ \A S : <<>> \in Seq(S)
  BY EmptySeq
<1>5. WalkTypeOK
  BY <1>1, <1>3, <1>4 DEF WalkInit, WalkTypeOK
<1>6. StacksAgree
  BY <1>4 DEF WalkInit, StacksAgree
<1> QED
  BY <1>4, <1>5, <1>6 DEF WalkInit, WalkInv

(* The marks keep their count and their type, whatever the hop. *)
LEMMA StepsAreTyped ==
  ASSUME WalkInv, NEW counts \in BOOLEAN, NoteStep(counts)
  PROVE  steps' \in Nat /\ blown' \in BOOLEAN
<1>1. StepsAfter(counts) \in Nat
  BY DEF WalkInv, WalkTypeOK, StepsAfter
<1>2. BlownAfter(counts) \in BOOLEAN
  BY DEF WalkInv, WalkTypeOK, BlownAfter
<1> QED
  BY <1>1, <1>2 DEF NoteStep

LEMMA StartWalkInv == WalkInv /\ StartWalk => WalkInv'
<1> SUFFICES ASSUME WalkInv, StartWalk PROVE WalkInv'
  OBVIOUS
<1> DEFINE v == ask.src[row + 1]
           r == [row |-> row + 1, nodes |-> <<v>>, edges |-> <<>>]
<1>1. /\ ask' = ask /\ row' = row + 1 /\ steps' = 0 /\ blown' = blown
      /\ edgeStack' = edgeStack /\ stack = <<>> /\ row < Len(ask.src)
  BY DEF StartWalk
<1>2. /\ ask.src \in Seq(Sites) /\ Len(ask.src) \in Nat
      /\ row \in Nat /\ row + 1 \in 1 .. Len(ask.src)
  BY <1>1, CallIsTyped, LenProperties DEF WalkInv, WalkTypeOK
<1>3. v \in Sites
  BY <1>2, ElementOfSeq
<1>4. /\ <<>> \in Seq(Traversed) /\ Len(<<>>) = 0 /\ DOMAIN <<>> = {}
      /\ <<v>> \in Seq(Sites) /\ Len(<<v>>) = 1 /\ <<v>>[1] = v
      /\ <<v>> \in Seq(Ties \cup Sites) /\ <<>> \in Seq(Ties \cup Sites)
  BY <1>3, EmptySeq
<1> HIDE DEF v
<1>5. r \in FoundRow /\ LegalRow(ask, r)
  <2>1. PathIn(ask, <<v>>, <<>>)
    BY <1>4 DEF PathIn
  <2>2. Kept(ask.mode, <<v>>, <<>>)
    BY <1>4 DEF Kept
  <2>3. v = ask.src[row + 1]
    BY DEF v
  <2> QED
    BY <1>2, <1>4, <2>1, <2>2, <2>3 DEF FoundRow, LegalRow
<1>6. rows' = rows \/ rows' = Append(rows, r)
  BY DEF StartWalk, v
<1>7. rows' \in Seq(FoundRow) /\ \A n \in 1 .. Len(rows') : LegalRow(ask', rows'[n])
  BY <1>1, <1>5, <1>6, RowsStayLegal
<1>8. /\ edgeStack = <<>> /\ Len(stack) = 0 /\ Len(nodeStack) = 0
      /\ nodeStack \in Seq(Sites) /\ used \in Seq(Ties \cup Sites) /\ stack \in Seq(Frame)
      /\ blown \in BOOLEAN
  BY <1>1, EmptySeq DEF WalkInv, WalkTypeOK, StacksAgree
<1>9. CASE DescendsFrom(<<v>>, <<>>)
  <2>1. /\ stack' = <<[v |-> v, cursor |-> 1]>> /\ nodeStack' = <<v>>
        /\ used' = IF NodeUnique THEN <<v>> ELSE <<>>
    BY <1>9 DEF StartWalk, v
  <2>2. [v |-> v, cursor |-> 1] \in Frame
    BY <1>3 DEF Frame
  <2>3. /\ stack' \in Seq(Frame) /\ Len(stack') = 1 /\ stack'[1].v = v /\ stack' # <<>>
        /\ DOMAIN stack' = {1}
    BY <2>1, <2>2
  <2>4. /\ used' \in Seq(Ties \cup Sites)
        /\ IF NodeUnique THEN Len(used') = 1 /\ used'[1] = v /\ DOMAIN used' = {1}
                          ELSE used' = <<>>
    <3>1. CASE NodeUnique
      <4>1. used' = <<v>>
        BY <2>1, <3>1
      <4> QED
        BY <1>4, <3>1, <4>1
    <3>2. CASE ~NodeUnique
      BY <1>4, <2>1, <3>2
    <3> QED
      BY <3>1, <3>2
  <2>5. StacksAgree'
    BY <1>1, <1>4, <1>8, <2>1, <2>3, <2>4 DEF StacksAgree, NodeUnique
  <2>6. PathIn(ask', nodeStack', edgeStack')
    BY <1>1, <1>4, <1>8, <2>1 DEF PathIn
  <2>7. nodeStack'[1] = ask'.src[row']
    BY <1>1, <1>4, <2>1 DEF v
  <2>8. WalkKept
    BY <1>1, <1>2, <1>4, <1>8, <2>1, <2>3, <2>4, <2>5, <2>6, <2>7 DEF WalkKept
  <2> QED
    BY <1>1, <1>7, <2>8, KeptInv
<1>10. CASE ~DescendsFrom(<<v>>, <<>>)
  <2>1. stack' = stack /\ nodeStack' = nodeStack /\ used' = used
    BY <1>10 DEF StartWalk, v
  <2>2. StacksAgree'
    BY <1>1, <2>1 DEF WalkInv, StacksAgree, NodeUnique
  <2>3. WalkKept
    BY <1>1, <1>2, <1>4, <1>8, <2>1, <2>2 DEF WalkKept
  <2> QED
    BY <1>1, <1>7, <2>3, KeptInv
<1> QED
  BY <1>9, <1>10

LEMMA OnwardFrames ==
  ASSUME WalkInv, HasNext
  PROVE  /\ Onward \in Seq(Frame) /\ Onward # <<>> /\ Len(Onward) = Len(stack)
         /\ \A i \in 1 .. Len(stack) : Onward[i].v = stack[i].v
<1>1. stack \in Seq(Frame) /\ stack # <<>> /\ Len(stack) \in Nat /\ Len(stack) > 0
  BY EmptySeq, LenProperties DEF WalkInv, WalkTypeOK, HasNext
<1> DEFINE n == Len(stack)
           f == [stack[n] EXCEPT !.cursor = @ + 1]
<1>2. n \in 1 .. Len(stack) /\ stack[n] \in Frame
  BY <1>1, ElementOfSeq
<1>3. f \in Frame /\ f.v = stack[n].v
  BY <1>2 DEF Frame
<1>4. Onward = [stack EXCEPT ![n] = f]
  BY DEF Onward
<1> HIDE DEF n, f
<1>5. /\ Onward \in Seq(Frame) /\ Len(Onward) = Len(stack)
      /\ \A i \in 1 .. Len(stack) : Onward[i] = IF i = n THEN f ELSE stack[i]
  BY <1>1, <1>2, <1>3, <1>4, ExceptSeq
<1> QED
  BY <1>1, <1>3, <1>5, EmptySeq

(* The steps that leave the walk where it stands. *)
LEMMA StaysInv ==
  ASSUME WalkInv, HasNext, stack' = Onward,
         UNCHANGED <<ask, row, nodeStack, edgeStack, used>>,
         steps' \in Nat, blown' \in BOOLEAN,
         rows' \in Seq(FoundRow), \A n \in 1 .. Len(rows') : LegalRow(ask', rows'[n])
  PROVE  WalkInv'
<1>1. /\ stack' \in Seq(Frame) /\ stack' # <<>> /\ Len(stack') = Len(stack)
      /\ \A i \in 1 .. Len(stack) : stack'[i].v = stack[i].v
  BY OnwardFrames
<1>2. /\ stack \in Seq(Frame) /\ stack # <<>> /\ Len(stack) \in Nat
      /\ DOMAIN stack = 1 .. Len(stack) /\ DOMAIN stack' = 1 .. Len(stack)
  BY <1>1, LenProperties DEF WalkInv, WalkTypeOK, HasNext
<1>3. StacksAgree'
  BY <1>1, <1>2 DEF WalkInv, StacksAgree, NodeUnique
<1>4. WalkKept
  BY <1>1, <1>2, <1>3 DEF WalkKept, WalkInv, WalkTypeOK
<1> QED
  BY <1>4, KeptInv

LEMMA PassOverInv == WalkInv /\ PassOver => WalkInv'
<1> SUFFICES ASSUME WalkInv, PassOver PROVE WalkInv'
  OBVIOUS
<1>1. /\ HasNext /\ stack' = Onward /\ ask' = ask /\ rows' = rows
      /\ UNCHANGED <<ask, row, nodeStack, edgeStack, used>>
      /\ steps' = steps /\ blown' = blown
  BY DEF PassOver
<1>2. steps' \in Nat /\ blown' \in BOOLEAN
  BY <1>1 DEF WalkInv, WalkTypeOK
<1>3. rows' \in Seq(FoundRow) /\ \A n \in 1 .. Len(rows') : LegalRow(ask', rows'[n])
  BY <1>1, RowsStayLegal
<1> QED
  BY <1>1, <1>2, <1>3, StaysInv

LEMMA CloseCycleInv == WalkInv /\ CloseCycle => WalkInv'
<1> SUFFICES ASSUME WalkInv, CloseCycle PROVE WalkInv'
  OBVIOUS
<1> DEFINE counts == AtUnit(Len(edgeStack) + 1)
<1>1. /\ HasNext /\ Walkable(Here.v, Next1) /\ Closes(Next1)
      /\ stack' = Onward /\ ask' = ask
      /\ NoteStep(counts)
      /\ rows' = Emitted(NodesOver(Next1), EdgesOver(Next1))
      /\ UNCHANGED <<ask, row, nodeStack, edgeStack, used>>
  BY DEF CloseCycle
<1>2. counts \in BOOLEAN
  BY DEF AtUnit
<1> HIDE DEF counts
<1>3. steps' \in Nat /\ blown' \in BOOLEAN
  BY <1>1, <1>2, StepsAreTyped
<1>4. rows' \in Seq(FoundRow) /\ \A n \in 1 .. Len(rows') : LegalRow(ask', rows'[n])
  BY <1>1, HopEmitsLegal
<1> QED
  BY <1>1, <1>3, <1>4, StaysInv

LEMMA TurnBackInv == WalkInv /\ TurnBack => WalkInv'
<1> SUFFICES ASSUME WalkInv, TurnBack PROVE WalkInv'
  OBVIOUS
<1>1. /\ HasNext /\ Walkable(Here.v, Next1) /\ ~Collides(Next1)
      /\ stack' = Onward /\ ask' = ask
      /\ NoteStep(TRUE)
      /\ rows' = Emitted(NodesOver(Next1), EdgesOver(Next1))
      /\ UNCHANGED <<ask, row, nodeStack, edgeStack, used>>
  BY DEF TurnBack, TakesHop
<1>2. steps' \in Nat /\ blown' \in BOOLEAN
  BY <1>1, StepsAreTyped
<1>3. rows' \in Seq(FoundRow) /\ \A n \in 1 .. Len(rows') : LegalRow(ask', rows'[n])
  BY <1>1, HopEmitsLegal
<1> QED
  BY <1>1, <1>2, <1>3, StaysInv

LEMMA StopShortInv == WalkInv /\ StopShort => WalkInv'
<1> SUFFICES ASSUME WalkInv, StopShort PROVE WalkInv'
  OBVIOUS
<1>1. /\ ask' = ask /\ row' = row /\ rows' = rows
      /\ stack' = <<>> /\ nodeStack' = <<>> /\ edgeStack' = <<>> /\ used' = <<>>
      /\ NoteStep(TRUE)
  BY DEF StopShort, TakesHop
<1>2. steps' \in Nat /\ blown' \in BOOLEAN
  BY <1>1, StepsAreTyped
<1>3. rows' \in Seq(FoundRow) /\ \A n \in 1 .. Len(rows') : LegalRow(ask', rows'[n])
  BY <1>1, RowsStayLegal
<1>4. Len(<<>>) = 0 /\ DOMAIN <<>> = {} /\ \A S : <<>> \in Seq(S)
  BY EmptySeq
<1>5. StacksAgree'
  BY <1>1, <1>4 DEF StacksAgree
<1>6. WalkKept
  BY <1>1, <1>2, <1>4, <1>5 DEF WalkKept, WalkInv, WalkTypeOK
<1> QED
  BY <1>1, <1>3, <1>6, KeptInv

(* One deeper: every stack grows by one, the marks as the mode has it. *)
LEMMA GoDeeperInv == WalkInv /\ GoDeeper => WalkInv'
<1> SUFFICES ASSUME WalkInv, GoDeeper PROVE WalkInv'
  OBVIOUS
<1> DEFINE a == Next1
           f == [v |-> a.nbr, cursor |-> 1]
           e == [eid |-> a.eid, inc |-> a.inc]
<1>1. /\ HasNext /\ Walkable(Here.v, Next1) /\ ~Closes(Next1) /\ ~Collides(Next1)
      /\ ask' = ask /\ row' = row /\ NoteStep(TRUE)
      /\ rows' = Emitted(NodesOver(Next1), EdgesOver(Next1))
      /\ stack' = Append(Onward, f)
      /\ nodeStack' = Append(nodeStack, a.nbr) /\ edgeStack' = Append(edgeStack, e)
      /\ used' = used \o Mark(Next1)
  BY DEF GoDeeper, TakesHop, NodesOver, EdgesOver
<1>2. steps' \in Nat /\ blown' \in BOOLEAN
  BY <1>1, StepsAreTyped
<1>3. rows' \in Seq(FoundRow) /\ \A n \in 1 .. Len(rows') : LegalRow(ask', rows'[n])
  BY <1>1, HopEmitsLegal
<1>4. /\ nodeStack' \in Seq(Sites) /\ edgeStack' \in Seq(Traversed)
      /\ PathIn(ask, nodeStack', edgeStack')
      /\ nodeStack'[1] = ask.src[row]
      /\ row \in 1 .. Len(ask.src)
  BY <1>1, HopLengthens DEF NodesOver, EdgesOver
<1>5. a.eid \in Ties /\ a.nbr \in Sites /\ f \in Frame /\ e \in Traversed
  BY <1>1, NextIsHop DEF Frame, Traversed
<1>6. /\ stack \in Seq(Frame) /\ stack # <<>> /\ Len(stack) \in Nat
      /\ nodeStack \in Seq(Sites) /\ edgeStack \in Seq(Traversed)
      /\ used \in Seq(Ties \cup Sites)
      /\ Len(nodeStack) = Len(stack) /\ Len(stack) = Len(edgeStack) + 1
      /\ Len(used) \in Nat /\ Len(edgeStack) \in Nat
      /\ DOMAIN stack = 1 .. Len(stack) /\ DOMAIN used = 1 .. Len(used)
  BY <1>1, LenProperties DEF WalkInv, WalkTypeOK, StacksAgree, HasNext
<1> HIDE DEF a, f, e
<1>7. /\ stack' \in Seq(Frame) /\ Len(stack') = Len(stack) + 1 /\ stack' # <<>>
      /\ DOMAIN stack' = 1 .. Len(stack')
      /\ \A i \in 1 .. Len(stack') :
           \/ i = Len(stack) + 1 /\ stack'[i] = f
           \/ i \in 1 .. Len(stack) /\ i # Len(stack) + 1 /\ stack'[i].v = stack[i].v
  <2>1. /\ Onward \in Seq(Frame) /\ Len(Onward) = Len(stack)
        /\ \A i \in 1 .. Len(stack) : Onward[i].v = stack[i].v
    BY <1>1, OnwardFrames
  <2>2. /\ stack' \in Seq(Frame) /\ Len(stack') = Len(Onward) + 1 /\ stack' # <<>>
        /\ DOMAIN stack' = 1 .. Len(stack')
        /\ \A i \in 1 .. Len(stack') :
             \/ i = Len(Onward) + 1 /\ stack'[i] = f
             \/ i \in 1 .. Len(Onward) /\ i # Len(Onward) + 1 /\ stack'[i] = Onward[i]
    <3>1. stack' = Append(Onward, f)
      BY <1>1
    <3>2. f \in Frame /\ Onward \in Seq(Frame)
      BY <1>5, <2>1
    <3> QED
      BY <3>1, <3>2, OneMore
  <2> QED
    BY <2>1, <2>2
<1>8. /\ Len(nodeStack') = Len(stack) + 1
      /\ \A i \in 1 .. Len(nodeStack) : nodeStack'[i] = nodeStack[i]
      /\ nodeStack'[Len(stack) + 1] = a.nbr
  <2>1. nodeStack' = Append(nodeStack, a.nbr)
    BY <1>1
  <2> QED
    BY <1>5, <1>6, <2>1, OneMore
<1>9. /\ Len(edgeStack') = Len(edgeStack) + 1 /\ edgeStack' # <<>>
      /\ \A i \in 1 .. Len(edgeStack) : edgeStack'[i] = edgeStack[i]
      /\ edgeStack'[Len(edgeStack) + 1] = e
  <2>1. edgeStack' = Append(edgeStack, e)
    BY <1>1
  <2> QED
    BY <1>5, <1>6, <2>1, OneMore
<1>10. \A i \in 1 .. Len(stack') : stack'[i].v = nodeStack'[i]
  <2>1. \A i \in 1 .. Len(stack) : stack[i].v = nodeStack[i]
    BY <1>6 DEF WalkInv, StacksAgree
  <2>2. f.v = a.nbr
    BY DEF f
  <2>3. TAKE i \in 1 .. Len(stack')
  <2>4. CASE i = Len(stack) + 1 /\ stack'[i] = f
    BY <1>8, <2>2, <2>4
  <2>5. CASE i \in 1 .. Len(stack) /\ stack'[i].v = stack[i].v
    BY <1>6, <1>8, <2>1, <2>5
  <2> QED
    BY <1>7, <2>4, <2>5
<1>11. ASSUME NEW x \in Ties \cup Sites, Mark(Next1) = <<x>>,
              \A i \in 1 .. Len(used) : used[i] # x
       PROVE  /\ used' \in Seq(Ties \cup Sites) /\ Len(used') = Len(used) + 1
              /\ DOMAIN used' = 1 .. Len(used')
              /\ \A i \in 1 .. Len(used') :
                   \/ i = Len(used) + 1 /\ used'[i] = x
                   \/ i \in 1 .. Len(used) /\ i # Len(used) + 1 /\ used'[i] = used[i]
              /\ \A i, j \in 1 .. Len(used') : used'[i] = used'[j] => i = j
  <2>1. used' = used \o <<x>>
    BY <1>1, <1>11
  <2>2. \A i, j \in 1 .. Len(used) : used[i] = used[j] => i = j
    BY <1>6 DEF WalkInv, StacksAgree
  <2>3. /\ used' \in Seq(Ties \cup Sites) /\ Len(used') = Len(used) + 1
        /\ DOMAIN used' = 1 .. Len(used')
        /\ \A i \in 1 .. Len(used') :
             \/ i = Len(used) + 1 /\ used'[i] = x
             \/ i \in 1 .. Len(used) /\ i # Len(used) + 1 /\ used'[i] = used[i]
    BY <1>6, <2>1, OneMore
  <2>4. \A i, j \in 1 .. Len(used') : used'[i] = used'[j] => i = j
    BY <1>11, <2>2, <2>3, OneMoreDiffers
  <2> QED
    BY <2>3, <2>4
<1>12. /\ Len(nodeStack') = Len(stack')
       /\ stack' # <<>> /\ Len(stack') = Len(edgeStack') + 1
       /\ \A i \in DOMAIN stack' : stack'[i].v = nodeStack'[i]
  BY <1>6, <1>7, <1>8, <1>9, <1>10
<1>13. used' \in Seq(Ties \cup Sites) /\ StacksAgree'
  <2>1. CASE ask.mode = "walk"
    <3>1. used = <<>>
      BY <2>1 DEF WalkInv, StacksAgree
    <3>2. Mark(Next1) = <<>>
      BY <2>1 DEF Mark, NodeUnique
    <3>3. used' = <<>> /\ used' \in Seq(Ties \cup Sites) /\ DOMAIN used' = {}
      BY <1>1, <3>1, <3>2, ConcatEmptySeq, EmptySeq
    <3> QED
      BY <1>1, <1>12, <2>1, <3>3 DEF StacksAgree, NodeUnique
  <2>2. CASE ask.mode = "trail"
    <3>1. Mark(Next1) = <<a.eid>>
      BY <2>2 DEF Mark, a, NodeUnique
    <3>2. Len(used) = Len(edgeStack) /\ \A i \in 1 .. Len(used) : used[i] = edgeStack[i].eid
      BY <1>6, <2>2 DEF WalkInv, StacksAgree
    <3>3. \A i \in 1 .. Len(used) : used[i] # a.eid
      BY <1>1, <1>6, <2>2 DEF Collides, Range, a
    <3>4. /\ used' \in Seq(Ties \cup Sites) /\ Len(used') = Len(used) + 1
          /\ DOMAIN used' = 1 .. Len(used')
          /\ \A i \in 1 .. Len(used') :
               \/ i = Len(used) + 1 /\ used'[i] = a.eid
               \/ i \in 1 .. Len(used) /\ i # Len(used) + 1 /\ used'[i] = used[i]
          /\ \A i, j \in 1 .. Len(used') : used'[i] = used'[j] => i = j
      BY <1>5, <1>11, <3>1, <3>3
    <3>5. \A i \in 1 .. Len(used') : used'[i] = edgeStack'[i].eid
      <4>1. e.eid = a.eid
        BY DEF e
      <4>2. TAKE i \in 1 .. Len(used')
      <4>3. CASE i = Len(used) + 1 /\ used'[i] = a.eid
        BY <1>9, <3>2, <4>1, <4>3
      <4>4. CASE i \in 1 .. Len(used) /\ used'[i] = used[i]
        BY <1>9, <3>2, <4>4
      <4> QED
        BY <3>4, <4>3, <4>4
    <3>6. Len(used') = Len(edgeStack')
      BY <1>9, <3>2, <3>4
    <3> QED
      BY <1>1, <1>12, <2>2, <3>4, <3>5, <3>6 DEF StacksAgree, NodeUnique
  <2>3. CASE ask.mode \in {"simple", "acyclic"}
    <3>1. Mark(Next1) = <<a.nbr>>
      BY <2>3 DEF Mark, NodeUnique, a
    <3>2. Len(used) = Len(nodeStack) /\ \A i \in 1 .. Len(used) : used[i] = nodeStack[i]
      BY <1>6, <2>3 DEF WalkInv, StacksAgree, NodeUnique
    <3>3. \A i \in 1 .. Len(used) : used[i] # a.nbr
      BY <1>1, <1>6, <2>3 DEF Collides, NodeUnique, Range, a
    <3>4. /\ used' \in Seq(Ties \cup Sites) /\ Len(used') = Len(used) + 1
          /\ DOMAIN used' = 1 .. Len(used')
          /\ \A i \in 1 .. Len(used') :
               \/ i = Len(used) + 1 /\ used'[i] = a.nbr
               \/ i \in 1 .. Len(used) /\ i # Len(used) + 1 /\ used'[i] = used[i]
          /\ \A i, j \in 1 .. Len(used') : used'[i] = used'[j] => i = j
      BY <1>5, <1>11, <3>1, <3>3
    <3>5. \A i \in 1 .. Len(used') : used'[i] = nodeStack'[i]
      <4>1. TAKE i \in 1 .. Len(used')
      <4>2. CASE i = Len(used) + 1 /\ used'[i] = a.nbr
        BY <1>6, <1>8, <3>2, <4>2
      <4>3. CASE i \in 1 .. Len(used) /\ used'[i] = used[i]
        BY <1>8, <3>2, <4>3
      <4> QED
        BY <3>4, <4>2, <4>3
    <3>6. Len(used') = Len(nodeStack')
      BY <1>6, <1>8, <3>2, <3>4
    <3> QED
      BY <1>1, <1>12, <2>3, <3>4, <3>5, <3>6 DEF StacksAgree, NodeUnique
  <2> QED
    BY <2>1, <2>2, <2>3, CallIsTyped DEF WalkInv
<1>14. row' \in 0 .. Len(ask'.src) /\ row' # 0
  BY <1>1, <1>4 DEF WalkInv, WalkTypeOK
<1>15. WalkKept
  BY <1>1, <1>2, <1>4, <1>7, <1>13, <1>14 DEF WalkKept
<1> QED
  BY <1>1, <1>3, <1>15, KeptInv

(* One back: every stack loses its last, the marks the one that hop made. *)
LEMMA BacktrackInv == WalkInv /\ Backtrack => WalkInv'
<1> SUFFICES ASSUME WalkInv, Backtrack PROVE WalkInv'
  OBVIOUS
<1>1. /\ stack # <<>> /\ ask' = ask /\ row' = row /\ rows' = rows
      /\ steps' = steps /\ blown' = blown
      /\ stack' = Front(stack) /\ nodeStack' = Front(nodeStack)
      /\ edgeStack' = IF edgeStack = <<>> THEN <<>> ELSE Front(edgeStack)
      /\ used' = IF used = <<>> THEN <<>> ELSE Front(used)
  BY DEF Backtrack
<1>2. /\ stack \in Seq(Frame) /\ nodeStack \in Seq(Sites) /\ edgeStack \in Seq(Traversed)
      /\ used \in Seq(Ties \cup Sites)
      /\ Len(stack) \in Nat /\ Len(stack) > 0
      /\ Len(nodeStack) = Len(stack) /\ Len(stack) = Len(edgeStack) + 1
      /\ Len(used) \in Nat /\ Len(edgeStack) \in Nat
      /\ DOMAIN stack = 1 .. Len(stack) /\ DOMAIN used = 1 .. Len(used)
  BY <1>1, EmptySeq, LenProperties DEF WalkInv, WalkTypeOK, StacksAgree
<1>3. nodeStack # <<>>
  BY <1>2, EmptySeq
<1> DEFINE depth == Len(stack)
           hops == Len(edgeStack)
<1>a. depth \in Nat /\ hops \in Nat /\ depth = hops + 1 /\ depth > 0
  BY <1>2
<1>4. /\ stack' \in Seq(Frame) /\ DOMAIN stack' = 1 .. Len(stack')
      /\ Len(stack') = Len(stack) - 1
      /\ stack' = <<>> <=> Len(stack') = 0
      /\ \A i \in 1 .. Len(stack') : i \in 1 .. Len(stack) /\ stack'[i] = stack[i]
  <2>1. stack' = IF stack = <<>> THEN <<>> ELSE Front(stack)
    BY <1>1
  <2> QED
    BY <1>2, <2>1, OneLess
<1>5. /\ nodeStack' \in Seq(Sites) /\ Len(nodeStack') = Len(nodeStack) - 1
      /\ \A i \in 1 .. Len(nodeStack') :
           i \in 1 .. Len(nodeStack) /\ nodeStack'[i] = nodeStack[i]
  <2>1. nodeStack' = IF nodeStack = <<>> THEN <<>> ELSE Front(nodeStack)
    BY <1>1, <1>3
  <2> QED
    BY <1>2, <2>1, OneLess
<1>6. /\ edgeStack' \in Seq(Traversed)
      /\ Len(edgeStack') = IF Len(edgeStack) = 0 THEN 0 ELSE Len(edgeStack) - 1
      /\ edgeStack = <<>> <=> Len(edgeStack) = 0
      /\ edgeStack' = <<>> <=> Len(edgeStack') = 0
      /\ \A i \in 1 .. Len(edgeStack') :
           i \in 1 .. Len(edgeStack) /\ edgeStack'[i] = edgeStack[i]
  <2>1. edgeStack' = IF edgeStack = <<>> THEN <<>> ELSE Front(edgeStack)
    BY <1>1
  <2> QED
    BY <1>2, <2>1, OneLess
<1>7. /\ used' \in Seq(Ties \cup Sites) /\ DOMAIN used' = 1 .. Len(used')
      /\ Len(used') = IF Len(used) = 0 THEN 0 ELSE Len(used) - 1
      /\ \A i \in 1 .. Len(used') : i \in 1 .. Len(used) /\ used'[i] = used[i]
  <2>1. used' = IF used = <<>> THEN <<>> ELSE Front(used)
    BY <1>1
  <2>2. used \in Seq(Ties \cup Sites)
    BY <1>2
  <2> DEFINE S == Ties \cup Sites
  <2> HIDE DEF S
  <2>3. /\ used' \in Seq(S) /\ DOMAIN used' = 1 .. Len(used')
        /\ Len(used') = IF Len(used) = 0 THEN 0 ELSE Len(used) - 1
        /\ \A i \in 1 .. Len(used') : i \in 1 .. Len(used) /\ used'[i] = used[i]
    BY <2>1, <2>2, OneLess DEF S
  <2> QED
    BY <2>3 DEF S
<1>8. /\ Len(nodeStack') = Len(stack')
      /\ IF stack' = <<>> THEN edgeStack' = <<>> ELSE Len(stack') = Len(edgeStack') + 1
  <2>1. Len(nodeStack') = Len(stack')
    BY <1>2, <1>4, <1>5
  <2>2. /\ Len(stack') = depth - 1
        /\ Len(edgeStack') = IF hops = 0 THEN 0 ELSE hops - 1
        /\ stack' = <<>> <=> Len(stack') = 0
        /\ edgeStack' = <<>> <=> Len(edgeStack') = 0
    BY <1>4, <1>6
  <2> HIDE DEF depth, hops
  <2>3. CASE hops = 0
    <3>1. Len(stack') = 0 /\ Len(edgeStack') = 0
      BY <1>a, <2>2, <2>3
    <3> QED
      BY <2>1, <2>2, <3>1
  <2>4. CASE hops # 0
    <3>1. Len(stack') = Len(edgeStack') + 1 /\ Len(stack') # 0
      BY <1>a, <2>2, <2>4
    <3> QED
      BY <2>1, <2>2, <3>1
  <2> QED
    BY <2>3, <2>4
<1>9. StacksAgree'
  <2>1. \A i \in 1 .. Len(stack) : stack[i].v = nodeStack[i]
    BY <1>2 DEF WalkInv, StacksAgree
  <2>2. \A i \in DOMAIN stack' : stack'[i].v = nodeStack'[i]
    BY <1>4, <1>5, <1>8, <2>1
  <2>3. ask.mode = "walk" => used' = <<>>
    BY <1>1 DEF WalkInv, StacksAgree
  <2>4. ASSUME ask.mode = "trail"
        PROVE  /\ Len(used') = Len(edgeStack')
               /\ \A i \in DOMAIN used' : used'[i] = edgeStack'[i].eid
    <3>1. Len(used) = Len(edgeStack) /\ \A i \in 1 .. Len(used) : used[i] = edgeStack[i].eid
      BY <1>2, <2>4 DEF WalkInv, StacksAgree
    <3>2. Len(used') = Len(edgeStack')
      BY <1>6, <1>7, <3>1
    <3> QED
      BY <1>6, <1>7, <3>1, <3>2
  <2>5. ASSUME ask.mode \in {"simple", "acyclic"}
        PROVE  /\ Len(used') = Len(nodeStack')
               /\ \A i \in DOMAIN used' : used'[i] = nodeStack'[i]
    <3>1. Len(used) = Len(nodeStack) /\ \A i \in 1 .. Len(used) : used[i] = nodeStack[i]
      BY <1>2, <2>5 DEF WalkInv, StacksAgree, NodeUnique
    <3>2. Len(used') = Len(nodeStack')
      BY <1>2, <1>5, <1>7, <3>1
    <3> QED
      BY <1>5, <1>7, <3>1, <3>2
  <2>6. \A i, j \in 1 .. Len(used) : used[i] = used[j] => i = j
    BY <1>2 DEF WalkInv, StacksAgree
  <2>7. \A i, j \in DOMAIN used' : used'[i] = used'[j] => i = j
    <3>1. \A i, j \in 1 .. Len(used') : used'[i] = used'[j] => i = j
      BY <1>7, <2>6, FewerDiffer
    <3> QED
      BY <1>7, <3>1
  <2> QED
    BY <1>1, <1>8, <2>2, <2>3, <2>4, <2>5, <2>7 DEF StacksAgree, NodeUnique
<1>10. ASSUME stack' # <<>>
       PROVE  /\ row' # 0 /\ nodeStack'[1] = ask'.src[row']
              /\ PathIn(ask', nodeStack', edgeStack')
  <2>1. /\ row # 0 /\ nodeStack[1] = ask.src[row] /\ PathIn(ask, nodeStack, edgeStack)
    BY <1>1 DEF WalkInv
  <2>2. edgeStack # <<>>
    <3>1. depth - 1 # 0
      BY <1>4, <1>10
    <3>2. hops # 0
      BY <1>a, <3>1
    <3> QED
      BY <1>6, <3>2
  <2> QED
    BY <1>1, <1>2, <2>1, <2>2, ShorterPath
<1>11. WalkKept
  BY <1>1, <1>4, <1>5, <1>6, <1>7, <1>9, <1>10 DEF WalkKept, WalkInv, WalkTypeOK
<1>12. rows' \in Seq(FoundRow) /\ \A n \in 1 .. Len(rows') : LegalRow(ask', rows'[n])
  BY <1>1, RowsStayLegal
<1> QED
  BY <1>1, <1>11, <1>12, KeptInv

-----------------------------------------------------------------------------

LEMMA WalkNextInv == WalkInv /\ [WalkNext]_walkVars => WalkInv'
<1>1. WalkInv /\ UNCHANGED walkVars => WalkInv'
  <2> SUFFICES ASSUME WalkInv, UNCHANGED walkVars PROVE WalkInv'
    OBVIOUS
  <2>1. /\ ask' = ask /\ row' = row /\ steps' = steps /\ blown' = blown
        /\ nodeStack' = nodeStack /\ edgeStack' = edgeStack /\ used' = used
        /\ stack' = stack /\ rows' = rows
    BY DEF walkVars
  <2>2. StacksAgree'
    BY <2>1 DEF WalkInv, StacksAgree, NodeUnique
  <2>3. WalkKept
    BY <2>1, <2>2 DEF WalkKept, WalkInv, WalkTypeOK
  <2>4. rows' \in Seq(FoundRow) /\ \A n \in 1 .. Len(rows') : LegalRow(ask', rows'[n])
    BY <2>1, RowsStayLegal
  <2> QED
    BY <2>1, <2>3, <2>4, KeptInv
<1> QED
  BY <1>1, StartWalkInv, PassOverInv, CloseCycleInv, GoDeeperInv, TurnBackInv,
     StopShortInv, BacktrackInv
  DEF WalkNext

(* The stacks and the marks agree at every step of every walk. *)
THEOREM WalkInvariant == WalkSpec => []WalkInv
<1> QED
  BY WalkInitInv, WalkNextInv, PTL DEF WalkSpec

(* The operators of the module mean those of this one. *)
LEMMA SamePaths ==
  ASSUME NEW nodes \in Seq(Sites), NEW edges \in Seq(Traversed)
  PROVE  /\ PathIn(ask, nodes, edges) => IsPath(nodes, edges)
         /\ Kept(ask.mode, nodes, edges) => KeepsMode(nodes, edges)
<1>1. DOMAIN edges = 1 .. Len(edges) /\ DOMAIN nodes = 1 .. Len(nodes)
  BY LenProperties
<1>2. \A v : Outs(v) = OutsOf(ask, v) /\ Incs(v) = IncsOf(ask, v)
  BY DEF Outs, Incs, OutsOf, IncsOf
<1>3. ASSUME NEW v, NEW a, IsHop(ask, v, a)
      PROVE  \E j \in 1 .. Degree(v) : AdjNth(v, j) = a /\ Walkable(v, AdjNth(v, j))
  BY <1>2, <1>3 DEF IsHop, EntryOf, MayWalk, Degree, AdjNth, Walkable
<1>4. PathIn(ask, nodes, edges) => IsPath(nodes, edges)
  BY <1>1, <1>3 DEF PathIn, IsPath
<1>5. Kept(ask.mode, nodes, edges) => KeepsMode(nodes, edges)
  BY <1>1 DEF Kept, KeepsMode
<1> QED
  BY <1>4, <1>5

(* Every row is a path of the graph that keeps the mode, whatever the walk *)
(* has taken back before, and however it ended (varlen_walk).              *)
THEOREM RowsAreLegalHolds == WalkSpec => []RowsAreLegal
<1>1. ASSUME WalkInv PROVE RowsAreLegal
  <2>1. rows \in Seq(FoundRow) /\ DOMAIN rows = 1 .. Len(rows) /\ ask.src \in Seq(Sites)
    BY <1>1, CallIsTyped, LenProperties DEF WalkInv, WalkTypeOK
  <2>2. ASSUME NEW n \in 1 .. Len(rows)
        PROVE  /\ rows[n].nodes \in Seq(Sites) /\ rows[n].edges \in Seq(Traversed)
               /\ LegalRow(ask, rows[n])
    <3>1. rows[n] \in FoundRow
      BY <2>1, <2>2, ElementOfSeq
    <3> QED
      BY <1>1, <2>2, <3>1 DEF FoundRow, WalkInv
  <2>3. DOMAIN ask.src = 1 .. Len(ask.src)
    BY <2>1, LenProperties
  <2> QED
    BY <2>1, <2>2, <2>3, SamePaths DEF RowsAreLegal, LegalRow
<1> QED
  BY <1>1, WalkInvariant, PTL

(* The marks are exactly the edges, or the nodes, of the path the walk     *)
(* stands on, each once: nothing is left marked on the way back            *)
(* (varlen_walk's pending, and run_varlen's assertion that used is empty). *)
THEOREM StacksAgreeHolds == WalkSpec => []StacksAgree
<1>1. WalkInv => StacksAgree
  BY DEF WalkInv
<1> QED
  BY <1>1, WalkInvariant, PTL

-----------------------------------------------------------------------------
PathRec == [nodes : Seq(Sites), edges : Seq(Traversed)]
WellFormed(p) == p \in PathRec /\ Len(p.nodes) = Len(p.edges) + 1
HopAt(p, i) == [eid |-> p.edges[i].eid, nbr |-> p.nodes[i + 1], inc |-> p.edges[i].inc]
(* two paths take the same first k hops *)
Along(p, q, k) == \A i \in 1 .. k : HopAt(p, i) = HopAt(q, i)
(* q and one hop more *)
Ext(q, a) == [nodes |-> Append(q.nodes, a.nbr),
              edges |-> Append(q.edges, [eid |-> a.eid, inc |-> a.inc])]

(* What a formed path gives: its two stacks, one node more than edges. *)
LEMMA LensOf ==
  ASSUME NEW p, WellFormed(p)
  PROVE  /\ p.nodes \in Seq(Sites) /\ p.edges \in Seq(Traversed)
         /\ p = [nodes |-> p.nodes, edges |-> p.edges]
         /\ Len(p.edges) \in Nat /\ Len(p.nodes) \in Nat
         /\ Len(p.nodes) = Len(p.edges) + 1
         /\ \A i \in 1 .. Len(p.edges) : p.edges[i] \in Traversed /\ p.nodes[i] \in Sites
         /\ \A i \in 1 .. Len(p.nodes) : p.nodes[i] \in Sites
<1>1. p \in PathRec /\ Len(p.nodes) = Len(p.edges) + 1
  BY DEF WellFormed
<1>2. p.nodes \in Seq(Sites) /\ p.edges \in Seq(Traversed)
      /\ p = [nodes |-> p.nodes, edges |-> p.edges]
  BY <1>1 DEF PathRec
<1>3. Len(p.edges) \in Nat /\ Len(p.nodes) \in Nat
  BY <1>2, LenProperties
<1>4. /\ \A i \in 1 .. Len(p.edges) : p.edges[i] \in Traversed
      /\ \A i \in 1 .. Len(p.nodes) : p.nodes[i] \in Sites
  BY <1>2, ElementOfSeq
<1>5. \A i \in 1 .. Len(p.edges) : p.nodes[i] \in Sites
  BY <1>1, <1>3, <1>4
<1> QED
  BY <1>1, <1>2, <1>3, <1>4, <1>5

(* Two paths of one source, of one length and of the same hops are one. *)
LEMMA SamePath ==
  ASSUME NEW p, WellFormed(p), NEW q, WellFormed(q),
         Len(p.edges) = Len(q.edges), p.nodes[1] = q.nodes[1],
         Along(p, q, Len(p.edges))
  PROVE  p = q
<1>1. /\ p.nodes \in Seq(Sites) /\ p.edges \in Seq(Traversed)
      /\ q.nodes \in Seq(Sites) /\ q.edges \in Seq(Traversed)
      /\ p = [nodes |-> p.nodes, edges |-> p.edges]
      /\ q = [nodes |-> q.nodes, edges |-> q.edges]
      /\ Len(p.edges) \in Nat
      /\ Len(p.nodes) = Len(p.edges) + 1 /\ Len(q.nodes) = Len(p.edges) + 1
  BY LensOf
<1>2. ASSUME NEW i \in 1 .. Len(p.edges)
      PROVE  p.edges[i] = q.edges[i] /\ p.nodes[i + 1] = q.nodes[i + 1]
  <2>1. HopAt(p, i) = HopAt(q, i)
    BY <1>2 DEF Along
  <2>2. /\ p.edges[i].eid = q.edges[i].eid /\ p.edges[i].inc = q.edges[i].inc
        /\ p.nodes[i + 1] = q.nodes[i + 1]
    BY <2>1 DEF HopAt
  <2>3. p.edges[i] \in Traversed /\ q.edges[i] \in Traversed
    BY <1>2, LensOf
  <2> QED
    BY <2>2, <2>3 DEF Traversed
<1>3. p.edges = q.edges
  BY <1>1, <1>2, SeqEqual
<1>4. \A i \in 1 .. Len(p.nodes) : p.nodes[i] = q.nodes[i]
  <2>1. TAKE i \in 1 .. Len(p.nodes)
  <2>2. CASE i = 1
    BY <2>2
  <2>3. CASE i # 1
    <3>1. i - 1 \in 1 .. Len(p.edges) /\ i - 1 + 1 = i
      BY <1>1, <2>1, <2>3
    <3> QED
      BY <1>2, <3>1
  <2> QED
    BY <2>2, <2>3
<1>5. p.nodes = q.nodes
  BY <1>1, <1>4, SeqEqual
<1> QED
  BY <1>1, <1>3, <1>5

(* The first n hops of a path are a path, and agree with it. *)
LEMMA CutOf ==
  ASSUME NEW p, WellFormed(p), NEW n \in 0 .. Len(p.edges)
  PROVE  /\ WellFormed(CutAt(p, n))
         /\ Len(CutAt(p, n).edges) = n
         /\ \A i \in 1 .. n : CutAt(p, n).edges[i] = p.edges[i]
         /\ \A i \in 1 .. n + 1 : CutAt(p, n).nodes[i] = p.nodes[i]
<1> DEFINE c == CutAt(p, n)
<1>1. /\ p.nodes \in Seq(Sites) /\ p.edges \in Seq(Traversed)
      /\ Len(p.edges) \in Nat /\ Len(p.nodes) = Len(p.edges) + 1
      /\ \A i \in 1 .. Len(p.edges) : p.edges[i] \in Traversed
      /\ \A i \in 1 .. Len(p.nodes) : p.nodes[i] \in Sites
  BY LensOf
<1>2. c.nodes = SubSeq(p.nodes, 1, n + 1) /\ c.edges = SubSeq(p.edges, 1, n)
      /\ c = [nodes |-> c.nodes, edges |-> c.edges]
  BY DEF CutAt
<1>3. n \in Nat /\ n + 1 \in Nat
  BY <1>1
<1>4. /\ c.nodes \in Seq(Sites) /\ Len(c.nodes) = n + 1
      /\ \A i \in 1 .. n + 1 : c.nodes[i] = p.nodes[i]
  <2>1. \A i \in 1 .. n + 1 : p.nodes[i] \in Sites
    BY <1>1
  <2> DEFINE m == n + 1
  <2>2. m \in Int /\ 1 <= m /\ \A i \in 1 .. m : p.nodes[i] \in Sites
    BY <1>3, <2>1
  <2> HIDE DEF m
  <2>3. /\ SubSeq(p.nodes, 1, m) \in Seq(Sites)
        /\ Len(SubSeq(p.nodes, 1, m)) = IF 1 <= m THEN m - 1 + 1 ELSE 0
        /\ \A i \in 1 .. m - 1 + 1 : SubSeq(p.nodes, 1, m)[i] = p.nodes[1 + i - 1]
    BY <2>2, SubSeqProperties
  <2>4. m - 1 + 1 = m /\ \A i \in 1 .. m : 1 + i - 1 = i
    BY <2>2
  <2>5. /\ SubSeq(p.nodes, 1, m) \in Seq(Sites) /\ Len(SubSeq(p.nodes, 1, m)) = m
        /\ \A i \in 1 .. m : SubSeq(p.nodes, 1, m)[i] = p.nodes[i]
    BY <2>2, <2>3, <2>4
  <2> QED
    BY <1>2, <2>5 DEF m
<1>5. /\ c.edges \in Seq(Traversed) /\ Len(c.edges) = n
      /\ \A i \in 1 .. n : c.edges[i] = p.edges[i]
  <2>1. n \in Int /\ \A i \in 1 .. n : p.edges[i] \in Traversed
    BY <1>1, <1>3
  <2>3. /\ SubSeq(p.edges, 1, n) \in Seq(Traversed)
        /\ Len(SubSeq(p.edges, 1, n)) = IF 1 <= n THEN n - 1 + 1 ELSE 0
        /\ \A i \in 1 .. n - 1 + 1 : SubSeq(p.edges, 1, n)[i] = p.edges[1 + i - 1]
    BY <2>1, SubSeqProperties
  <2>4. n - 1 + 1 = n /\ \A i \in 1 .. n : 1 + i - 1 = i
    BY <2>1
  <2> QED
    BY <1>2, <1>3, <2>3, <2>4
<1> HIDE DEF c
<1>6. WellFormed(c)
  BY <1>2, <1>4, <1>5 DEF WellFormed, PathRec
<1> QED
  BY <1>4, <1>5, <1>6 DEF c

(* Paths that agree on n hops have the same first n hops. *)
LEMMA SameCut ==
  ASSUME NEW p, WellFormed(p), NEW q, WellFormed(q), p.nodes[1] = q.nodes[1],
         NEW n \in 0 .. Len(p.edges), n <= Len(q.edges), Along(p, q, n)
  PROVE  CutAt(p, n) = CutAt(q, n)
<1>0. Len(p.edges) \in Nat /\ Len(q.edges) \in Nat
  BY LensOf
<1>1. n \in 0 .. Len(q.edges) /\ n \in Nat
  BY <1>0
<1>2. /\ WellFormed(CutAt(p, n)) /\ WellFormed(CutAt(q, n))
      /\ Len(CutAt(p, n).edges) = n /\ Len(CutAt(q, n).edges) = n
      /\ \A i \in 1 .. n : CutAt(p, n).edges[i] = p.edges[i] /\ CutAt(q, n).edges[i] = q.edges[i]
      /\ \A i \in 1 .. n + 1 : CutAt(p, n).nodes[i] = p.nodes[i] /\ CutAt(q, n).nodes[i] = q.nodes[i]
  BY <1>1, CutOf
<1>3. CutAt(p, n).nodes[1] = CutAt(q, n).nodes[1]
  <2>1. 1 \in 1 .. n + 1
    BY <1>1
  <2> QED
    BY <1>2, <2>1
<1>4. Along(CutAt(p, n), CutAt(q, n), n)
  <2> SUFFICES ASSUME NEW i \in 1 .. n PROVE HopAt(CutAt(p, n), i) = HopAt(CutAt(q, n), i)
    BY DEF Along
  <2>1. i + 1 \in 1 .. n + 1
    BY <1>1
  <2>2. HopAt(p, i) = HopAt(q, i)
    BY DEF Along
  <2> QED
    BY <1>2, <2>1, <2>2 DEF HopAt
<1> QED
  BY <1>2, <1>3, <1>4, SamePath

(* All the hops of a path are the path. *)
LEMMA WholeCut ==
  ASSUME NEW p, WellFormed(p)
  PROVE  CutAt(p, Len(p.edges)) = p
<1> DEFINE n == Len(p.edges)
           c == CutAt(p, n)
<1>0. n \in Nat /\ n \in 0 .. Len(p.edges) /\ 1 \in 1 .. n + 1
  BY LensOf
<1>1. /\ WellFormed(c) /\ Len(c.edges) = n
      /\ \A i \in 1 .. n : c.edges[i] = p.edges[i]
      /\ \A i \in 1 .. n + 1 : c.nodes[i] = p.nodes[i]
  BY <1>0, CutOf
<1>2. \A i \in 1 .. n : i + 1 \in 1 .. n + 1
  BY <1>0
<1> HIDE DEF n, c
<1>3. c.nodes[1] = p.nodes[1] /\ Along(c, p, n)
  BY <1>0, <1>1, <1>2 DEF Along, HopAt
<1>4. Len(p.edges) = n
  BY DEF n
<1>5. c = p
  BY <1>1, <1>3, <1>4, SamePath
<1> QED
  BY <1>5 DEF c, n

(* A path with one hop more: where it agrees with the old one, and what    *)
(* its last hop is.                                                        *)
LEMMA ExtOf ==
  ASSUME NEW q, WellFormed(q), NEW a, a \in [eid : Ties, nbr : Sites, inc : BOOLEAN]
  PROVE  /\ WellFormed(Ext(q, a))
         /\ Len(Ext(q, a).edges) = Len(q.edges) + 1
         /\ HopAt(Ext(q, a), Len(q.edges) + 1) = a
         /\ Along(Ext(q, a), q, Len(q.edges))
         /\ \A i \in 1 .. Len(q.nodes) : Ext(q, a).nodes[i] = q.nodes[i]
         /\ Ext(q, a).nodes[1] = q.nodes[1]
         /\ Ext(q, a).nodes[Len(q.nodes) + 1] = a.nbr
         /\ \A n \in 0 .. Len(q.edges) : CutAt(Ext(q, a), n) = CutAt(q, n)
<1> DEFINE x == Ext(q, a)
           e == [eid |-> a.eid, inc |-> a.inc]
<1>1. /\ q.nodes \in Seq(Sites) /\ q.edges \in Seq(Traversed)
      /\ Len(q.edges) \in Nat /\ Len(q.nodes) \in Nat /\ Len(q.nodes) = Len(q.edges) + 1
  BY LensOf
<1>2. a.nbr \in Sites /\ e \in Traversed /\ a = [eid |-> e.eid, nbr |-> a.nbr, inc |-> e.inc]
  BY DEF Traversed
<1>3. x.nodes = Append(q.nodes, a.nbr) /\ x.edges = Append(q.edges, e)
      /\ x = [nodes |-> x.nodes, edges |-> x.edges]
  BY DEF Ext
<1> HIDE DEF x, e
<1>4. /\ x.nodes \in Seq(Sites) /\ Len(x.nodes) = Len(q.nodes) + 1
      /\ \A i \in 1 .. Len(q.nodes) : x.nodes[i] = q.nodes[i]
      /\ x.nodes[Len(q.nodes) + 1] = a.nbr
  BY <1>1, <1>2, <1>3, AppendProperties
<1>5. /\ x.edges \in Seq(Traversed) /\ Len(x.edges) = Len(q.edges) + 1
      /\ \A i \in 1 .. Len(q.edges) : x.edges[i] = q.edges[i]
      /\ x.edges[Len(q.edges) + 1] = e
  BY <1>1, <1>2, <1>3, AppendProperties
<1>6. WellFormed(x)
  BY <1>1, <1>3, <1>4, <1>5 DEF WellFormed, PathRec
<1>7. HopAt(x, Len(q.edges) + 1) = a
  BY <1>1, <1>2, <1>4, <1>5 DEF HopAt
<1>8. Along(x, q, Len(q.edges))
  <2> SUFFICES ASSUME NEW i \in 1 .. Len(q.edges) PROVE HopAt(x, i) = HopAt(q, i)
    BY DEF Along
  <2>1. i + 1 \in 1 .. Len(q.nodes)
    BY <1>1
  <2> QED
    BY <1>4, <1>5, <2>1 DEF HopAt
<1>9. x.nodes[1] = q.nodes[1]
  BY <1>1, <1>4
<1>10. ASSUME NEW n \in 0 .. Len(q.edges)
       PROVE  CutAt(x, n) = CutAt(q, n)
  <2>1. n \in 0 .. Len(x.edges) /\ n <= Len(q.edges) /\ \A i \in 1 .. n : i \in 1 .. Len(q.edges)
    BY <1>1, <1>5
  <2>2. Along(x, q, n)
    BY <1>8, <2>1 DEF Along
  <2> QED
    BY <1>6, <1>9, <2>1, <2>2, SameCut
<1> QED
  BY <1>4, <1>5, <1>6, <1>7, <1>8, <1>9, <1>10 DEF x

-----------------------------------------------------------------------------
(* The order of the walk. *)

DegreeIn(call, v) == Len(OutsOf(call, v)) + Len(IncsOf(call, v))

Behind(call, st, q, p) ==
  \/ st = <<>>
  \/ Len(p.edges) < Len(st) /\ Along(p, q, Len(p.edges))
  \/ \E i \in 1 .. Len(st) :
       /\ i <= Len(p.edges) /\ Along(p, q, i - 1)
       /\ \E j \in 1 .. st[i].cursor - 1 : EntryOf(call, p.nodes[i], j) = HopAt(p, i)
       /\ i < Len(st) => HopAt(p, i) # HopAt(q, i)

(* An entry of the lists of a node is found at one place only. *)
LEMMA EntryOnce ==
  ASSUME NEW call, NEW v \in Sites,
         NEW i \in 1 .. DegreeIn(call, v), NEW j \in 1 .. DegreeIn(call, v),
         EntryOf(call, v, i) = EntryOf(call, v, j)
  PROVE  i = j
<1> DEFINE outs == OutsOf(call, v)
           incs == IncsOf(call, v)
           Entry == [eid : Ties, nbr : Sites]
<1>1. /\ OutAdj[v] \in Seq(Entry) /\ InAdj[v] \in Seq(Entry)
      /\ outs \in Seq(Entry) /\ incs \in Seq(Entry)
  BY EmptySeq, AdjacencyAssumption DEF OutsOf, IncsOf
<1>2. /\ \A m, n \in 1 .. Len(OutAdj[v]) : OutAdj[v][m].eid = OutAdj[v][n].eid => m = n
      /\ \A m, n \in 1 .. Len(InAdj[v]) : InAdj[v][m].eid = InAdj[v][n].eid => m = n
  <2>1. DOMAIN OutAdj[v] = 1 .. Len(OutAdj[v]) /\ DOMAIN InAdj[v] = 1 .. Len(InAdj[v])
    BY <1>1, LenProperties
  <2>2. \A adj \in {OutAdj, InAdj} :
           \A m, n \in DOMAIN adj[v] : adj[v][m].eid = adj[v][n].eid => m = n
    BY Zenon, ListedOnceAssumption
  <2> QED
    BY <2>1, <2>2
<1>3. Len(<<>>) = 0
  OBVIOUS
<1>4. /\ \A m, n \in 1 .. Len(outs) : outs[m].eid = outs[n].eid => m = n
      /\ \A m, n \in 1 .. Len(incs) : incs[m].eid = incs[n].eid => m = n
  BY <1>2, <1>3 DEF OutsOf, IncsOf
<1>5. Len(outs) \in Nat /\ Len(incs) \in Nat
  BY <1>1, LenProperties
<1>6. i \in 1 .. Len(outs) + Len(incs) /\ j \in 1 .. Len(outs) + Len(incs)
  BY DEF DegreeIn
<1>7. /\ EntryOf(call, v, i).inc = (IF i <= Len(outs) THEN FALSE ELSE TRUE)
      /\ EntryOf(call, v, j).inc = (IF j <= Len(outs) THEN FALSE ELSE TRUE)
      /\ EntryOf(call, v, i).eid = (IF i <= Len(outs) THEN outs[i].eid ELSE incs[i - Len(outs)].eid)
      /\ EntryOf(call, v, j).eid = (IF j <= Len(outs) THEN outs[j].eid ELSE incs[j - Len(outs)].eid)
  BY DEF EntryOf
<1> HIDE DEF outs, incs
<1>8. CASE i <= Len(outs)
  <2>1. j <= Len(outs)
    BY <1>7, <1>8
  <2> QED
    BY <1>4, <1>5, <1>6, <1>7, <1>8, <2>1
<1>9. CASE ~(i <= Len(outs))
  <2>1. ~(j <= Len(outs))
    BY <1>7, <1>9
  <2>2. /\ i - Len(outs) \in 1 .. Len(incs) /\ j - Len(outs) \in 1 .. Len(incs)
        /\ incs[i - Len(outs)].eid = incs[j - Len(outs)].eid
    BY <1>5, <1>6, <1>7, <1>9, <2>1
  <2>3. i - Len(outs) = j - Len(outs)
    BY <1>4, <2>2
  <2> QED
    BY <1>5, <1>6, <2>3
<1> QED
  BY <1>8, <1>9

(* Paths that agree stand on the same nodes. *)
LEMMA SameNodes ==
  ASSUME NEW p, NEW q, p.nodes[1] = q.nodes[1], NEW k \in Nat, Along(p, q, k),
         NEW i \in 1 .. k + 1
  PROVE  p.nodes[i] = q.nodes[i]
<1>1. CASE i = 1
  BY <1>1
<1>2. CASE i # 1
  <2>1. i - 1 \in 1 .. k /\ i - 1 + 1 = i
    BY <1>2
  <2>2. HopAt(p, i - 1) = HopAt(q, i - 1)
    BY <2>1 DEF Along
  <2>3. p.nodes[i - 1 + 1] = q.nodes[i - 1 + 1]
    BY <2>2 DEF HopAt
  <2> QED
    BY <2>1, <2>3
<1> QED
  BY <1>1, <1>2

(* The cursor of the frame on top moves past one entry. *)
LEMMA BehindOnward ==
  ASSUME NEW call, NEW st \in Seq(Frame), NEW st2 \in Seq(Frame), st # <<>>,
         Len(st2) = Len(st), \A i \in 1 .. Len(st) - 1 : st2[i] = st[i],
         st2[Len(st)].cursor = st[Len(st)].cursor + 1,
         NEW p, NEW q
  PROVE  Behind(call, st2, q, p) <=>
           \/ Behind(call, st, q, p)
           \/ /\ Len(st) <= Len(p.edges) /\ Along(p, q, Len(st) - 1)
              /\ EntryOf(call, p.nodes[Len(st)], st[Len(st)].cursor) = HopAt(p, Len(st))
<1> DEFINE n == Len(st)
           c == st[n].cursor
           On(s, i) == /\ i <= Len(p.edges) /\ Along(p, q, i - 1)
                       /\ \E j \in 1 .. s[i].cursor - 1 : EntryOf(call, p.nodes[i], j) = HopAt(p, i)
                       /\ i < n => HopAt(p, i) # HopAt(q, i)
           New == /\ n <= Len(p.edges) /\ Along(p, q, n - 1)
                  /\ EntryOf(call, p.nodes[n], c) = HopAt(p, n)
<1>1. n \in Nat /\ n > 0 /\ n \in 1 .. n /\ st2 # <<>>
  BY EmptySeq, LenProperties
<1>2. c \in Nat \ {0}
  <2>1. st[n] \in Frame
    BY <1>1, ElementOfSeq
  <2> QED
    BY <2>1 DEF Frame
<1>3. \A i \in 1 .. n : i # n => (On(st2, i) <=> On(st, i))
  <2>1. \A i \in 1 .. n : i # n => i \in 1 .. n - 1
    BY <1>1
  <2> QED
    BY <2>1
<1>4. On(st2, n) <=> On(st, n) \/ New
  <2>1. \A j \in Int : j \in 1 .. st2[n].cursor - 1 <=> j \in 1 .. c - 1 \/ j = c
    BY <1>2
  <2>2. c \in Int /\ \A j \in 1 .. st2[n].cursor - 1 : j \in Int
    BY <1>2
  <2>3. ~(n < n)
    BY <1>1
  <2> HIDE DEF n, c
  <2>4. (\E j \in 1 .. st2[n].cursor - 1 : EntryOf(call, p.nodes[n], j) = HopAt(p, n)) <=>
           \/ \E j \in 1 .. c - 1 : EntryOf(call, p.nodes[n], j) = HopAt(p, n)
           \/ EntryOf(call, p.nodes[n], c) = HopAt(p, n)
    <3> DEFINE d == st2[n].cursor - 1
               b == c - 1
               Is(j) == EntryOf(call, p.nodes[n], j) = HopAt(p, n)
    <3>1. \A j \in 1 .. d : j \in 1 .. b \/ j = c
      BY <2>1, <2>2
    <3>2. c \in 1 .. d /\ \A j \in 1 .. b : j \in 1 .. d
      BY <2>1, <2>2
    <3>3. (\E j \in 1 .. d : Is(j)) <=> (\E j \in 1 .. b : Is(j)) \/ Is(c)
      <4> HIDE DEF d, b, Is
      <4> QED
        BY <3>1, <3>2, Zenon
    <3> QED
      BY <3>3
  <2>5. st[n].cursor = c
    BY DEF c
  <2> QED
    BY <2>3, <2>4, <2>5, Zenon
<1>5. Behind(call, st, q, p) <=> \/ Len(p.edges) < n /\ Along(p, q, Len(p.edges))
                                \/ \E i \in 1 .. n : On(st, i)
  BY Zenon DEF Behind
<1>6. Behind(call, st2, q, p) <=> \/ Len(p.edges) < n /\ Along(p, q, Len(p.edges))
                                 \/ \E i \in 1 .. n : On(st2, i)
  <2>1. Len(st2) = n
    OBVIOUS
  <2> HIDE DEF n
  <2> QED
    BY <1>1, <2>1, Zenon DEF Behind
<1> HIDE DEF On, New, n, c
<1>7. (\E i \in 1 .. n : On(st2, i)) <=> (\E i \in 1 .. n : On(st, i)) \/ New
  BY <1>1, <1>3, <1>4, Zenon
<1>8. Behind(call, st2, q, p) <=> Behind(call, st, q, p) \/ New
  BY <1>5, <1>6, <1>7, Zenon
<1> QED
  BY <1>8, Zenon DEF New, n, c

(* The cursor of the top goes over an entry and the walk goes down it.     *)
Deeper(call, st, st2, q, q2) ==
    /\ st \in Seq(Frame) /\ st2 \in Seq(Frame) /\ st # <<>>
    /\ Len(st2) = Len(st) + 1 /\ \A i \in 1 .. Len(st) - 1 : st2[i] = st[i]
    /\ st2[Len(st)].cursor = st[Len(st)].cursor + 1 /\ st2[Len(st) + 1].cursor = 1
    /\ WellFormed(q) /\ WellFormed(q2) /\ q2.nodes[1] = q.nodes[1]
    /\ Len(st) = Len(q.edges) + 1 /\ Len(q2.edges) = Len(st) /\ Along(q2, q, Len(q.edges))
    /\ st[Len(st)].cursor <= DegreeIn(call, q.nodes[Len(st)])
    /\ HopAt(q2, Len(st)) = EntryOf(call, q.nodes[Len(st)], st[Len(st)].cursor)

(* What lies behind the walk then, and did not before, is the path it      *)
(* stands on.                                                              *)
LEMMA BehindDeeper ==
  ASSUME NEW call, NEW st, NEW st2, NEW p, NEW q, NEW q2, Deeper(call, st, st2, q, q2),
         WellFormed(p), p.nodes[1] = q.nodes[1]
  PROVE  Behind(call, st2, q2, p) <=> Behind(call, st, q, p) \/ p = q2
<1> DEFINE n == Len(st)
           c == st[n].cursor
           At(s, i) == \E j \in 1 .. s[i].cursor - 1 : EntryOf(call, p.nodes[i], j) = HopAt(p, i)
           Old(i) == /\ i <= Len(p.edges) /\ Along(p, q, i - 1) /\ At(st, i)
                     /\ i < n => HopAt(p, i) # HopAt(q, i)
           New(i) == /\ i <= Len(p.edges) /\ Along(p, q2, i - 1) /\ At(st2, i)
                     /\ i < n + 1 => HopAt(p, i) # HopAt(q2, i)
           OldPrefix == Len(p.edges) < n /\ Along(p, q, Len(p.edges))
           NewPrefix == Len(p.edges) < n + 1 /\ Along(p, q2, Len(p.edges))
<1> USE DEF Deeper
<1>1. n \in Nat /\ n > 0 /\ n \in 1 .. n /\ st2 # <<>> /\ Len(q.edges) = n - 1
      /\ Len(p.edges) \in Nat
  BY EmptySeq, LenProperties, LensOf
<1>2. c \in Nat \ {0}
  <2>1. st[n] \in Frame
    BY <1>1, ElementOfSeq
  <2> QED
    BY <2>1 DEF Frame
<1>3. \A k \in 0 .. n - 1 : Along(p, q2, k) <=> Along(p, q, k)
  <2>1. \A i \in 1 .. n - 1 : HopAt(q2, i) = HopAt(q, i)
    BY <1>1 DEF Along
  <2>2. \A k \in 0 .. n - 1 : \A i \in 1 .. k : i \in 1 .. n - 1
    BY <1>1
  <2> QED
    BY <2>1, <2>2 DEF Along
<1>4. Behind(call, st, q, p) <=> OldPrefix \/ \E i \in 1 .. n : Old(i)
  BY Zenon DEF Behind
<1>5. Behind(call, st2, q2, p) <=> NewPrefix \/ \E i \in 1 .. n + 1 : New(i)
  <2>1. Len(st2) = n + 1
    OBVIOUS
  <2> HIDE DEF n
  <2> QED
    BY <1>1, <2>1, Zenon DEF Behind
<1>6. NewPrefix <=> OldPrefix \/ p = q2
  <2>1. ASSUME Len(p.edges) < n
        PROVE  Along(p, q2, Len(p.edges)) <=> Along(p, q, Len(p.edges))
    <3>1. Len(p.edges) \in 0 .. n - 1
      BY <1>1, <2>1
    <3> QED
      BY <1>3, <3>1
  <2>2. ASSUME Len(p.edges) = n, Along(p, q2, n)
        PROVE  p = q2
    BY <2>2, SamePath
  <2>3. ASSUME p = q2
        PROVE  NewPrefix
    <3>1. Len(p.edges) < n + 1
      BY <1>1, <2>3
    <3>2. Along(p, q2, Len(p.edges))
      BY <2>3 DEF Along
    <3> QED
      BY <3>1, <3>2
  <2>4. Len(p.edges) < n + 1 <=> Len(p.edges) < n \/ Len(p.edges) = n
    BY <1>1
  <2> HIDE DEF n
  <2> QED
    BY <2>1, <2>2, <2>3, <2>4
<1>7. \A i \in 1 .. n - 1 : New(i) <=> Old(i)
  <2> SUFFICES ASSUME NEW i \in 1 .. n - 1 PROVE New(i) <=> Old(i)
    OBVIOUS
  <2>1. i - 1 \in 0 .. n - 1 /\ i < n /\ i < n + 1 /\ i \in 1 .. Len(q.edges)
    BY <1>1
  <2>2. Along(p, q2, i - 1) <=> Along(p, q, i - 1)
    BY <1>3, <2>1
  <2>3. HopAt(q2, i) = HopAt(q, i)
    BY <2>1 DEF Along
  <2>4. At(st2, i) <=> At(st, i)
    OBVIOUS
  <2> HIDE DEF At, n
  <2> QED
    BY <2>1, <2>2, <2>3, <2>4
<1>8. New(n) <=> Old(n)
  <2>1. n - 1 \in 0 .. n - 1 /\ ~(n < n) /\ n < n + 1
    BY <1>1
  <2>2. Along(p, q2, n - 1) <=> Along(p, q, n - 1)
    BY <1>3, <2>1
  <2>3. ASSUME Along(p, q, n - 1), n <= Len(p.edges)
        PROVE  At(st2, n) /\ HopAt(p, n) # HopAt(q2, n) <=> At(st, n)
    <3>1. p.nodes[n] = q.nodes[n]
      <4> DEFINE k == n - 1
      <4>1. k \in Nat /\ n \in 1 .. k + 1 /\ Along(p, q, k)
        BY <1>1, <2>3
      <4> HIDE DEF k, n, Deeper
      <4> QED
        BY <4>1, SameNodes
    <3>2. HopAt(q2, n) = EntryOf(call, p.nodes[n], c)
      BY <3>1
    <3>3. p.nodes[n] \in Sites
      BY <1>1, <2>3, LensOf
    <3>4. DegreeIn(call, p.nodes[n]) \in Nat /\ c \in 1 .. DegreeIn(call, p.nodes[n])
      <4>1. /\ OutAdj[p.nodes[n]] \in Seq([eid : Ties, nbr : Sites])
            /\ InAdj[p.nodes[n]] \in Seq([eid : Ties, nbr : Sites])
        BY <3>3, AdjacencyAssumption
      <4>2. /\ Len(OutsOf(call, p.nodes[n])) \in Nat
            /\ Len(IncsOf(call, p.nodes[n])) \in Nat
        BY <4>1, LenProperties, EmptySeq DEF OutsOf, IncsOf
      <4>3. c <= DegreeIn(call, p.nodes[n])
        BY <3>1
      <4>4. DegreeIn(call, p.nodes[n]) \in Nat
        BY <4>2 DEF DegreeIn
      <4> HIDE DEF n, c
      <4> QED
        BY <1>2, <4>3, <4>4
    <3>5. \A j \in 1 .. c - 1 : EntryOf(call, p.nodes[n], j) # HopAt(q2, n)
      <4> SUFFICES ASSUME NEW j \in 1 .. c - 1, EntryOf(call, p.nodes[n], j) = HopAt(q2, n)
                   PROVE  FALSE
        OBVIOUS
      <4>1. j \in 1 .. DegreeIn(call, p.nodes[n]) /\ j # c
        BY <1>2, <3>4
      <4> QED
        BY <3>2, <3>3, <3>4, <4>1, EntryOnce
    <3>6. \A j \in 1 .. st2[n].cursor - 1 : j \in 1 .. c - 1 \/ j = c
      BY <1>2
    <3>7. \A j \in 1 .. c - 1 : j \in 1 .. st2[n].cursor - 1
      BY <1>2
    <3>8. st[n].cursor = c
      OBVIOUS
    <3> HIDE DEF n, c
    <3> QED
      BY <3>2, <3>5, <3>6, <3>7, <3>8, Zenon
  <2> HIDE DEF At, n
  <2> QED
    BY <2>1, <2>2, <2>3
<1>9. ~New(n + 1)
  <2>1. ~ \E j \in 1 .. st2[n + 1].cursor - 1 : TRUE
    OBVIOUS
  <2> QED
    BY <2>1
<1>10. \A i \in 1 .. n + 1 : i \in 1 .. n - 1 \/ i = n \/ i = n + 1
  BY <1>1
<1>11. \A i \in 1 .. n : i \in 1 .. n + 1 /\ (i \in 1 .. n - 1 \/ i = n)
  BY <1>1
<1> HIDE DEF Old, New, OldPrefix, NewPrefix, n
<1>12. (\E i \in 1 .. n + 1 : New(i)) <=> (\E i \in 1 .. n : Old(i))
  <2>1. \A i \in 1 .. n - 1 : i \in 1 .. n
    BY <1>1
  <2> QED
    BY <1>1, <1>7, <1>8, <1>9, <1>10, <1>11, <2>1, Zenon
<1> QED
  BY <1>4, <1>5, <1>6, <1>12

(* The frame on top is done: all the paths that go through its node are    *)
(* behind the walk.                                                        *)
LEMMA BehindBack ==
  ASSUME NEW call, NEW st \in Seq(Frame), NEW st2 \in Seq(Frame), st # <<>>,
         Len(st2) = Len(st) - 1, \A i \in 1 .. Len(st) - 1 : st2[i] = st[i],
         NEW p, NEW q, NEW q2, WellFormed(p), WellFormed(q),
         p.nodes[1] = q.nodes[1], Len(st) = Len(q.edges) + 1,
         st2 # <<>> => Along(q2, q, Len(st) - 2),
         PathIn(call, p.nodes, p.edges),
         st[Len(st)].cursor > DegreeIn(call, q.nodes[Len(st)]),
         \A i \in 1 .. Len(st) - 1 :
            /\ st[i].cursor > 1
            /\ EntryOf(call, q.nodes[i], st[i].cursor - 1) = HopAt(q, i)
  PROVE  Behind(call, st2, q2, p) <=> Behind(call, st, q, p)
<1> DEFINE n == Len(st)
           At(i) == \E j \in 1 .. st[i].cursor - 1 : EntryOf(call, p.nodes[i], j) = HopAt(p, i)
           Old(i) == /\ i <= Len(p.edges) /\ Along(p, q, i - 1) /\ At(i)
                     /\ i < n => HopAt(p, i) # HopAt(q, i)
           OldPrefix == Len(p.edges) < n /\ Along(p, q, Len(p.edges))
<1>1. n \in Nat /\ n > 0 /\ n \in 1 .. n /\ Len(q.edges) = n - 1 /\ Len(p.edges) \in Nat
      /\ (st2 = <<>> <=> n = 1)
  BY EmptySeq, LenProperties, LensOf
<1>2. Behind(call, st, q, p) <=> OldPrefix \/ \E i \in 1 .. n : Old(i)
  BY Zenon DEF Behind
(* What agrees up to the top and goes on has its next hop in the lists. *)
<1>3. ASSUME Along(p, q, n - 1), n <= Len(p.edges)
      PROVE  At(n)
  <2>1. p.nodes[n] = q.nodes[n]
    <3> DEFINE k == n - 1
    <3>1. k \in Nat /\ n \in 1 .. k + 1 /\ Along(p, q, k)
      BY <1>1, <1>3
    <3> HIDE DEF k, n
    <3> QED
      BY <3>1, SameNodes
  <2>2. n \in 1 .. Len(p.edges)
    BY <1>1, <1>3
  <2>3. IsHop(call, p.nodes[n], HopAt(p, n))
    BY <2>2 DEF PathIn, HopAt
  <2>4. PICK j \in 1 .. DegreeIn(call, p.nodes[n]) : EntryOf(call, p.nodes[n], j) = HopAt(p, n)
    BY <2>3 DEF IsHop, DegreeIn
  <2>5. st[n].cursor \in Nat /\ DegreeIn(call, q.nodes[n]) \in Int
    <3>1. st[n] \in Frame
      BY <1>1, ElementOfSeq
    <3>2. p.nodes[n] \in Sites
      BY <2>2, LensOf
    <3>3. /\ OutAdj[p.nodes[n]] \in Seq([eid : Ties, nbr : Sites])
          /\ InAdj[p.nodes[n]] \in Seq([eid : Ties, nbr : Sites])
      BY <3>2, AdjacencyAssumption
    <3>4. /\ Len(OutsOf(call, p.nodes[n])) \in Nat
          /\ Len(IncsOf(call, p.nodes[n])) \in Nat
      BY <3>3, LenProperties, EmptySeq DEF OutsOf, IncsOf
    <3> QED
      BY <2>1, <3>1, <3>4 DEF Frame, DegreeIn
  <2>6. st[n].cursor > DegreeIn(call, p.nodes[n])
    BY <2>1
  <2>7. j \in 1 .. st[n].cursor - 1
    BY <2>1, <2>4, <2>5, <2>6
  <2> QED
    BY <2>4, <2>7
<1>4. CASE n = 1
  <2>1. Behind(call, st2, q2, p)
    BY <1>1, <1>4 DEF Behind
  <2>2. Along(p, q, 0) /\ Along(p, q, n - 1)
    BY <1>4 DEF Along
  <2>3. CASE Len(p.edges) = 0
    <3>1. Len(p.edges) < n
      BY <1>1, <2>3
    <3>2. OldPrefix
      BY <2>2, <2>3, <3>1
    <3> QED
      BY <1>2, <2>1, <3>2
  <2>4. CASE Len(p.edges) # 0
    <3>1. n <= Len(p.edges)
      BY <1>1, <1>4, <2>4
    <3>2. Old(n)
      BY <1>1, <1>3, <2>2, <3>1
    <3> QED
      BY <1>1, <1>2, <2>1, <3>2
  <2> QED
    BY <2>1, <2>3, <2>4
<1>5. CASE n # 1
  <2> DEFINE m == n - 1
             Now(i) == /\ i <= Len(p.edges) /\ Along(p, q2, i - 1) /\ At(i)
                       /\ i < m => HopAt(p, i) # HopAt(q2, i)
             NowPrefix == Len(p.edges) < m /\ Along(p, q2, Len(p.edges))
  <2>1. m \in Nat /\ m > 0 /\ m \in 1 .. m /\ m \in 1 .. n /\ m < n /\ st2 # <<>> /\ n = m + 1
    BY <1>1, <1>5
  <2>2. Behind(call, st2, q2, p) <=> NowPrefix \/ \E i \in 1 .. m : Now(i)
    <3>1. \A i \in 1 .. m : st2[i] = st[i]
      OBVIOUS
    <3>2. Len(st2) = m
      OBVIOUS
    <3> HIDE DEF m, n
    <3>3. Behind(call, st2, q2, p) <=> \/ NowPrefix
             \/ \E i \in 1 .. m : 
                  /\ i <= Len(p.edges) /\ Along(p, q2, i - 1)
                  /\ \E j \in 1 .. st2[i].cursor - 1 : EntryOf(call, p.nodes[i], j) = HopAt(p, i)
                  /\ i < m => HopAt(p, i) # HopAt(q2, i)
      BY <2>1, <3>2, Zenon DEF Behind
    <3> QED
      BY <3>1, <3>3, Zenon
  <2>3. \A k \in 0 .. m - 1 : Along(p, q2, k) <=> Along(p, q, k)
    <3>1. \A i \in 1 .. m - 1 : HopAt(q2, i) = HopAt(q, i)
      BY <1>1, <2>1 DEF Along
    <3>2. \A k \in 0 .. m - 1 : \A i \in 1 .. k : i \in 1 .. m - 1
      BY <2>1
    <3> QED
      BY <3>1, <3>2 DEF Along
  (* below the top nothing changes *)
  <2>4. \A i \in 1 .. m - 1 : Now(i) <=> Old(i)
    <3> SUFFICES ASSUME NEW i \in 1 .. m - 1 PROVE Now(i) <=> Old(i)
      OBVIOUS
    <3>1. i - 1 \in 0 .. m - 1 /\ i < m /\ i < n /\ i \in 1 .. Len(st) - 2
      BY <1>1, <2>1
    <3>2. HopAt(q2, i) = HopAt(q, i)
      BY <2>1, <3>1 DEF Along
    <3> HIDE DEF At, n, m
    <3> QED
      BY <2>3, <3>1, <3>2
  <2>5. Now(m) <=> m <= Len(p.edges) /\ Along(p, q, m - 1) /\ At(m)
    <3>1. m - 1 \in 0 .. m - 1 /\ ~(m < m)
      BY <2>1
    <3> HIDE DEF At, n, m
    <3> QED
      BY <2>3, <3>1
  (* the hop that led to the top is one of those the new top is past *)
  <2>6. Along(p, q, m) /\ m <= Len(p.edges) => Along(p, q, m - 1) /\ At(m)
    <3> SUFFICES ASSUME Along(p, q, m), m <= Len(p.edges)
                 PROVE  Along(p, q, m - 1) /\ At(m)
      OBVIOUS
    <3>1. Along(p, q, m - 1)
      <4>1. \A i \in 1 .. m - 1 : i \in 1 .. m
        BY <2>1
      <4> QED
        BY <4>1 DEF Along
    <3>2. HopAt(p, m) = HopAt(q, m) /\ p.nodes[m] = q.nodes[m]
      <4>1. m \in 1 .. m /\ m \in 1 .. m + 1
        BY <2>1
      <4>2. HopAt(p, m) = HopAt(q, m)
        BY <4>1 DEF Along
      <4>3. p.nodes[m] = q.nodes[m]
        BY <2>1, <4>1, SameNodes
      <4> QED
        BY <4>2, <4>3
    <3>3. m \in 1 .. Len(st) - 1
      BY <2>1
    <3>4. st[m].cursor > 1 /\ EntryOf(call, q.nodes[m], st[m].cursor - 1) = HopAt(q, m)
      BY <3>3
    <3>5. st[m].cursor \in Nat
      <4>1. st[m] \in Frame
        BY <2>1, ElementOfSeq
      <4> QED
        BY <4>1 DEF Frame
    <3>6. st[m].cursor - 1 \in 1 .. st[m].cursor - 1
      BY <3>4, <3>5
    <3>7. EntryOf(call, p.nodes[m], st[m].cursor - 1) = HopAt(p, m)
      BY <3>2, <3>4
    <3> HIDE DEF m, n
    <3> QED
      BY <3>1, <3>6, <3>7
  <2>7. Along(p, q, m) <=> Along(p, q, m - 1) /\ HopAt(p, m) = HopAt(q, m)
    <3>1. \A i \in 1 .. m : i \in 1 .. m - 1 \/ i = m
      BY <2>1
    <3>2. \A i \in 1 .. m - 1 : i \in 1 .. m
      BY <2>1
    <3> HIDE DEF m
    <3> QED
      BY <2>1, <3>1, <3>2 DEF Along
  <2>8. ASSUME NowPrefix \/ \E i \in 1 .. m : Now(i)
        PROVE  OldPrefix \/ \E i \in 1 .. n : Old(i)
    <3>1. CASE NowPrefix
      <4>1. Len(p.edges) \in 0 .. m - 1 /\ Len(p.edges) < n
        BY <1>1, <2>1, <3>1
      <4> QED
        BY <2>3, <3>1, <4>1
    <3>2. ASSUME NEW i \in 1 .. m - 1, Now(i)
          PROVE  \E k \in 1 .. n : Old(k)
      <4>1. i \in 1 .. n
        BY <2>1
      <4> QED
        BY <2>4, <3>2, <4>1
    <3>3. ASSUME Now(m)
          PROVE  OldPrefix \/ \E i \in 1 .. n : Old(i)
      <4>1. m <= Len(p.edges) /\ Along(p, q, m - 1) /\ At(m)
        BY <2>5, <3>3
      <4>2. CASE HopAt(p, m) # HopAt(q, m)
        <5>1. Old(m)
          BY <4>1, <4>2
        <5> QED
          BY <2>1, <5>1
      <4>3. CASE HopAt(p, m) = HopAt(q, m)
        <5>1. Along(p, q, m)
          BY <2>7, <4>1, <4>3
        <5>2. CASE Len(p.edges) = m
          BY <2>1, <5>1, <5>2
        <5>3. CASE Len(p.edges) # m
          <6>1. n <= Len(p.edges) /\ n - 1 = m
            BY <1>1, <2>1, <4>1, <5>3
          <6>2. Old(n)
            BY <1>1, <1>3, <5>1, <6>1
          <6> QED
            BY <1>1, <6>2
        <5> QED
          BY <5>2, <5>3
      <4> QED
        BY <4>2, <4>3
    <3>4. \A i \in 1 .. m : i \in 1 .. m - 1 \/ i = m
      BY <2>1
    <3> HIDE DEF Now, Old, NowPrefix, OldPrefix, m, n
    <3> QED
      BY <2>8, <3>1, <3>2, <3>3, <3>4
  <2>9. ASSUME OldPrefix \/ \E i \in 1 .. n : Old(i)
        PROVE  NowPrefix \/ \E i \in 1 .. m : Now(i)
    <3>1. CASE OldPrefix
      <4>1. CASE Len(p.edges) < m
        <5>1. Len(p.edges) \in 0 .. m - 1
          BY <1>1, <2>1, <4>1
        <5> QED
          BY <2>3, <3>1, <4>1, <5>1
      <4>2. CASE ~(Len(p.edges) < m)
        <5>1. Len(p.edges) = m
          BY <1>1, <2>1, <3>1, <4>2
        <5>2. Now(m)
          BY <2>1, <2>5, <2>6, <3>1, <5>1
        <5> QED
          BY <2>1, <5>2
      <4> QED
        BY <4>1, <4>2
    <3>2. ASSUME NEW i \in 1 .. n, Old(i)
          PROVE  \E k \in 1 .. m : Now(k)
      <4>1. CASE i \in 1 .. m - 1
        <5>1. i \in 1 .. m
          BY <2>1, <4>1
        <5> QED
          BY <2>4, <3>2, <4>1, <5>1
      <4>2. CASE i = m
        <5>1. Now(m)
          BY <2>5, <3>2, <4>2
        <5> QED
          BY <2>1, <5>1
      <4>3. CASE i = n
        <5>1. Along(p, q, m) /\ m <= Len(p.edges)
          BY <1>1, <2>1, <3>2, <4>3
        <5>2. Now(m)
          BY <2>5, <2>6, <5>1
        <5> QED
          BY <2>1, <5>2
      <4>4. i \in 1 .. m - 1 \/ i = m \/ i = n
        BY <2>1
      <4> QED
        BY <4>1, <4>2, <4>3, <4>4
    <3> HIDE DEF Now, Old, NowPrefix, OldPrefix, m, n
    <3> QED
      BY <2>9, <3>1, <3>2
  <2> HIDE DEF Now, Old, NowPrefix, OldPrefix, m, n
  <2> QED
    BY <1>2, <2>2, <2>8, <2>9
<1> QED
  BY <1>4, <1>5

-----------------------------------------------------------------------------
(* The paths a walk takes, and those it reports. *)

BlockedIn(call, p) ==
  /\ Len(p.edges) > 0
  /\ \/ p.nodes[Len(p.edges) + 1] \notin call.body
     \/ /\ Len(p.edges) % call.unit = 0
        /\ p.edges[Len(p.edges) + 1 - call.unit].eid \in call.barred

EmitsIn(call, p) ==
  /\ ~BlockedIn(call, p)
  /\ Len(p.edges) >= call.min /\ Len(p.edges) % call.unit = 0
  /\ call.until # {} => \E S \in call.until : p.nodes[Len(p.edges) + 1] \in S

DescendsIn(call, p) ==
  /\ ~BlockedIn(call, p)
  /\ call.until # {} => ~EmitsIn(call, p)
  /\ Len(p.edges) # call.max

TakesIn(call, p) ==
  /\ Kept(call.mode, p.nodes, p.edges)
  /\ \A n \in 0 .. Len(p.edges) - 1 : DescendsIn(call, CutAt(p, n))
  /\ call.mode = "simple" /\ Len(p.edges) # 0 /\ p.nodes[Len(p.nodes)] = p.nodes[1] =>
       Len(p.edges) % call.unit = 0

TakenIn(call, s) ==
  {p \in PathRec : p.nodes[1] = s /\ PathIn(call, p.nodes, p.edges) /\ TakesIn(call, p)}
WantedIn(call, s) == {p \in TakenIn(call, s) : EmitsIn(call, p)}
Hops(paths) == {p \in paths : Len(p.edges) # 0}
Walked(call, s, st, q) == {p \in TakenIn(call, s) : Behind(call, st, q, p)}

RowOf(k, p) == [row |-> k, nodes |-> p.nodes, edges |-> p.edges]
PathOf(r) == [nodes |-> r.nodes, edges |-> r.edges]
Path == [nodes |-> nodeStack, edges |-> edgeStack]

(* rows: each once, of the first k sources, those of the last in done *)
RowsSound(call, rs, k, done) ==
  /\ \A m, n \in 1 .. Len(rs) : rs[m] = rs[n] => m = n
  /\ \A n \in 1 .. Len(rs) :
       /\ rs[n].row <= k
       /\ PathOf(rs[n]) \in WantedIn(call, call.src[rs[n].row])
       /\ rs[n].row = k => PathOf(rs[n]) \in done

(* and none is missing *)
RowsFull(call, rs, k, done) ==
  \A j \in 1 .. k : \A p \in WantedIn(call, call.src[j]) :
     (j = k => p \in done) => \E n \in 1 .. Len(rs) : rs[n] = RowOf(j, p)

(* the frames below the top are past the hop to the next; every node of    *)
(* the path was descended from                                             *)
FramesFit(call, st, q) ==
  /\ \A i \in 1 .. Len(st) - 1 :
       /\ st[i].cursor > 1
       /\ EntryOf(call, q.nodes[i], st[i].cursor - 1) = HopAt(q, i)
  /\ \A n \in 0 .. Len(q.edges) : DescendsIn(call, CutAt(q, n))

SearchInv ==
  /\ WalkInv
  /\ stack # <<>> =>
       /\ FramesFit(ask, stack, Path)
       /\ steps <= Cardinality(Hops(Walked(ask, ask.src[row], stack, Path)))
  /\ RowsSound(ask, rows, row, Walked(ask, ask.src[row], stack, Path))
  /\ stack # <<>> \/ ~ShouldStop(blown) =>
       RowsFull(ask, rows, row, Walked(ask, ask.src[row], stack, Path))
  /\ blown => \E k \in 1 .. row : Cardinality(Hops(TakenIn(ask, ask.src[k]))) > ask.limit

(* The operators of the module mean those of this one. *)
LEMMA SameTests ==
  ASSUME NEW p, WellFormed(p)
  PROVE  /\ EmitsAt(p.nodes, p.edges) <=> EmitsIn(ask, p)
         /\ DescendsFrom(p.nodes, p.edges) <=> DescendsIn(ask, p)
<1>1. Blocked(p.nodes, p.edges) <=> BlockedIn(ask, p)
  BY DEF Blocked, BlockedIn, AtUnit
<1>2. EmitsAt(p.nodes, p.edges) <=> EmitsIn(ask, p)
  BY <1>1 DEF EmitsAt, EmitsIn, AtUnit, Until
<1>3. DescendsFrom(p.nodes, p.edges) <=> DescendsIn(ask, p)
  BY <1>1, <1>2 DEF DescendsFrom, DescendsIn
<1> QED
  BY <1>2, <1>3

(* The parts of a call have their types. *)
LEMMA CallParts ==
  ASSUME NEW call \in CallType
  PROVE  /\ call.src \in Seq(Sites) /\ Len(call.src) \in Nat
         /\ \A k \in 1 .. Len(call.src) : call.src[k] \in Sites
         /\ call.mode \in {"walk", "trail", "simple", "acyclic"}
         /\ call.max \in Nat /\ call.unit \in Nat \ {0} /\ call.limit \in Nat /\ call.min \in Nat
<1>1. /\ call.src \in Seq(Sites)
      /\ call.mode \in {"walk", "trail", "simple", "acyclic"}
      /\ call.max \in Nat /\ call.unit \in Nat \ {0} /\ call.limit \in Nat /\ call.min \in Nat
  BY DEF CallType
<1> QED
  BY <1>1, LenProperties, ElementOfSeq

(* What it means to be one of the paths that are taken. *)
LEMMA TakenAreFormed ==
  ASSUME NEW call, NEW s, NEW p \in TakenIn(call, s)
  PROVE  /\ WellFormed(p) /\ p.nodes[1] = s /\ PathIn(call, p.nodes, p.edges) /\ TakesIn(call, p)
         /\ Len(p.edges) \in Nat
<1>1. WellFormed(p)
  BY DEF TakenIn, WellFormed, PathIn
<1> QED
  BY <1>1, LensOf DEF TakenIn

(* A path that is taken is no longer than the call allows. *)
LEMMA TakenAreShort ==
  ASSUME NEW call \in CallType, NEW s, NEW p \in TakenIn(call, s)
  PROVE  Len(p.edges) <= call.max
<1> SUFFICES ASSUME ~(Len(p.edges) <= call.max) PROVE FALSE
  OBVIOUS
<1>1. WellFormed(p) /\ TakesIn(call, p) /\ Len(p.edges) \in Nat
  BY TakenAreFormed
<1>2. call.max \in Nat
  BY CallParts
<1>3. call.max \in 0 .. Len(p.edges) - 1 /\ call.max \in 0 .. Len(p.edges)
  BY <1>1, <1>2
<1>4. Len(CutAt(p, call.max).edges) = call.max
  BY <1>1, <1>3, CutOf
<1> QED
  BY <1>1, <1>3, <1>4 DEF TakesIn, DescendsIn

-----------------------------------------------------------------------------
(* There are finitely many of them. *)

(* A function on a finite set has finitely many values. *)
LEMMA ValuesFinite ==
  ASSUME NEW S, IsFiniteSet(S), NEW f
  PROVE  IsFiniteSet({f[x] : x \in S})
<1> DEFINE T == {f[x] : x \in S}
           g == [x \in S |-> f[x]]
<1>1. g \in Surjection(S, T)
  BY DEF Surjection
<1> HIDE DEF g, T
<1>2. IsFiniteSet(T)
  BY <1>1, FS_Surjection
<1> QED
  BY <1>2 DEF T

Less == OpToRel(<, Nat)

(* The order of the natural numbers, as a relation, has no descending      *)
(* chain.                                                                  *)
LEMMA LessIsWellFounded == IsWellFoundedOn(Less, Nat)
  BY NatLessThanWellFounded, Zenon DEF Less

(* A set of numbers that is not empty has a least member: what the proofs  *)
(* below use in the place of induction.                                    *)
LEMMA LeastNumber ==
  ASSUME NEW T \in SUBSET Nat, T # {}
  PROVE  \E x \in T : \A y \in T : x <= y
<1>1. \A x, y \in Nat : <<y, x>> \in Less <=> y < x
  BY Zenon DEF Less, OpToRel
<1>2. PICK x \in T : \A y \in T : ~(<<y, x>> \in Less)
  BY LessIsWellFounded, WFMin, Zenon
<1>3. \A y \in T : ~(y < x)
  BY <1>1, <1>2
<1> QED
  BY <1>3

PathsFrom(call, s) == {p \in PathRec : p.nodes[1] = s /\ PathIn(call, p.nodes, p.edges)}
OfLength(call, s, n) == {p \in PathsFrom(call, s) : Len(p.edges) = n}
(* the entries of a node that may be walked on *)
WaysIn(call, v) == {a \in {EntryOf(call, v, j) : j \in 1 .. DegreeIn(call, v)} : MayWalk(call, v, a)}
OneMoreHop(call, p) == {Ext(p, a) : a \in WaysIn(call, p.nodes[Len(p.nodes)])}

(* What it means to be a path of a source. *)
LEMMA PathsAreFormed ==
  ASSUME NEW call, NEW s, NEW p \in PathsFrom(call, s)
  PROVE  WellFormed(p) /\ p.nodes[1] = s /\ PathIn(call, p.nodes, p.edges) /\ Len(p.edges) \in Nat
<1>1. WellFormed(p)
  BY DEF PathsFrom, WellFormed, PathIn
<1> QED
  BY <1>1, LensOf DEF PathsFrom

(* The entries of a node are entries. *)
LEMMA EntriesAreTyped ==
  ASSUME NEW call, NEW v \in Sites
  PROVE  /\ DegreeIn(call, v) \in Nat
         /\ \A j \in 1 .. DegreeIn(call, v) :
              EntryOf(call, v, j) \in [eid : Ties, nbr : Sites, inc : BOOLEAN]
<1> DEFINE Entry == [eid : Ties, nbr : Sites]
           outs == OutsOf(call, v)
           incs == IncsOf(call, v)
<1>1. outs \in Seq(Entry) /\ incs \in Seq(Entry)
  BY EmptySeq, AdjacencyAssumption DEF OutsOf, IncsOf
<1>2. Len(outs) \in Nat /\ Len(incs) \in Nat
  BY <1>1, LenProperties
<1>3. /\ \A i \in 1 .. Len(outs) : outs[i] \in Entry
      /\ \A i \in 1 .. Len(incs) : incs[i] \in Entry
  BY <1>1, ElementOfSeq
<1> HIDE DEF outs, incs
<1>4. DegreeIn(call, v) = Len(outs) + Len(incs)
  BY DEF DegreeIn, outs, incs
<1>5. ASSUME NEW j \in 1 .. DegreeIn(call, v)
      PROVE  EntryOf(call, v, j) \in [eid : Ties, nbr : Sites, inc : BOOLEAN]
  <2>1. EntryOf(call, v, j) =
          IF j <= Len(outs) THEN [eid |-> outs[j].eid, nbr |-> outs[j].nbr, inc |-> FALSE]
          ELSE [eid |-> incs[j - Len(outs)].eid, nbr |-> incs[j - Len(outs)].nbr, inc |-> TRUE]
    BY DEF EntryOf, outs, incs
  <2>2. CASE j <= Len(outs)
    <3>1. outs[j] \in Entry
      BY <1>2, <1>3, <1>4, <1>5, <2>2
    <3> QED
      BY <2>1, <2>2, <3>1
  <2>3. CASE ~(j <= Len(outs))
    <3>1. incs[j - Len(outs)] \in Entry
      BY <1>2, <1>3, <1>4, <1>5, <2>3
    <3> QED
      BY <2>1, <2>3, <3>1
  <2> QED
    BY <2>2, <2>3
<1> QED
  BY <1>2, <1>4, <1>5

(* The paths of n + 1 hops are those of n and one hop more. *)
LEMMA LongerByOne ==
  ASSUME NEW call, NEW s, NEW n \in Nat
  PROVE  OfLength(call, s, n + 1) = UNION {OneMoreHop(call, p) : p \in OfLength(call, s, n)}
<1>1. ASSUME NEW p \in OfLength(call, s, n), NEW x \in OneMoreHop(call, p)
      PROVE  x \in OfLength(call, s, n + 1)
  <2>1. /\ WellFormed(p) /\ p.nodes[1] = s /\ PathIn(call, p.nodes, p.edges) /\ Len(p.edges) = n
        /\ p.nodes \in Seq(Sites) /\ p.edges \in Seq(Traversed)
        /\ Len(p.nodes) \in 1 .. Len(p.nodes)
    <3>1. WellFormed(p) /\ p.nodes[1] = s /\ PathIn(call, p.nodes, p.edges) /\ Len(p.edges) = n
      BY <1>1, PathsAreFormed DEF OfLength
    <3> QED
      BY <3>1, LensOf
  <2> DEFINE v == p.nodes[Len(p.nodes)]
  <2>2. v \in Sites
    BY <2>1, LensOf
  <2>3. PICK j \in 1 .. DegreeIn(call, v) : 
          x = Ext(p, EntryOf(call, v, j)) /\ MayWalk(call, v, EntryOf(call, v, j))
    BY <1>1 DEF OneMoreHop, WaysIn
  <2> DEFINE a == EntryOf(call, v, j)
  <2>4. a \in [eid : Ties, nbr : Sites, inc : BOOLEAN]
    BY <2>2, EntriesAreTyped
  <2>5. IsHop(call, v, a)
    BY <2>3 DEF IsHop, DegreeIn
  <2> HIDE DEF a
  <2>6. a.eid \in Ties /\ a.nbr \in Sites /\ a.inc \in BOOLEAN
        /\ a = [eid |-> a.eid, nbr |-> a.nbr, inc |-> a.inc]
    BY <2>4
  <2> DEFINE eid == a.eid
             nbr == a.nbr
             inc == a.inc
  <2>7. /\ eid \in Ties /\ nbr \in Sites /\ inc \in BOOLEAN
        /\ IsHop(call, v, [eid |-> eid, nbr |-> nbr, inc |-> inc])
    BY <2>5, <2>6
  <2> HIDE DEF eid, nbr, inc
  <2>8. PathIn(call, Append(p.nodes, nbr), Append(p.edges, [eid |-> eid, inc |-> inc]))
    BY <2>1, <2>7, LongerPath
  <2>9. PathIn(call, Ext(p, a).nodes, Ext(p, a).edges)
    BY <2>8 DEF Ext, eid, nbr, inc
  <2>10. /\ WellFormed(Ext(p, a)) /\ Len(Ext(p, a).edges) = n + 1
         /\ Ext(p, a).nodes[1] = s
    BY <2>1, <2>4, ExtOf
  <2>11. x = Ext(p, a)
    BY <2>3 DEF a
  <2> QED
    BY <2>9, <2>10, <2>11 DEF OfLength, PathsFrom, WellFormed
<1>2. ASSUME NEW x \in OfLength(call, s, n + 1)
      PROVE  \E p \in OfLength(call, s, n) : x \in OneMoreHop(call, p)
  <2>1. /\ WellFormed(x) /\ x.nodes[1] = s /\ PathIn(call, x.nodes, x.edges)
        /\ Len(x.edges) = n + 1
        /\ x.nodes \in Seq(Sites) /\ x.edges \in Seq(Traversed)
    BY <1>2, PathsAreFormed, LensOf DEF OfLength
  <2> DEFINE p == CutAt(x, n)
  <2>2. n \in 0 .. Len(x.edges)
    BY <2>1
  <2>3. /\ WellFormed(p) /\ Len(p.edges) = n
        /\ \A i \in 1 .. n : p.edges[i] = x.edges[i]
        /\ \A i \in 1 .. n + 1 : p.nodes[i] = x.nodes[i]
    BY <2>1, <2>2, CutOf
  <2>4. Len(p.nodes) = n + 1
    BY <2>3 DEF WellFormed
  <2> HIDE DEF p
  <2>5. p \in OfLength(call, s, n)
    <3>1. ASSUME NEW i \in 1 .. Len(p.edges)
          PROVE  IsHop(call, p.nodes[i],
                       [eid |-> p.edges[i].eid, nbr |-> p.nodes[i + 1], inc |-> p.edges[i].inc])
      <4>1. i \in 1 .. Len(x.edges) /\ i \in 1 .. n /\ i \in 1 .. n + 1 /\ i + 1 \in 1 .. n + 1
        BY <2>1, <2>3, <3>1
      <4>2. IsHop(call, x.nodes[i],
                  [eid |-> x.edges[i].eid, nbr |-> x.nodes[i + 1], inc |-> x.edges[i].inc])
        BY <2>1, <4>1 DEF PathIn
      <4> QED
        BY <2>3, <4>1, <4>2
    <3>2. PathIn(call, p.nodes, p.edges)
      BY <2>3, <2>4, <3>1 DEF PathIn
    <3>3. p.nodes[1] = s
      <4>1. 1 \in 1 .. n + 1
        OBVIOUS
      <4> QED
        BY <2>1, <2>3, <4>1
    <3> QED
      BY <2>3, <3>2, <3>3 DEF OfLength, PathsFrom, WellFormed
  <2> DEFINE a == HopAt(x, n + 1)
             v == p.nodes[Len(p.nodes)]
  <2>6. v = x.nodes[n + 1] /\ v \in Sites
    <3>1. n + 1 \in 1 .. n + 1 /\ n + 1 \in 1 .. Len(x.edges)
      BY <2>1
    <3>2. v = x.nodes[n + 1]
      BY <2>3, <2>4, <3>1
    <3> QED
      BY <2>1, <3>1, <3>2, LensOf
  <2>7. IsHop(call, v, a)
    <3>1. n + 1 \in 1 .. Len(x.edges)
      BY <2>1
    <3> QED
      BY <2>1, <2>6, <3>1 DEF PathIn, HopAt
  <2>8. a \in WaysIn(call, v)
    BY <2>7 DEF IsHop, WaysIn, DegreeIn
  <2>9. a \in [eid : Ties, nbr : Sites, inc : BOOLEAN]
    BY <2>6, <2>8, EntriesAreTyped DEF WaysIn
  <2> HIDE DEF a, v
  <2>10. /\ WellFormed(Ext(p, a)) /\ Len(Ext(p, a).edges) = n + 1
         /\ Ext(p, a).nodes[1] = p.nodes[1]
         /\ HopAt(Ext(p, a), n + 1) = a /\ Along(Ext(p, a), p, n)
    BY <2>3, <2>9, ExtOf
  <2>11. Along(Ext(p, a), x, n + 1)
    <3> SUFFICES ASSUME NEW i \in 1 .. n + 1 PROVE HopAt(Ext(p, a), i) = HopAt(x, i)
      BY DEF Along
    <3>1. CASE i = n + 1
      BY <2>10, <3>1 DEF a
    <3>2. CASE i # n + 1
      <4>1. i \in 1 .. n /\ i + 1 \in 1 .. n + 1
        BY <3>2
      <4>2. HopAt(Ext(p, a), i) = HopAt(p, i)
        BY <2>10, <4>1 DEF Along
      <4> QED
        BY <2>3, <4>1, <4>2 DEF HopAt
    <3> QED
      BY <3>1, <3>2
  <2>12. Ext(p, a) = x
    <3>1. p.nodes[1] = x.nodes[1]
      <4>1. 1 \in 1 .. n + 1
        OBVIOUS
      <4> QED
        BY <2>3, <4>1
    <3> QED
      BY <2>1, <2>10, <2>11, <3>1, SamePath
  <2>13. x \in OneMoreHop(call, p)
    BY <2>8, <2>12 DEF OneMoreHop, v
  <2> QED
    BY <2>5, <2>13
<1> QED
  BY <1>1, <1>2

(* The one path of no hops is the source. *)
LEMMA NoHopYet ==
  ASSUME NEW call, NEW s \in Sites
  PROVE  OfLength(call, s, 0) = {[nodes |-> <<s>>, edges |-> <<>>]}
<1> DEFINE e == [nodes |-> <<s>>, edges |-> <<>>]
<1>1. /\ <<s>> \in Seq(Sites) /\ <<>> \in Seq(Traversed) /\ Len(<<s>>) = 1 /\ <<s>>[1] = s
      /\ Len(<<>>) = 0
  BY EmptySeq
<1>2. e \in OfLength(call, s, 0)
  <2>1. PathIn(call, <<s>>, <<>>)
    BY <1>1 DEF PathIn
  <2> QED
    BY <1>1, <2>1 DEF OfLength, PathsFrom, PathRec
<1>3. WellFormed(e) /\ e.nodes[1] = s /\ Len(e.edges) = 0
  BY <1>1 DEF WellFormed, PathRec
<1> HIDE DEF e
<1>4. ASSUME NEW p \in OfLength(call, s, 0)
      PROVE  p = e
  <2>1. WellFormed(p) /\ p.nodes[1] = s /\ Len(p.edges) = 0
    BY PathsAreFormed DEF OfLength
  <2>2. Along(p, e, 0)
    BY DEF Along
  <2> QED
    BY <1>3, <2>1, <2>2, SamePath
<1> QED
  BY <1>2, <1>4 DEF e

(* For every length there are finitely many paths: otherwise there is a    *)
(* least length with infinitely many, and each of those one shorter has    *)
(* finitely many hops to go on.                                            *)
LEMMA PathsAreFinite ==
  ASSUME NEW call, NEW s \in Sites
  PROVE  \A n \in Nat : IsFiniteSet(OfLength(call, s, n))
<1> DEFINE Bad == {n \in Nat : ~IsFiniteSet(OfLength(call, s, n))}
<1> SUFFICES ASSUME Bad # {} PROVE FALSE
  OBVIOUS
<1>1. PICK n \in Bad : \A m \in Bad : n <= m
  BY LeastNumber
<1>2. n \in Nat /\ ~IsFiniteSet(OfLength(call, s, n))
  BY <1>1
<1>3. n # 0
  <2>1. IsFiniteSet(OfLength(call, s, 0))
    <3> DEFINE e == [nodes |-> <<s>>, edges |-> <<>>]
    <3>1. OfLength(call, s, 0) = {e}
      BY NoHopYet
    <3> HIDE DEF e
    <3> QED
      BY <3>1, FS_Singleton
  <2> QED
    BY <1>2, <2>1
<1> DEFINE m == n - 1
           shorter == OfLength(call, s, m)
<1>4. m \in Nat /\ n = m + 1 /\ m \notin Bad
  BY <1>1, <1>2, <1>3
<1>5. IsFiniteSet(shorter)
  BY <1>4
<1>6. OfLength(call, s, n) = UNION {OneMoreHop(call, p) : p \in shorter}
  BY <1>4, LongerByOne
<1>7. ASSUME NEW p \in shorter
      PROVE  IsFiniteSet(OneMoreHop(call, p))
  <2> DEFINE v == p.nodes[Len(p.nodes)]
             f == [j \in 1 .. DegreeIn(call, v) |-> Ext(p, EntryOf(call, v, j))]
             T == {f[j] : j \in 1 .. DegreeIn(call, v)}
  <2>1. v \in Sites
    <3>1. WellFormed(p) /\ Len(p.edges) \in Nat
      BY <1>4, PathsAreFormed DEF OfLength
    <3>2. Len(p.nodes) \in 1 .. Len(p.nodes)
      BY <3>1, LensOf
    <3> QED
      BY <3>1, <3>2, LensOf
  <2>2. IsFiniteSet(1 .. DegreeIn(call, v))
    <3>1. DegreeIn(call, v) \in Int
      BY <2>1, EntriesAreTyped
    <3> HIDE DEF v
    <3> QED
      BY <3>1, FS_Interval
  <2>3. IsFiniteSet(T)
    <3> HIDE DEF f, v
    <3> QED
      BY <2>2, ValuesFinite
  <2>4. OneMoreHop(call, p) \subseteq T
    BY DEF OneMoreHop, WaysIn
  <2> HIDE DEF T
  <2> QED
    BY <2>3, <2>4, FS_Subset
<1> DEFINE g == [p \in shorter |-> OneMoreHop(call, p)]
           sets == {g[p] : p \in shorter}
<1>8. IsFiniteSet(sets)
  <2> HIDE DEF g, shorter
  <2> QED
    BY <1>5, ValuesFinite
<1>9. \A t \in sets : IsFiniteSet(t)
  <2> HIDE DEF shorter
  <2> QED
    BY <1>7
<1>10. IsFiniteSet(UNION sets)
  <2> HIDE DEF sets
  <2> QED
    BY <1>8, <1>9, FS_UNION
<1>11. UNION sets = UNION {OneMoreHop(call, p) : p \in shorter}
  <2> HIDE DEF shorter
  <2> QED
    OBVIOUS
<1> QED
  BY <1>2, <1>6, <1>10, <1>11

(* The paths that are taken are finitely many, as they are short. *)
LEMMA TakenIsFinite ==
  ASSUME NEW call \in CallType, NEW s \in Sites
  PROVE  IsFiniteSet(TakenIn(call, s))
<1> DEFINE g == [n \in 0 .. call.max |-> OfLength(call, s, n)]
           sets == {g[n] : n \in 0 .. call.max}
<1>1. call.max \in Nat
  BY CallParts
<1>2. IsFiniteSet(sets)
  <2>1. IsFiniteSet(0 .. call.max)
    BY <1>1, FS_Interval
  <2> HIDE DEF g
  <2> QED
    BY <2>1, ValuesFinite
<1>3. \A t \in sets : IsFiniteSet(t)
  <2>1. \A n \in 0 .. call.max : IsFiniteSet(OfLength(call, s, n))
    BY <1>1, PathsAreFinite
  <2> QED
    BY <2>1
<1>4. TakenIn(call, s) \subseteq UNION sets
  <2> SUFFICES ASSUME NEW p \in TakenIn(call, s) PROVE p \in UNION sets
    OBVIOUS
  <2>1. Len(p.edges) \in 0 .. call.max
    BY <1>1, TakenAreFormed, TakenAreShort
  <2>2. p \in OfLength(call, s, Len(p.edges))
    BY DEF TakenIn, OfLength, PathsFrom
  <2> QED
    BY <2>1, <2>2
<1> HIDE DEF sets
<1>5. IsFiniteSet(UNION sets)
  BY <1>2, <1>3, FS_UNION
<1> QED
  BY <1>4, <1>5, FS_Subset

-----------------------------------------------------------------------------
(* What one more path does to the rows and to the count of hops. *)

(* A path that was not behind the walk and is now: its row, if it has one, *)
(* is new, and it was the one that was missing.                            *)
LEMMA OneRowMore ==
  ASSUME NEW call, NEW rs \in Seq(FoundRow), NEW k \in Nat, NEW B,
         NEW q \in TakenIn(call, call.src[k]), q \notin B, RowOf(k, q) \in FoundRow,
         RowsSound(call, rs, k, B),
         NEW rs2, rs2 = IF EmitsIn(call, q) THEN Append(rs, RowOf(k, q)) ELSE rs
  PROVE  /\ RowsSound(call, rs2, k, B \cup {q})
         /\ RowsFull(call, rs, k, B) => RowsFull(call, rs2, k, B \cup {q})
<1>1. CASE ~EmitsIn(call, q)
  <2>1. rs2 = rs
    BY <1>1
  <2>2. RowsSound(call, rs2, k, B \cup {q})
    BY <2>1 DEF RowsSound
  <2>3. \A p \in WantedIn(call, call.src[k]) : p # q
    BY <1>1 DEF WantedIn
  <2>4. RowsFull(call, rs, k, B) => RowsFull(call, rs2, k, B \cup {q})
    BY <2>1, <2>3 DEF RowsFull
  <2> QED
    BY <2>2, <2>4
<1>2. CASE EmitsIn(call, q)
  <2> DEFINE r == RowOf(k, q)
             n == Len(rs)
  <2>1. /\ Len(rs2) = n + 1 /\ n \in Nat /\ rs2[n + 1] = r
        /\ \A i \in 1 .. n : rs2[i] = rs[i]
    <3>1. rs2 = Append(rs, r)
      BY <1>2
    <3> HIDE DEF r
    <3> QED
      BY <3>1, AppendProperties, LenProperties DEF r
  <2>2. r.row = k /\ PathOf(r) = q
    <3>1. q = [nodes |-> q.nodes, edges |-> q.edges]
      BY TakenAreFormed, LensOf
    <3> QED
      BY <3>1 DEF RowOf, PathOf
  <2>3. q \in WantedIn(call, call.src[k])
    BY <1>2 DEF WantedIn
  <2>4. \A i \in 1 .. n : rs[i] # r
    BY <2>2 DEF RowsSound
  <2> HIDE DEF r, n
  <2>5. \A i \in 1 .. n + 1 : i \in 1 .. n \/ i = n + 1
    BY <2>1
  <2>6. \A i, j \in 1 .. n : rs[i] = rs[j] => i = j
    BY DEF RowsSound, n
  <2>7. \A i, j \in 1 .. n + 1 : rs2[i] = rs2[j] => i = j
    <3>1. \A i \in 1 .. n : rs2[i] # r
      BY <2>1, <2>4
    <3>2. \A i, j \in 1 .. n : rs2[i] = rs2[j] => i = j
      BY <2>1, <2>6
    <3>3. rs2[n + 1] = r
      BY <2>1
    <3> QED
      BY <2>5, <3>1, <3>2, <3>3, Zenon
  <2>8. ASSUME NEW i \in 1 .. n + 1
        PROVE  /\ rs2[i].row <= k
               /\ PathOf(rs2[i]) \in WantedIn(call, call.src[rs2[i].row])
               /\ rs2[i].row = k => PathOf(rs2[i]) \in B \cup {q}
    <3>1. CASE i \in 1 .. n
      BY <2>1, <3>1 DEF RowsSound, n
    <3>2. CASE i = n + 1
      BY <2>1, <2>2, <2>3, <3>2
    <3> QED
      BY <2>5, <3>1, <3>2
  <2>9. RowsSound(call, rs2, k, B \cup {q})
    BY <2>1, <2>7, <2>8 DEF RowsSound
  <2>10. ASSUME RowsFull(call, rs, k, B), NEW j \in 1 .. k, NEW p \in WantedIn(call, call.src[j]),
                j = k => p \in B \cup {q}
         PROVE  \E i \in 1 .. n + 1 : rs2[i] = RowOf(j, p)
    <3>1. CASE j = k /\ p = q
      <4>1. rs2[n + 1] = RowOf(j, p) /\ n + 1 \in 1 .. n + 1
        BY <2>1, <3>1 DEF r
      <4> QED
        BY <4>1
    <3>2. CASE ~(j = k /\ p = q)
      <4>1. PICK i \in 1 .. n : rs[i] = RowOf(j, p)
        BY <2>10, <3>2 DEF RowsFull, n
      <4>2. i \in 1 .. n + 1
        BY <2>1
      <4> QED
        BY <2>1, <4>1, <4>2
    <3> QED
      BY <3>1, <3>2
  <2>11. RowsFull(call, rs, k, B) => RowsFull(call, rs2, k, B \cup {q})
    BY <2>1, <2>10 DEF RowsFull
  <2> QED
    BY <2>9, <2>11
<1> QED
  BY <1>1, <1>2

(* The next source: all the paths of the last one are behind. *)
LEMMA NextSource ==
  ASSUME NEW call, NEW rs \in Seq(FoundRow), NEW k \in Nat, NEW B,
         RowsSound(call, rs, k, B), B \subseteq TakenIn(call, call.src[k])
  PROVE  /\ RowsSound(call, rs, k + 1, {})
         /\ RowsFull(call, rs, k, TakenIn(call, call.src[k])) => RowsFull(call, rs, k + 1, {})
<1>1. \A n \in 1 .. Len(rs) : rs[n].row \in Nat
  <2>1. \A n \in 1 .. Len(rs) : rs[n] \in FoundRow
    BY ElementOfSeq
  <2> QED
    BY <2>1 DEF FoundRow
<1>2. RowsSound(call, rs, k + 1, {})
  <2>1. \A n \in 1 .. Len(rs) : rs[n].row <= k + 1 /\ rs[n].row # k + 1
    BY <1>1 DEF RowsSound
  <2> QED
    BY <2>1 DEF RowsSound
<1>3. ASSUME RowsFull(call, rs, k, TakenIn(call, call.src[k]))
      PROVE  RowsFull(call, rs, k + 1, {})
  <2>1. \A j \in 1 .. k + 1 : j # k + 1 => j \in 1 .. k
    OBVIOUS
  <2>2. \A j : WantedIn(call, call.src[j]) \subseteq TakenIn(call, call.src[j])
    BY DEF WantedIn
  <2> QED
    BY <1>3, <2>1, <2>2 DEF RowsFull
<1> QED
  BY <1>2, <1>3

(* One more path of a hop or more is one more hop. *)
LEMMA HopsCounted ==
  ASSUME NEW T, IsFiniteSet(T), NEW B \in SUBSET T
  PROVE  /\ Cardinality(Hops(B)) \in Nat /\ Cardinality(Hops(T)) \in Nat
         /\ Cardinality(Hops(B)) <= Cardinality(Hops(T))
         /\ \A q \in T \ B : Len(q.edges) # 0 =>
              Cardinality(Hops(B \cup {q})) = Cardinality(Hops(B)) + 1
<1>1. Hops(T) \subseteq T /\ Hops(B) \subseteq Hops(T)
  BY DEF Hops
<1>2. IsFiniteSet(Hops(T))
  BY <1>1, FS_Subset
<1>3. IsFiniteSet(Hops(B)) /\ Cardinality(Hops(B)) <= Cardinality(Hops(T))
  BY <1>1, <1>2, FS_Subset
<1>4. Cardinality(Hops(B)) \in Nat /\ Cardinality(Hops(T)) \in Nat
  BY <1>2, <1>3, FS_CardinalityType
<1>5. ASSUME NEW q \in T \ B, Len(q.edges) # 0
      PROVE  Cardinality(Hops(B \cup {q})) = Cardinality(Hops(B)) + 1
  <2>1. Hops(B \cup {q}) = Hops(B) \cup {q} /\ q \notin Hops(B)
    BY <1>5 DEF Hops
  <2> QED
    BY <1>3, <2>1, FS_AddElement
<1> QED
  BY <1>3, <1>4, <1>5

-----------------------------------------------------------------------------
(* The steps. *)

NewPath == [nodes |-> nodeStack', edges |-> edgeStack']

(* A walk that has begun has a source, and finitely many paths from it. *)
LEMMA SourceIsTyped ==
  ASSUME WalkInv, row # 0
  PROVE  /\ ask \in CallType /\ row \in 1 .. Len(ask.src) /\ row \in Nat /\ ask.src[row] \in Sites
         /\ IsFiniteSet(TakenIn(ask, ask.src[row]))
<1>1. ask \in CallType
  BY CallAssumption DEF WalkInv, WalkTypeOK
<1>2. row \in 1 .. Len(ask.src) /\ row \in Nat
  BY <1>1, CallParts DEF WalkInv, WalkTypeOK
<1>3. ask.src[row] \in Sites
  BY <1>1, <1>2, CallParts
<1> QED
  BY <1>1, <1>2, <1>3, TakenIsFinite

(* A step inside a walk that puts no path behind it *)
LEMMA NoPathMore ==
  ASSUME SearchInv, WalkInv', stack # <<>>,
         ask' = ask, row' = row, rows' = rows, steps' = steps,
         blown' => blown \/ steps' > ask.limit,
         stack' # <<>> => FramesFit(ask, stack', NewPath),
         Walked(ask, ask.src[row], stack', NewPath) = Walked(ask, ask.src[row], stack, Path)
  PROVE  SearchInv'
<1> DEFINE T == TakenIn(ask, ask.src[row])
           B == Walked(ask, ask.src[row], stack, Path)
<1>1. /\ row # 0 /\ row \in 1 .. Len(ask.src) /\ row \in Nat /\ IsFiniteSet(T)
      /\ steps \in Nat /\ ask.limit \in Nat
  <2>1. row # 0 /\ steps \in Nat
    BY DEF SearchInv, WalkInv, WalkTypeOK
  <2> QED
    BY <2>1, SourceIsTyped, CallParts DEF SearchInv
<1>2. B \in SUBSET T
  BY DEF Walked
<1>3. steps <= Cardinality(Hops(B)) /\ RowsSound(ask, rows, row, B) /\ RowsFull(ask, rows, row, B)
  BY DEF SearchInv
<1>4. /\ Cardinality(Hops(B)) \in Nat /\ Cardinality(Hops(T)) \in Nat
      /\ Cardinality(Hops(B)) <= Cardinality(Hops(T))
  <2> HIDE DEF B, T
  <2> QED
    BY <1>1, <1>2, HopsCounted
<1>5. blown' => \E k \in 1 .. row : Cardinality(Hops(TakenIn(ask, ask.src[k]))) > ask.limit
  <2>1. CASE blown
    BY <2>1 DEF SearchInv
  <2>2. CASE ~blown /\ blown'
    <3>1. Cardinality(Hops(T)) > ask.limit
      BY <1>1, <1>3, <1>4, <2>2
    <3>2. row \in 1 .. row
      BY <1>1
    <3> QED
      BY <3>1, <3>2
  <2> QED
    BY <2>1, <2>2
<1>6. Walked(ask', ask'.src[row'], stack', Path') = B
  BY DEF Path, NewPath
<1>7. Path' = NewPath
  BY DEF Path, NewPath
<1> HIDE DEF B, T
<1> QED
  BY <1>3, <1>5, <1>6, <1>7 DEF SearchInv

(* A step inside a walk that puts q behind it *)
LEMMA OnePathMore ==
  ASSUME SearchInv, WalkInv', stack # <<>>,
         ask' = ask, row' = row, steps' <= steps + 1,
         blown' => blown \/ steps' > ask.limit,
         stack' # <<>>, FramesFit(ask, stack', NewPath),
         NEW q \in TakenIn(ask, ask.src[row]), Len(q.edges) # 0,
         q \notin Walked(ask, ask.src[row], stack, Path),
         rows' = IF EmitsIn(ask, q) THEN Append(rows, RowOf(row, q)) ELSE rows,
         Walked(ask, ask.src[row], stack', NewPath)
           = Walked(ask, ask.src[row], stack, Path) \cup {q}
  PROVE  SearchInv'
<1> DEFINE T == TakenIn(ask, ask.src[row])
           B == Walked(ask, ask.src[row], stack, Path)
<1>1. /\ row # 0 /\ row \in 1 .. Len(ask.src) /\ row \in Nat /\ IsFiniteSet(T)
      /\ steps \in Nat /\ steps' \in Nat /\ ask.limit \in Nat /\ rows \in Seq(FoundRow)
  <2>1. row # 0 /\ steps \in Nat /\ steps' \in Nat /\ rows \in Seq(FoundRow)
    BY DEF SearchInv, WalkInv, WalkTypeOK
  <2> QED
    BY <2>1, SourceIsTyped, CallParts DEF SearchInv
<1>2. B \in SUBSET T /\ q \in T \ B /\ B \cup {q} \in SUBSET T
  BY DEF Walked
<1>3. steps <= Cardinality(Hops(B)) /\ RowsSound(ask, rows, row, B) /\ RowsFull(ask, rows, row, B)
  BY DEF SearchInv
<1>4. RowOf(row, q) \in FoundRow
  <2>1. WellFormed(q)
    BY TakenAreFormed
  <2> QED
    BY <1>1, <2>1, LensOf DEF RowOf, FoundRow
<1>5. Walked(ask', ask'.src[row'], stack', Path') = B \cup {q}
  BY DEF Path, NewPath
<1>6. Path' = NewPath
  BY DEF Path, NewPath
<1> HIDE DEF B
<1>7. /\ RowsSound(ask, rows', row, B \cup {q})
      /\ RowsFull(ask, rows', row, B \cup {q})
  BY <1>1, <1>2, <1>3, <1>4, OneRowMore
<1> HIDE DEF T
<1>8. /\ Cardinality(Hops(B)) \in Nat /\ Cardinality(Hops(T)) \in Nat
      /\ Cardinality(Hops(B \cup {q})) = Cardinality(Hops(B)) + 1
      /\ Cardinality(Hops(B \cup {q})) <= Cardinality(Hops(T))
  BY <1>1, <1>2, HopsCounted
<1>9. blown' => \E k \in 1 .. row : Cardinality(Hops(TakenIn(ask, ask.src[k]))) > ask.limit
  <2>1. CASE blown
    BY <2>1 DEF SearchInv
  <2>2. CASE ~blown /\ blown'
    <3>1. Cardinality(Hops(T)) > ask.limit
      BY <1>1, <1>3, <1>8, <2>2
    <3>2. row \in 1 .. row
      BY <1>1
    <3> QED
      BY <3>1, <3>2 DEF T
  <2> QED
    BY <2>1, <2>2
<1>10. steps' <= Cardinality(Hops(B \cup {q}))
  BY <1>1, <1>3, <1>8
<1> QED
  BY <1>5, <1>6, <1>7, <1>9, <1>10 DEF SearchInv

(* Where a walk stands, and what the entry under the cursor is. *)
LEMMA StandingAt ==
  ASSUME WalkInv, stack # <<>>
  PROVE  /\ WellFormed(Path) /\ Path.nodes[1] = ask.src[row]
         /\ PathIn(ask, Path.nodes, Path.edges)
         /\ row # 0 /\ Len(stack) = Len(Path.edges) + 1 /\ Len(stack) = Len(nodeStack)
         /\ Len(stack) \in Nat /\ Len(stack) > 0 /\ stack \in Seq(Frame)
         /\ Len(Path.edges) \in Nat
         /\ Here = stack[Len(stack)] /\ Here.v = nodeStack[Len(stack)]
         /\ nodeStack[Len(stack)] \in Sites /\ Here.cursor \in Nat \ {0}
         /\ Degree(Here.v) = DegreeIn(ask, nodeStack[Len(stack)])
<1>1. /\ stack \in Seq(Frame) /\ nodeStack \in Seq(Sites) /\ edgeStack \in Seq(Traversed)
      /\ row # 0 /\ nodeStack[1] = ask.src[row] /\ PathIn(ask, nodeStack, edgeStack)
      /\ Len(stack) = Len(edgeStack) + 1 /\ Len(stack) = Len(nodeStack)
      /\ \A i \in DOMAIN stack : stack[i].v = nodeStack[i]
  BY DEF WalkInv, WalkTypeOK, StacksAgree
<1>2. Len(stack) \in Nat /\ Len(stack) > 0 /\ Len(edgeStack) \in Nat /\ Len(stack) \in DOMAIN stack
  BY <1>1, LenProperties, EmptySeq
<1>3. WellFormed(Path)
  BY <1>1 DEF WellFormed, PathRec, Path
<1>4. Here = stack[Len(stack)] /\ stack[Len(stack)] \in Frame
  BY <1>1, <1>2, ElementOfSeq, LenProperties DEF Here, Last
<1>5. nodeStack[Len(stack)] \in Sites
  BY <1>1, <1>2, ElementOfSeq
<1>6. \A v : Degree(v) = DegreeIn(ask, v)
  BY DEF Degree, DegreeIn, Outs, Incs, OutsOf, IncsOf
<1> QED
  BY <1>1, <1>2, <1>3, <1>4, <1>5, <1>6 DEF Path, Frame

(* The entry under the cursor of the frame on top, and the path over it. *)
LEMMA UnderTheCursor ==
  ASSUME WalkInv, HasNext
  PROVE  /\ Next1 = EntryOf(ask, nodeStack[Len(stack)], stack[Len(stack)].cursor)
         /\ Next1 \in [eid : Ties, nbr : Sites, inc : BOOLEAN]
         /\ stack[Len(stack)].cursor \in 1 .. DegreeIn(ask, nodeStack[Len(stack)])
         /\ stack[Len(stack)].cursor <= DegreeIn(ask, nodeStack[Len(stack)])
         /\ Walkable(Here.v, Next1) <=> MayWalk(ask, nodeStack[Len(stack)], Next1)
         /\ [nodes |-> NodesOver(Next1), edges |-> EdgesOver(Next1)] = Ext(Path, Next1)
         /\ WellFormed(Ext(Path, Next1))
         /\ Len(Ext(Path, Next1).edges) = Len(stack)
         /\ HopAt(Ext(Path, Next1), Len(stack)) = Next1
         /\ Along(Ext(Path, Next1), Path, Len(Path.edges))
         /\ Ext(Path, Next1).nodes[1] = Path.nodes[1]
         /\ Ext(Path, Next1).nodes[Len(stack) + 1] = Next1.nbr
         /\ \A i \in 1 .. Len(stack) : Ext(Path, Next1).nodes[i] = nodeStack[i]
         /\ \A n \in 0 .. Len(Path.edges) : CutAt(Ext(Path, Next1), n) = CutAt(Path, n)
<1>0. stack # <<>>
  BY DEF HasNext
<1>1. /\ WellFormed(Path) /\ Len(stack) = Len(Path.edges) + 1 /\ Len(stack) = Len(nodeStack)
      /\ Here = stack[Len(stack)] /\ Here.v = nodeStack[Len(stack)]
      /\ nodeStack[Len(stack)] \in Sites /\ Here.cursor \in Nat \ {0}
      /\ Degree(Here.v) = DegreeIn(ask, nodeStack[Len(stack)])
  BY <1>0, StandingAt
<1>2. \A v, i : AdjNth(v, i) = EntryOf(ask, v, i)
  BY DEF AdjNth, EntryOf, Outs, Incs, OutsOf, IncsOf
<1>3. Next1 = EntryOf(ask, nodeStack[Len(stack)], stack[Len(stack)].cursor)
  BY <1>1, <1>2 DEF Next1
<1>4. /\ DegreeIn(ask, nodeStack[Len(stack)]) \in Nat
      /\ stack[Len(stack)].cursor \in 1 .. DegreeIn(ask, nodeStack[Len(stack)])
      /\ stack[Len(stack)].cursor <= DegreeIn(ask, nodeStack[Len(stack)])
  <2>1. DegreeIn(ask, nodeStack[Len(stack)]) \in Nat
    BY <1>1, EntriesAreTyped
  <2>2. Here.cursor <= DegreeIn(ask, nodeStack[Len(stack)])
    BY <1>1 DEF HasNext
  <2> QED
    BY <1>1, <2>1, <2>2
<1>5. Next1 \in [eid : Ties, nbr : Sites, inc : BOOLEAN]
  BY <1>1, <1>3, <1>4, EntriesAreTyped
<1>6. Walkable(Here.v, Next1) <=> MayWalk(ask, nodeStack[Len(stack)], Next1)
  BY <1>1 DEF Walkable, MayWalk
<1>7. [nodes |-> NodesOver(Next1), edges |-> EdgesOver(Next1)] = Ext(Path, Next1)
  BY DEF NodesOver, EdgesOver, Ext, Path
<1>8. Len(Path.nodes) = Len(stack) /\ Path.nodes = nodeStack
  BY <1>1 DEF Path
<1> DEFINE a == Next1
<1> HIDE DEF a
<1>9. /\ WellFormed(Ext(Path, a)) /\ Len(Ext(Path, a).edges) = Len(Path.edges) + 1
      /\ HopAt(Ext(Path, a), Len(Path.edges) + 1) = a
      /\ Along(Ext(Path, a), Path, Len(Path.edges))
      /\ \A i \in 1 .. Len(Path.nodes) : Ext(Path, a).nodes[i] = Path.nodes[i]
      /\ Ext(Path, a).nodes[1] = Path.nodes[1]
      /\ Ext(Path, a).nodes[Len(Path.nodes) + 1] = a.nbr
      /\ \A n \in 0 .. Len(Path.edges) : CutAt(Ext(Path, a), n) = CutAt(Path, n)
  BY <1>1, <1>5, ExtOf DEF a
<1> QED
  BY <1>1, <1>3, <1>4, <1>5, <1>6, <1>7, <1>8, <1>9 DEF a

(* Moving the cursor changes the frame on top and no other. *)
LEMMA OnwardCursor ==
  ASSUME WalkInv, HasNext
  PROVE  /\ Onward \in Seq(Frame) /\ Onward # <<>> /\ Len(Onward) = Len(stack)
         /\ \A i \in 1 .. Len(stack) - 1 : Onward[i] = stack[i]
         /\ Onward[Len(stack)].cursor = stack[Len(stack)].cursor + 1
<1>1. stack \in Seq(Frame) /\ stack # <<>> /\ Len(stack) \in Nat /\ Len(stack) > 0
  BY EmptySeq, LenProperties DEF WalkInv, WalkTypeOK, HasNext
<1> DEFINE n == Len(stack)
           f == [stack[n] EXCEPT !.cursor = @ + 1]
<1>2. n \in 1 .. Len(stack) /\ stack[n] \in Frame
  BY <1>1, ElementOfSeq
<1>3. f \in Frame /\ f.cursor = stack[n].cursor + 1
  BY <1>2 DEF Frame
<1>4. Onward = [stack EXCEPT ![n] = f]
  BY DEF Onward
<1> HIDE DEF n, f
<1>5. /\ Onward \in Seq(Frame) /\ Len(Onward) = Len(stack)
      /\ \A i \in 1 .. Len(stack) : Onward[i] = IF i = n THEN f ELSE stack[i]
  BY <1>1, <1>2, <1>3, <1>4, ExceptSeq
<1>6. \A i \in 1 .. Len(stack) - 1 : i \in 1 .. Len(stack) /\ i # n
  BY <1>1 DEF n
<1>7. Onward[n] = f
  BY <1>2, <1>5
<1> QED
  BY <1>1, <1>3, <1>5, <1>6, <1>7, EmptySeq DEF n

(* The path over the entry under the cursor *)
Extended == Ext(Path, Next1)

(* The walk has not been there yet. *)
LEMMA NotYet ==
  ASSUME WalkInv, HasNext
  PROVE  ~Behind(ask, stack, Path, Extended)
<1> DEFINE n == Len(stack)
           c == stack[n].cursor
           v == nodeStack[n]
           q == Extended
<1>0. stack # <<>>
  BY DEF HasNext
<1>1. /\ n \in Nat /\ n > 0 /\ Len(Path.edges) = n - 1 /\ v \in Sites
  BY <1>0, StandingAt
<1>2. /\ Next1 = EntryOf(ask, v, c) /\ c \in 1 .. DegreeIn(ask, v)
      /\ Len(q.edges) = n /\ HopAt(q, n) = Next1 /\ Along(q, Path, Len(Path.edges))
      /\ \A i \in 1 .. n : q.nodes[i] = nodeStack[i]
  BY UnderTheCursor DEF Extended
<1>3. DegreeIn(ask, v) \in Nat
  BY <1>1, EntriesAreTyped
<1>4. q.nodes[n] = v
  BY <1>1, <1>2
<1> HIDE DEF n, c, v, q
<1>5. ASSUME NEW j \in 1 .. c - 1, EntryOf(ask, q.nodes[n], j) = HopAt(q, n)
      PROVE  FALSE
  <2>1. j \in 1 .. DegreeIn(ask, v) /\ j # c
    BY <1>2, <1>3
  <2>2. EntryOf(ask, v, j) = EntryOf(ask, v, c)
    BY <1>2, <1>4, <1>5
  <2> QED
    BY <1>1, <1>2, <2>1, <2>2, EntryOnce
<1>6. \A i \in 1 .. n : i < n => HopAt(q, i) = HopAt(Path, i)
  BY <1>1, <1>2 DEF Along
<1>7. \A i \in 1 .. n : i < n \/ i = n
  BY <1>1
<1>8. ~(Len(q.edges) < n)
  BY <1>1, <1>2
<1>9. ~Behind(ask, stack, Path, q)
  BY <1>0, <1>5, <1>6, <1>7, <1>8, Zenon DEF Behind, n, c
<1> QED
  BY <1>9 DEF q

(* A path behind the walk after the cursor moved, and not before, starts   *)
(* with the path over the entry.                                           *)
LEMMA ThroughTheEntry ==
  ASSUME WalkInv, HasNext, NEW p \in TakenIn(ask, ask.src[row])
  PROVE  /\ Behind(ask, Onward, Path, p) <=>
              Behind(ask, stack, Path, p) \/ (Len(stack) <= Len(p.edges) /\ Along(p, Extended, Len(stack)))
         /\ Along(p, Extended, Len(stack)) =>
              /\ \A i \in 1 .. Len(stack) : p.nodes[i] = nodeStack[i]
              /\ p.nodes[Len(stack) + 1] = Next1.nbr
              /\ HopAt(p, Len(stack)) = Next1
              /\ Along(p, Path, Len(stack) - 1)
         /\ Along(p, Extended, Len(stack)) /\ Len(p.edges) = Len(stack) => p = Extended
         /\ Along(p, Extended, Len(stack)) /\ Len(stack) <= Len(p.edges) =>
              CutAt(p, Len(stack)) = Extended
<1> DEFINE n == Len(stack)
           c == stack[n].cursor
<1>0. stack # <<>>
  BY DEF HasNext
<1>1. /\ WellFormed(Path) /\ Path.nodes[1] = ask.src[row] /\ n \in Nat /\ n > 0
      /\ Len(Path.edges) = n - 1 /\ stack \in Seq(Frame) /\ Path.nodes = nodeStack
  BY <1>0, StandingAt DEF Path
<1>2. /\ Next1 = EntryOf(ask, nodeStack[n], c)
      /\ WellFormed(Extended) /\ Len(Extended.edges) = n /\ HopAt(Extended, n) = Next1
      /\ Along(Extended, Path, Len(Path.edges)) /\ Extended.nodes[1] = Path.nodes[1]
      /\ Extended.nodes[n + 1] = Next1.nbr /\ \A i \in 1 .. n : Extended.nodes[i] = nodeStack[i]
  BY UnderTheCursor DEF Extended
<1>3. WellFormed(p) /\ p.nodes[1] = ask.src[row] /\ Len(p.edges) \in Nat
  BY TakenAreFormed
<1>4. Along(p, Extended, n) <=> Along(p, Path, n - 1) /\ HopAt(p, n) = Next1
  <2>1. \A i \in 1 .. n - 1 : HopAt(Extended, i) = HopAt(Path, i)
    BY <1>1, <1>2 DEF Along
  <2>2. \A i \in 1 .. n : i \in 1 .. n - 1 \/ i = n
    BY <1>1
  <2>3. n \in 1 .. n /\ \A i \in 1 .. n - 1 : i \in 1 .. n
    BY <1>1
  <2> HIDE DEF n
  <2> QED
    BY <1>2, <2>1, <2>2, <2>3 DEF Along
<1>5. Along(p, Path, n - 1) => p.nodes[n] = nodeStack[n]
  <2>1. n - 1 \in Nat /\ n \in 1 .. n - 1 + 1
    BY <1>1
  <2>2. p.nodes[1] = Path.nodes[1]
    BY <1>1, <1>3
  <2> HIDE DEF n
  <2> QED
    BY <1>1, <2>1, <2>2, SameNodes
<1>6. Behind(ask, Onward, Path, p) <=>
        Behind(ask, stack, Path, p) \/ (n <= Len(p.edges) /\ Along(p, Extended, n))
  <2>1. Behind(ask, Onward, Path, p) <=>
           \/ Behind(ask, stack, Path, p)
           \/ /\ n <= Len(p.edges) /\ Along(p, Path, n - 1)
              /\ EntryOf(ask, p.nodes[n], c) = HopAt(p, n)
    <3>1. /\ Onward \in Seq(Frame) /\ Len(Onward) = Len(stack)
          /\ \A i \in 1 .. Len(stack) - 1 : Onward[i] = stack[i]
          /\ Onward[Len(stack)].cursor = stack[Len(stack)].cursor + 1
      BY OnwardCursor
    <3> HIDE DEF Onward
    <3> QED
      BY <1>0, <1>1, <3>1, BehindOnward
  <2> HIDE DEF n, c
  <2> QED
    BY <1>2, <1>4, <1>5, <2>1
<1>7. ASSUME Along(p, Extended, n)
      PROVE  /\ \A i \in 1 .. n : p.nodes[i] = nodeStack[i]
             /\ p.nodes[n + 1] = Next1.nbr
  <2> HIDE DEF n
  <2>1. \A i \in 1 .. n + 1 : p.nodes[i] = Extended.nodes[i]
    <3>1. p.nodes[1] = Extended.nodes[1]
      BY <1>1, <1>2, <1>3
    <3> QED
      BY <1>1, <1>7, <3>1, SameNodes
  <2> QED
    BY <1>1, <1>2, <2>1
<1>8. ASSUME Along(p, Extended, n), n <= Len(p.edges)
      PROVE  CutAt(p, n) = Extended
  <2>1. n \in 0 .. Len(p.edges) /\ n <= Len(Extended.edges) /\ p.nodes[1] = Extended.nodes[1]
    BY <1>1, <1>2, <1>3, <1>8
  <2>2. CutAt(p, n) = CutAt(Extended, n)
    <3> HIDE DEF n
    <3> QED
      BY <1>2, <1>3, <1>8, <2>1, SameCut
  <2> QED
    BY <1>2, <2>2, WholeCut
<1>9. ASSUME Along(p, Extended, n), Len(p.edges) = n
      PROVE  p = Extended
  <2>1. CutAt(p, n) = Extended
    BY <1>1, <1>8, <1>9
  <2> QED
    BY <1>3, <1>9, <2>1, WholeCut
<1> QED
  BY <1>4, <1>6, <1>7, <1>8, <1>9

(* The hop over the entry is a path the walk may take. *)
LEMMA OntoIsTaken ==
  ASSUME SearchInv, HasNext, Walkable(Here.v, Next1),
         \/ Closes(Next1) /\ AtUnit(Len(edgeStack) + 1)
         \/ ~Closes(Next1) /\ ~Collides(Next1)
  PROVE  Extended \in TakenIn(ask, ask.src[row])
<1> DEFINE n == Len(stack)
<1>0. stack # <<>> /\ WalkInv
  BY DEF HasNext, SearchInv
<1>1. /\ n \in Nat /\ n > 0 /\ Len(Path.edges) = n - 1 /\ Path.nodes[1] = ask.src[row]
      /\ Len(edgeStack) = n - 1 /\ Path.nodes[1] = nodeStack[1]
  BY <1>0, StandingAt DEF Path
<1>2. /\ WellFormed(Extended) /\ Len(Extended.edges) = n
      /\ Extended.nodes[1] = Path.nodes[1] /\ Extended.nodes[n + 1] = Next1.nbr
      /\ \A m \in 0 .. Len(Path.edges) : CutAt(Extended, m) = CutAt(Path, m)
      /\ [nodes |-> NodesOver(Next1), edges |-> EdgesOver(Next1)] = Extended
  BY <1>0, UnderTheCursor DEF Extended
<1>3. Extended.nodes = NodesOver(Next1) /\ Extended.edges = EdgesOver(Next1)
  <2>1. /\ Extended.nodes = [nodes |-> NodesOver(Next1), edges |-> EdgesOver(Next1)].nodes
        /\ Extended.edges = [nodes |-> NodesOver(Next1), edges |-> EdgesOver(Next1)].edges
    BY <1>2
  <2> QED
    BY <2>1
<1>4. PathIn(ask, Extended.nodes, Extended.edges)
  BY <1>0, <1>3, HopLengthens
<1>5. Kept(ask.mode, Extended.nodes, Extended.edges)
  BY <1>0, <1>3, HopKeepsMode
<1>6. \A m \in 0 .. Len(Extended.edges) - 1 : DescendsIn(ask, CutAt(Extended, m))
  <2>1. FramesFit(ask, stack, Path)
    BY <1>0 DEF SearchInv
  <2>2. \A m \in 0 .. Len(Extended.edges) - 1 : m \in 0 .. Len(Path.edges)
    BY <1>1, <1>2
  <2> QED
    BY <1>2, <2>1, <2>2 DEF FramesFit
<1>7. ask.mode = "simple" /\ Extended.nodes[Len(Extended.nodes)] = Extended.nodes[1] => Len(Extended.edges) % ask.unit = 0
  <2>1. Len(Extended.nodes) = n + 1
    BY <1>2 DEF WellFormed
  <2>2. ask.mode = "simple" /\ Extended.nodes[Len(Extended.nodes)] = Extended.nodes[1] => Closes(Next1)
    BY <1>1, <1>2, <2>1 DEF Closes
  <2>3. Len(edgeStack) + 1 = n
    BY <1>1
  <2> QED
    BY <1>2, <2>2, <2>3 DEF AtUnit
<1>8. Extended \in PathRec
  BY <1>2 DEF WellFormed
<1>9. Extended.nodes[1] = ask.src[row]
  BY <1>1, <1>2
<1>10. TakesIn(ask, Extended)
  BY <1>5, <1>6, <1>7 DEF TakesIn
<1> QED
  BY <1>4, <1>8, <1>9, <1>10 DEF TakenIn

(* No path goes over an entry that is passed over. *)
LEMMA NoneOver ==
  ASSUME WalkInv, HasNext,
         ~Walkable(Here.v, Next1) \/ (~Closes(Next1) /\ Collides(Next1)),
         NEW p \in TakenIn(ask, ask.src[row]), Len(stack) <= Len(p.edges),
         Along(p, Extended, Len(stack))
  PROVE  FALSE
<1> DEFINE n == Len(stack)
<1>0. stack # <<>>
  BY DEF HasNext
<1>1. /\ n \in Nat /\ n > 0 /\ Len(edgeStack) = n - 1 /\ Len(nodeStack) = n
      /\ Path.edges = edgeStack
  BY <1>0, StandingAt DEF Path
<1>2. /\ \A i \in 1 .. n : p.nodes[i] = nodeStack[i]
      /\ p.nodes[n + 1] = Next1.nbr /\ HopAt(p, n) = Next1
      /\ Along(p, Path, n - 1)
  BY ThroughTheEntry
<1>3. /\ WellFormed(p) /\ PathIn(ask, p.nodes, p.edges) /\ Kept(ask.mode, p.nodes, p.edges)
      /\ Len(p.edges) \in Nat /\ Len(p.nodes) = Len(p.edges) + 1
  BY TakenAreFormed DEF TakesIn, WellFormed
<1>4. n \in 1 .. Len(p.edges)
  BY <1>1, <1>3
<1>5. CASE ~Walkable(Here.v, Next1)
  <2>1. IsHop(ask, p.nodes[n], HopAt(p, n))
    BY <1>3, <1>4 DEF PathIn, HopAt
  <2>2. p.nodes[n] = nodeStack[n]
    BY <1>1, <1>2
  <2>3. MayWalk(ask, nodeStack[n], Next1)
    BY <1>2, <2>1, <2>2 DEF IsHop
  <2> QED
    BY <1>5, <2>3, UnderTheCursor
<1>6. CASE ~Closes(Next1) /\ Collides(Next1)
  <2>1. used \in Seq(Ties \cup Sites) /\ DOMAIN used = 1 .. Len(used)
    BY LenProperties DEF WalkInv, WalkTypeOK
  <2>2. CASE ask.mode = "trail" /\ Next1.eid \in Range(used)
    <3>1. PICK i \in 1 .. Len(used) : used[i] = Next1.eid
      BY <2>1, <2>2 DEF Range
    <3>2. Len(used) = Len(edgeStack) /\ used[i] = edgeStack[i].eid
      BY <2>1, <2>2 DEF WalkInv, StacksAgree
    <3>3. i \in 1 .. n - 1 /\ i \in 1 .. Len(p.edges) /\ i # n
      BY <1>1, <1>4, <3>1, <3>2
    <3>4. p.edges[i].eid = edgeStack[i].eid
      <4>1. HopAt(p, i) = HopAt(Path, i)
        BY <1>2, <3>3 DEF Along
      <4>2. HopAt(p, i).eid = p.edges[i].eid /\ HopAt(Path, i).eid = edgeStack[i].eid
        BY <1>1 DEF HopAt
      <4> QED
        BY <4>1, <4>2
    <3>5. p.edges[n].eid = Next1.eid
      <4>1. HopAt(p, n).eid = p.edges[n].eid
        BY DEF HopAt
      <4> QED
        BY <1>2, <4>1
    <3> QED
      BY <1>3, <1>4, <2>2, <3>1, <3>2, <3>3, <3>4, <3>5 DEF Kept
  <2>3. CASE ask.mode \in {"simple", "acyclic"} /\ Next1.nbr \in Range(used)
    <3>1. PICK i \in 1 .. Len(used) : used[i] = Next1.nbr
      BY <2>1, <2>3 DEF Range
    <3>2. Len(used) = n /\ used[i] = nodeStack[i]
      BY <1>1, <2>1, <2>3 DEF WalkInv, StacksAgree, NodeUnique
    <3>3. i \in 1 .. n /\ p.nodes[i] = p.nodes[n + 1]
      BY <1>2, <3>1, <3>2
    <3>4. i \in 1 .. Len(p.nodes) /\ n + 1 \in 1 .. Len(p.nodes) /\ i < n + 1 /\ i # n + 1
      BY <1>1, <1>3, <1>4, <3>3
    <3>5. CASE ask.mode = "acyclic"
      BY <1>3, <3>3, <3>4, <3>5 DEF Kept
    <3>6. CASE ask.mode = "simple"
      <4>1. i = 1
        BY <1>3, <3>3, <3>4, <3>6 DEF Kept
      <4> QED
        BY <1>6, <3>1, <3>2, <3>6, <4>1 DEF Closes
    <3> QED
      BY <2>3, <3>5, <3>6
  <2> QED
    BY <1>6, <2>2, <2>3 DEF Collides, NodeUnique
<1> QED
  BY <1>5, <1>6

(* The cursor alone moves: the frames still fit. *)
LEMMA OnwardFits ==
  ASSUME SearchInv, HasNext
  PROVE  FramesFit(ask, Onward, Path)
<1>1. stack # <<>> /\ WalkInv /\ FramesFit(ask, stack, Path)
  BY DEF HasNext, SearchInv
<1>2. Len(Onward) = Len(stack) /\ \A i \in 1 .. Len(stack) - 1 : Onward[i] = stack[i]
  BY <1>1, OnwardCursor
<1> HIDE DEF Onward
<1> QED
  BY <1>1, <1>2 DEF FramesFit

(* An entry passed over: no path goes over it. *)
LEMMA PassOverSearch == SearchInv /\ PassOver => SearchInv'
<1> SUFFICES ASSUME SearchInv, PassOver PROVE SearchInv'
  OBVIOUS
<1>1. /\ HasNext /\ stack # <<>> /\ stack' = Onward /\ ask' = ask /\ row' = row /\ rows' = rows
      /\ steps' = steps /\ blown' = blown /\ nodeStack' = nodeStack /\ edgeStack' = edgeStack
      /\ ~Walkable(Here.v, Next1) \/ (~Closes(Next1) /\ Collides(Next1))
  BY DEF PassOver, HasNext
<1>2. WalkInv /\ WalkInv'
  BY PassOverInv DEF SearchInv
<1>3. NewPath = Path
  BY <1>1 DEF NewPath, Path
<1>4. \A p \in TakenIn(ask, ask.src[row]) :
        Behind(ask, Onward, Path, p) <=> Behind(ask, stack, Path, p)
  BY <1>1, <1>2, ThroughTheEntry, NoneOver
<1>5. Walked(ask, ask.src[row], stack', NewPath) = Walked(ask, ask.src[row], stack, Path)
  BY <1>1, <1>3, <1>4 DEF Walked
<1>6. FramesFit(ask, stack', NewPath)
  BY <1>1, <1>3, OnwardFits
<1> HIDE DEF Onward
<1> QED
  BY <1>1, <1>2, <1>5, <1>6, NoPathMore

(* What is emitted is the row of the path over the entry. *)
LEMMA OntoEmitted ==
  ASSUME WalkInv, HasNext, rows' = Emitted(NodesOver(Next1), EdgesOver(Next1))
  PROVE  /\ rows' = IF EmitsIn(ask, Extended) THEN Append(rows, RowOf(row, Extended)) ELSE rows
         /\ DescendsFrom(NodesOver(Next1), EdgesOver(Next1)) <=> DescendsIn(ask, Extended)
<1>1. WellFormed(Extended) /\ [nodes |-> NodesOver(Next1), edges |-> EdgesOver(Next1)] = Extended
  BY UnderTheCursor DEF Extended
<1>2. Extended.nodes = NodesOver(Next1) /\ Extended.edges = EdgesOver(Next1)
  <2>1. /\ Extended.nodes = [nodes |-> NodesOver(Next1), edges |-> EdgesOver(Next1)].nodes
        /\ Extended.edges = [nodes |-> NodesOver(Next1), edges |-> EdgesOver(Next1)].edges
    BY <1>1
  <2> QED
    BY <2>1
<1>3. /\ EmitsAt(Extended.nodes, Extended.edges) <=> EmitsIn(ask, Extended)
      /\ DescendsFrom(Extended.nodes, Extended.edges) <=> DescendsIn(ask, Extended)
  BY <1>1, SameTests
<1>4. Emitted(NodesOver(Next1), EdgesOver(Next1)) =
        IF EmitsAt(Extended.nodes, Extended.edges) THEN Append(rows, RowOf(row, Extended)) ELSE rows
  BY <1>2 DEF Emitted, RowOf
<1> QED
  BY <1>2, <1>3, <1>4

(* A hop is counted once, and a source is blown only by its own hops. *)
LEMMA HopNoted ==
  ASSUME WalkInv, NEW counts \in BOOLEAN, NoteStep(counts)
  PROVE  /\ blown' => blown \/ steps' > ask.limit
         /\ steps' <= steps + 1
         /\ ~counts => steps' = steps
<1>1. steps \in Nat
  BY DEF WalkInv, WalkTypeOK
<1>2. steps' = (IF counts /\ ask.sink # "distinct" THEN steps + 1 ELSE steps)
  BY DEF NoteStep, StepsAfter
<1>3. blown' <=> blown \/ steps' > ask.limit
  BY DEF NoteStep, BlownAfter
<1> QED
  BY <1>1, <1>2, <1>3

(* Of the paths that start with the hop over the entry only the hop itself *)
(* is left, where no path goes on.                                         *)
LEMMA OnlyOnto ==
  ASSUME SearchInv, WalkInv', HasNext,
         ask' = ask, row' = row, stack' = Onward, nodeStack' = nodeStack, edgeStack' = edgeStack,
         rows' = Emitted(NodesOver(Next1), EdgesOver(Next1)),
         steps' <= steps + 1, blown' => blown \/ steps' > ask.limit,
         Extended \in TakenIn(ask, ask.src[row]),
         \A p \in TakenIn(ask, ask.src[row]) :
            Len(stack) <= Len(p.edges) /\ Along(p, Extended, Len(stack)) => Len(p.edges) = Len(stack)
  PROVE  SearchInv'
<1> DEFINE n == Len(stack)
           T == TakenIn(ask, ask.src[row])
<1>1. WalkInv /\ stack # <<>>
  BY DEF SearchInv, HasNext
<1>2. n \in Nat /\ n > 0 /\ Len(Extended.edges) = n /\ Along(Extended, Extended, n)
  BY <1>1, StandingAt, UnderTheCursor DEF Extended, Along
<1>3. NewPath = Path
  BY DEF NewPath, Path
<1>4. ASSUME NEW p \in T
      PROVE  Behind(ask, Onward, Path, p) <=> Behind(ask, stack, Path, p) \/ p = Extended
  <2>1. Behind(ask, Onward, Path, p) <=>
          Behind(ask, stack, Path, p) \/ (n <= Len(p.edges) /\ Along(p, Extended, n))
    BY <1>1, ThroughTheEntry
  <2>2. n <= Len(p.edges) /\ Along(p, Extended, n) => p = Extended
    BY <1>1, ThroughTheEntry
  <2>3. p = Extended => n <= Len(p.edges) /\ Along(p, Extended, n)
    BY <1>2
  <2> QED
    BY <2>1, <2>2, <2>3
<1>5. Walked(ask, ask.src[row], stack', NewPath) = Walked(ask, ask.src[row], stack, Path) \cup {Extended}
  BY <1>3, <1>4 DEF Walked
<1>6. Extended \notin Walked(ask, ask.src[row], stack, Path)
  BY <1>1, NotYet DEF Walked
<1>7. FramesFit(ask, stack', NewPath)
  BY <1>3, OnwardFits
<1>8. rows' = IF EmitsIn(ask, Extended) THEN Append(rows, RowOf(row, Extended)) ELSE rows
  BY <1>1, OntoEmitted
<1>9. stack' # <<>>
  BY <1>1, OnwardCursor
<1>10. Len(Extended.edges) # 0
  BY <1>2
<1> HIDE DEF Onward, Extended
<1> QED
  BY <1>1, <1>5, <1>6, <1>7, <1>8, <1>9, <1>10, OnePathMore

(* A hop taken and not gone on from: its path is the only one over it. *)
LEMMA TurnBackSearch == SearchInv /\ TurnBack => SearchInv'
<1> SUFFICES ASSUME SearchInv, TurnBack PROVE SearchInv'
  OBVIOUS
<1>1. /\ HasNext /\ Walkable(Here.v, Next1) /\ ~Closes(Next1) /\ ~Collides(Next1)
      /\ NoteStep(TRUE) /\ ask' = ask /\ row' = row
      /\ ~DescendsFrom(NodesOver(Next1), EdgesOver(Next1))
      /\ rows' = Emitted(NodesOver(Next1), EdgesOver(Next1))
      /\ stack' = Onward /\ nodeStack' = nodeStack /\ edgeStack' = edgeStack
  BY DEF TurnBack, TakesHop
<1>2. WalkInv /\ WalkInv'
  BY TurnBackInv DEF SearchInv
<1>3. steps' <= steps + 1 /\ (blown' => blown \/ steps' > ask.limit)
  BY <1>1, <1>2, HopNoted
<1>4. Extended \in TakenIn(ask, ask.src[row])
  BY <1>1, OntoIsTaken
<1>5. ~DescendsIn(ask, Extended)
  BY <1>1, <1>2, OntoEmitted
<1>6. ASSUME NEW p \in TakenIn(ask, ask.src[row]), Len(stack) <= Len(p.edges),
             Along(p, Extended, Len(stack))
      PROVE  Len(p.edges) = Len(stack)
  <2> SUFFICES ASSUME Len(p.edges) # Len(stack) PROVE FALSE
    OBVIOUS
  <2>1. CutAt(p, Len(stack)) = Extended
    BY <1>1, <1>2, <1>6, ThroughTheEntry
  <2>2. Len(p.edges) \in Nat /\ TakesIn(ask, p)
    BY TakenAreFormed
  <2>3. Len(stack) \in Nat
    BY <1>1, <1>2, StandingAt DEF HasNext
  <2>4. Len(stack) \in 0 .. Len(p.edges) - 1
    BY <1>6, <2>2, <2>3
  <2>5. DescendsIn(ask, CutAt(p, Len(stack)))
    BY <2>2, <2>4 DEF TakesIn
  <2> QED
    BY <1>5, <2>1, <2>5
<1> QED
  BY <1>1, <1>2, <1>3, <1>4, <1>6, OnlyOnto

(* A simple path back at its source: no path goes on from there. *)
LEMMA CloseCycleSearch == SearchInv /\ CloseCycle => SearchInv'
<1> SUFFICES ASSUME SearchInv, CloseCycle PROVE SearchInv'
  OBVIOUS
<1> DEFINE counts == AtUnit(Len(edgeStack) + 1)
           n == Len(stack)
<1>1. /\ HasNext /\ Walkable(Here.v, Next1) /\ Closes(Next1)
      /\ NoteStep(counts) /\ ask' = ask /\ row' = row
      /\ rows' = Emitted(NodesOver(Next1), EdgesOver(Next1))
      /\ stack' = Onward /\ nodeStack' = nodeStack /\ edgeStack' = edgeStack
      /\ stack # <<>>
  BY DEF CloseCycle, HasNext
<1>2. WalkInv /\ WalkInv'
  BY CloseCycleInv DEF SearchInv
<1>3. /\ n \in Nat /\ n > 0 /\ Len(edgeStack) + 1 = n /\ Path.nodes[1] = nodeStack[1]
      /\ Path.nodes[1] = ask.src[row]
  BY <1>1, <1>2, StandingAt DEF Path
<1>4. ask.mode = "simple" /\ Next1.nbr = nodeStack[1]
  BY <1>1 DEF Closes
<1>5. counts \in BOOLEAN
  BY DEF AtUnit
<1> HIDE DEF counts
<1>6. /\ steps' <= steps + 1 /\ (blown' => blown \/ steps' > ask.limit)
      /\ ~counts => steps' = steps
  BY <1>1, <1>2, <1>5, HopNoted
(* a simple path that is back at its source does not go on *)
<1>7. ASSUME NEW p \in TakenIn(ask, ask.src[row]), n <= Len(p.edges), Along(p, Extended, n)
      PROVE  Len(p.edges) = n /\ counts
  <2>1. /\ p.nodes[n + 1] = Next1.nbr /\ \A i \in 1 .. n : p.nodes[i] = nodeStack[i]
    BY <1>1, <1>2, <1>7, ThroughTheEntry
  <2>2. /\ Len(p.edges) \in Nat /\ TakesIn(ask, p) /\ Len(p.nodes) = Len(p.edges) + 1
    BY TakenAreFormed DEF WellFormed
  <2>3. 1 \in 1 .. Len(p.nodes) /\ n + 1 \in 1 .. Len(p.nodes) /\ 1 < n + 1
    BY <1>3, <1>7, <2>2
  <2>4. p.nodes[1] = p.nodes[n + 1]
    BY <1>3, <1>4, <2>1
  <2>5. n + 1 = Len(p.nodes)
    BY <1>4, <2>2, <2>3, <2>4 DEF TakesIn, Kept
  <2>6. Len(p.edges) = n /\ Len(p.edges) # 0
    BY <1>3, <2>2, <2>5
  <2>7. Len(p.edges) % ask.unit = 0
    BY <1>4, <2>2, <2>4, <2>5, <2>6 DEF TakesIn
  <2> QED
    BY <1>3, <2>6, <2>7 DEF AtUnit, counts
<1>8. CASE counts
  <2>1. Extended \in TakenIn(ask, ask.src[row])
    BY <1>1, <1>8, OntoIsTaken DEF counts
  <2> QED
    BY <1>1, <1>2, <1>6, <1>7, <2>1, OnlyOnto
<1>9. CASE ~counts
  <2>1. NewPath = Path
    BY <1>1 DEF NewPath, Path
  <2>2. \A p \in TakenIn(ask, ask.src[row]) :
          Behind(ask, Onward, Path, p) <=> Behind(ask, stack, Path, p)
    BY <1>1, <1>2, <1>7, <1>9, ThroughTheEntry
  <2>3. Walked(ask, ask.src[row], stack', NewPath) = Walked(ask, ask.src[row], stack, Path)
    BY <1>1, <2>1, <2>2 DEF Walked
  <2>4. FramesFit(ask, stack', NewPath)
    BY <1>1, <2>1, OnwardFits
  <2>5. rows' = rows
    <3>1. WellFormed(Extended) /\ Len(Extended.edges) = n
      BY <1>1, <1>2, UnderTheCursor DEF Extended
    <3>2. ~EmitsIn(ask, Extended)
      BY <1>3, <1>9, <3>1 DEF EmitsIn, AtUnit, counts
    <3> QED
      BY <1>1, <1>2, <3>2, OntoEmitted
  <2> HIDE DEF Onward
  <2> QED
    BY <1>1, <1>2, <1>6, <1>9, <2>3, <2>4, <2>5, NoPathMore
<1> QED
  BY <1>8, <1>9

(* A hop gone on from: only its own path is behind the walk yet. *)
LEMMA GoDeeperSearch == SearchInv /\ GoDeeper => SearchInv'
<1> SUFFICES ASSUME SearchInv, GoDeeper PROVE SearchInv'
  OBVIOUS
<1> DEFINE n == Len(stack)
           top == [v |-> Next1.nbr, cursor |-> 1]
<1>1. /\ HasNext /\ stack # <<>> /\ Walkable(Here.v, Next1) /\ ~Closes(Next1) /\ ~Collides(Next1)
      /\ NoteStep(TRUE) /\ ask' = ask /\ row' = row
      /\ DescendsFrom(NodesOver(Next1), EdgesOver(Next1))
      /\ rows' = Emitted(NodesOver(Next1), EdgesOver(Next1))
      /\ stack' = Append(Onward, top)
      /\ nodeStack' = NodesOver(Next1) /\ edgeStack' = EdgesOver(Next1)
  BY DEF GoDeeper, TakesHop, HasNext
<1>2. WalkInv /\ WalkInv'
  BY GoDeeperInv DEF SearchInv
<1>3. steps' <= steps + 1 /\ (blown' => blown \/ steps' > ask.limit)
  BY <1>1, <1>2, HopNoted
<1>4. Extended \in TakenIn(ask, ask.src[row])
  BY <1>1, OntoIsTaken
<1>5. DescendsIn(ask, Extended)
  BY <1>1, <1>2, OntoEmitted
<1>6. NewPath = Extended
  <2>1. [nodes |-> NodesOver(Next1), edges |-> EdgesOver(Next1)] = Extended
    BY <1>1, <1>2, UnderTheCursor DEF Extended
  <2> QED
    BY <1>1, <2>1 DEF NewPath
<1>7. /\ WellFormed(Path) /\ n \in Nat /\ n > 0 /\ Len(Path.edges) = n - 1
      /\ stack \in Seq(Frame) /\ Path.nodes = nodeStack /\ Path.nodes[1] = ask.src[row]
  BY <1>1, <1>2, StandingAt DEF Path
<1>8. /\ Next1 = EntryOf(ask, nodeStack[n], stack[n].cursor)
      /\ stack[n].cursor <= DegreeIn(ask, nodeStack[n])
      /\ WellFormed(Extended) /\ Len(Extended.edges) = n /\ HopAt(Extended, n) = Next1
      /\ Along(Extended, Path, Len(Path.edges)) /\ Extended.nodes[1] = Path.nodes[1]
      /\ \A i \in 1 .. n : Extended.nodes[i] = nodeStack[i]
      /\ \A m \in 0 .. Len(Path.edges) : CutAt(Extended, m) = CutAt(Path, m)
  BY <1>1, <1>2, UnderTheCursor DEF Extended
<1>9. /\ Onward \in Seq(Frame) /\ Len(Onward) = n
      /\ \A i \in 1 .. n - 1 : Onward[i] = stack[i]
      /\ Onward[n].cursor = stack[n].cursor + 1
  BY <1>1, <1>2, OnwardCursor
<1>10. stack[n].cursor \in Nat \ {0}
  <2>1. n \in 1 .. Len(stack)
    BY <1>7
  <2>2. stack[n] \in Frame
    BY <1>7, <2>1, ElementOfSeq
  <2> QED
    BY <2>2 DEF Frame
<1>11. /\ stack' \in Seq(Frame) /\ Len(stack') = n + 1 /\ stack' # <<>>
       /\ \A i \in 1 .. n - 1 : stack'[i] = stack[i]
       /\ stack'[n].cursor = stack[n].cursor + 1
       /\ stack'[n + 1].cursor = 1
  <2>1. stack' \in Seq(Frame)
    BY <1>2 DEF WalkInv, WalkTypeOK
  <2>2. top.cursor = 1
    OBVIOUS
  <2> HIDE DEF Onward, top
  <2>3. \A i \in 1 .. Len(Onward) : i \in DOMAIN Onward
    BY <1>9, LenProperties
  <2>4. /\ Len(stack') = n + 1 /\ \A i \in 1 .. n : stack'[i] = Onward[i]
        /\ stack'[n + 1] = top
    BY <1>1, <1>7, <1>9, <2>1
  <2>5. n \in 1 .. n /\ \A i \in 1 .. n - 1 : i \in 1 .. n
    BY <1>7
  <2>6. stack' # <<>>
    BY <1>7, <2>1, <2>4, EmptySeq
  <2> QED
    BY <1>9, <2>1, <2>2, <2>4, <2>5, <2>6
<1> HIDE DEF n, Extended, Onward
<1>12. ASSUME NEW p \in TakenIn(ask, ask.src[row])
       PROVE  Behind(ask, stack', Extended, p) <=> Behind(ask, stack, Path, p) \/ p = Extended
  <2>1. WellFormed(p) /\ p.nodes[1] = Path.nodes[1]
    BY <1>7, TakenAreFormed
  <2>2. /\ Len(stack') = Len(stack) + 1
        /\ \A i \in 1 .. Len(stack) - 1 : stack'[i] = stack[i]
        /\ stack'[Len(stack)].cursor = stack[Len(stack)].cursor + 1
        /\ stack'[Len(stack) + 1].cursor = 1
    BY <1>11 DEF n
  <2>3. /\ Len(stack) = Len(Path.edges) + 1 /\ Len(Extended.edges) = Len(stack)
        /\ stack[Len(stack)].cursor <= DegreeIn(ask, Path.nodes[Len(stack)])
        /\ HopAt(Extended, Len(stack)) = EntryOf(ask, Path.nodes[Len(stack)], stack[Len(stack)].cursor)
    BY <1>7, <1>8 DEF n
  <2> DEFINE st2 == stack'
  <2>4. st2 \in Seq(Frame) /\ stack \in Seq(Frame)
    BY <1>7, <1>11
  <2>5. /\ Len(st2) = Len(stack) + 1
        /\ \A i \in 1 .. Len(stack) - 1 : st2[i] = stack[i]
        /\ st2[Len(stack)].cursor = stack[Len(stack)].cursor + 1
        /\ st2[Len(stack) + 1].cursor = 1
    BY <2>2
  <2> HIDE DEF st2
  <2>6. /\ stack # <<>> /\ WellFormed(Path) /\ WellFormed(Extended)
        /\ Extended.nodes[1] = Path.nodes[1] /\ Along(Extended, Path, Len(Path.edges))
    BY <1>1, <1>7, <1>8
  <2>7. Behind(ask, st2, Extended, p) <=> Behind(ask, stack, Path, p) \/ p = Extended
    <3>1. Deeper(ask, stack, st2, Path, Extended)
      BY <2>3, <2>4, <2>5, <2>6 DEF Deeper
    <3> QED
      BY <2>1, <3>1, BehindDeeper
  <2> QED
    BY <2>7 DEF st2
<1>13. Walked(ask, ask.src[row], stack', NewPath) = Walked(ask, ask.src[row], stack, Path) \cup {Extended}
  BY <1>4, <1>6, <1>12 DEF Walked
<1>14. Extended \notin Walked(ask, ask.src[row], stack, Path)
  BY <1>1, <1>2, NotYet DEF Walked
<1>15. FramesFit(ask, stack', NewPath)
  <2>1. FramesFit(ask, stack, Path)
    BY <1>1 DEF SearchInv
  <2>2. ASSUME NEW i \in 1 .. Len(stack') - 1
        PROVE  stack'[i].cursor > 1 /\ EntryOf(ask, Extended.nodes[i], stack'[i].cursor - 1) = HopAt(Extended, i)
    <3>1. CASE i = n
      <4>1. stack'[i].cursor > 1 /\ stack'[i].cursor - 1 = stack[n].cursor
        BY <1>10, <1>11, <3>1
      <4>2. Extended.nodes[n] = nodeStack[n]
        BY <1>7, <1>8
      <4> QED
        BY <1>8, <3>1, <4>1, <4>2
    <3>2. CASE i # n
      <4>1. i \in 1 .. n - 1 /\ i \in 1 .. n /\ i \in 1 .. Len(stack) - 1 /\ i \in 1 .. Len(Path.edges)
        BY <1>7, <1>11, <2>2, <3>2 DEF n
      <4>2. HopAt(Extended, i) = HopAt(Path, i) /\ Extended.nodes[i] = Path.nodes[i]
        BY <1>7, <1>8, <4>1 DEF Along
      <4> QED
        BY <1>11, <2>1, <4>1, <4>2 DEF FramesFit
    <3> QED
      BY <3>1, <3>2
  <2>3. ASSUME NEW m \in 0 .. Len(Extended.edges)
        PROVE  DescendsIn(ask, CutAt(Extended, m))
    <3>1. CASE m = n
      BY <1>5, <1>8, <3>1, WholeCut
    <3>2. CASE m # n
      <4>1. m \in 0 .. Len(Path.edges)
        BY <1>7, <1>8, <2>3, <3>2
      <4> QED
        BY <1>8, <2>1, <4>1 DEF FramesFit
    <3> QED
      BY <3>1, <3>2
  <2> QED
    BY <1>6, <2>2, <2>3 DEF FramesFit
<1>16. rows' = IF EmitsIn(ask, Extended) THEN Append(rows, RowOf(row, Extended)) ELSE rows
  BY <1>1, <1>2, OntoEmitted
<1>17. Len(Extended.edges) # 0
  BY <1>7, <1>8
<1> QED
  BY <1>1, <1>2, <1>3, <1>4, <1>11, <1>13, <1>14, <1>15, <1>16, <1>17, OnePathMore

(* A frame that is done: what went through it is behind its parent. *)
LEMMA BacktrackSearch == SearchInv /\ Backtrack => SearchInv'
<1> SUFFICES ASSUME SearchInv, Backtrack PROVE SearchInv'
  OBVIOUS
<1> DEFINE n == Len(stack)
<1>1. /\ stack # <<>> /\ ~HasNext /\ ask' = ask /\ row' = row /\ rows' = rows
      /\ steps' = steps /\ blown' = blown
      /\ stack' = Front(stack) /\ nodeStack' = Front(nodeStack)
      /\ edgeStack' = IF edgeStack = <<>> THEN <<>> ELSE Front(edgeStack)
  BY DEF Backtrack
<1>2. WalkInv /\ WalkInv' /\ FramesFit(ask, stack, Path)
  BY <1>1, BacktrackInv DEF SearchInv
<1>3. /\ WellFormed(Path) /\ n \in Nat /\ n > 0 /\ Len(Path.edges) = n - 1
      /\ stack \in Seq(Frame) /\ Path.nodes = nodeStack /\ Path.edges = edgeStack
      /\ Path.nodes[1] = ask.src[row] /\ Len(nodeStack) = n
      /\ Here = stack[n] /\ stack[n].cursor \in Nat \ {0}
      /\ Degree(Here.v) = DegreeIn(ask, nodeStack[n]) /\ nodeStack[n] \in Sites
  BY <1>1, <1>2, StandingAt DEF Path
<1>4. stack[n].cursor > DegreeIn(ask, nodeStack[n])
  <2>1. ~(stack[n].cursor <= DegreeIn(ask, nodeStack[n]))
    BY <1>1, <1>3 DEF HasNext
  <2>2. DegreeIn(ask, nodeStack[n]) \in Nat
    BY <1>3, EntriesAreTyped
  <2> QED
    BY <1>3, <2>1, <2>2
<1>5. /\ Front(stack) \in Seq(Frame) /\ Len(Front(stack)) = n - 1
      /\ \A i \in 1 .. n - 1 : Front(stack)[i] = stack[i]
  BY <1>1, <1>3, FrontOf
<1>6. nodeStack \in Seq(Sites) /\ edgeStack \in Seq(Traversed) /\ nodeStack # <<>>
  BY <1>3, EmptySeq DEF WalkInv, WalkTypeOK, WellFormed, PathRec
<1>7. /\ Len(nodeStack') = n - 1 /\ \A i \in 1 .. n - 1 : nodeStack'[i] = nodeStack[i]
  BY <1>1, <1>3, <1>6, FrontOf
<1>8. /\ Len(edgeStack') = IF n = 1 THEN 0 ELSE n - 2
      /\ \A i \in 1 .. n - 2 : edgeStack'[i] = edgeStack[i]
  <2>1. /\ Len(edgeStack') = IF Len(edgeStack) = 0 THEN 0 ELSE Len(edgeStack) - 1
        /\ \A i \in 1 .. Len(edgeStack') : edgeStack'[i] = edgeStack[i]
    BY <1>1, <1>6, OneLess
  <2>2. Len(edgeStack) = n - 1
    BY <1>3
  <2>3. Len(edgeStack') = IF n = 1 THEN 0 ELSE n - 2
    BY <1>3, <2>1, <2>2
  <2>4. \A i \in 1 .. n - 2 : i \in 1 .. Len(edgeStack')
    BY <1>3, <2>3
  <2> QED
    BY <2>1, <2>3, <2>4
<1>9. NewPath.nodes = nodeStack' /\ NewPath.edges = edgeStack'
  BY DEF NewPath
<1>10. Along(NewPath, Path, n - 2)
  <2> SUFFICES ASSUME NEW i \in 1 .. n - 2 PROVE HopAt(NewPath, i) = HopAt(Path, i)
    BY DEF Along
  <2>1. i \in 1 .. n - 1 /\ i + 1 \in 1 .. n - 1
    BY <1>3
  <2> QED
    BY <1>3, <1>7, <1>8, <1>9, <2>1 DEF HopAt
<1> DEFINE st2 == Front(stack)
<1> HIDE DEF n, st2
<1>11. ASSUME NEW p \in TakenIn(ask, ask.src[row])
       PROVE  Behind(ask, st2, NewPath, p) <=> Behind(ask, stack, Path, p)
  <2>1. WellFormed(p) /\ p.nodes[1] = Path.nodes[1] /\ PathIn(ask, p.nodes, p.edges)
    BY <1>3, TakenAreFormed
  <2>2. /\ Len(st2) = Len(stack) - 1 /\ \A i \in 1 .. Len(stack) - 1 : st2[i] = stack[i]
        /\ st2 \in Seq(Frame) /\ stack \in Seq(Frame)
    BY <1>3, <1>5 DEF n, st2
  <2>3. /\ Len(stack) = Len(Path.edges) + 1 /\ Along(NewPath, Path, Len(stack) - 2)
        /\ stack[Len(stack)].cursor > DegreeIn(ask, Path.nodes[Len(stack)])
    BY <1>3, <1>4, <1>10 DEF n
  <2>4. \A i \in 1 .. Len(stack) - 1 :
            /\ stack[i].cursor > 1
            /\ EntryOf(ask, Path.nodes[i], stack[i].cursor - 1) = HopAt(Path, i)
    BY <1>2 DEF FramesFit
  <2> QED
    BY <1>1, <1>3, <2>1, <2>2, <2>3, <2>4, BehindBack
<1>12. Walked(ask, ask.src[row], stack', NewPath) = Walked(ask, ask.src[row], stack, Path)
  BY <1>1, <1>11 DEF Walked, st2
<1>13. ASSUME stack' # <<>>
       PROVE  FramesFit(ask, stack', NewPath)
  <2>1. n >= 2 /\ Len(edgeStack') = n - 2 /\ Len(stack') = n - 1
    <3>1. Len(stack') = n - 1 /\ stack' \in Seq(Frame)
      BY <1>1, <1>5
    <3>2. n - 1 # 0
      BY <1>13, <3>1, EmptySeq
    <3> QED
      BY <1>3, <1>8, <3>1, <3>2
  <2>2. WellFormed(NewPath)
    <3>1. nodeStack' \in Seq(Sites) /\ edgeStack' \in Seq(Traversed)
      BY <1>2 DEF WalkInv, WalkTypeOK
    <3>2. Len(nodeStack') = Len(edgeStack') + 1
      BY <1>3, <1>7, <2>1
    <3> QED
      BY <3>1, <3>2 DEF WellFormed, PathRec, NewPath
  <2>3. ASSUME NEW i \in 1 .. Len(stack') - 1
        PROVE  stack'[i].cursor > 1 /\ EntryOf(ask, NewPath.nodes[i], stack'[i].cursor - 1) = HopAt(NewPath, i)
    <3>1. i \in 1 .. n - 2 /\ i \in 1 .. n - 1 /\ i \in 1 .. Len(stack) - 1
      BY <1>3, <2>1, <2>3 DEF n
    <3>2. HopAt(NewPath, i) = HopAt(Path, i) /\ NewPath.nodes[i] = Path.nodes[i]
      BY <1>3, <1>7, <1>9, <1>10, <3>1 DEF Along
    <3>3. stack'[i] = stack[i]
      BY <1>1, <1>5, <3>1
    <3> QED
      BY <1>2, <3>1, <3>2, <3>3 DEF FramesFit
  <2>4. ASSUME NEW m \in 0 .. Len(NewPath.edges)
        PROVE  DescendsIn(ask, CutAt(NewPath, m))
    <3>1. m \in 0 .. n - 2 /\ m \in 0 .. Len(Path.edges) /\ m <= Len(Path.edges)
      BY <1>3, <1>9, <2>1, <2>4
    <3>2. Along(NewPath, Path, m)
      <4>1. \A i \in 1 .. m : i \in 1 .. n - 2
        BY <1>3, <3>1
      <4> QED
        BY <1>10, <4>1 DEF Along
    <3>3. NewPath.nodes[1] = Path.nodes[1]
      <4>1. 1 \in 1 .. n - 1
        BY <1>3, <2>1
      <4> QED
        BY <1>3, <1>7, <1>9, <4>1
    <3>4. CutAt(NewPath, m) = CutAt(Path, m)
      BY <1>3, <2>2, <2>4, <3>1, <3>2, <3>3, SameCut
    <3> QED
      BY <1>2, <3>1, <3>4 DEF FramesFit
  <2> QED
    BY <2>3, <2>4 DEF FramesFit
<1>14. blown' => blown \/ steps' > ask.limit
  BY <1>1
<1> QED
  BY <1>1, <1>2, <1>12, <1>13, <1>14, NoPathMore

(* Without a frame the walk has every path behind it. *)
LEMMA AllBehind ==
  ASSUME NEW call, NEW s, NEW q
  PROVE  Walked(call, s, <<>>, q) = TakenIn(call, s)
  BY DEF Walked, Behind

(* A walk that is cut off: it is cut off by a hop it did not have before,  *)
(* and the consumer has refused.                                           *)
LEMMA StopShortSearch == SearchInv /\ StopShort => SearchInv'
<1> SUFFICES ASSUME SearchInv, StopShort PROVE SearchInv'
  OBVIOUS
<1> DEFINE T == TakenIn(ask, ask.src[row])
           B == Walked(ask, ask.src[row], stack, Path)
<1>1. /\ HasNext /\ stack # <<>> /\ Walkable(Here.v, Next1) /\ ~Closes(Next1) /\ ~Collides(Next1)
      /\ NoteStep(TRUE) /\ ask' = ask /\ row' = row /\ rows' = rows
      /\ ShouldStop(BlownAfter(TRUE)) /\ stack' = <<>>
  BY DEF StopShort, TakesHop, HasNext
<1>2. WalkInv /\ WalkInv'
  BY StopShortInv DEF SearchInv
<1>3. steps' <= steps + 1 /\ (blown' => blown \/ steps' > ask.limit)
  BY <1>1, <1>2, HopNoted
<1>4. ShouldStop(blown)'
  BY <1>1 DEF ShouldStop, NoteStep
<1>5. Extended \in T \ B /\ Len(Extended.edges) # 0 /\ B \in SUBSET T /\ B \cup {Extended} \in SUBSET T
  <2>1. Extended \in T
    BY <1>1, OntoIsTaken
  <2>2. Extended \notin B
    BY <1>1, <1>2, NotYet DEF Walked
  <2>3. Len(Extended.edges) # 0
    BY <1>1, <1>2, StandingAt, UnderTheCursor DEF Extended
  <2> QED
    BY <2>1, <2>2, <2>3 DEF Walked
<1>6. /\ row # 0 /\ row \in 1 .. Len(ask.src) /\ row \in Nat /\ IsFiniteSet(T)
      /\ steps \in Nat /\ steps' \in Nat /\ ask.limit \in Nat
  <2>1. row # 0 /\ steps \in Nat /\ steps' \in Nat
    BY <1>1, <1>2 DEF WalkInv, WalkTypeOK
  <2> QED
    BY <1>2, <2>1, SourceIsTyped, CallParts
<1>7. steps <= Cardinality(Hops(B)) /\ RowsSound(ask, rows, row, B)
  BY <1>1 DEF SearchInv
<1> HIDE DEF T, B, Extended
<1>8. /\ Cardinality(Hops(B)) \in Nat /\ Cardinality(Hops(T)) \in Nat
      /\ Cardinality(Hops(B \cup {Extended})) = Cardinality(Hops(B)) + 1
      /\ Cardinality(Hops(B \cup {Extended})) <= Cardinality(Hops(T))
  BY <1>5, <1>6, HopsCounted
<1>9. blown' => \E k \in 1 .. row : Cardinality(Hops(TakenIn(ask, ask.src[k]))) > ask.limit
  <2>1. CASE blown
    BY <2>1 DEF SearchInv
  <2>2. CASE ~blown /\ blown'
    <3>1. Cardinality(Hops(T)) > ask.limit
      BY <1>3, <1>6, <1>7, <1>8, <2>2
    <3>2. row \in 1 .. row
      BY <1>6
    <3> QED
      BY <3>1, <3>2 DEF T
  <2> QED
    BY <2>1, <2>2
<1>10. RowsSound(ask, rows, row, T)
  BY <1>5, <1>7 DEF RowsSound
<1>11. Walked(ask', ask'.src[row'], stack', Path') = T
  BY <1>1, AllBehind DEF T
<1> QED
  BY <1>1, <1>2, <1>4, <1>9, <1>10, <1>11 DEF SearchInv

(* The source alone is a path that is taken; the others go on from it. *)
LEMMA NoHopIsTaken ==
  ASSUME NEW call, NEW s \in Sites
  PROVE  /\ [nodes |-> <<s>>, edges |-> <<>>] \in TakenIn(call, s)
         /\ WellFormed([nodes |-> <<s>>, edges |-> <<>>])
         /\ \A p \in TakenIn(call, s) :
              /\ Len(p.edges) = 0 => p = [nodes |-> <<s>>, edges |-> <<>>]
              /\ Len(p.edges) # 0 => DescendsIn(call, [nodes |-> <<s>>, edges |-> <<>>])
<1> DEFINE e == [nodes |-> <<s>>, edges |-> <<>>]
<1>1. /\ <<s>> \in Seq(Sites) /\ <<>> \in Seq(Traversed) /\ Len(<<s>>) = 1 /\ <<s>>[1] = s
      /\ Len(<<>>) = 0
  BY EmptySeq
<1>2. e \in PathRec /\ e.nodes = <<s>> /\ e.edges = <<>>
  BY <1>1 DEF PathRec
<1>3. PathIn(call, e.nodes, e.edges)
  BY <1>1, <1>2 DEF PathIn
<1>4. TakesIn(call, e)
  BY <1>1, <1>2 DEF TakesIn, Kept
<1>5. WellFormed(e) /\ Len(e.edges) = 0 /\ e.nodes[1] = s
  BY <1>1, <1>2 DEF WellFormed
<1> HIDE DEF e
<1>6. e \in TakenIn(call, s)
  BY <1>2, <1>3, <1>4, <1>5 DEF TakenIn
<1>7. ASSUME NEW p \in TakenIn(call, s)
      PROVE  /\ Len(p.edges) = 0 => p = e
             /\ Len(p.edges) # 0 => DescendsIn(call, e)
  <2>1. WellFormed(p) /\ p.nodes[1] = s /\ Len(p.edges) \in Nat /\ TakesIn(call, p)
    BY TakenAreFormed
  <2>2. Along(p, e, 0)
    BY DEF Along
  <2>3. Len(p.edges) = 0 => p = e
    BY <1>5, <2>1, <2>2, SamePath
  <2>4. Len(p.edges) # 0 => DescendsIn(call, e)
    <3> SUFFICES ASSUME Len(p.edges) # 0 PROVE DescendsIn(call, e)
      OBVIOUS
    <3>1. 0 \in 0 .. Len(p.edges) - 1 /\ 0 \in 0 .. Len(p.edges) /\ 0 <= Len(e.edges)
      BY <1>5, <2>1
    <3>2. CutAt(p, 0) = CutAt(e, 0)
      BY <1>5, <2>1, <2>2, <3>1, SameCut
    <3>3. CutAt(e, 0) = e
      BY <1>5, WholeCut
    <3> QED
      BY <2>1, <3>1, <3>2, <3>3 DEF TakesIn
  <2> QED
    BY <2>3, <2>4
<1> QED
  BY <1>5, <1>6, <1>7 DEF e

(* A walk begins: of its source the path of no hops is behind it. *)
LEMMA StartWalkSearch == SearchInv /\ StartWalk => SearchInv'
<1> SUFFICES ASSUME SearchInv, StartWalk PROVE SearchInv'
  OBVIOUS
<1> DEFINE v == ask.src[row + 1]
           q == [nodes |-> <<v>>, edges |-> <<>>]
           T == TakenIn(ask, v)
<1>1. /\ stack = <<>> /\ row < Len(ask.src) /\ ~ShouldStop(blown) /\ row' = row + 1 /\ steps' = 0
      /\ rows' = IF EmitsAt(<<v>>, <<>>)
                 THEN Append(rows, [row |-> row + 1, nodes |-> <<v>>, edges |-> <<>>])
                 ELSE rows
      /\ ask' = ask /\ blown' = blown /\ edgeStack' = edgeStack
  BY DEF StartWalk
<1>2. /\ DescendsFrom(<<v>>, <<>>) => stack' = <<[v |-> v, cursor |-> 1]>> /\ nodeStack' = <<v>>
      /\ ~DescendsFrom(<<v>>, <<>>) => stack' = stack
  BY DEF StartWalk
<1>3. WalkInv /\ WalkInv'
  BY StartWalkInv DEF SearchInv
<1>4. edgeStack = <<>> /\ rows \in Seq(FoundRow) /\ row \in Nat /\ ask \in CallType
  <2>1. edgeStack = <<>> /\ rows \in Seq(FoundRow) /\ ask \in CallType
    BY <1>1, <1>3, CallAssumption DEF WalkInv, WalkTypeOK, StacksAgree
  <2>2. row \in 0 .. Len(ask.src)
    BY <1>3 DEF WalkInv, WalkTypeOK
  <2>3. Len(ask.src) \in Nat
    BY <2>1, CallParts
  <2> QED
    BY <2>1, <2>2, <2>3
<1>5. row + 1 \in 1 .. Len(ask.src) /\ row + 1 \in Nat /\ v \in Sites
  <2>1. row + 1 \in 1 .. Len(ask.src) /\ row + 1 \in Nat
    BY <1>1, <1>4, CallParts
  <2> QED
    BY <1>4, <2>1, CallParts
<1> HIDE DEF v
<1>6. /\ q \in T /\ WellFormed(q)
      /\ \A p \in T : /\ Len(p.edges) = 0 => p = q
                      /\ Len(p.edges) # 0 => DescendsIn(ask, q)
  BY <1>5, NoHopIsTaken
<1>7. q.nodes = <<v>> /\ q.edges = <<>> /\ Len(q.edges) = 0
  OBVIOUS
<1> HIDE DEF q
<1>8. /\ EmitsAt(<<v>>, <<>>) <=> EmitsIn(ask, q)
      /\ DescendsFrom(<<v>>, <<>>) <=> DescendsIn(ask, q)
  BY <1>6, <1>7, SameTests
<1>9. Walked(ask, v, stack', NewPath) = {q}
  <2>1. CASE DescendsIn(ask, q)
    <3>1. NewPath = q /\ stack' = <<[v |-> v, cursor |-> 1]>>
      BY <1>1, <1>2, <1>4, <1>8, <2>1 DEF NewPath, q
    <3>2. Len(stack') = 1 /\ stack' # <<>> /\ stack'[1].cursor = 1
      BY <3>1
    <3>3. ASSUME NEW p \in T
          PROVE  Behind(ask, stack', q, p) <=> p = q
      <4>1. Len(p.edges) \in Nat
        BY TakenAreFormed
      <4>2. Len(p.edges) < Len(stack') <=> Len(p.edges) = 0
        BY <3>2, <4>1
      <4>3. ~ \E j \in 1 .. stack'[1].cursor - 1 : EntryOf(ask, p.nodes[1], j) = HopAt(p, 1)
        BY <3>2
      <4>4. \A i \in 1 .. Len(stack') : i = 1
        BY <3>2
      <4>5. Len(p.edges) = 0 => Along(p, q, Len(p.edges))
        BY DEF Along
      <4>6. Behind(ask, stack', q, p) <=> Len(p.edges) = 0
        BY <3>2, <4>2, <4>3, <4>4, <4>5 DEF Behind
      <4> QED
        BY <1>6, <1>7, <4>6
    <3> QED
      BY <1>6, <3>1, <3>3 DEF Walked
  <2>2. CASE ~DescendsIn(ask, q)
    <3>1. stack' = <<>>
      BY <1>1, <1>2, <1>8, <2>2
    <3>2. \A p \in T : p = q
      BY <1>6, <2>2
    <3>3. Walked(ask, v, stack', NewPath) = T
      BY <3>1, AllBehind
    <3> QED
      BY <1>6, <3>2, <3>3
  <2> QED
    BY <2>1, <2>2
<1>10. stack' # <<>> => FramesFit(ask, stack', NewPath)
  <2> SUFFICES ASSUME stack' # <<>> PROVE FramesFit(ask, stack', NewPath)
    OBVIOUS
  <2>1. DescendsIn(ask, q)
    BY <1>1, <1>2, <1>8
  <2>2. NewPath = q /\ stack' = <<[v |-> v, cursor |-> 1]>>
    BY <1>1, <1>2, <1>4, <1>8, <2>1 DEF NewPath, q
  <2>3. Len(stack') = 1
    BY <2>2
  <2>4. \A i \in 1 .. Len(stack') - 1 : FALSE
    BY <2>3
  <2>5. \A n \in 0 .. Len(q.edges) : n = Len(q.edges)
    BY <1>7
  <2>6. CutAt(q, Len(q.edges)) = q
    BY <1>6, WholeCut
  <2> QED
    BY <2>1, <2>2, <2>4, <2>5, <2>6 DEF FramesFit
<1>11. steps' <= Cardinality(Hops({q}))
  <2>1. Hops({q}) = {}
    BY <1>7 DEF Hops
  <2>2. Cardinality({}) = 0
    BY FS_EmptySet
  <2>3. steps' = 0 /\ 0 <= 0
    BY <1>1
  <2> QED
    BY <2>1, <2>2, <2>3
<1>12. /\ RowsSound(ask, rows', row + 1, {q})
       /\ RowsFull(ask, rows', row + 1, {q})
  <2> DEFINE B == Walked(ask, ask.src[row], stack, Path)
             U == TakenIn(ask, ask.src[row])
  <2>1. B = U
    BY <1>1, AllBehind
  <2>2. RowsSound(ask, rows, row, B) /\ RowsFull(ask, rows, row, U)
    BY <1>1, <2>1 DEF SearchInv
  <2>3. B \subseteq U
    BY <2>1
  <2> HIDE DEF B
  <2>4. RowsSound(ask, rows, row + 1, {}) /\ RowsFull(ask, rows, row + 1, {})
    BY <1>4, <2>2, <2>3, NextSource
  <2>5. rows' = IF EmitsIn(ask, q) THEN Append(rows, RowOf(row + 1, q)) ELSE rows
    BY <1>1, <1>7, <1>8 DEF RowOf
  <2>6. RowOf(row + 1, q) \in FoundRow
    BY <1>5, <1>6, LensOf DEF RowOf, FoundRow
  <2>7. q \in TakenIn(ask, ask.src[row + 1])
    BY <1>6 DEF v
  <2> DEFINE k == row + 1
  <2> HIDE DEF k
  <2>8. /\ RowsSound(ask, rows', k, {} \cup {q}) /\ RowsFull(ask, rows', k, {} \cup {q})
    <3>1. /\ k \in Nat /\ q \in TakenIn(ask, ask.src[k]) /\ RowOf(k, q) \in FoundRow
          /\ RowsSound(ask, rows, k, {}) /\ RowsFull(ask, rows, k, {})
          /\ rows' = IF EmitsIn(ask, q) THEN Append(rows, RowOf(k, q)) ELSE rows
      BY <1>5, <2>4, <2>5, <2>6, <2>7 DEF k
    <3>2. q \notin {}
      OBVIOUS
    <3> QED
      BY <1>4, <3>1, <3>2, OneRowMore
  <2>9. {} \cup {q} = {q}
    OBVIOUS
  <2> QED
    BY <2>8, <2>9 DEF k
<1>13. blown' => \E k \in 1 .. row + 1 : Cardinality(Hops(TakenIn(ask, ask.src[k]))) > ask.limit
  <2>1. \A k \in 1 .. row : k \in 1 .. row + 1
    BY <1>4
  <2>2. blown => \E k \in 1 .. row : Cardinality(Hops(TakenIn(ask, ask.src[k]))) > ask.limit
    BY DEF SearchInv
  <2> QED
    BY <1>1, <2>1, <2>2
<1>14. Walked(ask', ask'.src[row'], stack', Path') = {q} /\ Path' = NewPath
  BY <1>1, <1>9 DEF v, Path, NewPath
<1> QED
  BY <1>1, <1>3, <1>10, <1>11, <1>12, <1>13, <1>14 DEF SearchInv

(* Before the first source nothing is emitted and nothing is missing. *)
LEMMA SearchInit == WalkInit => SearchInv
<1> SUFFICES ASSUME WalkInit PROVE SearchInv
  OBVIOUS
<1>1. stack = <<>> /\ row = 0 /\ rows = <<>> /\ ~blown
  BY DEF WalkInit
<1>2. WalkInv
  BY WalkInitInv
<1>3. Len(rows) = 0
  BY <1>1
<1>4. \A D : RowsSound(ask, rows, row, D) /\ RowsFull(ask, rows, row, D)
  BY <1>1, <1>3 DEF RowsSound, RowsFull
<1> QED
  BY <1>1, <1>2, <1>4 DEF SearchInv

(* Nothing changes, and the invariant is kept. *)
LEMMA SearchKept ==
  SearchInv /\ UNCHANGED walkVars => SearchInv'
<1> SUFFICES ASSUME SearchInv, UNCHANGED walkVars PROVE SearchInv'
  OBVIOUS
<1>1. /\ ask' = ask /\ row' = row /\ steps' = steps /\ blown' = blown /\ stack' = stack
      /\ rows' = rows /\ nodeStack' = nodeStack /\ edgeStack' = edgeStack
  BY DEF walkVars
<1>2. WalkInv'
  BY WalkNextInv DEF SearchInv
<1>3. Path' = Path
  BY <1>1 DEF Path
<1>4. ShouldStop(blown)' <=> ShouldStop(blown)
  BY <1>1 DEF ShouldStop
<1> QED
  BY <1>1, <1>2, <1>3, <1>4 DEF SearchInv

(* Every step keeps the invariant of the search. *)
LEMMA SearchNext == SearchInv /\ [WalkNext]_walkVars => SearchInv'
<1> SUFFICES ASSUME SearchInv, [WalkNext]_walkVars PROVE SearchInv'
  OBVIOUS
<1>1. CASE StartWalk
  BY <1>1, StartWalkSearch
<1>2. CASE PassOver
  BY <1>2, PassOverSearch
<1>3. CASE CloseCycle
  BY <1>3, CloseCycleSearch
<1>4. CASE GoDeeper
  BY <1>4, GoDeeperSearch
<1>5. CASE TurnBack
  BY <1>5, TurnBackSearch
<1>6. CASE StopShort
  BY <1>6, StopShortSearch
<1>7. CASE Backtrack
  BY <1>7, BacktrackSearch
<1>8. CASE UNCHANGED walkVars
  BY <1>8, SearchKept
<1> QED
  BY <1>1, <1>2, <1>3, <1>4, <1>5, <1>6, <1>7, <1>8 DEF WalkNext

(* At every step of every walk the rows are those of the paths behind it,  *)
(* each once, and the hops counted are no more than those paths            *)
(* (varlen_walk, StepBudget).                                              *)
THEOREM SearchInvariant == WalkSpec => []SearchInv
<1> QED
  BY SearchInit, SearchNext, PTL DEF WalkSpec

(* The recursion of PathsOf, seen as the function it chooses *)
LayersStep(s, g, n) ==
  IF n = 0 THEN {[nodes |-> <<s>>, edges |-> <<>>]}
  ELSE UNION {LongerBy1(path) : path \in g[n - 1]}
Layers(s) == CHOOSE g : g = [n \in 0 .. ask.max |-> LayersStep(s, g, n)]

(* The reference is the union of the layers: the two definitions are one   *)
(* formula.                                                                *)
LEMMA PathsOfIs ==
  ASSUME NEW s
  PROVE  PathsOf(s) = UNION {Layers(s)[n] : n \in 0 .. ask.max}
  BY Zenon DEF PathsOf, Layers, LayersStep

(* The reference lengthens a path by the hops of its end. *)
LEMMA SameHops ==
  ASSUME NEW s \in Sites, NEW p \in PathsFrom(ask, s)
  PROVE  LongerBy1(p) = OneMoreHop(ask, p)
<1>1. WellFormed(p)
  BY PathsAreFormed
<1>2. Last(p.nodes) = p.nodes[Len(p.nodes)]
  BY DEF Last
<1>3. \A v : /\ Degree(v) = DegreeIn(ask, v)
             /\ \A j : AdjNth(v, j) = EntryOf(ask, v, j)
             /\ \A w : Walkable(v, w) <=> MayWalk(ask, v, w)
  BY DEF Degree, DegreeIn, Outs, Incs, OutsOf, IncsOf, AdjNth, EntryOf, Walkable, MayWalk
<1> DEFINE v == p.nodes[Len(p.nodes)]
<1>4. {w \in {AdjNth(v, j) : j \in 1 .. Degree(v)} : Walkable(v, w)} = WaysIn(ask, v)
  BY <1>3 DEF WaysIn
<1>5. LongerBy1(p) = {[nodes |-> Append(p.nodes, a.nbr),
                       edges |-> Append(p.edges, [eid |-> a.eid, inc |-> a.inc])] :
                         a \in {w \in {AdjNth(v, j) : j \in 1 .. Degree(v)} : Walkable(v, w)}}
  BY <1>2 DEF LongerBy1
<1> HIDE DEF v
<1> QED
  BY <1>4, <1>5 DEF OneMoreHop, Ext, v

(* The recursion of the reference has one solution, and its layer n holds  *)
(* the paths of n hops: otherwise there is a least n where the two differ. *)
LEMMA LayersAre ==
  ASSUME ask \in CallType, NEW s \in Sites
  PROVE  \A n \in 0 .. ask.max : Layers(s)[n] = OfLength(ask, s, n)
<1> DEFINE D == 0 .. ask.max
           h == [n \in D |-> OfLength(ask, s, n)]
<1>1. ask.max \in Nat
  BY CallParts
<1>2. ASSUME NEW n \in D PROVE h[n] = LayersStep(s, h, n)
  <2>1. CASE n = 0
    BY <2>1, NoHopYet DEF LayersStep
  <2>2. CASE n # 0
    <3>1. n - 1 \in D /\ n - 1 \in Nat /\ n - 1 + 1 = n
      BY <1>1, <2>2
    <3> DEFINE m == n - 1
    <3> HIDE DEF m
    <3>2. OfLength(ask, s, m + 1) = UNION {OneMoreHop(ask, p) : p \in OfLength(ask, s, m)}
      BY <3>1, LongerByOne DEF m
    <3>3. \A p \in OfLength(ask, s, m) : LongerBy1(p) = OneMoreHop(ask, p)
      BY SameHops DEF OfLength
    <3>4. {OneMoreHop(ask, p) : p \in OfLength(ask, s, m)} = {LongerBy1(p) : p \in OfLength(ask, s, m)}
      BY <3>3
    <3>5. h[n] = OfLength(ask, s, m + 1) /\ h[n - 1] = OfLength(ask, s, m)
      BY <3>1 DEF m
    <3> HIDE DEF h
    <3> QED
      BY <2>2, <3>2, <3>4, <3>5 DEF LayersStep
  <2> QED
    BY <2>1, <2>2
<1>3. h = [n \in D |-> LayersStep(s, h, n)]
  <2>1. h = [n \in D |-> h[n]]
    OBVIOUS
  <2> HIDE DEF h, D
  <2> QED
    BY <1>2, <2>1
<1> DEFINE g == Layers(s)
<1>4. g = [n \in D |-> LayersStep(s, g, n)]
  <2> HIDE DEF h
  <2> QED
    BY <1>3, Zenon DEF Layers
<1> DEFINE Bad == {n \in D : g[n] # h[n]}
<1>5. Bad = {}
  <2> SUFFICES ASSUME Bad # {} PROVE FALSE
    OBVIOUS
  <2>1. Bad \in SUBSET Nat
    BY <1>1
  <2>2. PICK n \in Bad : \A m \in Bad : n <= m
    <3> HIDE DEF Bad
    <3> QED
      BY <2>1, LeastNumber
  <2>3. n \in D /\ g[n] # h[n]
    BY <2>2
  <2> HIDE DEF g, h
  <2>4. g[n] = LayersStep(s, g, n)
    <3> HIDE DEF D
    <3> QED
      BY <1>4, <2>3
  <2>5. CASE n = 0
    BY <1>2, <2>3, <2>4, <2>5 DEF LayersStep
  <2>6. CASE n # 0
    <3>1. n - 1 \in D /\ ~(n <= n - 1)
      BY <1>1, <2>3, <2>6
    <3>2. g[n - 1] = h[n - 1]
      BY <2>2, <3>1
    <3>3. LayersStep(s, g, n) = LayersStep(s, h, n)
      BY <3>2 DEF LayersStep
    <3> QED
      BY <1>2, <2>3, <2>4, <3>3
  <2> QED
    BY <2>5, <2>6
<1> QED
  BY <1>5

(* The reference has the paths up to the bound of the call. *)
LEMMA PathsOfSource ==
  ASSUME ask \in CallType, NEW s \in Sites
  PROVE  PathsOf(s) = {p \in PathsFrom(ask, s) : Len(p.edges) <= ask.max}
<1>1. ask.max \in Nat
  BY CallParts
<1>2. PathsOf(s) = UNION {OfLength(ask, s, n) : n \in 0 .. ask.max}
  <2>1. {Layers(s)[n] : n \in 0 .. ask.max} = {OfLength(ask, s, n) : n \in 0 .. ask.max}
    BY LayersAre
  <2> QED
    BY <2>1, PathsOfIs
<1>3. \A p \in PathsFrom(ask, s) : Len(p.edges) \in Nat
  BY PathsAreFormed
<1>4. \A p : p \in UNION {OfLength(ask, s, n) : n \in 0 .. ask.max}
               <=> p \in PathsFrom(ask, s) /\ Len(p.edges) <= ask.max
  <2>1. \A p : p \in UNION {OfLength(ask, s, n) : n \in 0 .. ask.max}
                 <=> \E n \in 0 .. ask.max : p \in PathsFrom(ask, s) /\ Len(p.edges) = n
    BY DEF OfLength
  <2> QED
    BY <1>1, <1>3, <2>1
<1> QED
  BY <1>2, <1>4

(* Its test of a path means the one of the invariant. *)
LEMMA SameTaken ==
  ASSUME ask \in CallType, NEW s \in Sites, NEW p \in PathsFrom(ask, s)
  PROVE  Takes(p) <=> TakesIn(ask, p)
<1>1. /\ WellFormed(p) /\ p.nodes \in Seq(Sites) /\ p.edges \in Seq(Traversed)
      /\ Len(p.edges) \in Nat
  BY PathsAreFormed, LensOf
<1>2. DOMAIN p.edges = 1 .. Len(p.edges) /\ DOMAIN p.nodes = 1 .. Len(p.nodes)
  BY <1>1, LenProperties
<1>3. KeepsMode(p.nodes, p.edges) <=> Kept(ask.mode, p.nodes, p.edges)
  BY <1>2 DEF KeepsMode, Kept
<1>4. \A n \in 0 .. Len(p.edges) - 1 :
        DescendsFrom(CutAt(p, n).nodes, CutAt(p, n).edges) <=> DescendsIn(ask, CutAt(p, n))
  <2> TAKE n \in 0 .. Len(p.edges) - 1
  <2>1. n \in 0 .. Len(p.edges)
    BY <1>1
  <2>2. WellFormed(CutAt(p, n))
    BY <1>1, <2>1, CutOf
  <2> QED
    BY <2>2, SameTests
<1>5. p.edges # <<>> <=> Len(p.edges) # 0
  BY <1>1, EmptySeq
<1>6. Last(p.nodes) = p.nodes[Len(p.nodes)]
  BY DEF Last
<1> QED
  BY <1>3, <1>4, <1>5, <1>6 DEF Takes, TakesIn, AtUnit

(* The wanted paths and the hops of the reference are those of the         *)
(* invariant.                                                              *)
LEMMA SameWanted ==
  ASSUME ask \in CallType, NEW s \in Sites
  PROVE  Wanted(s) = WantedIn(ask, s) /\ HopsOf(s) = Cardinality(Hops(TakenIn(ask, s)))
<1>1. PathsOf(s) = {p \in PathsFrom(ask, s) : Len(p.edges) <= ask.max}
  BY PathsOfSource
<1>2. \A p : p \in PathsOf(s) /\ Takes(p) <=> p \in TakenIn(ask, s)
  <2>1. \A p \in TakenIn(ask, s) : p \in PathsFrom(ask, s) /\ Len(p.edges) <= ask.max /\ TakesIn(ask, p)
    BY TakenAreShort DEF TakenIn, PathsFrom
  <2>2. \A p \in PathsFrom(ask, s) : TakesIn(ask, p) => p \in TakenIn(ask, s)
    BY DEF TakenIn, PathsFrom
  <2>3. \A p \in PathsFrom(ask, s) : Takes(p) <=> TakesIn(ask, p)
    BY SameTaken
  <2> QED
    BY <1>1, <2>1, <2>2, <2>3
<1>3. ASSUME NEW p \in TakenIn(ask, s)
      PROVE  /\ EmitsAt(p.nodes, p.edges) <=> EmitsIn(ask, p)
             /\ p.edges # <<>> <=> Len(p.edges) # 0
  <2>1. WellFormed(p)
    BY TakenAreFormed
  <2>2. p.edges \in Seq(Traversed)
    BY <2>1, LensOf
  <2> QED
    BY <2>1, <2>2, SameTests, EmptySeq
<1>4. Wanted(s) = WantedIn(ask, s)
  BY <1>2, <1>3 DEF Wanted, WantedIn
<1>5. {p \in PathsOf(s) : p.edges # <<>> /\ Takes(p)} = Hops(TakenIn(ask, s))
  BY <1>2, <1>3 DEF Hops
<1> QED
  BY <1>4, <1>5 DEF HopsOf

(* the rows of all the wanted paths of a call *)
RowsOfSource(call, r) == {RowOf(r, p) : p \in WantedIn(call, call.src[r])}
AllRows(call) == UNION {RowsOfSource(call, r) : r \in 1 .. Len(call.src)}

(* They are finitely many. *)
LEMMA AllRowsFinite ==
  ASSUME NEW call \in CallType
  PROVE  IsFiniteSet(AllRows(call))
<1> DEFINE D == 1 .. Len(call.src)
           g == [r \in D |-> RowsOfSource(call, r)]
           sets == {g[r] : r \in D}
<1>1. Len(call.src) \in Nat /\ \A r \in D : call.src[r] \in Sites
  BY CallParts
<1>2. IsFiniteSet(D)
  BY <1>1, FS_Interval
<1>3. IsFiniteSet(sets)
  <2> HIDE DEF D, g
  <2> QED
    BY <1>2, ValuesFinite
<1>4. ASSUME NEW r \in D PROVE IsFiniteSet(RowsOfSource(call, r))
  <2> DEFINE W == WantedIn(call, call.src[r])
             f == [p \in W |-> RowOf(r, p)]
             V == {f[p] : p \in W}
  <2>1. W \subseteq TakenIn(call, call.src[r])
    BY DEF WantedIn
  <2>2. IsFiniteSet(W)
    <3>1. IsFiniteSet(TakenIn(call, call.src[r]))
      BY <1>1, TakenIsFinite
    <3> HIDE DEF W
    <3> QED
      BY <2>1, <3>1, FS_Subset
  <2> HIDE DEF W
  <2>3. IsFiniteSet(V)
    <3> HIDE DEF f
    <3> QED
      BY <2>2, ValuesFinite
  <2>4. RowsOfSource(call, r) = V
    BY DEF RowsOfSource, W
  <2> QED
    BY <2>3, <2>4
<1>5. \A t \in sets : IsFiniteSet(t)
  <2> HIDE DEF D
  <2> QED
    BY <1>4
<1>6. AllRows(call) = UNION sets
  <2>1. sets = {RowsOfSource(call, r) : r \in D}
    <3> HIDE DEF D
    <3> QED
      OBVIOUS
  <2> HIDE DEF sets
  <2> QED
    BY <2>1 DEF AllRows
<1> HIDE DEF sets
<1> QED
  BY <1>3, <1>5, <1>6, FS_UNION

(* Rows that are sound are as many as they list, and none but wanted ones. *)
LEMMA SoundRowsCount ==
  ASSUME NEW call \in CallType, NEW rs \in Seq(FoundRow), NEW k, NEW done,
         RowsSound(call, rs, k, done), \A n \in 1 .. Len(rs) : rs[n].row \in 1 .. Len(call.src)
  PROVE  /\ Range(rs) \subseteq AllRows(call)
         /\ Len(rs) <= Cardinality(AllRows(call))
         /\ Cardinality(AllRows(call)) \in Nat
         /\ AllRows(call) \subseteq Range(rs) => Cardinality(AllRows(call)) = Len(rs)
<1> DEFINE n == Len(rs)
           A == AllRows(call)
<1>1. n \in Nat /\ DOMAIN rs = 1 .. n /\ rs = [i \in 1 .. n |-> rs[i]]
  BY LenProperties
<1>2. IsFiniteSet(A) /\ Cardinality(A) \in Nat
  BY AllRowsFinite, FS_CardinalityType
<1>3. ASSUME NEW i \in 1 .. n PROVE rs[i] \in A
  <2>1. rs[i] \in FoundRow
    BY ElementOfSeq
  <2>2. PathOf(rs[i]) \in WantedIn(call, call.src[rs[i].row])
    BY DEF RowsSound
  <2>3. RowOf(rs[i].row, PathOf(rs[i])) = rs[i]
    BY <2>1 DEF RowOf, PathOf, FoundRow
  <2> QED
    BY <2>2, <2>3 DEF AllRows, RowsOfSource
<1>4. Range(rs) = {rs[i] : i \in 1 .. n}
  BY <1>1 DEF Range
<1>5. \A i, j \in 1 .. n : rs[i] = rs[j] => i = j
  BY DEF RowsSound
<1> HIDE DEF n, A
<1>6. rs \in [1 .. n -> A]
  BY <1>1, <1>3
<1>7. rs \in Injection(1 .. n, A)
  BY <1>5, <1>6 DEF Injection, IsInjective
<1>8. IsFiniteSet(1 .. n) /\ Cardinality(1 .. n) = n
  <2>1. 1 \in Int /\ n \in Int
    BY <1>1
  <2>2. IsFiniteSet(1 .. n) /\ Cardinality(1 .. n) = IF 1 > n THEN 0 ELSE n - 1 + 1
    BY <2>1, FS_Interval
  <2>3. (IF 1 > n THEN 0 ELSE n - 1 + 1) = n
    BY <1>1
  <2> QED
    BY <2>2, <2>3
<1>9. n <= Cardinality(A)
  BY <1>2, <1>7, <1>8, FS_Injection
<1>10. ASSUME A \subseteq Range(rs) PROVE Cardinality(A) = n
  <2>1. rs \in Surjection(1 .. n, A)
    BY <1>4, <1>6, <1>10 DEF Surjection
  <2> QED
    BY <1>2, <1>7, <1>8, <2>1, FS_Injection
<1>11. Range(rs) \subseteq A
  BY <1>3, <1>4
<1> QED
  BY <1>2, <1>9, <1>10, <1>11 DEF n, A

(* A walk that is finished has all of them behind it. *)
LEMMA SearchIsExact == SearchInv => PathsAreExact
<1> SUFFICES ASSUME SearchInv, Finished PROVE PathsAreExact
  BY DEF PathsAreExact
<1>1. /\ stack = <<>> /\ (row = Len(ask.src) \/ ShouldStop(blown)) /\ WalkInv
  BY DEF Finished, SearchInv
<1>2. /\ ask \in CallType /\ rows \in Seq(FoundRow) /\ row \in 0 .. Len(ask.src)
  BY <1>1, CallAssumption DEF WalkInv, WalkTypeOK
<1>3. /\ Len(ask.src) \in Nat /\ DOMAIN ask.src = 1 .. Len(ask.src)
      /\ \A k \in 1 .. Len(ask.src) : ask.src[k] \in Sites
      /\ ask.limit \in Nat
  BY <1>2, CallParts, LenProperties
<1>4. \A k \in 1 .. Len(ask.src) :
        /\ Wanted(ask.src[k]) = WantedIn(ask, ask.src[k])
        /\ HopsOf(ask.src[k]) = Cardinality(Hops(TakenIn(ask, ask.src[k])))
  BY <1>2, <1>3, SameWanted
<1>5. CASE blown
  <2>1. PICK k \in 1 .. row : Cardinality(Hops(TakenIn(ask, ask.src[k]))) > ask.limit
    BY <1>5 DEF SearchInv
  <2>2. k \in 1 .. Len(ask.src)
    BY <1>2, <1>3
  <2>3. \E r \in DOMAIN ask.src : HopsOf(ask.src[r]) > ask.limit
    BY <1>3, <1>4, <2>1, <2>2
  <2> QED
    BY <1>5, <2>3 DEF PathsAreExact
<1>6. CASE ~blown
  <2> DEFINE all == UNION {{[row |-> r, nodes |-> path.nodes, edges |-> path.edges] :
                               path \in Wanted(ask.src[r])} : r \in DOMAIN ask.src}
             B == Walked(ask, ask.src[row], stack, Path)
  <2>1. all = AllRows(ask)
    <3>1. \A r \in 1 .. Len(ask.src) :
            {[row |-> r, nodes |-> path.nodes, edges |-> path.edges] : path \in Wanted(ask.src[r])}
              = RowsOfSource(ask, r)
      BY <1>4 DEF RowsOfSource, RowOf
    <3> QED
      BY <1>3, <3>1 DEF AllRows
  <2>2. \A n \in 1 .. Len(rows) : rows[n].row \in 1 .. Len(ask.src)
    BY <1>1 DEF WalkInv, LegalRow
  <2>3. RowsSound(ask, rows, row, B)
    BY DEF SearchInv
  <2> HIDE DEF all
  <2>4. /\ Range(rows) \subseteq all /\ Len(rows) <= Cardinality(all) /\ Cardinality(all) \in Nat
        /\ all \subseteq Range(rows) => Cardinality(all) = Len(rows)
    <3> HIDE DEF B
    <3> QED
      BY <1>2, <2>1, <2>2, <2>3, SoundRowsCount
  <2>5. TooManyRows => Cardinality(all) > ask.limit
    BY <1>2, <1>3, <2>4, LenProperties DEF TooManyRows
  <2>6. ~TooManyRows => Range(rows) = all /\ Cardinality(all) = Len(rows)
    <3> SUFFICES ASSUME ~TooManyRows PROVE Range(rows) = all /\ Cardinality(all) = Len(rows)
      OBVIOUS
    <3>1. ask.sink \in {"collect", "count", "distinct"}
      BY <1>2 DEF CallType
    <3>2. ~ShouldStop(blown)
      BY <1>6, <3>1 DEF ShouldStop, TooManyRows
    <3>3. row = Len(ask.src)
      BY <1>1, <3>2
    <3>4. B = TakenIn(ask, ask.src[row])
      BY <1>1, AllBehind
    <3>5. RowsFull(ask, rows, row, B)
      BY <3>2 DEF SearchInv
    <3>6. ASSUME NEW r \in 1 .. Len(ask.src), NEW p \in WantedIn(ask, ask.src[r])
          PROVE  RowOf(r, p) \in Range(rows)
      <4>1. p \in TakenIn(ask, ask.src[r])
        BY DEF WantedIn
      <4>2. \E n \in 1 .. Len(rows) : rows[n] = RowOf(r, p)
        <5> HIDE DEF B
        <5> QED
          BY <3>3, <3>4, <3>5, <4>1 DEF RowsFull
      <4>3. DOMAIN rows = 1 .. Len(rows)
        BY <1>2, LenProperties
      <4> QED
        BY <4>2, <4>3 DEF Range
    <3>7. all \subseteq Range(rows)
      BY <2>1, <3>6 DEF AllRows, RowsOfSource
    <3> QED
      BY <2>4, <3>7
  <2> QED
    BY <1>6, <2>5, <2>6 DEF PathsAreExact, all
<1> QED
  BY <1>5, <1>6

(* A finished walk has found all the wanted paths of all its sources, each *)
(* once; it refuses only when one source has more hops, or all together    *)
(* more paths, than the limit (run_varlen, StepBudget, PathSink). For      *)
(* every graph, call and limit.                                            *)
THEOREM PathsAreExactHolds == WalkSpec => []PathsAreExact
<1> QED
  BY SearchInvariant, SearchIsExact, PTL

-----------------------------------------------------------------------------
(***************************************************************************)
(* The count of distinct ends (Reachability).  A search of nodes is shown  *)
(* to be a search of walks, whatever it does not expand a second time; its *)
(* levels bring nothing new after as many as there are nodes; and the      *)
(* paths of a mode end where the walks do, because the nearest of them go  *)
(* straight.                                                               *)
(***************************************************************************)

(* the beginnings, up to k, of d, F[d], F[F[d]], ... *)
Starts(D, d, F, k) ==
  {g \in [0 .. k -> D] : g[0] = d /\ \A n \in 0 .. k - 1 : g[n + 1] = F[g[n]]}

(* A function can be applied again and again. *)
LEMMA IterateExists ==
  ASSUME NEW D, NEW d \in D, NEW F \in [D -> D]
  PROVE  \E g \in [Nat -> D] : g[0] = d /\ \A n \in Nat : g[n + 1] = F[g[n]]
<1> DEFINE St(k) == Starts(D, d, F, k)
           Bad == {k \in Nat : St(k) = {}}
<1>1. ASSUME NEW k \in Nat, NEW g \in St(k)
      PROVE  [n \in 0 .. k + 1 |-> IF n = k + 1 THEN F[g[k]] ELSE g[n]] \in St(k + 1)
  <2> DEFINE h == [n \in 0 .. k + 1 |-> IF n = k + 1 THEN F[g[k]] ELSE g[n]]
  <2>1. g \in [0 .. k -> D] /\ g[0] = d /\ \A n \in 0 .. k - 1 : g[n + 1] = F[g[n]]
    BY DEF Starts
  <2>2. k \in 0 .. k /\ F[g[k]] \in D
    BY <2>1
  <2>3. h \in [0 .. k + 1 -> D]
    BY <2>1, <2>2
  <2>4. h[0] = d
    BY <2>1
  <2>5. ASSUME NEW n \in 0 .. (k + 1) - 1 PROVE h[n + 1] = F[h[n]]
    <3>1. n \in 0 .. k /\ n # k + 1 /\ h[n] = g[n]
      OBVIOUS
    <3>2. CASE n = k
      BY <3>1, <3>2
    <3>3. CASE n # k
      <4>1. n \in 0 .. k - 1 /\ n + 1 \in 0 .. k + 1 /\ n + 1 # k + 1
        BY <3>3
      <4>2. h[n + 1] = g[n + 1]
        BY <4>1
      <4> QED
        BY <2>1, <3>1, <4>1, <4>2
    <3> QED
      BY <3>2, <3>3
  <2> HIDE DEF h
  <2>6. h \in St(k + 1)
    BY <2>3, <2>4, <2>5 DEF Starts
  <2> QED
    BY <2>6 DEF h
<1>2. Bad = {}
  <2> SUFFICES ASSUME Bad # {} PROVE FALSE
    OBVIOUS
  <2>1. PICK k \in Bad : \A m \in Bad : k <= m
    <3>1. Bad \in SUBSET Nat
      OBVIOUS
    <3> HIDE DEF Bad
    <3> QED
      BY <3>1, LeastNumber
  <2>2. k \in Nat /\ St(k) = {}
    BY <2>1
  <2>3. CASE k = 0
    <3>1. [n \in 0 .. 0 |-> d] \in St(0)
      BY DEF Starts
    <3> QED
      BY <2>2, <2>3, <3>1
  <2>4. CASE k # 0
    <3>1. k - 1 \in Nat /\ ~(k <= k - 1) /\ (k - 1) + 1 = k
      BY <2>2, <2>4
    <3>2. St(k - 1) # {}
      BY <2>1, <3>1
    <3>3. PICK g : g \in St(k - 1)
      BY <3>2
    <3> HIDE DEF St
    <3> QED
      BY <1>1, <2>2, <3>1, <3>3
  <2> QED
    BY <2>3, <2>4
<1>3. ASSUME NEW k \in Nat, NEW g \in St(k), NEW m \in Nat, NEW h \in St(m), NEW n \in Nat, n <= k, n <= m
      PROVE  g[n] = h[n]
  <2> DEFINE B == {i \in Nat : i <= k /\ i <= m /\ g[i] # h[i]}
  <2> SUFFICES B = {}
    BY <1>3
  <2> SUFFICES ASSUME B # {} PROVE FALSE
    OBVIOUS
  <2>1. PICK i \in B : \A j \in B : i <= j
    <3>1. B \in SUBSET Nat
      OBVIOUS
    <3> HIDE DEF B
    <3> QED
      BY <3>1, LeastNumber
  <2>2. i # 0
    BY <2>1 DEF Starts
  <2>3. i - 1 \in Nat /\ ~(i <= i - 1) /\ i - 1 + 1 = i /\ i - 1 \in 0 .. k - 1 /\ i - 1 \in 0 .. m - 1
        /\ i - 1 <= k /\ i - 1 <= m
    BY <2>1, <2>2
  <2>4. g[i - 1] = h[i - 1]
    BY <2>1, <2>3
  <2>5. g[(i - 1) + 1] = F[g[i - 1]] /\ h[(i - 1) + 1] = F[h[i - 1]]
    BY <2>3 DEF Starts
  <2> QED
    BY <2>1, <2>3, <2>4, <2>5
<1> DEFINE p(k) == CHOOSE g : g \in St(k)
           f == [n \in Nat |-> p(n)[n]]
<1>4. \A k \in Nat : p(k) \in St(k)
  BY <1>2
<1>5. ASSUME NEW k \in Nat PROVE f[k] \in D
  <2>1. p(k) \in St(k)
    BY <1>4
  <2> HIDE DEF p
  <2>2. p(k) \in [0 .. k -> D] /\ k \in 0 .. k
    BY <2>1 DEF Starts
  <2> QED
    BY <2>2
<1>6. f[0] = d
  <2>1. p(0)[0] = d
    BY <1>4 DEF Starts
  <2> HIDE DEF p
  <2> QED
    BY <2>1
<1>7. ASSUME NEW n \in Nat PROVE f[n + 1] = F[f[n]]
  <2> HIDE DEF p
  <2>1. f[n + 1] = p(n + 1)[n + 1] /\ f[n] = p(n)[n]
    OBVIOUS
  <2>2. n + 1 \in Nat /\ n <= n /\ n <= n + 1 /\ n \in 0 .. (n + 1) - 1
    OBVIOUS
  <2>3. p(n) \in St(n) /\ p(n + 1) \in St(n + 1)
    BY <1>4, <2>2
  <2>4. p(n + 1)[n + 1] = F[p(n + 1)[n]]
    BY <2>2, <2>3 DEF Starts
  <2>5. p(n)[n] = p(n + 1)[n]
    <3> HIDE DEF St
    <3> QED
      BY <1>3, <2>2, <2>3
  <2> QED
    BY <2>1, <2>4, <2>5
<1> HIDE DEF p
<1>8. f \in [Nat -> D]
  BY <1>5
<1> HIDE DEF f
<1> QED
  BY <1>6, <1>7, <1>8

(* The same, as one formula. *)
LEMMA Iterates ==
  \A D : \A d \in D : \A F \in [D -> D] :
    \E g \in [Nat -> D] : g[0] = d /\ \A n \in Nat : g[n + 1] = F[g[n]]
  BY IterateExists, Zenon

-----------------------------------------------------------------------------
(* the hops of a question, as operators of the question *)
HopIn(q, e, v, w) ==
  \/ q.dir \in {"out", "both"} /\ e.from = v /\ e.to = w
  \/ q.dir \in {"in", "both"} /\ e.to = v /\ e.from = w
NextTo(q, v) == {w \in Stops : \E n \in DOMAIN q.links : HopIn(q, q.links[n], v, w)}
AroundIn(q, nodes) == UNION {NextTo(q, v) : v \in nodes}

(* The search looks at the hops of its question. *)
LEMMA SameAround == \A nodes : Around(nodes) = AroundIn(question, nodes)
  BY DEF Around, Neighbours, HopsOver, AroundIn, NextTo, HopIn

(* the ends of the walks of n hops *)
Levels(q) ==
  CHOOSE g \in [Nat -> SUBSET Stops] :
    g[0] = Range(q.src) /\ \A n \in Nat : g[n + 1] = AroundIn(q, g[n])

(* the ends of the walks of a to b hops *)
Between(q, a, b) == UNION {Levels(q)[n] : n \in a .. b}

(* What a question is made of. *)
LEMMA QuestionParts ==
  ASSUME NEW q \in Questions
  PROVE  /\ q.src \in Seq(Stops) /\ q.min \in Nat /\ q.max \in Nat /\ q.max <= AnyLength
         /\ q.links \in Seq([from : Stops, to : Stops])
         /\ q.dir \in {"out", "in", "both"}
         /\ q.mode \in {"walk", "trail", "simple", "acyclic"}
         /\ AnyLength \in Nat /\ IsFiniteSet(Stops) /\ Cardinality(Stops) \in Nat
         /\ q.min + Cardinality(Stops) < AnyLength
         /\ Range(q.src) \subseteq Stops
<1>1. q \in QuestionType
  BY ReachAssumption
<1>2. q.src \in Seq(Stops) /\ q.min \in Nat /\ q.max \in Nat
         /\ q.links \in Seq([from : Stops, to : Stops])
         /\ q.dir \in {"out", "in", "both"}
         /\ q.mode \in {"walk", "trail", "simple", "acyclic"}
  BY <1>1 DEF QuestionType
<1>3. IsFiniteSet(Stops) /\ Cardinality(Stops) \in Nat
  BY ReachAssumption, FS_CardinalityType
<1>4. Range(q.src) \subseteq Stops
  BY <1>2, ElementOfSeq, LenProperties DEF Range
<1> QED
  BY <1>2, <1>3, <1>4, ReachAssumption

(* The levels are iterates: each lies one hop around the one before. *)
LEMMA LevelsAre ==
  ASSUME NEW q \in Questions
  PROVE  /\ Levels(q) \in [Nat -> SUBSET Stops]
         /\ Levels(q)[0] = Range(q.src)
         /\ \A n \in Nat : Levels(q)[n + 1] = AroundIn(q, Levels(q)[n])
<1> DEFINE D == SUBSET Stops
           F == [X \in D |-> AroundIn(q, X)]
           s == Range(q.src)
<1>1. s \in D
  BY QuestionParts
<1>2. F \in [D -> D]
  BY DEF AroundIn, NextTo
<1>3. \E g \in [Nat -> D] : g[0] = s /\ \A n \in Nat : g[n + 1] = F[g[n]]
  <2>1. \A f \in [D -> D] :
          \E g \in [Nat -> D] : g[0] = s /\ \A n \in Nat : g[n + 1] = f[g[n]]
    <3> HIDE DEF D, s
    <3> TAKE f \in [D -> D]
    <3>1. s \in D /\ f \in [D -> D]
      BY <1>1
    <3> QED
      BY <3>1, Iterates, SMTT(20)
  <2> QED
    BY <1>2, <2>1
<1>4. PICK g \in [Nat -> D] : g[0] = s /\ \A n \in Nat : g[n + 1] = F[g[n]]
  BY <1>3
<1>5. \A n \in Nat : g[n + 1] = AroundIn(q, g[n])
  <2> TAKE n \in Nat
  <2>1. g[n] \in D
    BY <1>4
  <2>2. F[g[n]] = AroundIn(q, g[n])
    BY <2>1
  <2> QED
    BY <1>4, <2>2
<1> QED
  BY <1>4, <1>5 DEF Levels

(* What lies around more nodes is more, and no more than around each. *)
LEMMA AroundParts ==
  ASSUME NEW q, NEW X, NEW Y
  PROVE  /\ AroundIn(q, X) \subseteq Stops
         /\ X \subseteq Y => AroundIn(q, X) \subseteq AroundIn(q, Y)
         /\ AroundIn(q, X \cup Y) = AroundIn(q, X) \cup AroundIn(q, Y)
         /\ AroundIn(q, {}) = {}
BY DEF AroundIn, NextTo

(* What lies one hop beyond the walks of a to b hops. *)
LEMMA BetweenParts ==
  ASSUME NEW q \in Questions, NEW a \in Nat, NEW b \in Nat
  PROVE  /\ Between(q, a, b) \subseteq Stops
         /\ \A n \in a .. b : Levels(q)[n] \subseteq Between(q, a, b)
         /\ \A v \in Between(q, a, b) : \E n \in a .. b : v \in Levels(q)[n]
         /\ AroundIn(q, Between(q, a, b)) = Between(q, a + 1, b + 1)
         /\ b + 1 >= a => Between(q, a, b + 1) = Between(q, a, b) \cup Levels(q)[b + 1]
         /\ b < a => Between(q, a, b) = {}
<1> DEFINE L == Levels(q)
<1>1. /\ L \in [Nat -> SUBSET Stops] /\ \A n \in Nat : L[n + 1] = AroundIn(q, L[n])
  BY LevelsAre
<1>2. \A v : v \in Between(q, a, b) <=> \E n \in a .. b : v \in L[n]
  BY DEF Between
<1>3. \A v : v \in Between(q, a, b + 1) <=> \E n \in a .. b + 1 : v \in L[n]
  BY DEF Between
<1>4. \A v : v \in Between(q, a + 1, b + 1) <=> \E n \in a + 1 .. b + 1 : v \in L[n]
  BY DEF Between
<1>5. \A n \in a .. b : n \in Nat
  OBVIOUS
<1> HIDE DEF L
<1>6. Between(q, a, b) \subseteq Stops
  BY <1>1, <1>2, <1>5
<1>7. \A v : v \in AroundIn(q, Between(q, a, b)) <=> v \in Between(q, a + 1, b + 1)
  <2>1. ASSUME NEW v \in AroundIn(q, Between(q, a, b)) PROVE v \in Between(q, a + 1, b + 1)
    <3>1. PICK u \in Between(q, a, b) : v \in NextTo(q, u)
      BY DEF AroundIn
    <3>2. PICK n \in a .. b : u \in L[n]
      BY <1>2
    <3>3. v \in AroundIn(q, L[n])
      BY <3>1, <3>2 DEF AroundIn
    <3>4. v \in L[n + 1] /\ n + 1 \in a + 1 .. b + 1
      BY <1>1, <1>5, <3>3
    <3> QED
      BY <1>4, <3>4
  <2>2. ASSUME NEW v \in Between(q, a + 1, b + 1) PROVE v \in AroundIn(q, Between(q, a, b))
    <3>1. PICK n \in a + 1 .. b + 1 : v \in L[n]
      BY <1>4
    <3>2. n - 1 \in a .. b /\ n - 1 \in Nat /\ (n - 1) + 1 = n
      OBVIOUS
    <3>3. v \in AroundIn(q, L[n - 1])
      BY <1>1, <3>1, <3>2
    <3>4. L[n - 1] \subseteq Between(q, a, b)
      BY <1>2, <3>2
    <3> QED
      BY <3>3, <3>4 DEF AroundIn
  <2> QED
    BY <2>1, <2>2
<1>8. ASSUME b + 1 >= a PROVE Between(q, a, b + 1) = Between(q, a, b) \cup L[b + 1]
  <2>1. \A n : n \in a .. b + 1 <=> n \in a .. b \/ n = b + 1
    BY <1>8
  <2> QED
    BY <1>2, <1>3, <2>1
<1>9. \A n \in a .. b : L[n] \subseteq Between(q, a, b)
  BY <1>2
<1>10. b < a => Between(q, a, b) = {}
  <2>1. b < a => ~\E n \in a .. b : TRUE
    OBVIOUS
  <2> QED
    BY <1>2, <2>1
<1>11. AroundIn(q, Between(q, a, b)) = Between(q, a + 1, b + 1)
  BY <1>7
<1> QED
  BY <1>2, <1>6, <1>8, <1>9, <1>10, <1>11 DEF L

(* What lies one hop beyond the walks of up to h - 1 hops. *)
LEMMA AroundAll ==
  ASSUME NEW q \in Questions, NEW h \in Nat, h # 0
  PROVE  AroundIn(q, Between(q, 0, h - 1)) = Between(q, 1, h)
<1>1. h - 1 \in Nat /\ (h - 1) + 1 = h /\ 0 \in Nat /\ 0 + 1 = 1
  OBVIOUS
<1>2. AroundIn(q, Between(q, 0, h - 1)) = Between(q, 0 + 1, (h - 1) + 1)
  BY <1>1, BetweenParts
<1> QED
  BY <1>1, <1>2

(* A set that takes in what lies one hop beyond it takes in all that lies  *)
(* beyond it.                                                              *)
LEMMA ClosedTakesAll ==
  ASSUME NEW q \in Questions, NEW X, NEW a \in Nat, Levels(q)[a] \subseteq X, AroundIn(q, X) \subseteq X
  PROVE  \A b \in Nat : Between(q, a, b) \subseteq X
<1> DEFINE L == Levels(q)
           Bad == {n \in Nat : n >= a /\ ~(L[n] \subseteq X)}
<1>1. \A n \in Nat : L[n + 1] = AroundIn(q, L[n])
  BY LevelsAre
<1>2. Bad = {}
  <2> SUFFICES ASSUME Bad # {} PROVE FALSE
    OBVIOUS
  <2>1. PICK n \in Bad : \A m \in Bad : n <= m
    <3>1. Bad \in SUBSET Nat
      OBVIOUS
    <3> HIDE DEF Bad
    <3> QED
      BY <3>1, LeastNumber
  <2>2. n # a
    BY <2>1
  <2>3. n - 1 \in Nat /\ n - 1 >= a /\ ~(n <= n - 1) /\ (n - 1) + 1 = n
    BY <2>1, <2>2
  <2>4. L[n - 1] \subseteq X
    BY <2>1, <2>3
  <2>5. L[n] = AroundIn(q, L[n - 1])
    BY <1>1, <2>3
  <2>6. L[n] \subseteq X
    BY <2>4, <2>5, AroundParts
  <2> QED
    BY <2>1, <2>6
<1>3. ASSUME NEW b \in Nat, NEW n \in a .. b PROVE L[n] \subseteq X
  BY <1>2
<1> QED
  BY <1>3 DEF Between

(* No node is first reached by walks of more than as many hops as there    *)
(* are nodes: levels that bring nothing new for that long bring nothing    *)
(* ever.                                                                   *)
LEMMA NothingBeyond ==
  ASSUME NEW q \in Questions, NEW a \in Nat
  PROVE  \A b \in Nat : Between(q, a, b) \subseteq Between(q, a, a + Cardinality(Stops))
<1> DEFINE L == Levels(q)
           N == Cardinality(Stops)
           T(j) == Between(q, a, a + j)
<1>1. IsFiniteSet(Stops) /\ N \in Nat
  BY QuestionParts
<1>2. \A j \in Nat : T(j) \subseteq Stops /\ IsFiniteSet(T(j)) /\ Cardinality(T(j)) \in Nat /\ Cardinality(T(j)) <= N
  <2> TAKE j \in Nat
  <2>1. T(j) \subseteq Stops
    <3>1. a + j \in Nat
      OBVIOUS
    <3> QED
      BY <3>1, BetweenParts
  <2> HIDE DEF T
  <2> QED
    BY <1>1, <2>1, FS_Subset, FS_CardinalityType
<1>3. \A j \in Nat : T(j + 1) = T(j) \cup L[a + j + 1] /\ AroundIn(q, T(j)) \subseteq T(j + 1) /\ L[a] \subseteq T(j)
  <2> TAKE j \in Nat
  <2>1. a + j \in Nat /\ a + (j + 1) = (a + j) + 1 /\ (a + j) + 1 >= a /\ a \in a .. a + j
    OBVIOUS
  <2>2. Between(q, a, (a + j) + 1) = T(j) \cup L[(a + j) + 1] /\ L[a] \subseteq T(j)
    BY <2>1, BetweenParts
  <2>3. AroundIn(q, T(j)) = Between(q, a + 1, (a + j) + 1)
    BY <2>1, BetweenParts
  <2>4. Between(q, a + 1, (a + j) + 1) \subseteq Between(q, a, (a + j) + 1)
    BY DEF Between
  <2> QED
    BY <2>1, <2>2, <2>3, <2>4
<1> HIDE DEF T
<1>4. \E j \in 0 .. N : T(j + 1) = T(j)
  <2> SUFFICES ASSUME \A j \in 0 .. N : T(j + 1) # T(j) PROVE FALSE
    OBVIOUS
  <2> DEFINE Bad == {j \in Nat : j <= N + 1 /\ Cardinality(T(j)) < j}
  <2>1. Bad = {}
    <3> SUFFICES ASSUME Bad # {} PROVE FALSE
      OBVIOUS
    <3>1. PICK j \in Bad : \A m \in Bad : j <= m
      <4>1. Bad \in SUBSET Nat
        OBVIOUS
      <4> HIDE DEF Bad
      <4> QED
        BY <4>1, LeastNumber
    <3>2. j # 0
      BY <1>2, <3>1
    <3>3. j - 1 \in Nat /\ ~(j <= j - 1) /\ (j - 1) + 1 = j /\ j - 1 \in 0 .. N /\ j - 1 <= N + 1
      BY <1>1, <3>1, <3>2
    <3>4. ~(Cardinality(T(j - 1)) < j - 1)
      BY <3>1, <3>3
    <3>5. T(j) # T(j - 1) /\ T(j - 1) \subseteq T(j)
      BY <1>3, <3>3
    <3>6. IsFiniteSet(T(j)) /\ Cardinality(T(j)) \in Nat /\ Cardinality(T(j - 1)) \in Nat
      BY <1>2, <3>1, <3>3
    <3>7. Cardinality(T(j - 1)) < Cardinality(T(j))
      BY <3>5, <3>6, FS_Subset
    <3> QED
      BY <3>1, <3>3, <3>4, <3>6, <3>7
  <2>2. N + 1 \in Nat /\ ~(Cardinality(T(N + 1)) < N + 1)
    BY <1>1, <2>1
  <2> QED
    BY <1>1, <1>2, <2>2
<1>5. PICK j \in 0 .. N : T(j + 1) = T(j)
  BY <1>4
<1>6. j \in Nat /\ AroundIn(q, T(j)) \subseteq T(j) /\ L[a] \subseteq T(j)
  BY <1>1, <1>3, <1>5
<1>7. \A b \in Nat : Between(q, a, b) \subseteq T(j)
  BY <1>6, ClosedTakesAll
<1>8. T(j) \subseteq Between(q, a, a + N)
  BY <1>1 DEF Between, T
<1> QED
  BY <1>7, <1>8

-----------------------------------------------------------------------------
(* The nodes found are the ends of the walks taken so far. *)
ReachInv ==
  /\ question \in Questions /\ SetReachabilityIsExact(question)
  /\ hop \in Nat /\ hop <= LevelCap
  /\ reached = Between(question, question.min, hop)
  /\ ByLevels => border = Levels(question)[hop]
  /\ ~ByLevels =>
       /\ visited = Between(question, 0, hop)
       /\ border \subseteq Levels(question)[hop]
       /\ hop = 0 => Levels(question)[hop] = border
       /\ hop # 0 => Levels(question)[hop] \subseteq border \cup Between(question, 0, hop - 1)

(* The lesser of two numbers. *)
LEMMA LeastOfTwo ==
  ASSUME NEW a \in Nat, NEW b \in Nat
  PROVE  Min({a, b}) = IF a <= b THEN a ELSE b
<1>1. \E x \in {a, b} : \A y \in {a, b} : x <= y
  OBVIOUS
<1>2. Min({a, b}) \in {a, b} /\ \A y \in {a, b} : Min({a, b}) <= y
  BY <1>1 DEF Min
<1> QED
  BY <1>2

(* The cap of the levels, as a number. *)
LEMMA CapIs ==
  ASSUME question \in Questions
  PROVE  /\ LevelCap \in Nat
         /\ LevelCap = IF ByLevels /\ question.min + Cardinality(Stops) < question.max
                       THEN question.min + Cardinality(Stops) ELSE question.max
<1>1. question.min \in Nat /\ question.max \in Nat /\ Cardinality(Stops) \in Nat
  BY QuestionParts
<1>2. question.min + Cardinality(Stops) \in Nat
  BY <1>1
<1> QED
  BY <1>1, <1>2, LeastOfTwo DEF LevelCap

(* The sources are the ends of the walks of no hop. *)
LEMMA ReachInitInv == ReachInit => ReachInv
<1> SUFFICES ASSUME ReachInit PROVE ReachInv
  OBVIOUS
<1> DEFINE q == question
<1>1. q \in Questions /\ SetReachabilityIsExact(question) /\ hop = 0 /\ hop \in Nat
  BY DEF ReachInit
<1>2. Levels(q)[0] = border
  BY <1>1, LevelsAre DEF ReachInit
<1>3. q.min \in Nat
  BY <1>1, QuestionParts
<1>4. Between(q, 0, 0) = border
  <2>1. 0 .. 0 = {0}
    OBVIOUS
  <2> QED
    BY <1>2, <2>1 DEF Between
<1>5. q.min # 0 => Between(q, q.min, 0) = {}
  BY <1>1, <1>3, BetweenParts
<1>6. reached = Between(q, q.min, hop)
  BY <1>1, <1>3, <1>4, <1>5 DEF ReachInit
<1>7. hop <= LevelCap
  BY <1>1, CapIs
<1>8. ~ByLevels => visited = border
  BY DEF ReachInit
<1> QED
  BY <1>1, <1>2, <1>4, <1>6, <1>7, <1>8 DEF ReachInv

(* A node expands once: what it would bring a second time is there         *)
(* already.                                                                *)
LEMMA SpreadInv == ReachInv /\ Spread => ReachInv'
<1> SUFFICES ASSUME ReachInv, Spread PROVE ReachInv'
  OBVIOUS
<1>q. PICK q : q = question
  OBVIOUS
<1>h. PICK h : h = hop
  OBVIOUS
<1>1. /\ q \in Questions /\ h \in Nat /\ h + 1 \in Nat /\ question' = q /\ hop' = h + 1 /\ h < LevelCap
      /\ q.min \in Nat /\ q.min < 2 /\ ~ByLevels
      /\ reached = Between(q, q.min, h) /\ visited = Between(q, 0, h) /\ border \subseteq Levels(q)[h]
      /\ h = 0 => Levels(q)[h] = border
      /\ h # 0 => Levels(q)[h] \subseteq border \cup Between(q, 0, h - 1)
  BY <1>q, <1>h, QuestionParts DEF ReachInv, Spread, NextHop, ByLevels
<1>2. /\ reached' = reached \cup AroundIn(q, border)
      /\ border' = AroundIn(q, border) \ visited
      /\ visited' = visited \cup AroundIn(q, border)
  BY <1>q, SameAround DEF Spread
<1>3. SetReachabilityIsExact(question)' /\ ~ByLevels' /\ LevelCap' = LevelCap
  BY <1>1, <1>q DEF ReachInv, SetReachabilityIsExact, ByLevels, LevelCap
<1>4. Levels(q)[h + 1] = AroundIn(q, Levels(q)[h])
  BY <1>1, LevelsAre
<1>5. AroundIn(q, border) \subseteq Levels(q)[h + 1]
  BY <1>1, <1>4, AroundParts
<1>6. Levels(q)[h + 1] \subseteq AroundIn(q, border) \cup Between(q, 1, h)
  <2>1. CASE h = 0
    BY <1>1, <1>4, <2>1
  <2>2. CASE h # 0
    <3>2. AroundIn(q, Between(q, 0, h - 1)) = Between(q, 1, h)
      BY <1>1, <2>2, AroundAll
    <3>3. AroundIn(q, Levels(q)[h]) \subseteq AroundIn(q, border \cup Between(q, 0, h - 1))
      BY <1>1, <2>2, AroundParts
    <3>4. AroundIn(q, border \cup Between(q, 0, h - 1)) = AroundIn(q, border) \cup AroundIn(q, Between(q, 0, h - 1))
      BY AroundParts
    <3> QED
      BY <1>4, <3>2, <3>3, <3>4
  <2> QED
    BY <2>1, <2>2
<1>7. Between(q, 1, h) \subseteq Between(q, 0, h) /\ Between(q, 1, h) \subseteq Between(q, q.min, h)
  <2>1. q.min \in {0, 1}
    BY <1>1
  <2>2. \A n \in 1 .. h : n \in 0 .. h /\ n \in q.min .. h
    BY <1>1, <2>1
  <2> QED
    BY <2>2 DEF Between
<1>8. /\ Between(q, 0, h + 1) = Between(q, 0, h) \cup Levels(q)[h + 1]
      /\ Between(q, q.min, h + 1) = Between(q, q.min, h) \cup Levels(q)[h + 1]
  <2>1. 0 \in Nat /\ h + 1 >= 0 /\ h + 1 >= q.min
    BY <1>1
  <2> QED
    BY <1>1, <2>1, BetweenParts
<1>9. reached' = Between(q, q.min, h + 1) /\ visited' = Between(q, 0, h + 1)
  BY <1>1, <1>2, <1>5, <1>6, <1>7, <1>8
<1>10. border' \subseteq Levels(q)[h + 1] /\ Levels(q)[h + 1] \subseteq border' \cup Between(q, 0, h)
  BY <1>1, <1>2, <1>5, <1>6, <1>7
<1>11. hop' \in Nat /\ hop' <= LevelCap' /\ hop' # 0 /\ hop' - 1 = h
  <2>1. LevelCap \in Nat
    BY <1>1, <1>q, CapIs
  <2> QED
    BY <1>1, <1>3, <2>1
<1> QED
  BY <1>1, <1>3, <1>9, <1>10, <1>11 DEF ReachInv

(* A level is expanded in full. *)
LEMMA StepLevelInv == ReachInv /\ StepLevel => ReachInv'
<1> SUFFICES ASSUME ReachInv, StepLevel PROVE ReachInv'
  OBVIOUS
<1>q. PICK q : q = question
  OBVIOUS
<1>h. PICK h : h = hop
  OBVIOUS
<1>1. /\ q \in Questions /\ h \in Nat /\ h + 1 \in Nat /\ question' = q /\ hop' = h + 1 /\ h < LevelCap
      /\ q.min \in Nat /\ ByLevels
      /\ reached = Between(q, q.min, h) /\ border = Levels(q)[h]
  BY <1>q, <1>h, QuestionParts DEF ReachInv, StepLevel, NextHop
<1>2. /\ reached' = IF h + 1 >= q.min THEN reached \cup AroundIn(q, border) ELSE reached
      /\ border' = AroundIn(q, border)
  BY <1>q, <1>h, SameAround DEF StepLevel
<1>3. SetReachabilityIsExact(question)' /\ ByLevels' /\ LevelCap' = LevelCap
  BY <1>1, <1>q DEF ReachInv, SetReachabilityIsExact, ByLevels, LevelCap
<1>4. border' = Levels(q)[h + 1]
  BY <1>1, <1>2, LevelsAre
<1>5. reached' = Between(q, q.min, h + 1)
  <2>1. CASE h + 1 >= q.min
    BY <1>1, <1>2, <1>4, <2>1, BetweenParts
  <2>2. CASE ~(h + 1 >= q.min)
    <3>1. Between(q, q.min, h) = {} /\ Between(q, q.min, h + 1) = {}
      BY <1>1, <2>2, BetweenParts
    <3> QED
      BY <1>1, <1>2, <2>2, <3>1
  <2> QED
    BY <2>1, <2>2
<1>6. hop' \in Nat /\ hop' <= LevelCap'
  <2>1. LevelCap \in Nat
    BY <1>1, <1>q, CapIs
  <2> QED
    BY <1>1, <1>3, <2>1
<1> QED
  BY <1>1, <1>3, <1>4, <1>5, <1>6 DEF ReachInv

(* Every step of the search keeps its invariant. *)
LEMMA ReachNextInv == ReachInv /\ [ReachNext]_reachVars => ReachInv'
<1> SUFFICES ASSUME ReachInv, [ReachNext]_reachVars PROVE ReachInv'
  OBVIOUS
<1>1. CASE Spread
  BY <1>1, SpreadInv
<1>2. CASE StepLevel
  BY <1>2, StepLevelInv
<1>3. CASE UNCHANGED reachVars
  BY <1>3 DEF reachVars, ReachInv, ByLevels, LevelCap, SetReachabilityIsExact
<1> QED
  BY <1>1, <1>2, <1>3 DEF ReachNext

(* When the search is over no length is missing. *)
LEMMA SearchIsComplete ==
  ASSUME ReachInv, hop = LevelCap \/ border = {}
  PROVE  reached = Between(question, question.min, Horizon) /\ Horizon \in Nat
<1>q. PICK q : q = question
  OBVIOUS
<1>h. PICK h : h = hop
  OBVIOUS
<1> DEFINE N == Cardinality(Stops)
<1>1. /\ q \in Questions /\ h \in Nat /\ q.min \in Nat /\ q.max \in Nat /\ N \in Nat
      /\ q.min + N < AnyLength /\ AnyLength \in Nat /\ q.max <= AnyLength
      /\ h <= LevelCap /\ reached = Between(q, q.min, h)
  BY <1>q, <1>h, QuestionParts DEF ReachInv
<1>2. LevelCap = IF ByLevels /\ q.min + N < q.max THEN q.min + N ELSE q.max
  BY <1>1, <1>q, CapIs
<1>3. Horizon = IF q.max = AnyLength THEN q.min + 3 * N ELSE q.max
  BY <1>q DEF Horizon
<1>4. \A b, c \in Nat : b <= c => Between(q, q.min, b) \subseteq Between(q, q.min, c)
  BY DEF Between
<1>5. \A b \in Nat : b >= q.min + N => Between(q, q.min, b) = Between(q, q.min, q.min + N)
  <2> TAKE b \in Nat
  <2> HAVE b >= q.min + N
  <2>1. Between(q, q.min, b) \subseteq Between(q, q.min, q.min + N)
    BY <1>1, NothingBeyond
  <2>2. Between(q, q.min, q.min + N) \subseteq Between(q, q.min, b)
    BY <1>1, <1>4
  <2> QED
    BY <2>1, <2>2
<1>6. Horizon \in Nat /\ (q.max = AnyLength => Horizon >= q.min + N)
  BY <1>1, <1>3
<1>7. CASE hop = LevelCap
  <2>1. CASE q.max = AnyLength
    <3>1. h >= q.min + N
      BY <1>1, <1>2, <1>7, <1>h, <2>1
    <3> QED
      BY <1>1, <1>5, <1>6, <1>q, <2>1, <3>1
  <2>2. CASE q.max # AnyLength /\ ~(ByLevels /\ q.min + N < q.max)
    BY <1>1, <1>2, <1>3, <1>6, <1>7, <1>h, <1>q, <2>2
  <2>3. CASE q.max # AnyLength /\ ByLevels /\ q.min + N < q.max
    <3>1. h = q.min + N /\ Horizon >= q.min + N
      BY <1>1, <1>2, <1>3, <1>7, <1>h, <2>3
    <3> QED
      BY <1>1, <1>5, <1>6, <1>q, <3>1
  <2> QED
    BY <2>1, <2>2, <2>3
<1>8. CASE border = {}
  <2>1. \A b \in Nat : Between(q, q.min, b) \subseteq Between(q, q.min, h)
    <3>1. CASE ByLevels
      <4>1. Levels(q)[h] = {}
        BY <1>8, <1>q, <1>h, <3>1 DEF ReachInv
      <4>2. \A b \in Nat : Between(q, h, b) \subseteq {}
        BY <1>1, <4>1, AroundParts, ClosedTakesAll
      <4>3. \A b \in Nat : Between(q, q.min, b) \subseteq Between(q, q.min, h) \cup Between(q, h, b)
        <5> TAKE b \in Nat
        <5>1. \A n \in q.min .. b : n \in q.min .. h \/ n \in h .. b
          BY <1>1
        <5> QED
          BY <5>1 DEF Between
      <4> QED
        BY <4>2, <4>3
    <3>2. CASE ~ByLevels
      <4>1. h # 0 => Levels(q)[h] \subseteq Between(q, 0, h - 1)
        BY <1>8, <1>q, <1>h, <3>2 DEF ReachInv
      <4>2. h = 0 => Levels(q)[h] = {}
        BY <1>8, <1>q, <1>h, <3>2 DEF ReachInv
      <4>3. q.min \in {0, 1}
        BY <1>1, <1>q, <3>2 DEF ByLevels
      <4>4. CASE h = 0
        <5>1. \A b \in Nat : Between(q, 0, b) \subseteq {}
          BY <1>1, <4>2, <4>4, AroundParts, ClosedTakesAll
        <5>2. \A b \in Nat : Between(q, q.min, b) \subseteq Between(q, 0, b)
          <6>1. \A b \in Nat : \A n \in q.min .. b : n \in 0 .. b
            BY <1>1
          <6> QED
            BY <6>1 DEF Between
        <5> QED
          BY <5>1, <5>2
      <4>5. CASE h # 0
        <5> DEFINE X == Between(q, q.min, h)
        <5>2. Levels(q)[h + 1] \subseteq Between(q, 1, h)
          <6>1. Levels(q)[h + 1] = AroundIn(q, Levels(q)[h])
            BY <1>1, LevelsAre
          <6>2. AroundIn(q, Levels(q)[h]) \subseteq AroundIn(q, Between(q, 0, h - 1))
            BY <4>1, <4>5, AroundParts
          <6> QED
            BY <1>1, <4>5, <6>1, <6>2, AroundAll
        <5>3. Between(q, 1, h) \subseteq X
          <6>1. \A n \in 1 .. h : n \in q.min .. h
            BY <1>1, <4>3
          <6> QED
            BY <6>1 DEF Between
        <5>4. AroundIn(q, X) = Between(q, q.min + 1, h + 1)
          BY <1>1, BetweenParts
        <5>5. Between(q, q.min + 1, h + 1) \subseteq X \cup Levels(q)[h + 1]
          <6>1. \A n \in q.min + 1 .. h + 1 : n \in q.min .. h \/ n = h + 1
            BY <1>1
          <6> QED
            BY <6>1 DEF Between
        <5>6. AroundIn(q, X) \subseteq X
          BY <5>2, <5>3, <5>4, <5>5
        <5>7. Levels(q)[q.min] \subseteq X
          <6>1. q.min \in q.min .. h
            BY <1>1, <4>3, <4>5
          <6> QED
            BY <6>1 DEF Between
        <5> HIDE DEF X
        <5>8. \A b \in Nat : Between(q, q.min, b) \subseteq X
          BY <1>1, <5>6, <5>7, ClosedTakesAll
        <5> QED
          BY <5>8 DEF X
      <4> QED
        BY <4>4, <4>5
    <3> QED
      BY <3>1, <3>2
  <2>2. Between(q, q.min, Horizon) = Between(q, q.min, h)
    <3>1. CASE h <= Horizon
      <4>1. Between(q, q.min, h) \subseteq Between(q, q.min, Horizon)
        BY <1>1, <1>4, <1>6, <3>1
      <4>2. Between(q, q.min, Horizon) \subseteq Between(q, q.min, h)
        BY <1>6, <2>1
      <4> QED
        BY <4>1, <4>2
    <3>2. CASE ~(h <= Horizon)
      <4>1. h <= q.max
        BY <1>1, <1>2
      <4>2. q.max = AnyLength
        BY <1>1, <1>3, <1>6, <3>2, <4>1
      <4>3. h >= q.min + N /\ Horizon >= q.min + N
        BY <1>1, <1>6, <3>2, <4>2
      <4> QED
        BY <1>1, <1>5, <1>6, <4>3
    <3> QED
      BY <3>1, <3>2
  <2> QED
    BY <1>1, <1>6, <1>q, <2>2
<1> QED
  BY <1>7, <1>8

Followed == [at : Stops, start : Stops, edges : SUBSET Nat, nodes : SUBSET Stops, closed : BOOLEAN]

(* A hop leaves a path at its end, and adds to it what its mode looks at. *)
LEMMA OntoAt ==
  ASSUME NEW p \in Followed, NEW n \in Nat, NEW w \in Stops
  PROVE  Onto(p, n, w).at = w
  BY DEF Onto, Followed
(* It starts where the path does. *)
LEMMA OntoStart ==
  ASSUME NEW p \in Followed, NEW n \in Nat, NEW w \in Stops
  PROVE  Onto(p, n, w).start = p.start
  BY DEF Onto, Followed
(* A trail has the hop as well. *)
LEMMA OntoEdges ==
  ASSUME NEW p \in Followed, NEW n \in Nat, NEW w \in Stops, question.mode = "trail"
  PROVE  Onto(p, n, w).edges = p.edges \cup {n}
  BY DEF Onto, Followed
(* A simple path has the node as well. *)
LEMMA OntoNodes ==
  ASSUME NEW p \in Followed, NEW n \in Nat, NEW w \in Stops, question.mode = "simple"
  PROVE  Onto(p, n, w).nodes = p.nodes \cup {w}
  BY DEF Onto, Followed
(* A simple path is closed by a hop to its start. *)
LEMMA OntoClosed ==
  ASSUME NEW p \in Followed, NEW n \in Nat, NEW w \in Stops
  PROVE  Onto(p, n, w).closed <=> (question.mode = "simple" /\ w = p.start)
  BY DEF Onto, Followed
(* What a hop makes of a path is a path. *)
LEMMA OntoTyped ==
  ASSUME NEW p \in Followed, NEW n \in Nat, NEW w \in Stops
  PROVE  Onto(p, n, w) \in Followed
<1>1. p.start \in Stops /\ p.edges \in SUBSET Nat /\ p.nodes \in SUBSET Stops
  BY DEF Followed
<1>2. /\ (IF question.mode = "trail" THEN p.edges \cup {n} ELSE p.edges) \in SUBSET Nat
      /\ (IF question.mode \in {"simple", "acyclic"} THEN p.nodes \cup {w} ELSE p.nodes) \in SUBSET Stops
      /\ (question.mode = "simple" /\ w = p.start) \in BOOLEAN
  BY <1>1
<1> QED
  BY <1>1, <1>2 DEF Onto, Followed

(* the paths of each length, as EndsFound chooses them *)
LengthsStep(g, n) ==
  IF n = 0 THEN {Standing(s) : s \in Range(question.src)} ELSE OneHopOn(g[n - 1])
Lengths == CHOOSE g : g = [n \in 0 .. Horizon |-> LengthsStep(g, n)]

(* The reference chooses these lengths: the two definitions are one        *)
(* formula.                                                                *)
LEMMA EndsFoundIs ==
  EndsFound = {path.at : path \in UNION {Lengths[n] : n \in question.min .. Horizon}}
  BY Zenon DEF EndsFound, Lengths, LengthsStep

(* Hops make paths of paths. *)
LEMMA OneHopTyped ==
  ASSUME question \in Questions, NEW P \in SUBSET Followed
  PROVE  OneHopOn(P) \in SUBSET Followed
<1>1. question.links \in Seq([from : Stops, to : Stops])
  BY QuestionParts
<1>2. DOMAIN question.links \subseteq Nat
  BY <1>1, LenProperties
<1>3. ASSUME NEW x \in P \X (DOMAIN question.links) \X Stops PROVE Onto(x[1], x[2], x[3]) \in Followed
  <2>1. x[1] \in Followed /\ x[2] \in Nat /\ x[3] \in Stops
    BY <1>2
  <2> QED
    BY <2>1, OntoTyped
<1> QED
  BY <1>3 DEF OneHopOn

(* The recursion of the reference has a solution, and it is one of paths. *)
LEMMA LengthsAre ==
  ASSUME question \in Questions, Horizon \in Nat
  PROVE  /\ Lengths[0] = {Standing(s) : s \in Range(question.src)}
         /\ \A n \in Nat : n < Horizon => Lengths[n + 1] = OneHopOn(Lengths[n])
         /\ \A n \in 0 .. Horizon : Lengths[n] \subseteq Followed
<1> DEFINE D == SUBSET Followed
           F == [P \in D |-> OneHopOn(P)]
           d == {Standing(s) : s \in Range(question.src)}
           H == 0 .. Horizon
<1>1. d \in D
  <2>1. Range(question.src) \subseteq Stops
    BY QuestionParts
  <2>2. \A s \in Stops : Standing(s) \in Followed
    <3> TAKE s \in Stops
    <3>1. {} \in SUBSET Nat /\ {s} \in SUBSET Stops /\ FALSE \in BOOLEAN
      OBVIOUS
    <3> QED
      BY <3>1, Zenon DEF Standing, Followed
  <2> QED
    BY <2>1, <2>2
<1>2. F \in [D -> D]
  BY OneHopTyped
<1>3. \E g \in [Nat -> D] : g[0] = d /\ \A n \in Nat : g[n + 1] = F[g[n]]
  <2>1. \A f \in [D -> D] :
          \E g \in [Nat -> D] : g[0] = d /\ \A n \in Nat : g[n + 1] = f[g[n]]
    <3> HIDE DEF D, d
    <3> TAKE f \in [D -> D]
    <3> QED
      BY <1>1, IterateExists
  <2> QED
    BY <1>2, <2>1
<1>4. PICK g \in [Nat -> D] : g[0] = d /\ \A n \in Nat : g[n + 1] = F[g[n]]
  BY <1>3
<1>5. \A n \in Nat : g[n + 1] = OneHopOn(g[n])
  <2> TAKE n \in Nat
  <2>1. g[n] \in D
    BY <1>4
  <2>2. F[g[n]] = OneHopOn(g[n])
    BY <2>1
  <2> QED
    BY <1>4, <2>2
<1> DEFINE h == [n \in H |-> g[n]]
<1>6. h = [n \in H |-> LengthsStep(h, n)]
  <2>1. ASSUME NEW n \in H PROVE g[n] = LengthsStep(h, n)
    <3>1. CASE n = 0
      BY <1>4, <3>1 DEF LengthsStep
    <3>2. CASE n # 0
      <4>1. n - 1 \in H /\ n - 1 \in Nat /\ (n - 1) + 1 = n
        BY <3>2
      <4>2. h[n - 1] = g[n - 1]
        BY <4>1
      <4>3. g[n] = OneHopOn(h[n - 1])
        BY <1>5, <4>1, <4>2
      <4> HIDE DEF h
      <4> QED
        BY <3>2, <4>3 DEF LengthsStep
    <3> QED
      BY <3>1, <3>2
  <2>2. h = [n \in H |-> g[n]]
    OBVIOUS
  <2> HIDE DEF h, H
  <2> QED
    BY <2>1, <2>2
<1>7. Lengths = [n \in H |-> LengthsStep(Lengths, n)]
  <2> HIDE DEF h
  <2> QED
    BY <1>6, Zenon DEF Lengths
<1>8. 0 \in H /\ \A n \in Nat : n < Horizon => n + 1 \in H /\ n + 1 # 0 /\ (n + 1) - 1 = n
  OBVIOUS
<1>9. \A n \in H : Lengths[n] = LengthsStep(Lengths, n)
  <2> HIDE DEF H
  <2> QED
    BY <1>7
<1>10. Lengths[0] = d
  BY <1>8, <1>9 DEF LengthsStep
<1>11. \A n \in Nat : n < Horizon => Lengths[n + 1] = OneHopOn(Lengths[n])
  <2> HIDE DEF H
  <2> QED
    BY <1>8, <1>9 DEF LengthsStep
<1> DEFINE Bad == {n \in Nat : n <= Horizon /\ ~(Lengths[n] \subseteq Followed)}
<1>12. Bad = {}
  <2> SUFFICES ASSUME Bad # {} PROVE FALSE
    OBVIOUS
  <2>1. PICK n \in Bad : \A m \in Bad : n <= m
    <3>1. Bad \in SUBSET Nat
      OBVIOUS
    <3> HIDE DEF Bad
    <3> QED
      BY <3>1, LeastNumber
  <2>2. n # 0
    BY <1>1, <1>10, <2>1
  <2>3. n - 1 \in Nat /\ n - 1 < Horizon /\ n - 1 <= Horizon /\ ~(n <= n - 1) /\ (n - 1) + 1 = n
    BY <2>1, <2>2
  <2>4. Lengths[n - 1] \subseteq Followed
    BY <2>1, <2>3
  <2>5. Lengths[n] = OneHopOn(Lengths[n - 1])
    BY <1>11, <2>3
  <2> QED
    BY <2>1, <2>4, <2>5, OneHopTyped
<1> QED
  BY <1>10, <1>11, <1>12

(* a hop of a path is a path that is longer by one *)
LEMMA OneHopMore ==
  ASSUME question \in Questions, Horizon \in Nat, NEW n \in Nat, n < Horizon
  PROVE  /\ \A p \in Lengths[n], e \in DOMAIN question.links, w \in Stops :
              /\ e \in Nat /\ p \in Followed
              /\ HopsOver(question.links[e], p.at, w) /\ Allows(p, e, w) => Onto(p, e, w) \in Lengths[n + 1]
         /\ \A r \in Lengths[n + 1] :
              \E p \in Lengths[n], e \in DOMAIN question.links, w \in Stops :
                /\ e \in Nat /\ p \in Followed /\ r = Onto(p, e, w)
                /\ HopsOver(question.links[e], p.at, w)
<1>1. Lengths[n + 1] = OneHopOn(Lengths[n]) /\ Lengths[n] \subseteq Followed
  <2>1. n \in 0 .. Horizon
    OBVIOUS
  <2> QED
    BY <2>1, LengthsAre
<1>2. DOMAIN question.links \subseteq Nat
  <2>1. question.links \in Seq([from : Stops, to : Stops])
    BY QuestionParts
  <2> QED
    BY <2>1, LenProperties
<1>3. ASSUME NEW p \in Lengths[n], NEW e \in DOMAIN question.links, NEW w \in Stops,
             HopsOver(question.links[e], p.at, w), Allows(p, e, w)
      PROVE  Onto(p, e, w) \in Lengths[n + 1]
  <2> DEFINE y == <<p, e, w>>
  <2>1. y \in Lengths[n] \X (DOMAIN question.links) \X Stops /\ y[1] = p /\ y[2] = e /\ y[3] = w
    OBVIOUS
  <2> HIDE DEF y
  <2>2. Onto(y[1], y[2], y[3]) \in OneHopOn(Lengths[n])
    BY <1>3, <2>1 DEF OneHopOn
  <2> QED
    BY <1>1, <2>1, <2>2
<1>4. ASSUME NEW r \in Lengths[n + 1]
      PROVE  \E p \in Lengths[n], e \in DOMAIN question.links, w \in Stops :
               r = Onto(p, e, w) /\ HopsOver(question.links[e], p.at, w)
  <2>1. PICK x \in Lengths[n] \X (DOMAIN question.links) \X Stops :
          /\ r = Onto(x[1], x[2], x[3]) /\ HopsOver(question.links[x[2]], x[1].at, x[3])
    BY <1>1 DEF OneHopOn
  <2>2. x[1] \in Lengths[n] /\ x[2] \in DOMAIN question.links /\ x[3] \in Stops
    OBVIOUS
  <2> QED
    BY <2>1, <2>2
<1> QED
  BY <1>1, <1>2, <1>3, <1>4

(* A path of n hops ends where a walk of n hops does. *)
LEMMA EndsAreLevels ==
  ASSUME question \in Questions, Horizon \in Nat
  PROVE  \A n \in 0 .. Horizon : \A p \in Lengths[n] : p.at \in Levels(question)[n]
<1> DEFINE L == Levels(question)
           Bad == {n \in Nat : n <= Horizon /\ \E p \in Lengths[n] : p.at \notin L[n]}
<1>1. L[0] = Range(question.src) /\ \A n \in Nat : L[n + 1] = AroundIn(question, L[n])
  BY LevelsAre
<1> HIDE DEF L
<1>2. Bad = {}
  <2> SUFFICES ASSUME Bad # {} PROVE FALSE
    OBVIOUS
  <2>1. PICK n \in Bad : \A m \in Bad : n <= m
    <3>1. Bad \in SUBSET Nat
      OBVIOUS
    <3> HIDE DEF Bad
    <3> QED
      BY <3>1, LeastNumber
  <2>2. n # 0
    <3>1. \A p \in Lengths[0] : p.at \in L[0]
      BY <1>1, LengthsAre DEF Standing
    <3> QED
      BY <2>1, <3>1
  <2>3. n - 1 \in Nat /\ n - 1 < Horizon /\ n - 1 <= Horizon /\ ~(n <= n - 1) /\ (n - 1) + 1 = n
    BY <2>1, <2>2
  <2>4. \A p \in Lengths[n - 1] : p.at \in L[n - 1]
    BY <2>1, <2>3
  <2>5. PICK r \in Lengths[n] : r.at \notin L[n]
    BY <2>1
  <2>6. PICK p \in Lengths[n - 1], e \in DOMAIN question.links, w \in Stops :
                /\ e \in Nat /\ p \in Followed /\ r = Onto(p, e, w)
                /\ HopsOver(question.links[e], p.at, w)
    BY <2>3, <2>5, OneHopMore
  <2>7. r.at = w
    BY <2>6, OntoAt
  <2>8. w \in Neighbours(p.at)
    BY <2>6 DEF Neighbours
  <2>9. w \in Around(L[n - 1])
    BY <2>4, <2>8 DEF Around
  <2>10. w \in L[n]
    BY <1>1, <2>3, <2>9, SameAround
  <2> QED
    BY <2>5, <2>7, <2>10
<1> QED
  BY <1>2 DEF L

(* a hop into a level comes from the level before *)
LEMMA LevelHop ==
  ASSUME question \in Questions, NEW n \in Nat, NEW v \in Levels(question)[n + 1]
  PROVE  /\ v \in Stops
         /\ \E u \in Levels(question)[n], e \in DOMAIN question.links : HopsOver(question.links[e], u, v)
<1>1. v \in Around(Levels(question)[n])
  BY LevelsAre, SameAround
<1>2. PICK u \in Levels(question)[n] : v \in Neighbours(u)
  BY <1>1 DEF Around
<1> QED
  BY <1>2 DEF Neighbours

(* Every walk is a path of the mode "walk". *)
LEMMA WalksAreFollowed ==
  ASSUME question \in Questions, Horizon \in Nat, question.mode = "walk"
  PROVE  \A n \in 0 .. Horizon : \A v \in Levels(question)[n] : \E p \in Lengths[n] : p.at = v
<1> DEFINE L == Levels(question)
           Bad == {n \in Nat : n <= Horizon /\ \E v \in L[n] : ~ \E p \in Lengths[n] : p.at = v}
<1>1. L[0] = Range(question.src)
  BY LevelsAre
<1>2. Bad = {}
  <2> SUFFICES ASSUME Bad # {} PROVE FALSE
    OBVIOUS
  <2>1. PICK n \in Bad : \A m \in Bad : n <= m
    <3>1. Bad \in SUBSET Nat
      OBVIOUS
    <3> HIDE DEF Bad
    <3> QED
      BY <3>1, LeastNumber
  <2>2. n # 0
    <3>1. \A v \in L[0] : Standing(v) \in Lengths[0] /\ Standing(v).at = v
      BY <1>1, LengthsAre DEF Standing
    <3> QED
      BY <2>1, <3>1
  <2>3. n - 1 \in Nat /\ n - 1 < Horizon /\ n - 1 <= Horizon /\ ~(n <= n - 1) /\ (n - 1) + 1 = n
    BY <2>1, <2>2
  <2>4. \A u \in L[n - 1] : \E p \in Lengths[n - 1] : p.at = u
    BY <2>1, <2>3
  <2>5. PICK v \in L[n] : ~ \E p \in Lengths[n] : p.at = v
    BY <2>1
  <2>6. v \in Stops /\ \E u \in L[n - 1], e \in DOMAIN question.links : HopsOver(question.links[e], u, v)
    BY <2>3, <2>5, LevelHop
  <2>7. PICK u \in L[n - 1], e \in DOMAIN question.links : HopsOver(question.links[e], u, v)
    BY <2>6
  <2>8. PICK p \in Lengths[n - 1] : p.at = u
    BY <2>4
  <2>9. Allows(p, e, v)
    BY DEF Allows
  <2>10. Onto(p, e, v) \in Lengths[n] /\ e \in Nat /\ p \in Followed
    BY <2>3, <2>6, <2>7, <2>8, <2>9, OneHopMore
  <2>11. Onto(p, e, v).at = v
    BY <2>6, <2>10, OntoAt
  <2> QED
    BY <2>5, <2>10, <2>11
<1> QED
  BY <1>2

(* A path that goes straight away from the sources: over nodes and edges   *)
(* no further than n hops away, and over no edge back to a source.         *)
GoesStraight(p, n) ==
  /\ ~p.closed /\ p.start \in Levels(question)[0]
  /\ question.mode = "simple" =>
       p.nodes \subseteq Between(question, 0, n) /\ p.nodes \cap Levels(question)[0] \subseteq {p.start}
  /\ question.mode = "trail" =>
       \A e \in p.edges :
         /\ question.links[e].from \in Between(question, 0, n)
         /\ question.links[e].to \in Between(question, 0, n)
         /\ question.dir = "out" => question.links[e].to \notin Levels(question)[0]
         /\ question.dir = "in" => question.links[e].from \notin Levels(question)[0]

(* What is first reached in n hops is reached by a path of n hops that     *)
(* goes straight there, in every mode.                                     *)
LEMMA FirstReached ==
  ASSUME question \in Questions, Horizon \in Nat, question.mode \in {"trail", "simple"}
  PROVE  \A n \in 0 .. Horizon : \A v \in Levels(question)[n] :
           (\A k \in 0 .. n - 1 : v \notin Levels(question)[k]) =>
               \E p \in Lengths[n] : p.at = v /\ GoesStraight(p, n)
<1> DEFINE L == Levels(question)
           New(v, n) == v \in L[n] /\ \A k \in 0 .. n - 1 : v \notin L[k]
           Bad == {n \in Nat : n <= Horizon /\ \E v : New(v, n) /\ ~ \E p \in Lengths[n] : p.at = v /\ GoesStraight(p, n)}
<1>1. L[0] = Range(question.src) /\ \A n \in Nat : L[n + 1] = AroundIn(question, L[n])
  BY LevelsAre
<1>2. Bad = {}
  <2> SUFFICES ASSUME Bad # {} PROVE FALSE
    OBVIOUS
  <2>1. PICK n \in Bad : \A m \in Bad : n <= m
    <3>1. Bad \in SUBSET Nat
      OBVIOUS
    <3> HIDE DEF Bad
    <3> QED
      BY <3>1, LeastNumber
  <2>2. n # 0
    <3>1. \A v \in L[0] : Standing(v) \in Lengths[0] /\ Standing(v).at = v /\ GoesStraight(Standing(v), 0)
      <4> TAKE v \in L[0]
      <4>1. Standing(v) \in Lengths[0] /\ Standing(v).at = v
        BY <1>1, LengthsAre DEF Standing
      <4>2. v \in Between(question, 0, 0)
        <5>1. 0 \in 0 .. 0
          OBVIOUS
        <5> QED
          BY <5>1 DEF Between
      <4> QED
        BY <4>1, <4>2 DEF GoesStraight, Standing
    <3> QED
      BY <2>1, <3>1
  <2> DEFINE m == n - 1
  <2>3. m \in Nat /\ m < Horizon /\ m <= Horizon /\ ~(n <= m) /\ m + 1 = n /\ n \in Nat
    BY <2>1, <2>2
  <2>4. \A u : New(u, m) => \E p \in Lengths[m] : p.at = u /\ GoesStraight(p, m)
    BY <2>1, <2>3
  <2>5. PICK v : New(v, n) /\ ~ \E p \in Lengths[n] : p.at = v /\ GoesStraight(p, n)
    BY <2>1
  <2> HIDE DEF m
  <2>6. v \in Stops /\ \E u \in L[m], e \in DOMAIN question.links : HopsOver(question.links[e], u, v)
    BY <2>3, <2>5, LevelHop
  <2>7. PICK u \in L[m], e \in DOMAIN question.links : HopsOver(question.links[e], u, v)
    BY <2>6
  <2>8. v \in AroundIn(question, {u})
    <3>1. v \in Around({u})
      BY <2>6, <2>7 DEF Around, Neighbours
    <3> QED
      BY <3>1, SameAround
  <2>9. New(u, m)
    <3>1. ASSUME NEW k \in 0 .. m - 1, u \in L[k] PROVE FALSE
      <4>1. k \in Nat /\ k + 1 \in 0 .. n - 1
        BY <2>3
      <4>2. v \in L[k + 1]
        <5>1. {u} \subseteq L[k]
          BY <3>1
        <5>2. v \in AroundIn(question, L[k])
          BY <2>8, <5>1, AroundParts
        <5> QED
          BY <1>1, <4>1, <5>2
      <4> QED
        BY <2>5, <4>1, <4>2
    <3> QED
      BY <3>1
  <2>10. PICK p \in Lengths[m] : p.at = u /\ GoesStraight(p, m)
    BY <2>4, <2>9
  <2>11. e \in Nat /\ p \in Followed
    BY <2>3, <2>6, <2>7, OneHopMore
  <2>12. v \notin Between(question, 0, m) /\ v \notin L[0]
    <3>1. \A k \in 0 .. m : k \in 0 .. n - 1
      BY <2>3
    <3>2. 0 \in 0 .. n - 1
      BY <2>3
    <3> QED
      BY <2>5, <3>1, <3>2 DEF Between
  <2>13. question.links[e].from \in {u, v} /\ question.links[e].to \in {u, v}
         /\ v \in {question.links[e].from, question.links[e].to}
         /\ (question.dir = "out" => question.links[e].to = v)
         /\ (question.dir = "in" => question.links[e].from = v)
    BY <2>7 DEF HopsOver
  <2>14. Allows(p, e, v)
    <3>1. question.mode = "trail" => e \notin p.edges
      BY <2>10, <2>12, <2>13 DEF GoesStraight
    <3>2. question.mode = "simple" => ~p.closed /\ v \notin p.nodes
      BY <2>10, <2>12 DEF GoesStraight
    <3> QED
      BY <3>1, <3>2 DEF Allows
  <2> DEFINE r == Onto(p, e, v)
  <2>15. r \in Lengths[n]
    BY <2>3, <2>6, <2>7, <2>10, <2>14, OneHopMore
  <2>a. r.at = v
    BY <2>6, <2>11, OntoAt
  <2>b. r.start = p.start
    BY <2>6, <2>11, OntoStart
  <2>c. question.mode = "trail" => r.edges = p.edges \cup {e}
    BY <2>6, <2>11, OntoEdges
  <2>d. question.mode = "simple" => r.nodes = p.nodes \cup {v}
    BY <2>6, <2>11, OntoNodes
  <2>e. r.closed <=> (question.mode = "simple" /\ v = p.start)
    BY <2>6, <2>11, OntoClosed
  <2>16. /\ r.start = p.start
         /\ question.mode = "trail" => r.edges = p.edges \cup {e}
         /\ question.mode = "simple" => r.nodes = p.nodes \cup {v}
         /\ r.closed <=> (question.mode = "simple" /\ v = p.start)
    BY <2>b, <2>c, <2>d, <2>e
  <2> HIDE DEF r
  <2>17. Between(question, 0, m) \subseteq Between(question, 0, n) /\ u \in Between(question, 0, n)
         /\ v \in Between(question, 0, n)
    <3>1. \A k \in 0 .. m : k \in 0 .. n
      BY <2>3
    <3>2. m \in 0 .. n /\ n \in 0 .. n
      BY <2>3
    <3> QED
      BY <2>5, <2>7, <3>1, <3>2 DEF Between
  <2>18. GoesStraight(r, n)
    <3>1. ~r.closed /\ r.start \in L[0]
      BY <2>10, <2>12, <2>16 DEF GoesStraight
    <3>2. question.mode = "simple" =>
            r.nodes \subseteq Between(question, 0, n) /\ r.nodes \cap L[0] \subseteq {r.start}
      BY <2>10, <2>12, <2>16, <2>17 DEF GoesStraight
    <3>3. ASSUME question.mode = "trail", NEW x \in r.edges
          PROVE  /\ question.links[x].from \in Between(question, 0, n)
                 /\ question.links[x].to \in Between(question, 0, n)
                 /\ question.dir = "out" => question.links[x].to \notin L[0]
                 /\ question.dir = "in" => question.links[x].from \notin L[0]
      <4>1. CASE x \in p.edges
        BY <2>10, <2>17, <3>3, <4>1 DEF GoesStraight
      <4>2. CASE x = e
        BY <2>12, <2>13, <2>17, <4>2
      <4> QED
        BY <2>16, <3>3, <4>1, <4>2
    <3> QED
      BY <3>1, <3>2, <3>3 DEF GoesStraight
  <2> QED
    BY <2>5, <2>15, <2>a, <2>18
<1> QED
  BY <1>2

(* a walk of n hops, one of them at least, of which the last may not go    *)
(* back over the edge it came by: the case the search is not exact for     *)
UndirectedOpenTrail ==
  question.mode = "trail" /\ question.dir = "both" /\ question.min = 1 /\ question.max = AnyLength

(* A node that hops lead to from the sources lies a number of hops away    *)
(* that no smaller number will do for.                                     *)
LEMMA NearestLevel ==
  ASSUME NEW q, NEW n \in Nat, NEW v \in Levels(q)[n]
  PROVE  \E k \in 0 .. n : v \in Levels(q)[k] /\ \A j \in 0 .. k - 1 : v \notin Levels(q)[j]
<1> DEFINE T == {k \in Nat : v \in Levels(q)[k]}
<1>1. n \in T /\ T \in SUBSET Nat
  OBVIOUS
<1>2. PICK k \in T : \A j \in T : k <= j
  <2> HIDE DEF T
  <2> QED
    BY <1>1, LeastNumber
<1>3. k \in 0 .. n
  BY <1>1, <1>2
<1>4. \A j \in 0 .. k - 1 : j \in Nat /\ ~(k <= j)
  BY <1>3
<1> QED
  BY <1>2, <1>3, <1>4

(* A first hop is allowed in every mode. *)
LEMMA FirstHop ==
  ASSUME question \in Questions, Horizon \in Nat, Horizon >= 1, question.mode \in {"trail", "simple"},
         NEW v \in Levels(question)[1]
  PROVE  \E p \in Lengths[1] : p.at = v
<1>1. 0 \in Nat /\ 0 + 1 = 1 /\ 0 < Horizon
  OBVIOUS
<1>2. v \in Stops /\ \E u \in Levels(question)[0], e \in DOMAIN question.links : HopsOver(question.links[e], u, v)
  BY <1>1, LevelHop
<1>3. PICK u \in Levels(question)[0], e \in DOMAIN question.links : HopsOver(question.links[e], u, v)
  BY <1>2
<1>4. Standing(u) \in Lengths[0]
  BY LengthsAre, LevelsAre
<1>5. Standing(u).at = u
  BY DEF Standing
<1>6. Allows(Standing(u), e, v)
  BY DEF Allows, Standing
<1>7. Onto(Standing(u), e, v) \in Lengths[1] /\ e \in Nat /\ Standing(u) \in Followed
  BY <1>1, <1>2, <1>3, <1>4, <1>5, <1>6, OneHopMore
<1>8. Onto(Standing(u), e, v).at = v
  BY <1>2, <1>7, OntoAt
<1> QED
  BY <1>7, <1>8

(* A source that can be come back to, or be come to from another, is the   *)
(* end of a path of at least one hop: the nearest node it can be come to   *)
(* from is reached straight, and the last hop repeats no edge and no node  *)
(* but the first.                                                          *)
LEMMA SourceIsReached ==
  ASSUME question \in Questions, Horizon \in Nat, question.mode \in {"trail", "simple"},
         question.mode = "trail" => question.dir # "both",
         NEW v \in Levels(question)[0], NEW n \in 1 .. Horizon, v \in Levels(question)[n]
  PROVE  \E m \in 1 .. Horizon : \E p \in Lengths[m] : p.at = v
<1> DEFINE L == Levels(question)
           T == {k \in Nat : \E u \in L[k], e \in DOMAIN question.links : HopsOver(question.links[e], u, v)}
<1>1. n - 1 \in Nat /\ (n - 1) + 1 = n
  OBVIOUS
<1>2. v \in Stops /\ n - 1 \in T
  BY <1>1, LevelHop
<1>3. PICK m \in T : \A k \in T : m <= k
  <2>1. T \in SUBSET Nat
    OBVIOUS
  <2> HIDE DEF T
  <2> QED
    BY <1>2, <2>1, LeastNumber
<1>4. m \in Nat /\ m < Horizon /\ m \in 0 .. Horizon /\ m + 1 \in 1 .. Horizon
  BY <1>1, <1>2, <1>3
<1>5. PICK u \in L[m], e \in DOMAIN question.links : HopsOver(question.links[e], u, v)
  BY <1>3
<1>6. \A k \in 0 .. m - 1 : u \notin L[k]
  <2> SUFFICES ASSUME NEW k \in 0 .. m - 1, u \in L[k] PROVE FALSE
    OBVIOUS
  <2>1. k \in T /\ ~(m <= k)
    BY <1>4, <1>5
  <2> QED
    BY <1>3, <2>1
<1>7. PICK p \in Lengths[m] : p.at = u /\ GoesStraight(p, m)
  BY <1>4, <1>5, <1>6, FirstReached
<1>8. Allows(p, e, v)
  <2>1. CASE question.mode = "trail"
    <3>1. e \notin p.edges
      BY <1>5, <1>7, <2>1 DEF GoesStraight, HopsOver
    <3> QED
      BY <2>1, <3>1 DEF Allows
  <2>2. CASE question.mode = "simple"
    <3>1. ~p.closed /\ (v = p.start \/ v \notin p.nodes)
      BY <1>7, <2>2 DEF GoesStraight
    <3> QED
      BY <2>2, <3>1 DEF Allows
  <2> QED
    BY <2>1, <2>2
<1> HIDE DEF T
<1>9. Onto(p, e, v) \in Lengths[m + 1] /\ e \in Nat /\ p \in Followed
  BY <1>2, <1>4, <1>5, <1>7, <1>8, OneHopMore
<1>10. Onto(p, e, v).at = v
  BY <1>2, <1>9, OntoAt
<1> QED
  BY <1>4, <1>9, <1>10

(* Where the search is exact, the paths of the mode end where the walks    *)
(* do.                                                                     *)
LEMMA PathsReachAll ==
  ASSUME question \in Questions, Horizon \in Nat, SetReachabilityIsExact(question), ~UndirectedOpenTrail,
         NEW n \in question.min .. Horizon, NEW v \in Levels(question)[n]
  PROVE  \E m \in question.min .. Horizon : \E p \in Lengths[m] : p.at = v
<1>1. /\ question.min \in Nat /\ question.max \in Nat /\ question.max <= AnyLength /\ AnyLength \in Nat
      /\ question.min + Cardinality(Stops) < AnyLength /\ Cardinality(Stops) \in Nat
      /\ question.dir \in {"out", "in", "both"}
  BY QuestionParts
<1>2. n \in Nat /\ n \in 0 .. Horizon
  BY <1>1
<1>3. CASE question.mode = "walk"
  BY <1>2, <1>3, WalksAreFollowed
<1>4. CASE question.mode \in {"trail", "simple"} /\ question.max # AnyLength
  <2>1. question.max <= 1 /\ Horizon = question.max
    BY <1>4 DEF SetReachabilityIsExact, Horizon
  <2>2. CASE n = 0
    <3>1. \A k \in 0 .. n - 1 : v \notin Levels(question)[k]
      BY <2>2
    <3> QED
      BY <1>2, <1>4, <3>1, FirstReached
  <2>3. CASE n # 0
    <3>1. n = 1 /\ Horizon >= 1
      BY <1>1, <1>2, <2>1, <2>3
    <3> QED
      BY <1>4, <3>1, FirstHop
  <2> QED
    BY <2>2, <2>3
<1>5. CASE question.mode \in {"trail", "simple"} /\ question.max = AnyLength
  <2>1. question.min <= 1
    <3>1. question.max <= 1 \/ question.min <= 1
      BY <1>5 DEF SetReachabilityIsExact
    <3> QED
      BY <1>1, <1>5, <3>1
  <2>2. PICK k \in 0 .. n : v \in Levels(question)[k] /\ \A j \in 0 .. k - 1 : v \notin Levels(question)[j]
    BY <1>2, NearestLevel
  <2>3. CASE k >= question.min
    <3>1. k \in question.min .. Horizon /\ k \in 0 .. Horizon
      BY <1>1, <1>2, <2>3
    <3> QED
      BY <1>5, <2>2, <3>1, FirstReached
  <2>4. CASE ~(k >= question.min)
    <3>1. k = 0 /\ question.min = 1 /\ n \in 1 .. Horizon
      BY <1>1, <1>2, <2>1, <2>4
    <3>2. question.mode = "trail" => question.dir # "both"
      BY <1>5, <3>1 DEF UndirectedOpenTrail
    <3> QED
      BY <1>5, <2>2, <3>1, <3>2, SourceIsReached
  <2> QED
    BY <2>3, <2>4
<1>6. question.mode \in {"walk", "trail", "simple"}
  BY QuestionParts DEF SetReachabilityIsExact
<1> QED
  BY <1>3, <1>4, <1>5, <1>6

(* Where the search is exact the reference counts the ends of the walks. *)
LEMMA ReferenceIs ==
  ASSUME question \in Questions, Horizon \in Nat, SetReachabilityIsExact(question), ~UndirectedOpenTrail
  PROVE  EndsFound = Between(question, question.min, Horizon)
<1>1. question.min \in Nat
  BY QuestionParts
<1>2. \A v : v \in EndsFound <=> \E n \in question.min .. Horizon : \E p \in Lengths[n] : p.at = v
  BY EndsFoundIs
<1>3. \A v : v \in Between(question, question.min, Horizon)
               <=> \E n \in question.min .. Horizon : v \in Levels(question)[n]
  BY DEF Between
<1>4. \A n \in question.min .. Horizon : n \in 0 .. Horizon
  BY <1>1
<1>5. \A n \in question.min .. Horizon : \A p \in Lengths[n] : p.at \in Levels(question)[n]
  BY <1>4, EndsAreLevels
<1>6. \A n \in question.min .. Horizon : \A v \in Levels(question)[n] :
        \E m \in question.min .. Horizon : \E p \in Lengths[m] : p.at = v
  BY PathsReachAll
<1>7. ASSUME NEW v \in EndsFound PROVE v \in Between(question, question.min, Horizon)
  <2>1. PICK n \in question.min .. Horizon : \E p \in Lengths[n] : p.at = v
    BY <1>2
  <2> QED
    BY <1>3, <1>5, <2>1
<1>8. ASSUME NEW v \in Between(question, question.min, Horizon) PROVE v \in EndsFound
  <2>1. PICK n \in question.min .. Horizon : v \in Levels(question)[n]
    BY <1>3
  <2>2. \E m \in question.min .. Horizon : \E p \in Lengths[m] : p.at = v
    BY <1>6, <2>1
  <2> QED
    BY <1>2, <2>2
<1> QED
  BY <1>7, <1>8

(* At every step of the search the nodes found are the ends of the walks   *)
(* of the lengths taken so far (varlen_distinct_endpoint_count).           *)
THEOREM ReachInvariant == ReachSpec => []ReachInv
  BY ReachInitInv, ReachNextInv, PTL DEF ReachSpec

(* The search counts the nodes the paths of the mode end at, for any       *)
(* graph, sources and bounds, where set_reachability_is_exact lets it run: *)
(* in all cases but the one in which the code is wrong, an undirected      *)
(* trail of at least one hop with no upper bound.                          *)
THEOREM EndpointsAreExactHolds == ReachSpec => [](~UndirectedOpenTrail => EndpointsAreExact)
<1>1. ReachInv => (~UndirectedOpenTrail => EndpointsAreExact)
  <2> SUFFICES ASSUME ReachInv, ~UndirectedOpenTrail, hop = LevelCap \/ border = {}
               PROVE  reached = EndsFound
    BY DEF EndpointsAreExact
  <2>1. question \in Questions /\ SetReachabilityIsExact(question)
    BY DEF ReachInv
  <2>2. reached = Between(question, question.min, Horizon) /\ Horizon \in Nat
    BY SearchIsComplete
  <2> QED
    BY <2>1, <2>2, ReferenceIs
<1> QED
  BY <1>1, ReachInvariant, PTL
=============================================================================
