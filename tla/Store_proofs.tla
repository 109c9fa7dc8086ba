---------------------------- MODULE Store_proofs ----------------------------
(***************************************************************************)
(* Proofs about the store: its derived structures are never stale, the     *)
(* undo log gives back the graph a transaction or a statement found, the   *)
(* change list names every node that differs, and what is committed        *)
(* satisfies its constraints.                                              *)
(*                                                                         *)
(* The argument.  A core is what queries see of a store.  An open          *)
(* transaction has a past: a history of cores, one longer than the log,    *)
(* in which the i-th record undoes the step from the core i - 1 to the     *)
(* core i, and the i-th change reports it.  Every write adds one core;     *)
(* replaying the log from its end walks the history backwards, one core a  *)
(* record, so it reaches the one it began with.  The replay is a fold over *)
(* the positions of the log: that it is computed record by record follows  *)
(* from the order of the numbers having no descending chain.               *)
(***************************************************************************)
EXTENDS Store, FiniteSetTheorems, SequenceTheorems, WellFoundedInduction, TLAPS

Less == OpToRel(<, Nat)

(* The order of the natural numbers, as a relation, has no descending      *)
(* chain.                                                                  *)
LEMMA LessIsWellFounded == IsWellFoundedOn(Less, Nat)
  BY NatLessThanWellFounded, Zenon DEF Less

(* A set of numbers that is not empty has a least member: what the proofs  *)
(* below use in the place of induction.                                    *)
LEMMA LeastNumber ==
  ASSUME NEW T \in SUBSET Nat, T # {}
  PROVE  \E x \in T : \A y \in T : x <= y
<1>1. \A x, y \in Nat : <<y, x>> \in Less <=> y < x
  BY Zenon DEF Less, OpToRel
<1>2. PICK x \in T : \A y \in T : ~(<<y, x>> \in Less)
  BY LessIsWellFounded, WFMin, Zenon
<1>3. \A y \in T : ~(y < x)
  BY <1>1, <1>2
<1> QED
  BY <1>3

(* The fold of a replay, unfolded: a function on the sets of positions.    *)
Step(h, s, f, D) == IF D = {} THEN h ELSE ApplyUndo(f[D \ {Max(D)}], s[Max(D)])
Unfolds(h, s, Ds, f) == f = [D \in Ds |-> Step(h, s, f, D)]
Fold(h, s) == CHOOSE f : Unfolds(h, s, SUBSET DOMAIN s, f)

(* A replay is that fold: the two definitions are one formula. *)
LEMMA ReplayIs ==
  ASSUME NEW h, NEW log
  PROVE  Replay(h, log) = Fold(h, Reverse(log))[DOMAIN Reverse(log)]
  BY Zenon DEF Replay, Fold, Unfolds, Step, FoldLeft, MapThenFoldSet

(* A set of positions that is not empty has a last one. *)
LEMMA MaxOfPositions ==
  ASSUME NEW n \in Nat, NEW D \in SUBSET (1 .. n), D # {}
  PROVE  Max(D) \in D /\ \A i \in D : Max(D) >= i
<1> DEFINE T == {n - i : i \in D}
<1>0. \A i \in D : i \in Nat /\ n - i \in Nat
  OBVIOUS
<1>1. T \in SUBSET Nat /\ T # {}
  BY <1>0
<1>2. PICK x \in T : \A y \in T : x <= y
  <2> HIDE DEF T
  <2> QED
    BY <1>1, LeastNumber
<1>3. PICK m \in D : x = n - m
  BY <1>2
<1>4. ASSUME NEW i \in D PROVE m >= i
  <2>1. n - m <= n - i
    BY <1>2, <1>3
  <2> QED
    BY <1>0, <2>1
<1> QED
  BY <1>4, Zenon DEF Max

(* The sets of fewer than n positions *)
Fewer(m, n) == {D \in SUBSET (1 .. m) : Cardinality(D) < n}

(* A set of positions without its last one has one member fewer. *)
LEMMA OneFewer ==
  ASSUME NEW m \in Nat, NEW D \in SUBSET (1 .. m), D # {}
  PROVE  /\ D \ {Max(D)} \in SUBSET (1 .. m)
         /\ Cardinality(D) \in Nat
         /\ Cardinality(D \ {Max(D)}) \in Nat
         /\ Cardinality(D \ {Max(D)}) < Cardinality(D)
<1>1. Max(D) \in D
  BY MaxOfPositions
<1>2. IsFiniteSet(D)
  <2>1. IsFiniteSet(1 .. m)
    BY FS_Interval
  <2> QED
    BY <2>1, FS_Subset
<1>3. /\ IsFiniteSet(D \ {Max(D)})
      /\ Cardinality(D \ {Max(D)}) = Cardinality(D) - 1
  BY <1>1, <1>2, FS_RemoveElement
<1>4. Cardinality(D) \in Nat /\ Cardinality(D \ {Max(D)}) \in Nat
  BY <1>2, <1>3, FS_CardinalityType
<1>5. Cardinality(D \ {Max(D)}) < Cardinality(D)
  BY <1>3, <1>4
<1> QED
  BY <1>4, <1>5

(* The recursion of the fold has a solution: otherwise there is a least n  *)
(* for which the sets of fewer than n positions have none, and the one for *)
(* n - 1 extends to n.                                                     *)
LEMMA FoldUnfolds ==
  ASSUME NEW h, NEW s, NEW m \in Nat, DOMAIN s = 1 .. m
  PROVE  Unfolds(h, s, SUBSET (1 .. m), Fold(h, s))
<1> DEFINE Bad == {n \in Nat : ~ \E f : Unfolds(h, s, Fewer(m, n), f)}
<1>0. ASSUME NEW D \in SUBSET (1 .. m)
      PROVE  Cardinality(D) \in Nat /\ Cardinality(D) <= m
  <2>1. IsFiniteSet(1 .. m) /\ Cardinality(1 .. m) = m
    BY FS_Interval
  <2>2. IsFiniteSet(D) /\ Cardinality(D) <= Cardinality(1 .. m)
    BY <2>1, FS_Subset
  <2> QED
    BY <2>1, <2>2, FS_CardinalityType
<1>1. Bad = {}
  <2> SUFFICES ASSUME Bad # {} PROVE FALSE
    OBVIOUS
  <2>1. PICK n \in Bad : \A k \in Bad : n <= k
    BY LeastNumber
  <2>2. n \in Nat /\ ~ \E f : Unfolds(h, s, Fewer(m, n), f)
    BY <2>1
  <2>3. CASE n = 0
    <3>1. Fewer(m, 0) = {}
      BY <1>0 DEF Fewer
    <3>2. Unfolds(h, s, {}, [D \in {} |-> 0])
      BY DEF Unfolds
    <3> QED
      BY <2>2, <2>3, <3>1, <3>2
  <2>4. CASE n # 0
    <3>1. n - 1 \in Nat /\ n - 1 \notin Bad
      BY <2>1, <2>2, <2>4
    <3>2. PICK f : Unfolds(h, s, Fewer(m, n - 1), f)
      BY <3>1
    <3> DEFINE e == [D \in Fewer(m, n) |-> Step(h, s, f, D)]
    <3>3. ASSUME NEW D \in Fewer(m, n)
          PROVE  Step(h, s, f, D) = Step(h, s, e, D)
      <4>1. CASE D = {}
        BY <4>1 DEF Step
      <4>2. CASE D # {}
        <5> DEFINE C == D \ {Max(D)}
        <5>1. C \in Fewer(m, n - 1) /\ C \in Fewer(m, n)
          BY <2>2, <4>2, OneFewer, SMTT(60) DEF Fewer
        <5>2. f[C] = Step(h, s, f, C) /\ e[C] = Step(h, s, f, C)
          BY <3>2, <5>1, Zenon DEF Unfolds
        <5>3. f[C] = e[C]
          BY <5>2
        <5> HIDE DEF e
        <5> QED
          BY <4>2, <5>3, Zenon DEF Step
      <4> QED
        BY <4>1, <4>2
    <3>4. Unfolds(h, s, Fewer(m, n), e)
      <4> HIDE DEF e
      <4>1. e = [D \in Fewer(m, n) |-> Step(h, s, f, D)]
        BY DEF e
      <4> QED
        BY <3>3, <4>1 DEF Unfolds
    <3> QED
      BY <2>2, <3>4
  <2> QED
    BY <2>3, <2>4
<1>3. Fewer(m, m + 1) = SUBSET (1 .. m)
  BY <1>0 DEF Fewer
<1>4. \E f : Unfolds(h, s, SUBSET (1 .. m), f)
  <2>1. m + 1 \in Nat /\ m + 1 \notin Bad
    BY <1>1
  <2> QED
    BY <1>3, <2>1
<1> QED
  BY <1>4, Zenon DEF Fold

(* A replay goes through one store per record, from the last to the first. *)
LEMMA ReplayGoesBack ==
  ASSUME NEW h, NEW S, NEW log \in Seq(S)
  PROVE  \E past : /\ past[Len(log)] = h
                   /\ \A i \in 1 .. Len(log) : past[i - 1] = ApplyUndo(past[i], log[i])
                   /\ Replay(h, log) = past[0]
<1> DEFINE n == Len(log)
           s == Reverse(log)
           f == Fold(h, s)
           past == [i \in 0 .. n |-> f[1 .. (n - i)]]
<1>1. n \in Nat /\ s = [i \in 1 .. n |-> log[(n - i) + 1]] /\ DOMAIN s = 1 .. n
  BY DEF Reverse
<1> HIDE DEF s
<1>2. f = [D \in SUBSET (1 .. n) |-> Step(h, s, f, D)]
  <2>1. Unfolds(h, s, SUBSET (1 .. n), f)
    <3> HIDE DEF n
    <3> QED
      BY <1>1, FoldUnfolds
  <2> QED
    BY <2>1, Zenon DEF Unfolds
<1> HIDE DEF f, n
<1>3. f[{}] = h
  BY <1>2 DEF Step
<1>4. ASSUME NEW k \in 1 .. n
      PROVE  f[1 .. k] = ApplyUndo(f[1 .. (k - 1)], s[k])
  <2>1. k \in Nat /\ (1 .. k) \in SUBSET (1 .. n) /\ k \in 1 .. k
    BY <1>1
  <2>2. Max(1 .. k) = k
    <3>1. Max(1 .. k) \in 1 .. k /\ \A i \in 1 .. k : Max(1 .. k) >= i
      <4> DEFINE D == 1 .. k
      <4>1. D \in SUBSET (1 .. n) /\ D # {}
        BY <2>1
      <4> HIDE DEF D
      <4>2. Max(D) \in D /\ \A i \in D : Max(D) >= i
        BY <1>1, <4>1, MaxOfPositions
      <4> QED
        BY <4>2 DEF D
    <3> QED
      BY <1>1, <2>1, <3>1
  <2>3. (1 .. k) \ {k} = 1 .. (k - 1)
    BY <1>1
  <2> QED
    BY <1>2, <2>1, <2>2, <2>3 DEF Step
<1>5. past[n] = h
  BY <1>1, <1>3
<1>6. ASSUME NEW i \in 1 .. n
      PROVE  past[i - 1] = ApplyUndo(past[i], log[i])
  <2> DEFINE k == n - (i - 1)
  <2>1. k \in 1 .. n /\ k - 1 = n - i /\ s[k] = log[i]
    BY <1>1
  <2>2. past[i - 1] = f[1 .. k] /\ past[i] = f[1 .. (k - 1)]
    BY <1>1, <2>1
  <2> HIDE DEF k, past
  <2> QED
    BY <1>4, <2>1, <2>2
<1>7. Replay(h, log) = past[0]
  <2>1. Replay(h, log) = f[1 .. n]
    BY <1>1, ReplayIs DEF f, s, n
  <2> QED
    BY <1>1, <2>1
<1> QED
  BY <1>5, <1>6, <1>7 DEF n

(* Stores are records, and the operations replace some of their fields:    *)
(* one definition per operation says what every field of its result is, so *)
(* that no proof below opens the operation itself.                         *)
Fields == {"ext", "idOf", "dead", "labels", "bucket", "prop", "index", "ends",
           "out", "inc", "count", "csr", "reads"}
IsStore(h) == h = [f \in Fields |-> h[f]]

(* What an operation leaves alone of a store h, or drops from it, in k *)
SameEdges(h, k) ==
    k.ends = h.ends /\ k.out = h.out /\ k.inc = h.inc /\ k.count = h.count
SameNodes(h, k) ==
    /\ k.ext = h.ext /\ k.idOf = h.idOf /\ k.dead = h.dead /\ k.labels = h.labels
    /\ k.bucket = h.bucket /\ k.prop = h.prop /\ k.index = h.index
SameOverlay(h, k) == k.csr = h.csr /\ k.reads = h.reads
NoOverlay(k) == k.csr = Stale /\ k.reads = 0

(* k is what Invalidate makes of h; and so on, one definition per          *)
(* operation                                                               *)
InvalidateGives(h, k) ==
    IsStore(k) /\ SameEdges(h, k) /\ SameNodes(h, k) /\ NoOverlay(k)

WriteCellGives(h, k, id, value) ==
    /\ IsStore(k) /\ SameEdges(h, k) /\ SameOverlay(h, k)
    /\ k.ext = h.ext /\ k.idOf = h.idOf /\ k.dead = h.dead /\ k.labels = h.labels
    /\ k.bucket = h.bucket
    /\ k.prop = [h.prop EXCEPT ![id] = value]
    /\ k.index = Reindex(h, id, h.prop[id], value)

PutLabelGives(h, k, id, l) ==
    /\ IsStore(k) /\ SameEdges(h, k) /\ SameOverlay(h, k)
    /\ k.ext = h.ext /\ k.idOf = h.idOf /\ k.dead = h.dead
    /\ k.prop = h.prop /\ k.index = h.index
    /\ k.labels = [h.labels EXCEPT ![id] = @ \cup {l}]
    /\ k.bucket = [h.bucket EXCEPT ![l] = @ \cup {id}]

DropLabelGives(h, k, id, l) ==
    /\ IsStore(k) /\ SameEdges(h, k) /\ SameOverlay(h, k)
    /\ k.ext = h.ext /\ k.idOf = h.idOf /\ k.dead = h.dead
    /\ k.prop = h.prop /\ k.index = h.index
    /\ k.labels = [h.labels EXCEPT ![id] = @ \ {l}]
    /\ k.bucket = [h.bucket EXCEPT ![l] = @ \ {id}]

PushNodeGives(h, k, ext, labels, value, id) ==
    /\ IsStore(k) /\ NoOverlay(k)
    /\ k.ext = Append(h.ext, ext) /\ k.dead = h.dead
    /\ k.idOf = [e \in {ext} \cup DOMAIN h.idOf |-> IF e = ext THEN id ELSE h.idOf[e]]
    /\ k.labels = Append(h.labels, labels)
    /\ k.bucket = [l \in Labels |->
                     IF l \in labels THEN h.bucket[l] \cup {id} ELSE h.bucket[l]]
    /\ k.prop = [Append(h.prop, Absent) EXCEPT ![id] = value]
    /\ k.index = Reindex(h, id, Append(h.prop, Absent)[id], value)
    /\ k.ends = h.ends /\ k.out = Append(h.out, {}) /\ k.inc = Append(h.inc, {})
    /\ k.count = h.count

PopNodeGives(h, k, id) ==
    /\ IsStore(k) /\ NoOverlay(k)
    /\ k.ext = Front(h.ext) /\ k.idOf = ForgetExt(h, id)
    /\ k.dead = h.dead \ {id} /\ k.labels = Front(h.labels)
    /\ k.bucket = [l \in Labels |-> h.bucket[l] \ {id}]
    /\ k.prop = Front(h.prop) /\ k.index = Reindex(h, id, h.prop[id], Absent)
    /\ k.ends = h.ends /\ k.out = Front(h.out) /\ k.inc = Front(h.inc)
    /\ k.count = Uncount(h, h.out[id])

PushEdgeGives(h, k, from, to, type, eid) ==
    /\ IsStore(k) /\ SameNodes(h, k) /\ NoOverlay(k)
    /\ k.ends = Append(h.ends, [from |-> from, to |-> to, type |-> type])
    /\ k.out = [h.out EXCEPT ![from] = @ \cup {eid}]
    /\ k.inc = [h.inc EXCEPT ![to] = @ \cup {eid}]
    /\ k.count = [h.count EXCEPT ![type] = @ + 1]

CutEdgeGives(h, k, eid) ==
    /\ IsStore(k) /\ SameNodes(h, k) /\ NoOverlay(k)
    /\ k.ends = h.ends
    /\ k.out = [n \in DOMAIN h.out |-> h.out[n] \ {eid}]
    /\ k.inc = [n \in DOMAIN h.inc |-> h.inc[n] \ {eid}]
    /\ k.count = IF EdgeEntries(h, eid) = {} THEN h.count ELSE Uncount(h, {eid})

CutOutGives(h, k, id) ==
    /\ IsStore(k) /\ SameNodes(h, k) /\ SameOverlay(h, k)
    /\ k.ends = h.ends
    /\ k.out = [h.out EXCEPT ![id] = {}]
    /\ k.inc = [n \in DOMAIN h.inc |-> h.inc[n] \ h.out[id]]
    /\ k.count = Uncount(h, h.out[id])

BuryNodeGives(h, cut, k, id) ==
    /\ IsStore(k) /\ NoOverlay(k)
    /\ k.ext = h.ext /\ k.idOf = h.idOf /\ k.dead = h.dead \cup {id}
    /\ k.labels = [h.labels EXCEPT ![id] = {}]
    /\ k.bucket = [l \in Labels |-> h.bucket[l] \ {id}]
    /\ k.prop = [h.prop EXCEPT ![id] = Absent]
    /\ k.index = Reindex(h, id, h.prop[id], Absent)
    /\ k.ends = h.ends
    /\ k.out = [n \in DOMAIN cut.out |-> cut.out[n] \ cut.inc[id]]
    /\ k.inc = [cut.inc EXCEPT ![id] = {}]
    /\ k.count = Uncount(cut, cut.inc[id])

\* the entry of the record's edge in a list, if it had one
Back(rec, n, isOut) ==
    IF [node |-> n, isOut |-> isOut] \in rec.entries THEN {rec.eid} ELSE {}

RaiseEdgeGives(h, k, rec) ==
    /\ IsStore(k) /\ SameNodes(h, k) /\ SameOverlay(h, k) /\ k.ends = h.ends
    /\ k.out = [n \in DOMAIN h.out |-> h.out[n] \cup Back(rec, n, TRUE)]
    /\ k.inc = [n \in DOMAIN h.inc |-> h.inc[n] \cup Back(rec, n, FALSE)]
    /\ k.count = IF \E entry \in rec.entries : entry.isOut
                 THEN Recount(h, {rec.eid}) ELSE h.count

RaiseNodeGives(h, k, rec, id) ==
    /\ IsStore(k) /\ SameOverlay(h, k) /\ k.ext = h.ext /\ k.idOf = h.idOf
    /\ k.dead = h.dead \ {id}
    /\ k.labels = [h.labels EXCEPT ![id] = rec.labels]
    /\ k.bucket = [l \in Labels |->
                     IF l \in rec.labels THEN h.bucket[l] \cup {id} ELSE h.bucket[l]]
    /\ k.prop = [h.prop EXCEPT ![id] = rec.value]
    /\ k.index = Reindex(h, id, h.prop[id], rec.value)
    /\ k.ends = h.ends
    /\ k.out = [n \in DOMAIN h.out |-> IF n = id THEN rec.out
                  ELSE h.out[n] \cup {e \in rec.inc : h.ends[e].from = n}]
    /\ k.inc = [n \in DOMAIN h.inc |-> IF n = id THEN rec.inc
                  ELSE h.inc[n] \cup {e \in rec.out : h.ends[e].to = n}]
    /\ k.count = Recount(h, EdgesOf(h, rec))

\* The fields of the operations that change one part of a store.
(* The result of invalidate_csr, of a cell write and of a label that       *)
(* enters or leaves, field by field.                                       *)
LEMMA SmallFields ==
  ASSUME NEW h, IsStore(h), NEW id, NEW x
  PROVE  /\ InvalidateGives(h, Invalidate(h))
         /\ WriteCellGives(h, WriteCell(h, id, x), id, x)
         /\ PutLabelGives(h, PutLabel(h, id, x), id, x)
         /\ DropLabelGives(h, DropLabel(h, id, x), id, x)
<1> USE DEF IsStore, Fields, SameEdges, SameNodes, SameOverlay, NoOverlay
<1>1. InvalidateGives(h, Invalidate(h))
  BY DEF Invalidate, InvalidateGives
<1>2. WriteCellGives(h, WriteCell(h, id, x), id, x)
  BY DEF WriteCell, WriteCellGives
<1>3. PutLabelGives(h, PutLabel(h, id, x), id, x)
  BY DEF PutLabel, PutLabelGives
<1>4. DropLabelGives(h, DropLabel(h, id, x), id, x)
  BY DEF DropLabel, DropLabelGives
<1> QED
  BY <1>1, <1>2, <1>3, <1>4

\* The fields of a store that gets a node.
(* The result of add_node_with_id, field by field. *)
LEMMA PushNodeFields ==
  ASSUME NEW h, IsStore(h), NEW ext, NEW labels, NEW value, NEW id, id = Len(h.ext) + 1
  PROVE  PushNodeGives(h, PushNode(h, ext, labels, value), ext, labels, value, id)
<1> DEFINE i == Invalidate(h)
           grown == [i EXCEPT
                    !.ext = Append(@, ext),
                    !.idOf = [e \in {ext} \cup DOMAIN @ |-> IF e = ext THEN id ELSE @[e]],
                    !.prop = Append(@, Absent),
                    !.out = Append(@, {}),
                    !.inc = Append(@, {}),
                    !.labels = Append(@, labels),
                    !.bucket = [l \in Labels |->
                        IF l \in labels THEN @[l] \cup {id} ELSE @[l]]]
<1>1. PushNode(h, ext, labels, value) = WriteCell(grown, id, value)
  BY DEF PushNode
<1>2. InvalidateGives(h, i)
  BY SmallFields
<1> HIDE DEF i
<1>3. /\ IsStore(grown) /\ NoOverlay(grown)
      /\ grown.ext = Append(h.ext, ext)
      /\ grown.idOf = [e \in {ext} \cup DOMAIN h.idOf |-> IF e = ext THEN id ELSE h.idOf[e]]
      /\ grown.dead = h.dead /\ grown.labels = Append(h.labels, labels)
      /\ grown.bucket = [l \in Labels |->
                          IF l \in labels THEN h.bucket[l] \cup {id} ELSE h.bucket[l]]
      /\ grown.prop = Append(h.prop, Absent) /\ grown.index = h.index
      /\ grown.ends = h.ends /\ grown.out = Append(h.out, {})
      /\ grown.inc = Append(h.inc, {})
      /\ grown.count = h.count
  BY <1>2 DEF InvalidateGives, IsStore, Fields, SameEdges, SameNodes, NoOverlay
<1> HIDE DEF grown
<1>4. Reindex(grown, id, grown.prop[id], value) = Reindex(h, id, Append(h.prop, Absent)[id], value)
  BY <1>3 DEF Reindex
<1>5. WriteCellGives(grown, WriteCell(grown, id, value), id, value)
  BY <1>3, SmallFields
<1> DEFINE k == WriteCell(grown, id, value)
<1> HIDE DEF k
<1>6. WriteCellGives(grown, k, id, value)
  BY <1>5 DEF k
<1>7. PushNodeGives(h, k, ext, labels, value, id)
  BY <1>3, <1>4, <1>6 DEF WriteCellGives, SameEdges, SameOverlay, NoOverlay, PushNodeGives
<1> QED
  BY <1>1, <1>7 DEF k

\* The fields of a store that loses its last node.
(* The result of pop_last_node, field by field. *)
LEMMA PopNodeFields ==
  ASSUME NEW h, IsStore(h)
  PROVE  PopNodeGives(h, PopNode(h), Len(h.ext))
<1> DEFINE i == Invalidate(h)
<1>1. InvalidateGives(h, i)
  BY SmallFields
<1> HIDE DEF i
<1> QED
  BY <1>1 DEF InvalidateGives, IsStore, Fields, SameEdges, SameNodes, NoOverlay,
              PopNode, PopNodeGives, i

\* The fields of a store that gets an edge, or loses one.
(* The results of adding an edge and of taking one out of the lists, field *)
(* by field.                                                               *)
LEMMA EdgeFields ==
  ASSUME NEW h, IsStore(h), NEW from, NEW to, NEW type, NEW eid
  PROVE  /\ eid = Len(h.ends) + 1 =>
              PushEdgeGives(h, PushEdge(h, from, to, type), from, to, type, eid)
         /\ CutEdgeGives(h, CutEdge(h, eid), eid)
<1> DEFINE i == Invalidate(h)
<1>1. InvalidateGives(h, i)
  BY SmallFields
<1> HIDE DEF i
<1>2. ASSUME eid = Len(h.ends) + 1
      PROVE  PushEdgeGives(h, PushEdge(h, from, to, type), from, to, type, eid)
  BY <1>1, <1>2, ZenonT(60) DEF InvalidateGives, IsStore, Fields, SameEdges, SameNodes, NoOverlay,
                    PushEdge, PushEdgeGives, i
<1>3. CutEdgeGives(h, CutEdge(h, eid), eid)
  BY <1>1 DEF InvalidateGives, IsStore, Fields, SameEdges, SameNodes, NoOverlay,
              CutEdge, CutEdgeGives, i
<1> QED
  BY <1>2, <1>3

\* The fields of a store one of whose nodes is deleted.
(* The result of remove_node, and of its first half, which cuts the out    *)
(* edges, field by field.                                                  *)
LEMMA BuryNodeFields ==
  ASSUME NEW h, IsStore(h), NEW id
  PROVE  /\ CutOutGives(h, CutOut(h, id), id)
         /\ BuryNodeGives(h, CutOut(h, id), BuryNode(h, id), id)
<1> DEFINE cut == CutOut(h, id)
           i == Invalidate(cut)
           k == BuryNode(h, id)
<1>1. CutOutGives(h, CutOut(h, id), id)
  BY DEF IsStore, Fields, SameOverlay, SameNodes, CutOut, CutOutGives
<1>3. k = [i EXCEPT
        !.index = Reindex(h, id, h.prop[id], Absent),
        !.prop[id] = Absent,
        !.inc[id] = {},
        !.out = [n \in DOMAIN @ |-> @[n] \ cut.inc[id]],
        !.count = Uncount(cut, cut.inc[id]),
        !.dead = @ \cup {id},
        !.labels[id] = {},
        !.bucket = [l \in Labels |-> @[l] \ {id}]]
  BY DEF BuryNode
<1> HIDE DEF cut, k
<1>4. CutOutGives(h, cut, id)
  BY <1>1 DEF cut
<1>2. InvalidateGives(cut, i)
  BY <1>4, SmallFields DEF CutOutGives
<1> HIDE DEF i
<1>5. /\ IsStore(i) /\ NoOverlay(i)
      /\ i.ext = h.ext /\ i.idOf = h.idOf /\ i.dead = h.dead /\ i.labels = h.labels
      /\ i.bucket = h.bucket /\ i.prop = h.prop
      /\ i.ends = h.ends /\ i.out = cut.out /\ i.inc = cut.inc
  BY <1>2, <1>4 DEF CutOutGives, InvalidateGives, SameEdges, SameNodes
<1>6. /\ IsStore(k) /\ NoOverlay(k)
      /\ k.ext = h.ext /\ k.idOf = h.idOf /\ k.dead = h.dead \cup {id}
      /\ k.labels = [h.labels EXCEPT ![id] = {}]
      /\ k.bucket = [l \in Labels |-> h.bucket[l] \ {id}]
      /\ k.prop = [h.prop EXCEPT ![id] = Absent]
      /\ k.index = Reindex(h, id, h.prop[id], Absent)
  BY <1>3, <1>5 DEF IsStore, Fields, NoOverlay
<1>7. /\ k.ends = h.ends
      /\ k.out = [n \in DOMAIN cut.out |-> cut.out[n] \ cut.inc[id]]
      /\ k.inc = [cut.inc EXCEPT ![id] = {}]
      /\ k.count = Uncount(cut, cut.inc[id])
  BY <1>3, <1>5 DEF IsStore, Fields
<1>8. BuryNodeGives(h, cut, k, id)
  BY <1>6, <1>7 DEF BuryNodeGives
<1> QED
  BY <1>4, <1>8 DEF cut, k

\* The fields of a store that gets a deleted edge back.
(* The result of the undo of a removed edge, field by field. *)
LEMMA RaiseEdgeFields ==
  ASSUME NEW h, IsStore(h), NEW rec
  PROVE  RaiseEdgeGives(h, RaiseEdge(h, rec), rec)
  BY DEF IsStore, Fields, SameOverlay, SameNodes, RaiseEdge, RaiseEdgeGives, Back

\* The fields of a store that gets a deleted node back.
(* The result of the undo of a removed node, field by field. *)
LEMMA RaiseNodeFields ==
  ASSUME NEW h, IsStore(h), NEW rec, NEW id, id = rec.id
  PROVE  RaiseNodeGives(h, RaiseNode(h, rec), rec, id)
<1> DEFINE Sources(n) == {e \in rec.inc : h.ends[e].from = n}
           Targets(n) == {e \in rec.out : h.ends[e].to = n}
           count == Recount(h, EdgesOf(h, rec))
           raised == [h EXCEPT
            !.dead = @ \ {id},
            !.out = [n \in DOMAIN @ |->
                        IF n = id THEN rec.out ELSE @[n] \cup Sources(n)],
            !.inc = [n \in DOMAIN @ |->
                        IF n = id THEN rec.inc ELSE @[n] \cup Targets(n)],
            !.count = count,
            !.labels[id] = rec.labels,
            !.bucket = [l \in Labels |->
                            IF l \in rec.labels THEN @[l] \cup {id} ELSE @[l]]]
<1>1. RaiseNode(h, rec) = WriteCell(raised, id, rec.value)
  BY DEF RaiseNode
<1> HIDE DEF count
<1>2. /\ IsStore(raised) /\ SameOverlay(h, raised)
      /\ raised.ext = h.ext /\ raised.idOf = h.idOf
      /\ raised.dead = h.dead \ {id}
      /\ raised.labels = [h.labels EXCEPT ![id] = rec.labels]
      /\ raised.bucket = [l \in Labels |->
                            IF l \in rec.labels THEN h.bucket[l] \cup {id} ELSE h.bucket[l]]
      /\ raised.prop = h.prop /\ raised.index = h.index
      /\ raised.ends = h.ends
      /\ raised.out = [n \in DOMAIN h.out |-> IF n = id THEN rec.out
                       ELSE h.out[n] \cup Sources(n)]
      /\ raised.inc = [n \in DOMAIN h.inc |-> IF n = id THEN rec.inc
                       ELSE h.inc[n] \cup Targets(n)]
      /\ raised.count = count
  BY ZenonT(60) DEF IsStore, Fields, SameOverlay
<1> HIDE DEF raised
<1>3. Reindex(raised, id, raised.prop[id], rec.value) = Reindex(h, id, h.prop[id], rec.value)
  BY <1>2 DEF Reindex
<1> DEFINE k == WriteCell(raised, id, rec.value)
<1>4. WriteCellGives(raised, k, id, rec.value)
  BY <1>2, SmallFields
<1> HIDE DEF k
<1>5. RaiseNodeGives(h, k, rec, id)
  BY <1>2, <1>3, <1>4 DEF WriteCellGives, SameEdges, SameOverlay, RaiseNodeGives, count
<1> QED
  BY <1>1, <1>5 DEF k

EdgeType == [from : Nat, to : Nat, type : Types]

(* The nodes of a store, or of a core (ext, dead, labels, prop and out): a *)
(* dead node has no label and no value.                                    *)
NodesTyped(c) ==
    /\ c.ext \in Seq(Nat)
    /\ c.labels \in [Nodes(c) -> SUBSET Labels]
    /\ c.prop \in [Nodes(c) -> Cells]
    /\ c.dead \subseteq Nodes(c)
    /\ \A id \in c.dead : c.labels[id] = {} /\ c.prop[id] = Absent

(* An edge is in the out list of its source, and its ends are alive. *)
OutOK(c, ends) ==
    /\ c.out \in [Nodes(c) -> SUBSET Nat]
    /\ \A n \in Nodes(c) : \A e \in c.out[n] :
         /\ e \in DOMAIN ends /\ ends[e].from = n
         /\ n \in Live(c) /\ ends[e].to \in Live(c)

(* A core that a store could have, given the ends of the edges. *)
WellFormed(c, ends) == NodesTyped(c) /\ OutOK(c, ends)

(* The edges that are there, and those of a type among some *)
Edges(h) == UNION {h.out[id] : id \in Nodes(h)}
OfType(ends, E, t) == {e \in E : ends[e].type = t}

(* The parts of a sound store: each derived structure is what the          *)
(* structure it is derived from says.                                      *)
EndsOK(h) == h.ends \in Seq(EdgeType)
ExtOK(h) ==
    \A ext \in DOMAIN h.idOf : h.idOf[ext] \in Nodes(h) /\ h.ext[h.idOf[ext]] = ext
BucketsOK(h) == h.bucket = [l \in Labels |-> {id \in Live(h) : l \in h.labels[id]}]
IndexOf(h) == [v \in Indexable |-> {id \in Live(h) : h.prop[id] = v}]
IndexOK(h) == h.index = NoIndex \/ h.index = IndexOf(h)
InOK(h) ==
    /\ h.inc \in [Nodes(h) -> SUBSET Nat]
    /\ \A n \in Nodes(h) : \A e \in h.inc[n] :
         /\ e \in DOMAIN h.ends /\ h.ends[e].to = n
         /\ h.ends[e].from \in Nodes(h) /\ e \in h.out[h.ends[e].from]
    /\ \A n \in Nodes(h) : \A e \in h.out[n] :
         h.ends[e].to # n => e \in h.inc[h.ends[e].to]
CountOK(h) == h.count = [t \in Types |-> Cardinality(OfType(h.ends, Edges(h), t))]
OverlayOK(h) == h.csr = Stale \/ h.csr = Overlay(h)

(* A store all of whose structures agree: the first part of the inductive  *)
(* invariant.                                                              *)
Sound(h) ==
    /\ IsStore(h) /\ EndsOK(h) /\ WellFormed(h, h.ends)
    /\ ExtOK(h) /\ BucketsOK(h) /\ IndexOK(h)
    /\ InOK(h) /\ CountOK(h) /\ OverlayOK(h)

-----------------------------------------------------------------------------
(* Counting *)

(* The edges of a type are finitely many: etype_counts counts them. *)
LEMMA EdgesAreFinite ==
  ASSUME NEW ends \in Seq(EdgeType), NEW E \in SUBSET DOMAIN ends, NEW t
  PROVE  IsFiniteSet(OfType(ends, E, t)) /\ Cardinality(OfType(ends, E, t)) \in Nat
<1>1. DOMAIN ends = 1 .. Len(ends) /\ Len(ends) \in Nat
  OBVIOUS
<1>2. IsFiniteSet(1 .. Len(ends))
  BY <1>1, FS_Interval
<1>3. OfType(ends, E, t) \in SUBSET (1 .. Len(ends))
  BY <1>1 DEF OfType
<1>4. IsFiniteSet(OfType(ends, E, t))
  BY <1>2, <1>3, FS_Subset
<1> QED
  BY <1>4, FS_CardinalityType

(* Two finite sets without a common member have as many members as both    *)
(* together.                                                               *)
LEMMA CardinalityOfBoth ==
  ASSUME NEW A, NEW B, IsFiniteSet(A), IsFiniteSet(B), A \cap B = {}
  PROVE  Cardinality(A \cup B) = Cardinality(A) + Cardinality(B)
<1>1. Cardinality(A \cap B) = 0
  BY FS_EmptySet
<1>2. Cardinality(A) \in Nat /\ Cardinality(B) \in Nat
  BY FS_CardinalityType
<1>3. Cardinality(A \cup B) = Cardinality(A) + Cardinality(B) - Cardinality(A \cap B)
  BY FS_Union
<1> QED
  BY <1>1, <1>2, <1>3

(* Counts that are exact for the edges E are exact for E without X once X  *)
(* is uncounted: bump_etype_count does not reach zero early.               *)
LEMMA UncountExact ==
  ASSUME NEW h, EndsOK(h), NEW E \in SUBSET DOMAIN h.ends, NEW X \in SUBSET E,
         h.count = [t \in Types |-> Cardinality(OfType(h.ends, E, t))]
  PROVE  Uncount(h, X) = [t \in Types |-> Cardinality(OfType(h.ends, E \ X, t))]
<1>1. ASSUME NEW t \in Types
      PROVE  (IF Cardinality(OfType(h.ends, X, t)) > h.count[t] THEN 0
              ELSE h.count[t] - Cardinality(OfType(h.ends, X, t)))
             = Cardinality(OfType(h.ends, E \ X, t))
  <2> DEFINE a == OfType(h.ends, X, t)
             b == OfType(h.ends, E \ X, t)
  <2>1. a \cap b = {} /\ OfType(h.ends, E, t) = a \cup b
    BY DEF OfType
  <2>2. h.ends \in Seq(EdgeType) /\ X \in SUBSET DOMAIN h.ends /\ (E \ X) \in SUBSET DOMAIN h.ends
    BY DEF EndsOK
  <2>3. IsFiniteSet(a) /\ Cardinality(a) \in Nat /\ IsFiniteSet(b) /\ Cardinality(b) \in Nat
    BY <2>2, EdgesAreFinite
  <2> HIDE DEF a, b
  <2>4. Cardinality(a \cup b) = Cardinality(a) + Cardinality(b)
    BY <2>1, <2>3, CardinalityOfBoth
  <2>5. h.count[t] = Cardinality(a) + Cardinality(b)
    BY <2>1, <2>4
  <2>6. ~(Cardinality(a) > h.count[t]) /\ h.count[t] - Cardinality(a) = Cardinality(b)
    BY <2>3, <2>5
  <2> QED
    BY <2>6 DEF a, b
<1> QED
  BY <1>1 DEF Uncount, OfType

(* Counts that are exact for the edges E are exact for E and X once X is   *)
(* counted again.                                                          *)
LEMMA RecountExact ==
  ASSUME NEW h, EndsOK(h), NEW E \in SUBSET DOMAIN h.ends, NEW X \in SUBSET DOMAIN h.ends,
         X \cap E = {},
         h.count = [t \in Types |-> Cardinality(OfType(h.ends, E, t))]
  PROVE  Recount(h, X) = [t \in Types |-> Cardinality(OfType(h.ends, E \cup X, t))]
<1>1. ASSUME NEW t \in Types
      PROVE  h.count[t] + Cardinality(OfType(h.ends, X, t))
             = Cardinality(OfType(h.ends, E \cup X, t))
  <2> DEFINE a == OfType(h.ends, X, t)
             b == OfType(h.ends, E, t)
  <2>1. b \cap a = {} /\ OfType(h.ends, E \cup X, t) = b \cup a
    BY DEF OfType
  <2>2. h.ends \in Seq(EdgeType)
    BY DEF EndsOK
  <2>3. IsFiniteSet(a) /\ Cardinality(a) \in Nat /\ IsFiniteSet(b) /\ Cardinality(b) \in Nat
    BY <2>2, EdgesAreFinite
  <2>5. h.count[t] = Cardinality(b)
    OBVIOUS
  <2>6. OfType(h.ends, X, t) = a /\ OfType(h.ends, E \cup X, t) = b \cup a
    BY <2>1
  <2> HIDE DEF a, b
  <2>4. Cardinality(b \cup a) = Cardinality(b) + Cardinality(a)
    BY <2>1, <2>3, CardinalityOfBoth
  <2> QED
    BY <2>4, <2>5, <2>6
<1> QED
  BY <1>1 DEF Recount, OfType

(* A sequence with one element more, as a function. *)
LEMMA AppendIs ==
  ASSUME NEW n \in Nat, NEW S, NEW s \in [1 .. n -> S], NEW x \in S
  PROVE  Append(s, x) = [i \in 1 .. (n + 1) |-> IF i = n + 1 THEN x ELSE s[i]]
<1>1. s \in Seq(S) /\ Len(s) = n
  OBVIOUS
<1> DEFINE t == Append(s, x)
<1>2. /\ t \in Seq(S) /\ Len(t) = n + 1
      /\ \A i \in 1 .. n : t[i] = s[i]
      /\ t[n + 1] = x
  BY <1>1, AppendProperties
<1> HIDE DEF t
<1>3. t = [i \in 1 .. (n + 1) |-> t[i]]
  BY <1>2
<1>4. ASSUME NEW i \in 1 .. (n + 1)
      PROVE  t[i] = IF i = n + 1 THEN x ELSE s[i]
  <2>1. i = n + 1 \/ i \in 1 .. n
    OBVIOUS
  <2> QED
    BY <1>2, <2>1
<1>5. t = [i \in 1 .. (n + 1) |-> IF i = n + 1 THEN x ELSE s[i]]
  BY <1>3, <1>4
<1> QED
  BY <1>5 DEF t

(* A sequence without its last element, as a function. *)
LEMMA FrontIs ==
  ASSUME NEW n \in Nat, n > 0, NEW S, NEW s \in [1 .. n -> S]
  PROVE  Front(s) = [i \in 1 .. (n - 1) |-> s[i]]
<1>1. s \in Seq(S) /\ Len(s) = n
  OBVIOUS
<1> QED
  BY <1>1 DEF Front

(* The ids of the nodes are the numbers from one to how many there are. *)
LEMMA NodesAre ==
  ASSUME NEW c, NodesTyped(c)
  PROVE  /\ Len(c.ext) \in Nat /\ Nodes(c) = 1 .. Len(c.ext)
         /\ Nodes(c) \subseteq Nat /\ Live(c) \subseteq Nodes(c)
  BY DEF NodesTyped, Nodes, Live

(* invalidate_csr leaves a sound store sound, and no overlay. *)
LEMMA InvalidateSound ==
  ASSUME NEW h, Sound(h)
  PROVE  Sound(Invalidate(h)) /\ SameNodes(h, Invalidate(h)) /\ SameEdges(h, Invalidate(h))
         /\ Invalidate(h).csr = Stale
<1> DEFINE k == Invalidate(h)
<1>1. IsStore(k) /\ SameEdges(h, k) /\ SameNodes(h, k) /\ k.csr = Stale
  <2>1. InvalidateGives(h, k)
    BY SmallFields DEF Sound
  <2> QED
    BY <2>1 DEF InvalidateGives, NoOverlay
<1> HIDE DEF k
<1>2. EndsOK(k) /\ WellFormed(k, k.ends) /\ ExtOK(k)
  BY <1>1 DEF Sound, SameEdges, SameNodes, EndsOK, WellFormed, NodesTyped, OutOK, ExtOK, Nodes, Live
<1>3. BucketsOK(k) /\ IndexOK(k)
  BY <1>1 DEF Sound, SameEdges, SameNodes, BucketsOK, IndexOK, IndexOf, Nodes, Live
<1>4. InOK(k) /\ CountOK(k) /\ OverlayOK(k)
  BY <1>1 DEF Sound, SameEdges, SameNodes, InOK, CountOK, OverlayOK, Edges, Nodes
<1> QED
  BY <1>1, <1>2, <1>3, <1>4 DEF Sound, k

(* An operation that touches no edge, no overlay and no life of a node     *)
(* keeps what is said of them.                                             *)
LEMMA EdgesKept ==
  ASSUME NEW h, NEW k, Sound(h), SameEdges(h, k), SameOverlay(h, k),
         k.ext = h.ext, k.dead = h.dead
  PROVE  EndsOK(k) /\ OutOK(k, k.ends) /\ InOK(k) /\ CountOK(k) /\ OverlayOK(k)
<1>1. EndsOK(k) /\ OutOK(k, k.ends)
  BY DEF Sound, SameEdges, EndsOK, WellFormed, OutOK, Nodes, Live
<1>2. InOK(k)
  BY DEF Sound, SameEdges, InOK, Nodes
<1>3. CountOK(k) /\ OverlayOK(k)
  BY DEF Sound, SameEdges, SameOverlay, CountOK, OverlayOK, Edges, Nodes, Overlay
<1> QED
  BY <1>1, <1>2, <1>3

(* A label that enters a live node leaves a sound store sound. *)
LEMMA PutLabelSound ==
  ASSUME NEW h, Sound(h), NEW id \in Live(h), NEW l \in Labels
  PROVE  Sound(PutLabel(h, id, l))
<1> DEFINE k == PutLabel(h, id, l)
<1>1. /\ IsStore(k) /\ SameEdges(h, k) /\ SameOverlay(h, k)
      /\ k.ext = h.ext /\ k.idOf = h.idOf /\ k.dead = h.dead
      /\ k.prop = h.prop /\ k.index = h.index
      /\ k.labels = [h.labels EXCEPT ![id] = @ \cup {l}]
      /\ k.bucket = [h.bucket EXCEPT ![l] = @ \cup {id}]
  <2>1. PutLabelGives(h, k, id, l)
    BY SmallFields DEF Sound
  <2> QED
    BY <2>1 DEF PutLabelGives
<1> HIDE DEF k
<1>2. EndsOK(k) /\ OutOK(k, k.ends) /\ InOK(k) /\ CountOK(k) /\ OverlayOK(k)
  BY <1>1, EdgesKept
<1>3. NodesTyped(k)
  BY <1>1 DEF Sound, WellFormed, NodesTyped, Nodes, Live
<1>4. ExtOK(k) /\ IndexOK(k)
  BY <1>1 DEF Sound, ExtOK, IndexOK, IndexOf, Nodes, Live
<1>5. BucketsOK(k)
  <2>1. h.bucket = [m \in Labels |-> {n \in Live(h) : m \in h.labels[n]}]
    BY DEF Sound, BucketsOK
  <2>2. \A n \in Nodes(h) : k.labels[n] = IF n = id THEN h.labels[n] \cup {l} ELSE h.labels[n]
    BY <1>1 DEF Sound, WellFormed, NodesTyped
  <2>3. Live(k) = Live(h) /\ Live(h) \subseteq Nodes(h)
    BY <1>1 DEF Live, Nodes
  <2>4. ASSUME NEW m \in Labels
        PROVE  k.bucket[m] = {n \in Live(k) : m \in k.labels[n]}
    <3>1. h.bucket[m] = {n \in Live(h) : m \in h.labels[n]}
      BY <2>1
    <3>2. k.bucket[m] = IF m = l THEN h.bucket[m] \cup {id} ELSE h.bucket[m]
      BY <1>1, <2>1
    <3> QED
      BY <2>2, <2>3, <3>1, <3>2
  <2>5. k.bucket = [m \in Labels |-> k.bucket[m]]
    BY <1>1, <2>1
  <2> QED
    BY <2>4, <2>5 DEF BucketsOK
<1> QED
  BY <1>1, <1>2, <1>3, <1>4, <1>5 DEF Sound, WellFormed, k

(* A label that leaves a live node leaves a sound store sound. *)
LEMMA DropLabelSound ==
  ASSUME NEW h, Sound(h), NEW id \in Live(h), NEW l \in Labels
  PROVE  Sound(DropLabel(h, id, l))
<1> DEFINE k == DropLabel(h, id, l)
<1>1. /\ IsStore(k) /\ SameEdges(h, k) /\ SameOverlay(h, k)
      /\ k.ext = h.ext /\ k.idOf = h.idOf /\ k.dead = h.dead
      /\ k.prop = h.prop /\ k.index = h.index
      /\ k.labels = [h.labels EXCEPT ![id] = @ \ {l}]
      /\ k.bucket = [h.bucket EXCEPT ![l] = @ \ {id}]
  <2>1. DropLabelGives(h, k, id, l)
    BY SmallFields DEF Sound
  <2> QED
    BY <2>1 DEF DropLabelGives
<1> HIDE DEF k
<1>2. EndsOK(k) /\ OutOK(k, k.ends) /\ InOK(k) /\ CountOK(k) /\ OverlayOK(k)
  BY <1>1, EdgesKept
<1>3. NodesTyped(k)
  BY <1>1 DEF Sound, WellFormed, NodesTyped, Nodes, Live
<1>4. ExtOK(k) /\ IndexOK(k)
  BY <1>1 DEF Sound, ExtOK, IndexOK, IndexOf, Nodes, Live
<1>5. BucketsOK(k)
  <2>1. h.bucket = [m \in Labels |-> {n \in Live(h) : m \in h.labels[n]}]
    BY DEF Sound, BucketsOK
  <2>2. \A n \in Nodes(h) : k.labels[n] = IF n = id THEN h.labels[n] \ {l} ELSE h.labels[n]
    BY <1>1 DEF Sound, WellFormed, NodesTyped
  <2>3. Live(k) = Live(h) /\ Live(h) \subseteq Nodes(h)
    BY <1>1 DEF Live, Nodes
  <2>4. ASSUME NEW m \in Labels
        PROVE  k.bucket[m] = {n \in Live(k) : m \in k.labels[n]}
    <3>1. h.bucket[m] = {n \in Live(h) : m \in h.labels[n]}
      BY <2>1
    <3>2. k.bucket[m] = IF m = l THEN h.bucket[m] \ {id} ELSE h.bucket[m]
      BY <1>1, <2>1
    <3> QED
      BY <2>2, <2>3, <3>1, <3>2
  <2>5. k.bucket = [m \in Labels |-> k.bucket[m]]
    BY <1>1, <2>1
  <2> QED
    BY <2>4, <2>5 DEF BucketsOK
<1> QED
  BY <1>1, <1>2, <1>3, <1>4, <1>5 DEF Sound, WellFormed, k

(* reindex_node keeps the index exact when a node takes a value, a node    *)
(* that comes back from the dead included.                                 *)
LEMMA ReindexExact ==
  ASSUME NEW h, NEW k, NodesTyped(h), IndexOK(h), NEW id \in Nodes(h), NEW value \in Cells,
         id \notin k.dead,
         Nodes(k) = Nodes(h), k.dead = h.dead \ {id},
         k.prop = [h.prop EXCEPT ![id] = value],
         k.index = Reindex(h, id, h.prop[id], value)
  PROVE  IndexOK(k)
<1>1. CASE h.index = NoIndex
  BY <1>1 DEF Reindex, IndexOK
<1>2. CASE h.index # NoIndex
  <2>1. ASSUME NEW v \in Indexable
        PROVE  (IF v = h.prop[id] THEN h.index[v] \ {id} ELSE h.index[v])
                  \cup (IF v = value THEN {id} ELSE {})
               = {n \in Live(k) : k.prop[n] = v}
    <3>1. h.index[v] = {n \in Live(h) : h.prop[n] = v}
      BY <1>2 DEF IndexOK, IndexOf
    <3>2. \A n \in Nodes(h) : k.prop[n] = IF n = id THEN value ELSE h.prop[n]
      BY DEF NodesTyped
    <3>3. \A n : n \in Live(k) <=> n = id \/ (n \in Live(h))
      BY DEF Live, Nodes
    <3>4. id \in h.dead => h.prop[id] = Absent
      BY DEF NodesTyped
    <3>5. Live(h) \subseteq Nodes(h)
      BY DEF Live
    <3> QED
      BY <3>1, <3>2, <3>3, <3>4, <3>5, StoreAssumption DEF Indexable, Live
  <2>2. k.index = [v \in Indexable |->
            (IF v = h.prop[id] THEN h.index[v] \ {id} ELSE h.index[v])
                \cup (IF v = value THEN {id} ELSE {})]
    BY <1>2, Zenon DEF Reindex
  <2>3. k.index = IndexOf(k)
    BY <2>1, <2>2 DEF IndexOf
  <2> QED
    BY <2>3 DEF IndexOK
<1> QED
  BY <1>1, <1>2

(* A value written to a live node leaves a sound store sound. *)
LEMMA WriteCellSound ==
  ASSUME NEW h, Sound(h), NEW id \in Live(h), NEW value \in Cells
  PROVE  Sound(WriteCell(h, id, value))
<1> DEFINE k == WriteCell(h, id, value)
<1>1. /\ IsStore(k) /\ SameEdges(h, k) /\ SameOverlay(h, k)
      /\ k.ext = h.ext /\ k.idOf = h.idOf /\ k.dead = h.dead /\ k.labels = h.labels
      /\ k.bucket = h.bucket
      /\ k.prop = [h.prop EXCEPT ![id] = value]
      /\ k.index = Reindex(h, id, h.prop[id], value)
  <2>1. WriteCellGives(h, k, id, value)
    BY SmallFields DEF Sound
  <2> QED
    BY <2>1 DEF WriteCellGives
<1> HIDE DEF k
<1>2. EndsOK(k) /\ OutOK(k, k.ends) /\ InOK(k) /\ CountOK(k) /\ OverlayOK(k)
  BY <1>1, EdgesKept
<1>3. NodesTyped(k)
  BY <1>1 DEF Sound, WellFormed, NodesTyped, Nodes, Live
<1>4. ExtOK(k) /\ BucketsOK(k)
  BY <1>1 DEF Sound, ExtOK, BucketsOK, Nodes, Live
<1>5. IndexOK(k)
  <2>1. NodesTyped(h) /\ IndexOK(h)
    BY DEF Sound, WellFormed
  <2>2. /\ id \in Nodes(h) /\ id \notin k.dead /\ Nodes(k) = Nodes(h)
        /\ k.dead = h.dead \ {id}
    BY <1>1 DEF Live, Nodes
  <2> QED
    BY <1>1, <2>1, <2>2, ReindexExact
<1> QED
  BY <1>1, <1>2, <1>3, <1>4, <1>5 DEF Sound, WellFormed, k

(* Every edge that is there has its ends recorded. *)
LEMMA EdgesInDomain ==
  ASSUME NEW h, OutOK(h, h.ends)
  PROVE  Edges(h) \in SUBSET DOMAIN h.ends
  BY DEF OutOK, Edges

(* A store that a set X of edges leaves, out of both lists of their ends   *)
(* and of the counts, keeps what is said of edges.                         *)
LEMMA CutEdges ==
  ASSUME NEW h, EndsOK(h), OutOK(h, h.ends), InOK(h), NEW k, NEW X,
         k.ext = h.ext, k.ends = h.ends,
         k.out = [n \in Nodes(h) |-> h.out[n] \ X],
         k.inc = [n \in Nodes(h) |-> h.inc[n] \ X],
         \A n \in Nodes(h) : \A e \in h.out[n] \ X :
            n \in Live(k) /\ h.ends[e].to \in Live(k),
         k.count = [t \in Types |-> Cardinality(OfType(h.ends, Edges(h) \ X, t))],
         k.csr = Stale
  PROVE  EndsOK(k) /\ OutOK(k, k.ends) /\ InOK(k) /\ CountOK(k) /\ OverlayOK(k)
<1>1. Nodes(k) = Nodes(h)
  BY DEF Nodes
<1>2. EndsOK(k) /\ OverlayOK(k)
  BY DEF EndsOK, OverlayOK
<1>3. OutOK(k, k.ends)
  BY <1>1 DEF OutOK
<1>4. InOK(k)
  <2>1. \A n \in Nodes(h) : \A e \in h.out[n] \ X : h.ends[e].to \in Nodes(h)
    BY <1>1 DEF Live
  <2> QED
    BY <1>1, <2>1 DEF InOK
<1>5. Edges(k) = Edges(h) \ X
  BY <1>1 DEF Edges
<1> QED
  BY <1>2, <1>3, <1>4, <1>5 DEF CountOK

(* An edge has an entry in a list exactly when it is in the out list of    *)
(* its source.                                                             *)
LEMMA EntriesAreThere ==
  ASSUME NEW h, Sound(h), NEW eid \in DOMAIN h.ends,
         {h.ends[eid].from, h.ends[eid].to} \subseteq Nodes(h)
  PROVE  EdgeEntries(h, eid) = {} <=> eid \notin Edges(h)
<1>0. OutOK(h, h.ends) /\ InOK(h)
  BY DEF Sound, WellFormed
<1>1. ASSUME eid \in Edges(h) PROVE EdgeEntries(h, eid) # {}
  <2>1. eid \in h.out[h.ends[eid].from]
    BY <1>0, <1>1 DEF Edges, OutOK
  <2> DEFINE entry == [node |-> h.ends[eid].from, isOut |-> TRUE]
  <2>2. entry \in EdgeEntries(h, eid)
    BY <2>1 DEF EdgeEntries
  <2> QED
    BY <2>2
<1>2. ASSUME NEW entry \in EdgeEntries(h, eid) PROVE eid \in Edges(h)
  <2>1. /\ entry.node \in Nodes(h)
        /\ eid \in h.out[entry.node] \/ eid \in h.inc[entry.node]
    BY DEF EdgeEntries
  <2> QED
    BY <1>0, <2>1 DEF Edges, InOK
<1> QED
  BY <1>1, <1>2

(* Taking an edge out of the lists leaves a sound store sound, whether the *)
(* edge was there or not.                                                  *)
LEMMA CutEdgeSound ==
  ASSUME NEW h, Sound(h), NEW eid \in DOMAIN h.ends,
         {h.ends[eid].from, h.ends[eid].to} \subseteq Nodes(h)
  PROVE  Sound(CutEdge(h, eid))
<1> DEFINE k == CutEdge(h, eid)
<1>1. /\ IsStore(k) /\ SameNodes(h, k) /\ k.csr = Stale
      /\ k.ends = h.ends
      /\ k.out = [n \in DOMAIN h.out |-> h.out[n] \ {eid}]
      /\ k.inc = [n \in DOMAIN h.inc |-> h.inc[n] \ {eid}]
      /\ k.count = IF EdgeEntries(h, eid) = {} THEN h.count ELSE Uncount(h, {eid})
  <2>1. CutEdgeGives(h, k, eid)
    BY EdgeFields DEF Sound
  <2> QED
    BY <2>1 DEF CutEdgeGives, NoOverlay
<1> HIDE DEF k
<1>2. EndsOK(h) /\ OutOK(h, h.ends) /\ InOK(h) /\ Edges(h) \in SUBSET DOMAIN h.ends
  BY EdgesInDomain DEF Sound, WellFormed
<1>3. DOMAIN h.out = Nodes(h) /\ DOMAIN h.inc = Nodes(h) /\ Live(k) = Live(h)
  BY <1>1, <1>2 DEF OutOK, InOK, SameNodes, Live, Nodes
<1>4. k.count = [t \in Types |-> Cardinality(OfType(h.ends, Edges(h) \ {eid}, t))]
  <2>0. h.count = [t \in Types |-> Cardinality(OfType(h.ends, Edges(h), t))]
    BY DEF Sound, CountOK
  <2>1. CASE eid \in Edges(h)
    <3>1. {eid} \in SUBSET Edges(h)
      BY <2>1
    <3>2. Uncount(h, {eid}) = [t \in Types |-> Cardinality(OfType(h.ends, Edges(h) \ {eid}, t))]
      BY <1>2, <2>0, <3>1, UncountExact
    <3> QED
      BY <1>1, <2>1, <3>2, EntriesAreThere
  <2>2. CASE eid \notin Edges(h)
    <3>1. Edges(h) \ {eid} = Edges(h)
      BY <2>2
    <3> QED
      BY <1>1, <2>0, <2>2, <3>1, EntriesAreThere
  <2> QED
    BY <2>1, <2>2
<1>5. EndsOK(k) /\ OutOK(k, k.ends) /\ InOK(k) /\ CountOK(k) /\ OverlayOK(k)
  <2>1. k.ext = h.ext
    BY <1>1 DEF SameNodes
  <2>2. \A n \in Nodes(h) : \A e \in h.out[n] \ {eid} :
            n \in Live(k) /\ h.ends[e].to \in Live(k)
    BY <1>2, <1>3 DEF OutOK
  <2>3. /\ k.out = [n \in Nodes(h) |-> h.out[n] \ {eid}]
        /\ k.inc = [n \in Nodes(h) |-> h.inc[n] \ {eid}]
        /\ k.ends = h.ends /\ k.csr = Stale
    BY <1>1, <1>3
  <2> QED
    BY <1>2, <1>4, <2>1, <2>2, <2>3, CutEdges
<1>6. NodesTyped(k) /\ ExtOK(k)
  BY <1>1 DEF Sound, SameNodes, WellFormed, NodesTyped, ExtOK, Nodes
<1>7. BucketsOK(k) /\ IndexOK(k)
  BY <1>1 DEF Sound, SameNodes, BucketsOK, IndexOK, IndexOf, Nodes, Live
<1> QED
  BY <1>1, <1>5, <1>6, <1>7 DEF Sound, WellFormed, k

(* pop_last_node leaves a sound store sound, when the node it pops is      *)
(* alive and has no edge.                                                  *)
LEMMA PopNodeSound ==
  ASSUME NEW h, Sound(h), Len(h.ext) > 0, Len(h.ext) \notin h.dead,
         h.out[Len(h.ext)] = {},
         \A n \in Nodes(h) : \A e \in h.out[n] : h.ends[e].to # Len(h.ext)
  PROVE  Sound(PopNode(h))
<1> DEFINE k == PopNode(h)
           id == Len(h.ext)
<1>1. /\ IsStore(k)
      /\ k.ext = Front(h.ext) /\ k.idOf = ForgetExt(h, id)
      /\ k.dead = h.dead \ {id} /\ k.labels = Front(h.labels)
      /\ k.bucket = [l \in Labels |-> h.bucket[l] \ {id}]
      /\ k.prop = Front(h.prop) /\ k.index = Reindex(h, id, h.prop[id], Absent)
      /\ k.ends = h.ends /\ k.out = Front(h.out) /\ k.inc = Front(h.inc)
      /\ k.count = Uncount(h, h.out[id]) /\ k.csr = Stale
  <2>1. PopNodeGives(h, k, id)
    BY PopNodeFields DEF Sound
  <2> QED
    BY <2>1 DEF PopNodeGives, NoOverlay
<1> HIDE DEF k
<1>2. NodesTyped(h) /\ OutOK(h, h.ends) /\ InOK(h) /\ EndsOK(h)
  BY DEF Sound, WellFormed
<1>3. id \in Nat /\ id > 0 /\ id \in Nodes(h) /\ Nodes(h) = 1 .. id
  BY <1>2, NodesAre
<1>20. id \in Nat /\ id > 0
  BY <1>3
<1>4. /\ k.ext \in Seq(Nat) /\ Len(k.ext) = id - 1 /\ Nodes(k) = 1 .. (id - 1)
      /\ \A n \in 1 .. (id - 1) : k.ext[n] = h.ext[n]
  <2>1. h.ext \in [1 .. id -> Nat]
    BY <1>2 DEF NodesTyped
  <2>2. k.ext = [i \in 1 .. (id - 1) |-> h.ext[i]]
    <3> HIDE DEF id
    <3>1. Front(h.ext) = [i \in 1 .. (id - 1) |-> h.ext[i]]
      BY <1>20, <2>1, FrontIs, ZenonT(60)
    <3> QED
      BY <1>1, <3>1
  <2>3. k.ext \in [1 .. (id - 1) -> Nat]
    BY <1>20, <2>1, <2>2
  <2> QED
    BY <1>20, <2>2, <2>3 DEF Nodes
<1>5. /\ k.labels \in [1 .. (id - 1) -> SUBSET Labels]
      /\ \A n \in 1 .. (id - 1) : k.labels[n] = h.labels[n]
  <2>1. h.labels \in [1 .. id -> SUBSET Labels]
    BY <1>2, <1>3 DEF NodesTyped
  <2> HIDE DEF id
  <2>2. Front(h.labels) = [i \in 1 .. (id - 1) |-> h.labels[i]]
    BY <1>20, <2>1, FrontIs, ZenonT(60)
  <2> QED
    BY <1>1, <1>20, <2>1, <2>2
<1>6. /\ k.prop \in [1 .. (id - 1) -> Cells]
      /\ \A n \in 1 .. (id - 1) : k.prop[n] = h.prop[n]
  <2>1. h.prop \in [1 .. id -> Cells]
    BY <1>2, <1>3 DEF NodesTyped
  <2> HIDE DEF id
  <2>2. Front(h.prop) = [i \in 1 .. (id - 1) |-> h.prop[i]]
    BY <1>20, <2>1, FrontIs, ZenonT(60)
  <2> QED
    BY <1>1, <1>20, <2>1, <2>2
<1>7. /\ k.out \in [1 .. (id - 1) -> SUBSET Nat]
      /\ \A n \in 1 .. (id - 1) : k.out[n] = h.out[n]
  <2>1. h.out \in [1 .. id -> SUBSET Nat]
    BY <1>2, <1>3 DEF OutOK
  <2> HIDE DEF id
  <2>2. Front(h.out) = [i \in 1 .. (id - 1) |-> h.out[i]]
    BY <1>20, <2>1, FrontIs, ZenonT(60)
  <2> QED
    BY <1>1, <1>20, <2>1, <2>2
<1>8. /\ k.inc \in [1 .. (id - 1) -> SUBSET Nat]
      /\ \A n \in 1 .. (id - 1) : k.inc[n] = h.inc[n]
  <2>1. h.inc \in [1 .. id -> SUBSET Nat]
    BY <1>2, <1>3 DEF InOK
  <2> HIDE DEF id
  <2>2. Front(h.inc) = [i \in 1 .. (id - 1) |-> h.inc[i]]
    BY <1>20, <2>1, FrontIs, ZenonT(60)
  <2> QED
    BY <1>1, <1>20, <2>1, <2>2
<1>9. id \notin h.dead /\ h.out[id] = {}
      /\ \A n \in Nodes(h) : \A e \in h.out[n] : h.ends[e].to # id
  OBVIOUS
<1> HIDE DEF id
<1>10. Live(k) = Live(h) \ {id} /\ k.dead = h.dead
  BY <1>1, <1>3, <1>4, <1>9 DEF Live
<1>21. \A n : n \in Nodes(k) <=> n \in Nodes(h) /\ n # id
  BY <1>3, <1>4
<1>11. NodesTyped(k)
  <2>1. k.labels \in [Nodes(k) -> SUBSET Labels] /\ k.prop \in [Nodes(k) -> Cells]
    BY <1>4, <1>5, <1>6
  <2>2. ASSUME NEW n \in k.dead
        PROVE  n \in Nodes(k) /\ k.labels[n] = {} /\ k.prop[n] = Absent
    <3>1. n \in h.dead /\ n # id /\ n \in Nodes(h) /\ h.labels[n] = {} /\ h.prop[n] = Absent
      BY <1>2, <1>9, <1>10 DEF NodesTyped
    <3>2. n \in 1 .. (id - 1)
      BY <1>4, <1>21, <3>1
    <3> QED
      BY <1>5, <1>6, <1>21, <3>1, <3>2
  <2> QED
    BY <1>4, <2>1, <2>2 DEF NodesTyped
<1>12. OutOK(k, k.ends)
  <2>1. k.out \in [Nodes(k) -> SUBSET Nat]
    BY <1>4, <1>7
  <2>2. ASSUME NEW n \in Nodes(k), NEW e \in k.out[n]
        PROVE  /\ e \in DOMAIN h.ends /\ h.ends[e].from = n
               /\ n \in Live(k) /\ h.ends[e].to \in Live(k)
    <3>1. n \in Nodes(h) /\ n # id /\ e \in h.out[n]
      BY <1>4, <1>7, <1>21
    <3>2. /\ e \in DOMAIN h.ends /\ h.ends[e].from = n
          /\ n \in Live(h) /\ h.ends[e].to \in Live(h)
      BY <1>2, <3>1 DEF OutOK
    <3>3. h.ends[e].to # id
      BY <1>9, <3>1
    <3> QED
      BY <1>10, <3>1, <3>2, <3>3
  <2> QED
    BY <1>1, <2>1, <2>2 DEF OutOK
<1>13. InOK(k)
  <2>1. \A n \in 1 .. (id - 1) : n \in Nodes(h) /\ k.out[n] = h.out[n] /\ k.inc[n] = h.inc[n]
    BY <1>3, <1>7, <1>8
  <2>2. ASSUME NEW n \in 1 .. (id - 1), NEW e \in h.inc[n]
        PROVE  /\ e \in DOMAIN k.ends /\ k.ends[e].to = n
               /\ k.ends[e].from \in 1 .. (id - 1) /\ e \in k.out[k.ends[e].from]
    <3>1. /\ e \in DOMAIN h.ends /\ h.ends[e].to = n
          /\ h.ends[e].from \in 1 .. id /\ e \in h.out[h.ends[e].from]
      BY <1>2, <1>3, <2>1 DEF InOK
    <3>2. h.ends[e].from # id
      BY <1>9, <3>1
    <3>3. h.ends[e].from \in 1 .. (id - 1)
      BY <1>3, <3>1, <3>2
    <3> QED
      BY <1>1, <2>1, <3>1, <3>3
  <2>3. ASSUME NEW n \in 1 .. (id - 1), NEW e \in h.out[n], k.ends[e].to # n
        PROVE  e \in k.inc[k.ends[e].to]
    <3>1. e \in h.inc[h.ends[e].to] /\ h.ends[e].to \in 1 .. id /\ h.ends[e].to # id
      BY <1>1, <1>2, <1>3, <1>9, <2>1, <2>3 DEF InOK, OutOK, Live
    <3>2. h.ends[e].to \in 1 .. (id - 1)
      BY <1>3, <3>1
    <3> QED
      BY <1>1, <2>1, <3>1, <3>2
  <2>4. k.inc \in [1 .. (id - 1) -> SUBSET Nat] /\ Nodes(k) = 1 .. (id - 1)
    BY <1>4, <1>8
  <2>5. \A n \in 1 .. (id - 1) : k.out[n] = h.out[n] /\ k.inc[n] = h.inc[n]
    BY <2>1
  <2> HIDE DEF id
  <2> QED
    BY <2>2, <2>3, <2>4, <2>5, Zenon DEF InOK
<1>14. Edges(k) = Edges(h)
  <2>1. \A n \in Nodes(k) : n \in Nodes(h) /\ k.out[n] = h.out[n]
    BY <1>4, <1>7, <1>21
  <2>2. \A n \in Nodes(h) : n \in Nodes(k) \/ h.out[n] = {}
    BY <1>9, <1>21
  <2> QED
    BY <2>1, <2>2 DEF Edges
<1>15. CountOK(k)
  <2>1. h.count = [t \in Types |-> Cardinality(OfType(h.ends, Edges(h), t))]
    BY DEF Sound, CountOK
  <2>2. Edges(h) \in SUBSET DOMAIN h.ends /\ {} \in SUBSET Edges(h)
    BY <1>2, EdgesInDomain
  <2>3. Uncount(h, {}) = [t \in Types |-> Cardinality(OfType(h.ends, Edges(h) \ {}, t))]
    <3>1. EndsOK(h)
      BY DEF Sound
    <3> QED
      BY <3>1, <2>1, <2>2, UncountExact, ZenonT(60)
  <2>4. Edges(h) \ {} = Edges(k)
    BY <1>14
  <2> QED
    BY <1>1, <1>9, <2>3, <2>4 DEF CountOK
<1>16. BucketsOK(k)
  <2>1. h.bucket = [m \in Labels |-> {n \in Live(h) : m \in h.labels[n]}]
    BY DEF Sound, BucketsOK
  <2>2. ASSUME NEW m \in Labels
        PROVE  h.bucket[m] \ {id} = {n \in Live(k) : m \in k.labels[n]}
    <3>1. \A n \in Live(k) : n \in 1 .. (id - 1) /\ k.labels[n] = h.labels[n]
      BY <1>4, <1>5 DEF Live
    <3> QED
      BY <1>10, <2>1, <3>1
  <2> QED
    BY <1>1, <2>2 DEF BucketsOK
<1>17. IndexOK(k)
  <2>1. CASE h.index = NoIndex
    BY <1>1, <2>1 DEF IndexOK, Reindex
  <2>2. CASE h.index # NoIndex
    <3>1. h.index = [v \in Indexable |-> {n \in Live(h) : h.prop[n] = v}]
      BY <2>2 DEF Sound, IndexOK, IndexOf
    <3>2. k.index = [v \in Indexable |->
            (IF v = h.prop[id] THEN h.index[v] \ {id} ELSE h.index[v])
                \cup (IF v = Absent THEN {id} ELSE {})]
      BY <1>1, <2>2, Zenon DEF Reindex
    <3>3. ASSUME NEW v \in Indexable
          PROVE  (IF v = h.prop[id] THEN h.index[v] \ {id} ELSE h.index[v])
                    \cup (IF v = Absent THEN {id} ELSE {})
                 = {n \in Live(k) : k.prop[n] = v}
      <4>1. \A n \in Live(k) : n \in 1 .. (id - 1) /\ k.prop[n] = h.prop[n]
        BY <1>4, <1>6 DEF Live
      <4>2. h.index[v] = {n \in Live(h) : h.prop[n] = v} /\ v # Absent
        BY <3>1, StoreAssumption DEF Indexable
      <4> QED
        BY <1>10, <4>1, <4>2
    <3>4. k.index = IndexOf(k)
      BY <3>2, <3>3 DEF IndexOf
    <3> QED
      BY <3>4 DEF IndexOK
  <2> QED
    BY <2>1, <2>2
<1>18. ExtOK(k)
  <2> SUFFICES ASSUME NEW x \in DOMAIN k.idOf
               PROVE  k.idOf[x] \in Nodes(k) /\ k.ext[k.idOf[x]] = x
    BY DEF ExtOK
  <2>1. x \in DOMAIN h.idOf /\ x # h.ext[id] /\ k.idOf[x] = h.idOf[x]
    BY <1>1 DEF ForgetExt
  <2>2. h.idOf[x] \in Nodes(h) /\ h.ext[h.idOf[x]] = x
    BY <2>1 DEF Sound, ExtOK
  <2> QED
    BY <1>3, <1>4, <2>1, <2>2, SMTT(60)
<1>19. EndsOK(k) /\ OverlayOK(k)
  BY <1>1, <1>2 DEF EndsOK, OverlayOK
<1> QED
  BY <1>1, <1>11, <1>12, <1>13, <1>15, <1>16, <1>17, <1>18, <1>19 DEF Sound, WellFormed, k

(* An index, whatever it holds, is not the value that stands for none. *)
LEMMA IndexIsThere ==
  ASSUME NEW h, NodesTyped(h)
  PROVE  IndexOf(h) # NoIndex
<1>1. \A v \in Indexable : {id \in Live(h) : h.prop[id] = v} \in SUBSET Nat
  BY NodesAre
<1>2. IndexOf(h) \in [Indexable -> SUBSET Nat]
  BY <1>1 DEF IndexOf
<1> QED
  BY <1>2, StoreAssumption

(* k is h and a new node without edges. *)
Grown(h, k) ==
    /\ Len(k.ext) = Len(h.ext) + 1 /\ k.dead = h.dead /\ k.ends = h.ends
    /\ k.out[Len(k.ext)] = {} /\ (Indexed(k) <=> Indexed(h))
    /\ \A i \in Nodes(h) : /\ k.ext[i] = h.ext[i] /\ k.labels[i] = h.labels[i]
                           /\ k.prop[i] = h.prop[i] /\ k.out[i] = h.out[i]

(* add_node_with_id leaves a sound store sound, and its nodes but for the  *)
(* new one.                                                                *)
LEMMA PushNodeSound ==
  ASSUME NEW h, Sound(h), NEW ext \in Nat, NEW labels \in SUBSET Labels, NEW value \in Cells
  PROVE  Sound(PushNode(h, ext, labels, value)) /\ Grown(h, PushNode(h, ext, labels, value))
<1> DEFINE k == PushNode(h, ext, labels, value)
<1>0. PICK id : id = Len(h.ext) + 1
  OBVIOUS
<1>1. /\ IsStore(k)
      /\ k.ext = Append(h.ext, ext) /\ k.idOf = [e \in {ext} \cup DOMAIN h.idOf |-> IF e = ext THEN id ELSE h.idOf[e]]
      /\ k.dead = h.dead /\ k.labels = Append(h.labels, labels)
      /\ k.bucket = [l \in Labels |->
                       IF l \in labels THEN h.bucket[l] \cup {id} ELSE h.bucket[l]]
      /\ k.prop = [Append(h.prop, Absent) EXCEPT ![id] = value]
      /\ k.index = Reindex(h, id, Append(h.prop, Absent)[id], value)
      /\ k.ends = h.ends /\ k.out = Append(h.out, {}) /\ k.inc = Append(h.inc, {})
      /\ k.count = h.count /\ k.csr = Stale
  <2>1. PushNodeGives(h, k, ext, labels, value, id)
    BY <1>0, PushNodeFields DEF Sound
  <2> QED
    BY <2>1 DEF PushNodeGives, NoOverlay
<1> HIDE DEF k
<1>2. NodesTyped(h) /\ OutOK(h, h.ends) /\ InOK(h) /\ EndsOK(h)
  BY DEF Sound, WellFormed
<1> DEFINE n == Len(h.ext)
<1>3. n \in Nat /\ Nodes(h) = 1 .. n
  BY <1>2, NodesAre
<1>4. id = n + 1
  BY <1>0
<1> HIDE DEF n
<1>5. /\ k.ext \in Seq(Nat) /\ Len(k.ext) = n + 1 /\ Nodes(k) = 1 .. (n + 1)
      /\ k.ext[n + 1] = ext
      /\ \A i \in 1 .. n : k.ext[i] = h.ext[i]
  <2>1. h.ext \in [1 .. n -> Nat]
    BY <1>2, <1>3 DEF NodesTyped, n
  <2>2. Append(h.ext, ext) = [i \in 1 .. (n + 1) |-> IF i = n + 1 THEN ext ELSE h.ext[i]]
    BY <1>3, <2>1, AppendIs
  <2>3. k.ext = [i \in 1 .. (n + 1) |-> IF i = n + 1 THEN ext ELSE h.ext[i]]
    BY <1>1, <2>2
  <2>4. k.ext \in [1 .. (n + 1) -> Nat]
    BY <1>3, <2>1, <2>3
  <2> QED
    BY <1>3, <2>3, <2>4 DEF Nodes
<1>6. /\ k.labels \in [1 .. (n + 1) -> SUBSET Labels]
      /\ k.labels[n + 1] = labels
      /\ \A i \in 1 .. n : k.labels[i] = h.labels[i]
  <2>1. h.labels \in [1 .. n -> SUBSET Labels] /\ labels \in SUBSET Labels
    BY <1>2, <1>3 DEF NodesTyped
  <2>2. Append(h.labels, labels) = [i \in 1 .. (n + 1) |-> IF i = n + 1 THEN labels ELSE h.labels[i]]
    BY <1>3, <2>1, AppendIs
  <2> QED
    BY <1>1, <1>3, <2>1, <2>2
<1>8. /\ k.out \in [1 .. (n + 1) -> SUBSET Nat]
      /\ k.out[n + 1] = {}
      /\ \A i \in 1 .. n : k.out[i] = h.out[i]
  <2>1. h.out \in [1 .. n -> SUBSET Nat] /\ {} \in SUBSET Nat
    BY <1>2, <1>3 DEF OutOK
  <2>2. Append(h.out, {}) = [i \in 1 .. (n + 1) |-> IF i = n + 1 THEN {} ELSE h.out[i]]
    BY <1>3, <2>1, AppendIs
  <2>3. k.out = [i \in 1 .. (n + 1) |-> IF i = n + 1 THEN {} ELSE h.out[i]]
    BY <1>1, <2>2
  <2>4. k.out \in [1 .. (n + 1) -> SUBSET Nat]
    BY <1>3, <2>1, <2>3
  <2> QED
    BY <1>3, <2>3, <2>4
<1>9. /\ k.inc \in [1 .. (n + 1) -> SUBSET Nat]
      /\ k.inc[n + 1] = {}
      /\ \A i \in 1 .. n : k.inc[i] = h.inc[i]
  <2>1. h.inc \in [1 .. n -> SUBSET Nat] /\ {} \in SUBSET Nat
    BY <1>2, <1>3 DEF InOK
  <2>2. Append(h.inc, {}) = [i \in 1 .. (n + 1) |-> IF i = n + 1 THEN {} ELSE h.inc[i]]
    BY <1>3, <2>1, AppendIs
  <2>3. k.inc = [i \in 1 .. (n + 1) |-> IF i = n + 1 THEN {} ELSE h.inc[i]]
    BY <1>1, <2>2
  <2>4. k.inc \in [1 .. (n + 1) -> SUBSET Nat]
    BY <1>3, <2>1, <2>3
  <2> QED
    BY <1>3, <2>3, <2>4
<1>7. /\ k.prop \in [1 .. (n + 1) -> Cells]
      /\ k.prop[n + 1] = value /\ Append(h.prop, Absent)[id] = Absent
      /\ \A i \in 1 .. n : k.prop[i] = h.prop[i]
  <2>1. h.prop \in [1 .. n -> Cells] /\ Absent \in Cells
    BY <1>2, <1>3 DEF NodesTyped, Cells
  <2> DEFINE s == Append(h.prop, Absent)
  <2>2. s = [i \in 1 .. (n + 1) |-> IF i = n + 1 THEN Absent ELSE h.prop[i]]
    BY <1>3, <2>1, AppendIs
  <2>4. k.prop = [s EXCEPT ![id] = value]
    BY <1>1
  <2> HIDE DEF s
  <2>6. s[id] = Absent
    BY <1>3, <1>4, <2>2
  <2>5. s[id] = Append(h.prop, Absent)[id]
    BY DEF s
  <2>7. k.prop = [i \in 1 .. (n + 1) |-> IF i = n + 1 THEN value ELSE h.prop[i]]
    BY <1>3, <1>4, <2>2, <2>4
  <2>8. k.prop \in [1 .. (n + 1) -> Cells]
    BY <1>3, <2>1, <2>7
  <2> QED
    BY <1>3, <2>5, <2>6, <2>7, <2>8
<1>10. /\ \A i : i \in Nodes(k) <=> i \in Nodes(h) \/ i = n + 1
       /\ n + 1 \notin Nodes(h) /\ n + 1 \notin h.dead
       /\ h.dead \subseteq Nodes(h)
  BY <1>2, <1>3, <1>5 DEF NodesTyped
<1>11. \A i : i \in Live(k) <=> i \in Live(h) \/ i = n + 1
  BY <1>1, <1>10 DEF Live
<1>12. /\ Live(h) \subseteq Nodes(h)
       /\ \A i \in Nodes(h) : i # n + 1 /\ k.ext[i] = h.ext[i] /\ k.labels[i] = h.labels[i] /\ k.prop[i] = h.prop[i]
                               /\ k.out[i] = h.out[i] /\ k.inc[i] = h.inc[i]
  BY <1>3, <1>5, <1>6, <1>7, <1>8, <1>9, <1>10 DEF Live
<1>13. NodesTyped(k)
  BY <1>1, <1>2, <1>5, <1>6, <1>7, <1>10, <1>12 DEF NodesTyped
<1>14. OutOK(k, k.ends)
  <2>1. k.out \in [Nodes(k) -> SUBSET Nat]
    BY <1>5, <1>8
  <2>2. ASSUME NEW i \in Nodes(k), NEW e \in k.out[i]
        PROVE  /\ e \in DOMAIN k.ends /\ k.ends[e].from = i
               /\ i \in Live(k) /\ k.ends[e].to \in Live(k)
    <3>1. i \in Nodes(h) /\ e \in h.out[i]
      BY <1>8, <1>10, <1>12
    <3> QED
      BY <1>1, <1>2, <1>11, <3>1, SMTT(60) DEF OutOK
  <2> QED
    BY <2>1, <2>2 DEF OutOK
<1>15. InOK(k)
  <2>1. k.inc \in [Nodes(k) -> SUBSET Nat]
    BY <1>5, <1>9
  <2>2. ASSUME NEW i \in Nodes(k), NEW e \in k.inc[i]
        PROVE  /\ e \in DOMAIN k.ends /\ k.ends[e].to = i
               /\ k.ends[e].from \in Nodes(k) /\ e \in k.out[k.ends[e].from]
    <3>1. i \in Nodes(h) /\ e \in h.inc[i]
      BY <1>9, <1>10, <1>12
    <3>2. /\ e \in DOMAIN h.ends /\ h.ends[e].to = i
          /\ h.ends[e].from \in Nodes(h) /\ e \in h.out[h.ends[e].from]
      BY <1>2, <3>1 DEF InOK
    <3> QED
      BY <1>1, <1>10, <1>12, <3>2
  <2>3. ASSUME NEW i \in Nodes(k), NEW e \in k.out[i], k.ends[e].to # i
        PROVE  e \in k.inc[k.ends[e].to]
    <3>1. i \in Nodes(h) /\ e \in h.out[i] /\ h.ends[e].to # i
      BY <1>1, <1>8, <1>10, <1>12, <2>3
    <3>2. h.ends[e].to \in Nodes(h) /\ e \in h.inc[h.ends[e].to]
      BY <1>2, <1>12, <3>1 DEF OutOK, InOK
    <3> QED
      BY <1>1, <1>12, <3>2
  <2> QED
    BY <2>1, <2>2, <2>3 DEF InOK
<1>16. CountOK(k)
  <2>1. Edges(k) = Edges(h)
    BY <1>8, <1>10, <1>12 DEF Edges
  <2> QED
    BY <1>1, <2>1 DEF Sound, CountOK
<1>17. BucketsOK(k)
  <2>1. h.bucket = [m \in Labels |-> {i \in Live(h) : m \in h.labels[i]}]
    BY DEF Sound, BucketsOK
  <2>2. ASSUME NEW m \in Labels
        PROVE  (IF m \in labels THEN h.bucket[m] \cup {id} ELSE h.bucket[m])
               = {i \in Live(k) : m \in k.labels[i]}
    BY <1>4, <1>6, <1>10, <1>11, <1>12, <2>1
  <2> QED
    BY <1>1, <2>2, ZenonT(60) DEF BucketsOK
<1>18. IndexOK(k) /\ (Indexed(k) <=> Indexed(h))
  <2>1. CASE h.index = NoIndex
    BY <1>1, <2>1 DEF IndexOK, Reindex, Indexed
  <2>2. CASE h.index # NoIndex
    <3>1. h.index = [v \in Indexable |-> {i \in Live(h) : h.prop[i] = v}]
      BY <2>2 DEF Sound, IndexOK, IndexOf
    <3> DEFINE old == Append(h.prop, Absent)[id]
    <3>0. old = Absent
      BY <1>7
    <3>2. k.index = [v \in Indexable |->
            (IF v = old THEN h.index[v] \ {id} ELSE h.index[v])
                \cup (IF v = value THEN {id} ELSE {})]
      BY <1>1, <2>2, Zenon DEF Reindex
    <3> HIDE DEF old
    <3>3. ASSUME NEW v \in Indexable
          PROVE  (IF v = old THEN h.index[v] \ {id} ELSE h.index[v])
                    \cup (IF v = value THEN {id} ELSE {})
                 = {i \in Live(k) : k.prop[i] = v}
      <4>2. h.index[v] = {i \in Live(h) : h.prop[i] = v} /\ v # Absent
        BY <3>1, StoreAssumption DEF Indexable
      <4> QED
        BY <1>4, <1>7, <1>10, <1>11, <1>12, <3>0, <4>2
    <3>4. k.index = IndexOf(k)
      BY <3>2, <3>3 DEF IndexOf
    <3> QED
      BY <1>13, <2>2, <3>4, IndexIsThere DEF IndexOK, Indexed
  <2> QED
    BY <2>1, <2>2
<1>19. ExtOK(k)
  <2> SUFFICES ASSUME NEW x \in DOMAIN k.idOf
               PROVE  k.idOf[x] \in Nodes(k) /\ k.ext[k.idOf[x]] = x
    BY DEF ExtOK
  <2>1. \/ x = ext /\ k.idOf[x] = id
        \/ x \in DOMAIN h.idOf /\ k.idOf[x] = h.idOf[x]
    BY <1>1
  <2>2. x \in DOMAIN h.idOf => h.idOf[x] \in Nodes(h) /\ h.ext[h.idOf[x]] = x
    BY DEF Sound, ExtOK
  <2> QED
    BY <1>4, <1>5, <1>10, <1>12, <2>1, <2>2
<1>20. EndsOK(k) /\ OverlayOK(k)
  BY <1>1, <1>2 DEF EndsOK, OverlayOK
<1>21. Grown(h, k)
  BY <1>1, <1>5, <1>8, <1>12, <1>18 DEF Grown, n
<1> QED
  BY <1>1, <1>13, <1>14, <1>15, <1>16, <1>17, <1>18, <1>19, <1>20, <1>21 DEF Sound, WellFormed, k

(* An edge between two live nodes leaves a sound store sound. *)
LEMMA PushEdgeSound ==
  ASSUME NEW h, Sound(h), NEW from \in Live(h), NEW to \in Live(h), NEW type \in Types
  PROVE  Sound(PushEdge(h, from, to, type))
<1> DEFINE k == PushEdge(h, from, to, type)
           end == [from |-> from, to |-> to, type |-> type]
<1>0. PICK n, eid : n = Len(h.ends) /\ eid = Len(h.ends) + 1
  OBVIOUS
<1>1. /\ IsStore(k) /\ SameNodes(h, k) /\ k.csr = Stale
      /\ k.ends = Append(h.ends, end)
      /\ k.out = [h.out EXCEPT ![from] = @ \cup {eid}]
      /\ k.inc = [h.inc EXCEPT ![to] = @ \cup {eid}]
      /\ k.count = [h.count EXCEPT ![type] = @ + 1]
  <2>1. PushEdgeGives(h, k, from, to, type, eid)
    BY <1>0, EdgeFields DEF Sound
  <2> QED
    BY <2>1 DEF PushEdgeGives, NoOverlay
<1> HIDE DEF k
<1>2. /\ NodesTyped(h) /\ OutOK(h, h.ends) /\ InOK(h) /\ EndsOK(h)
      /\ Edges(h) \in SUBSET DOMAIN h.ends
  BY EdgesInDomain DEF Sound, WellFormed
<1>3. /\ Nodes(k) = Nodes(h) /\ Live(k) = Live(h) /\ Live(h) \subseteq Nodes(h)
      /\ Nodes(h) \subseteq Nat /\ from \in Nodes(h) /\ to \in Nodes(h)
  BY <1>1, <1>2, NodesAre DEF SameNodes, Nodes, Live
<1>4. n \in Nat /\ DOMAIN h.ends = 1 .. n /\ eid = n + 1 /\ eid \in Nat
      /\ h.ends \in [1 .. n -> EdgeType]
  BY <1>0, <1>2 DEF EndsOK
<1>5. end \in EdgeType /\ end.from = from /\ end.to = to /\ end.type = type
  BY <1>3 DEF EdgeType
<1> HIDE DEF end
<1>6. k.ends = [i \in 1 .. (n + 1) |-> IF i = n + 1 THEN end ELSE h.ends[i]]
  <2>1. Append(h.ends, end) = [i \in 1 .. (n + 1) |-> IF i = n + 1 THEN end ELSE h.ends[i]]
    BY <1>4, <1>5, AppendIs
  <2> QED
    BY <1>1, <2>1
<1>7. EndsOK(k)
  BY <1>4, <1>5, <1>6 DEF EndsOK
<1>8. /\ k.ends[eid] = end /\ eid \notin DOMAIN h.ends /\ DOMAIN k.ends = DOMAIN h.ends \cup {eid}
      /\ \A e \in DOMAIN h.ends : k.ends[e] = h.ends[e] /\ e # eid
  BY <1>4, <1>6
<1>9. /\ h.out \in [Nodes(h) -> SUBSET Nat] /\ h.inc \in [Nodes(h) -> SUBSET Nat]
      /\ k.out \in [Nodes(h) -> SUBSET Nat] /\ k.inc \in [Nodes(h) -> SUBSET Nat]
      /\ \A i \in Nodes(h) : k.out[i] = IF i = from THEN h.out[i] \cup {eid} ELSE h.out[i]
      /\ \A i \in Nodes(h) : k.inc[i] = IF i = to THEN h.inc[i] \cup {eid} ELSE h.inc[i]
  <2>1. h.out \in [Nodes(h) -> SUBSET Nat] /\ h.inc \in [Nodes(h) -> SUBSET Nat]
    BY <1>2 DEF OutOK, InOK
  <2>2. k.out \in [Nodes(h) -> SUBSET Nat] /\ k.inc \in [Nodes(h) -> SUBSET Nat]
    BY <1>1, <1>3, <1>4, <2>1
  <2> QED
    BY <1>1, <2>1, <2>2
<1>10. OutOK(k, k.ends)
  <2>1. ASSUME NEW i \in Nodes(h), NEW e \in k.out[i]
        PROVE  /\ e \in DOMAIN k.ends /\ k.ends[e].from = i
               /\ i \in Live(k) /\ k.ends[e].to \in Live(k)
    <3>1. CASE e \in h.out[i]
      BY <1>2, <1>3, <1>8, <3>1 DEF OutOK
    <3>2. CASE e \notin h.out[i]
      <4>1. i = from /\ e = eid
        BY <1>9, <3>2
      <4>2. eid \in k.out[from] /\ eid \in k.inc[to]
        BY <1>3, <1>9
      <4> QED
        BY <1>3, <1>5, <1>8, <4>1, <4>2
    <3> QED
      BY <3>1, <3>2
  <2> QED
    BY <1>3, <1>9, <2>1 DEF OutOK
<1>11. InOK(k)
  <2>1. ASSUME NEW i \in Nodes(h), NEW e \in k.inc[i]
        PROVE  /\ e \in DOMAIN k.ends /\ k.ends[e].to = i
               /\ k.ends[e].from \in Nodes(k) /\ e \in k.out[k.ends[e].from]
    <3>1. CASE e \in h.inc[i]
      <4>1. /\ e \in DOMAIN h.ends /\ h.ends[e].to = i
            /\ h.ends[e].from \in Nodes(h) /\ e \in h.out[h.ends[e].from]
        BY <1>2, <3>1 DEF InOK
      <4> QED
        BY <1>3, <1>8, <1>9, <4>1, ZenonT(60)
    <3>2. CASE e \notin h.inc[i]
      <4>1. i = to /\ e = eid
        BY <1>9, <3>2
      <4>2. eid \in k.out[from] /\ eid \in k.inc[to]
        BY <1>3, <1>9
      <4> QED
        BY <1>3, <1>5, <1>8, <4>1, <4>2
    <3> QED
      BY <3>1, <3>2
  <2>2. ASSUME NEW i \in Nodes(h), NEW e \in k.out[i], k.ends[e].to # i
        PROVE  e \in k.inc[k.ends[e].to]
    <3>1. CASE e \in h.out[i]
      <4>1. e \in DOMAIN h.ends /\ h.ends[e].to \in Nodes(h)
        BY <1>2, <1>3, <3>1 DEF OutOK
      <4>2. h.ends[e].to # i
        BY <1>8, <2>2, <4>1
      <4>3. e \in h.inc[h.ends[e].to]
        BY <1>2, <3>1, <4>2 DEF InOK
      <4> QED
        BY <1>8, <1>9, <4>1, <4>3, ZenonT(60)
    <3>2. CASE e \notin h.out[i]
      <4>1. i = from /\ e = eid
        BY <1>9, <3>2
      <4>2. eid \in k.out[from] /\ eid \in k.inc[to]
        BY <1>3, <1>9
      <4> QED
        BY <1>3, <1>5, <1>8, <4>1, <4>2
    <3> QED
      BY <3>1, <3>2
  <2> QED
    BY <1>3, <1>9, <2>1, <2>2 DEF InOK
<1>12. CountOK(k)
  <2>0. /\ h.count = [t \in Types |-> Cardinality(OfType(h.ends, Edges(h), t))]
        /\ h.ends \in Seq(EdgeType) /\ k.ends \in Seq(EdgeType)
    BY <1>2, <1>7 DEF Sound, CountOK, EndsOK
  <2>1. Edges(k) = Edges(h) \cup {eid}
    <3>1. eid \in k.out[from]
      BY <1>3, <1>9
    <3>2. \A i \in Nodes(h) : h.out[i] \subseteq k.out[i] /\ k.out[i] \subseteq h.out[i] \cup {eid}
      BY <1>9
    <3> QED
      BY <1>3, <3>1, <3>2 DEF Edges
  <2>2. ASSUME NEW t \in Types
        PROVE  k.count[t] = Cardinality(OfType(k.ends, Edges(k), t))
    <3> DEFINE a == OfType(h.ends, Edges(h), t)
               b == OfType(k.ends, Edges(k), t)
    <3>1. IsFiniteSet(a) /\ Cardinality(a) \in Nat
      BY <1>2, <2>0, EdgesAreFinite
    <3>2. h.count[t] = Cardinality(a)
      BY <2>0
    <3>3. b = IF t = type THEN a \cup {eid} ELSE a
      BY <1>2, <1>5, <1>8, <2>1 DEF OfType
    <3>4. eid \notin a
      BY <1>2, <1>8 DEF OfType
    <3> HIDE DEF a, b
    <3>5. Cardinality(a \cup {eid}) = Cardinality(a) + 1
      BY <3>1, <3>4, FS_AddElement
    <3>6. k.count[t] = IF t = type THEN h.count[t] + 1 ELSE h.count[t]
      BY <1>1, <2>0
    <3>7. k.count[t] = Cardinality(b)
      BY <3>2, <3>3, <3>5, <3>6
    <3> QED
      BY <3>7 DEF b
  <2>3. k.count = [t \in Types |-> k.count[t]]
    BY <1>1, <2>0
  <2> QED
    BY <2>2, <2>3 DEF CountOK
<1>13. NodesTyped(k) /\ ExtOK(k)
  BY <1>1 DEF Sound, SameNodes, WellFormed, NodesTyped, ExtOK, Nodes
<1>14. BucketsOK(k) /\ IndexOK(k)
  BY <1>1 DEF Sound, SameNodes, BucketsOK, IndexOK, IndexOf, Nodes, Live
<1>15. OverlayOK(k)
  BY <1>1 DEF OverlayOK
<1> QED
  BY <1>1, <1>7, <1>10, <1>11, <1>12, <1>13, <1>14, <1>15 DEF Sound, WellFormed, k

\* BuryNode
(* remove_node leaves a sound store sound: the edges of both directions    *)
(* leave, a self loop once.                                                *)
LEMMA BuryNodeSound ==
  ASSUME NEW h, Sound(h), NEW id \in Live(h)
  PROVE  Sound(BuryNode(h, id))
<1> DEFINE k == BuryNode(h, id)
           cut == CutOut(h, id)
<1>0. IsStore(h)
  BY DEF Sound
<1>20. CutOutGives(h, cut, id) /\ BuryNodeGives(h, cut, k, id)
  BY <1>0, BuryNodeFields
<1> HIDE DEF k, cut
<1>1. /\ IsStore(k) /\ k.csr = Stale
      /\ k.ext = h.ext /\ k.idOf = h.idOf /\ k.dead = h.dead \cup {id}
      /\ k.labels = [h.labels EXCEPT ![id] = {}]
      /\ k.bucket = [l \in Labels |-> h.bucket[l] \ {id}]
      /\ k.prop = [h.prop EXCEPT ![id] = Absent]
      /\ k.index = Reindex(h, id, h.prop[id], Absent)
      /\ k.ends = h.ends
      /\ k.out = [n \in DOMAIN cut.out |-> cut.out[n] \ cut.inc[id]]
      /\ k.inc = [cut.inc EXCEPT ![id] = {}]
      /\ k.count = Uncount(cut, cut.inc[id])
  BY <1>20 DEF BuryNodeGives, NoOverlay
<1>2. /\ cut.ends = h.ends
      /\ cut.out = [h.out EXCEPT ![id] = {}]
      /\ cut.inc = [n \in DOMAIN h.inc |-> h.inc[n] \ h.out[id]]
      /\ cut.count = Uncount(h, h.out[id])
  BY <1>20 DEF CutOutGives
<1>3. /\ NodesTyped(h) /\ OutOK(h, h.ends) /\ InOK(h) /\ EndsOK(h)
      /\ Edges(h) \in SUBSET DOMAIN h.ends
  BY EdgesInDomain DEF Sound, WellFormed
<1>4. /\ Nodes(k) = Nodes(h) /\ Live(k) = Live(h) \ {id} /\ Live(h) \subseteq Nodes(h)
      /\ id \in Nodes(h) /\ id \notin h.dead /\ k.dead \subseteq Nodes(h)
  BY <1>1, <1>3 DEF NodesTyped, Nodes, Live
<1>5. h.out \in [Nodes(h) -> SUBSET Nat] /\ h.inc \in [Nodes(h) -> SUBSET Nat]
  BY <1>3 DEF OutOK, InOK
<1> DEFINE Into == h.inc[id] \ h.out[id]
           X == h.out[id] \cup Into
<1>6. cut.inc[id] = Into
  BY <1>2, <1>4, <1>5
<1>7. \A n \in Nodes(h) : n # id => h.out[n] \cap h.out[id] = {} /\ h.inc[n] \cap Into = {}
  BY <1>3, <1>4 DEF OutOK, InOK
<1>8. k.out = [n \in Nodes(h) |-> h.out[n] \ X]
  <2>1. k.out = [n \in Nodes(h) |-> IF n = id THEN {} \ Into ELSE h.out[n] \ Into]
    BY <1>1, <1>2, <1>4, <1>5, <1>6
  <2>2. ASSUME NEW n \in Nodes(h)
        PROVE  (IF n = id THEN {} \ Into ELSE h.out[n] \ Into) = h.out[n] \ X
    BY <1>7
  <2> HIDE DEF X, Into
  <2> QED
    BY <2>1, <2>2
<1>9. k.inc = [n \in Nodes(h) |-> h.inc[n] \ X]
  <2>1. k.inc = [n \in Nodes(h) |-> IF n = id THEN {} ELSE h.inc[n] \ h.out[id]]
    BY <1>1, <1>2, <1>4, <1>5, ZenonT(60)
  <2>2. ASSUME NEW n \in Nodes(h)
        PROVE  (IF n = id THEN {} ELSE h.inc[n] \ h.out[id]) = h.inc[n] \ X
    BY <1>7
  <2> HIDE DEF X, Into
  <2> QED
    BY <2>1, <2>2
<1>10. k.count = [t \in Types |-> Cardinality(OfType(h.ends, Edges(h) \ X, t))]
  <2>1. h.count = [t \in Types |-> Cardinality(OfType(h.ends, Edges(h), t))]
    BY DEF Sound, CountOK
  <2>2. h.out[id] \in SUBSET Edges(h)
    BY <1>4 DEF Edges
  <2>3. Into \in SUBSET (Edges(h) \ h.out[id])
    BY <1>3, <1>4 DEF Edges, InOK
  <2> DEFINE E == Edges(h) \ h.out[id]
  <2>4. Uncount(h, h.out[id]) = [t \in Types |-> Cardinality(OfType(h.ends, E, t))]
    BY <1>3, <2>1, <2>2, UncountExact
  <2>5. EndsOK(cut) /\ cut.count = [t \in Types |-> Cardinality(OfType(cut.ends, E, t))]
        /\ E \in SUBSET DOMAIN cut.ends
    BY <1>2, <1>3, <2>4 DEF EndsOK
  <2>6. E \ Into = Edges(h) \ X
    OBVIOUS
  <2> HIDE DEF E, X, Into
  <2>7. Uncount(cut, Into) = [t \in Types |-> Cardinality(OfType(cut.ends, E \ Into, t))]
    <3>1. Into \in SUBSET E
      BY <2>3 DEF E
    <3> QED
      BY <2>5, <3>1, UncountExact
  <2> QED
    BY <1>1, <1>2, <1>6, <2>6, <2>7
<1>11. \A n \in Nodes(h) : \A e \in h.out[n] \ X : n \in Live(k) /\ h.ends[e].to \in Live(k)
  <2> SUFFICES ASSUME NEW n \in Nodes(h), NEW e \in h.out[n] \ X
               PROVE  n \in Live(k) /\ h.ends[e].to \in Live(k)
    OBVIOUS
  <2>1. n # id /\ n \in Live(h) /\ h.ends[e].to \in Live(h)
    BY <1>3 DEF OutOK
  <2>2. h.ends[e].to # id
    <3>1. h.ends[e].to # n => e \in h.inc[h.ends[e].to]
      BY <1>3 DEF InOK
    <3> QED
      BY <2>1, <3>1
  <2> QED
    BY <1>4, <2>1, <2>2
<1>12. EndsOK(k) /\ OutOK(k, k.ends) /\ InOK(k) /\ CountOK(k) /\ OverlayOK(k)
  <2> HIDE DEF X
  <2> QED
    BY <1>1, <1>3, <1>8, <1>9, <1>10, <1>11, CutEdges
<1>13. NodesTyped(k)
  <2>1. k.labels \in [Nodes(h) -> SUBSET Labels] /\ k.prop \in [Nodes(h) -> Cells]
    BY <1>1, <1>3, <1>4 DEF NodesTyped, Cells
  <2>2. \A n \in k.dead : k.labels[n] = {} /\ k.prop[n] = Absent
    BY <1>1, <1>3, <1>4 DEF NodesTyped
  <2> QED
    BY <1>1, <1>3, <1>4, <2>1, <2>2 DEF NodesTyped
<1>14. ExtOK(k)
  BY <1>1, <1>4 DEF Sound, ExtOK
<1>15. BucketsOK(k)
  <2>1. h.bucket = [m \in Labels |-> {i \in Live(h) : m \in h.labels[i]}]
    BY DEF Sound, BucketsOK
  <2>2. \A i \in Live(k) : k.labels[i] = h.labels[i] /\ i \in Live(h) /\ i # id
    BY <1>1, <1>3, <1>4 DEF NodesTyped
  <2>3. ASSUME NEW m \in Labels
        PROVE  h.bucket[m] \ {id} = {i \in Live(k) : m \in k.labels[i]}
    BY <1>4, <2>1, <2>2
  <2> QED
    BY <1>1, <2>3 DEF BucketsOK
<1>16. IndexOK(k)
  <2>1. CASE h.index = NoIndex
    BY <1>1, <2>1 DEF IndexOK, Reindex
  <2>2. CASE h.index # NoIndex
    <3>1. h.index = [v \in Indexable |-> {i \in Live(h) : h.prop[i] = v}]
      BY <2>2 DEF Sound, IndexOK, IndexOf
    <3>2. k.index = [v \in Indexable |->
            (IF v = h.prop[id] THEN h.index[v] \ {id} ELSE h.index[v])
                \cup (IF v = Absent THEN {id} ELSE {})]
      BY <1>1, <2>2, Zenon DEF Reindex
    <3>5. \A i \in Live(k) : k.prop[i] = h.prop[i] /\ i \in Live(h) /\ i # id
      BY <1>1, <1>3, <1>4 DEF NodesTyped
    <3>3. ASSUME NEW v \in Indexable
          PROVE  (IF v = h.prop[id] THEN h.index[v] \ {id} ELSE h.index[v])
                    \cup (IF v = Absent THEN {id} ELSE {})
                 = {i \in Live(k) : k.prop[i] = v}
      <4>2. h.index[v] = {i \in Live(h) : h.prop[i] = v} /\ v # Absent
        BY <3>1, StoreAssumption DEF Indexable
      <4> QED
        BY <1>4, <3>5, <4>2
    <3>4. k.index = IndexOf(k)
      BY <3>2, <3>3 DEF IndexOf
    <3> QED
      BY <3>4 DEF IndexOK
  <2> QED
    BY <2>1, <2>2
<1> QED
  BY <1>1, <1>12, <1>13, <1>14, <1>15, <1>16 DEF Sound, WellFormed, k

\* The part of a store that the undo log restores, and a query sees.
(* The store h has the core c: what queries see, and no derived structure. *)
SameCore(h, c) ==
    /\ c.ext = h.ext /\ c.dead = h.dead /\ c.labels = h.labels
    /\ c.prop = h.prop /\ c.out = h.out

(* The record rec brings back the edge that has gone from c: it names the  *)
(* entries the edge had.                                                   *)
RestoresEdge(c, rec, h, ends) ==
    LET eid == rec.eid
        from == ends[eid].from
        to == ends[eid].to
        There(n, isOut) == [node |-> n, isOut |-> isOut] \in rec.entries
    IN /\ eid \in DOMAIN ends
       /\ c.ext = h.ext /\ c.dead = h.dead /\ c.labels = h.labels /\ c.prop = h.prop
       /\ c.out = [n \in Nodes(h) |-> h.out[n] \cup Back(rec, n, TRUE)]
       /\ \A n \in Nodes(h) : eid \notin h.out[n]
       /\ \A n \in Nodes(h) : There(n, TRUE) => n = from
       /\ \A n \in Nodes(h) : There(n, FALSE) => n = to /\ There(from, TRUE)
       /\ There(from, TRUE) => from \in Nodes(h) /\ (from # to => There(to, FALSE))
       /\ (\E entry \in rec.entries : entry.isOut) => There(from, TRUE)

(* The record rec brings back the node that has gone from c. *)
RestoresNode(c, rec, h, id, ends) ==
    /\ id = rec.id /\ id \in h.dead
    /\ c.ext = h.ext /\ c.dead = h.dead \ {id}
    /\ c.labels = [h.labels EXCEPT ![id] = rec.labels]
    /\ c.prop = [h.prop EXCEPT ![id] = rec.value]
    /\ c.out = [n \in Nodes(h) |-> IF n = id THEN rec.out
                  ELSE h.out[n] \cup {e \in rec.inc : ends[e].from = n}]
    /\ rec.inc \subseteq Nat
    /\ \A e \in rec.inc :
         /\ e \in DOMAIN ends /\ ends[e].to = id /\ ends[e].from # id
         /\ ends[e].from \in Nodes(h)
    /\ \A e \in rec.out \cup rec.inc : \A n \in Nodes(h) : e \notin h.out[n]

(* The undo of a removed edge leaves a sound store sound, with the core    *)
(* from which the edge was removed.                                        *)
LEMMA RaiseEdgeSound ==
  ASSUME NEW h, Sound(h), h.csr = Stale, NEW c, WellFormed(c, h.ends),
         NEW rec, RestoresEdge(c, rec, h, h.ends)
  PROVE  Sound(RaiseEdge(h, rec)) /\ SameCore(RaiseEdge(h, rec), c)
<1> DEFINE k == RaiseEdge(h, rec)
<1>0. RaiseEdgeGives(h, k, rec)
  BY RaiseEdgeFields DEF Sound
<1> HIDE DEF k
<1>1. PICK eid, from, to : eid = rec.eid /\ from = h.ends[eid].from /\ to = h.ends[eid].to
  OBVIOUS
<1> DEFINE There(n, isOut) == [node |-> n, isOut |-> isOut] \in rec.entries
<1>2. /\ eid \in DOMAIN h.ends
      /\ c.ext = h.ext /\ c.dead = h.dead /\ c.labels = h.labels /\ c.prop = h.prop
      /\ c.out = [n \in Nodes(h) |-> h.out[n] \cup Back(rec, n, TRUE)]
      /\ \A n \in Nodes(h) : eid \notin h.out[n]
      /\ \A n \in Nodes(h) : There(n, TRUE) => n = from
      /\ \A n \in Nodes(h) : There(n, FALSE) => n = to /\ There(from, TRUE)
      /\ There(from, TRUE) => from \in Nodes(h) /\ (from # to => There(to, FALSE))
      /\ (\E entry \in rec.entries : entry.isOut) => There(from, TRUE)
  BY <1>1 DEF RestoresEdge
<1>3. /\ NodesTyped(h) /\ OutOK(h, h.ends) /\ InOK(h) /\ EndsOK(h)
      /\ Edges(h) \in SUBSET DOMAIN h.ends /\ OutOK(c, h.ends) /\ NodesTyped(c)
  BY EdgesInDomain DEF Sound, WellFormed
<1>4. /\ IsStore(k) /\ SameNodes(h, k) /\ k.csr = Stale /\ k.ends = h.ends
      /\ Nodes(k) = Nodes(h) /\ Live(k) = Live(h)
      /\ Nodes(c) = Nodes(h) /\ Live(c) = Live(h) /\ Live(h) \subseteq Nodes(h)
  BY <1>0, <1>2 DEF RaiseEdgeGives, SameOverlay, SameNodes, Nodes, Live
<1>5. /\ h.out \in [Nodes(h) -> SUBSET Nat] /\ h.inc \in [Nodes(h) -> SUBSET Nat]
      /\ eid \in Nat
  BY <1>2, <1>3 DEF OutOK, InOK, EndsOK
<1>6. /\ k.out = c.out
      /\ \A n \in Nodes(h) : k.out[n] = h.out[n] \cup (IF There(n, TRUE) THEN {eid} ELSE {})
      /\ k.inc \in [Nodes(h) -> SUBSET Nat]
      /\ \A n \in Nodes(h) : k.inc[n] = h.inc[n] \cup (IF There(n, FALSE) THEN {eid} ELSE {})
  <2>1. k.out = c.out
    BY <1>0, <1>2, <1>5 DEF RaiseEdgeGives
  <2>2. \A n \in Nodes(h) : k.out[n] = h.out[n] \cup (IF There(n, TRUE) THEN {eid} ELSE {})
    BY <1>1, <1>2, <2>1 DEF Back
  <2>3. k.inc = [n \in Nodes(h) |-> h.inc[n] \cup (IF There(n, FALSE) THEN {eid} ELSE {})]
    BY <1>0, <1>1, <1>5 DEF RaiseEdgeGives, Back
  <2> QED
    BY <1>5, <2>1, <2>2, <2>3
<1>7. SameCore(k, c)
  BY <1>2, <1>4, <1>6 DEF SameCore, SameNodes
<1>8. NodesTyped(k) /\ ExtOK(k)
  BY <1>4 DEF Sound, SameNodes, WellFormed, NodesTyped, ExtOK, Nodes
<1>9. BucketsOK(k) /\ IndexOK(k)
  BY <1>4 DEF Sound, SameNodes, BucketsOK, IndexOK, IndexOf, Nodes, Live
<1>10. EndsOK(k) /\ OverlayOK(k) /\ OutOK(k, k.ends)
  BY <1>3, <1>4, <1>6 DEF EndsOK, OverlayOK, OutOK
<1>11. There(from, TRUE) => from \in Live(h) /\ to \in Live(h) /\ eid \in k.out[from]
  <2>1. There(from, TRUE) => eid \in c.out[from] /\ from \in Nodes(h)
    BY <1>2, <1>6
  <2> QED
    BY <1>1, <1>3, <1>4, <1>6, <2>1 DEF OutOK
<1>12. InOK(k)
  <2>1. ASSUME NEW n \in Nodes(h), NEW e \in k.inc[n]
        PROVE  /\ e \in DOMAIN h.ends /\ h.ends[e].to = n
               /\ h.ends[e].from \in Nodes(h) /\ e \in k.out[h.ends[e].from]
    <3>1. CASE e \in h.inc[n]
      <4>1. /\ e \in DOMAIN h.ends /\ h.ends[e].to = n
            /\ h.ends[e].from \in Nodes(h) /\ e \in h.out[h.ends[e].from]
        BY <1>3, <3>1 DEF InOK
      <4> QED
        BY <1>6, <4>1
    <3>2. CASE e \notin h.inc[n]
      <4>1. e = eid /\ There(n, FALSE)
        BY <1>6, <3>2
      <4> QED
        BY <1>1, <1>2, <1>4, <1>11, <4>1
    <3> QED
      BY <3>1, <3>2
  <2>2. ASSUME NEW n \in Nodes(h), NEW e \in k.out[n], h.ends[e].to # n
        PROVE  e \in k.inc[h.ends[e].to]
    <3>1. CASE e \in h.out[n]
      <4>1. h.ends[e].to \in Nodes(h) /\ e \in h.inc[h.ends[e].to]
        BY <1>3, <1>4, <2>2, <3>1 DEF OutOK, InOK
      <4> QED
        BY <1>6, <4>1
    <3>2. CASE e \notin h.out[n]
      <4>1. e = eid /\ There(n, TRUE)
        BY <1>6, <3>2
      <4> QED
        BY <1>1, <1>2, <1>4, <1>6, <1>11, <2>2, <4>1
    <3> QED
      BY <3>1, <3>2
  <2> QED
    BY <1>4, <1>6, <2>1, <2>2 DEF InOK
<1>13. CountOK(k)
  <2>0. h.count = [t \in Types |-> Cardinality(OfType(h.ends, Edges(h), t))]
    BY DEF Sound, CountOK
  <2>1. CASE There(from, TRUE)
    <3>1. Edges(k) = Edges(h) \cup {eid}
      <4>1. from \in Nodes(h) /\ eid \in k.out[from]
        BY <1>2, <1>11, <2>1
      <4>2. \A n \in Nodes(h) : h.out[n] \subseteq k.out[n] /\ k.out[n] \subseteq h.out[n] \cup {eid}
        BY <1>6
      <4> QED
        BY <1>4, <4>1, <4>2 DEF Edges
    <3>2. {eid} \in SUBSET DOMAIN h.ends /\ {eid} \cap Edges(h) = {}
      BY <1>2 DEF Edges
    <3>3. Recount(h, {eid}) = [t \in Types |-> Cardinality(OfType(h.ends, Edges(h) \cup {eid}, t))]
      BY <1>3, <2>0, <3>2, RecountExact, ZenonT(60)
    <3>4. \E entry \in rec.entries : entry.isOut
      BY <2>1
    <3>5. k.count = Recount(h, {eid})
      BY <1>0, <1>1, <3>4 DEF RaiseEdgeGives
    <3> QED
      BY <1>4, <3>1, <3>3, <3>5 DEF CountOK
  <2>2. CASE ~There(from, TRUE)
    <3>1. \A n \in Nodes(h) : k.out[n] = h.out[n]
      BY <1>2, <1>6, <2>2, ZenonT(60)
    <3>2. Edges(k) = Edges(h)
      BY <1>4, <3>1 DEF Edges
    <3>3. k.count = h.count
      BY <1>0, <1>2, <2>2 DEF RaiseEdgeGives
    <3> QED
      BY <1>4, <2>0, <3>2, <3>3 DEF CountOK
  <2> QED
    BY <2>1, <2>2
<1> QED
  BY <1>4, <1>7, <1>8, <1>9, <1>10, <1>12, <1>13 DEF Sound, WellFormed, k

(* The undo of a removed node leaves a sound store sound, with the core    *)
(* from which the node was removed.                                        *)
LEMMA RaiseNodeSound ==
  ASSUME NEW h, Sound(h), h.csr = Stale, NEW c, WellFormed(c, h.ends),
         NEW rec, NEW id, RestoresNode(c, rec, h, id, h.ends)
  PROVE  Sound(RaiseNode(h, rec)) /\ SameCore(RaiseNode(h, rec), c)
<1> DEFINE k == RaiseNode(h, rec)
<1>0. RaiseNodeGives(h, k, rec, id)
  BY RaiseNodeFields DEF Sound, RestoresNode
<1> HIDE DEF k
<1>1. /\ id = rec.id /\ id \in h.dead
      /\ c.ext = h.ext /\ c.dead = h.dead \ {id}
      /\ c.labels = [h.labels EXCEPT ![id] = rec.labels]
      /\ c.prop = [h.prop EXCEPT ![id] = rec.value]
      /\ c.out = [n \in Nodes(h) |-> IF n = id THEN rec.out
                    ELSE h.out[n] \cup {e \in rec.inc : h.ends[e].from = n}]
      /\ rec.inc \subseteq Nat
  BY DEF RestoresNode
<1>2. /\ \A e \in rec.inc :
            /\ e \in DOMAIN h.ends /\ h.ends[e].to = id /\ h.ends[e].from # id
            /\ h.ends[e].from \in Nodes(h)
      /\ \A e \in rec.out \cup rec.inc : \A n \in Nodes(h) : e \notin h.out[n]
  BY DEF RestoresNode
<1>3. /\ NodesTyped(h) /\ OutOK(h, h.ends) /\ InOK(h) /\ EndsOK(h)
      /\ Edges(h) \in SUBSET DOMAIN h.ends /\ OutOK(c, h.ends) /\ NodesTyped(c)
  BY EdgesInDomain DEF Sound, WellFormed
<1>4. /\ IsStore(k) /\ k.csr = Stale /\ k.ends = h.ends /\ k.ext = h.ext
      /\ k.idOf = h.idOf /\ k.dead = c.dead /\ k.labels = c.labels /\ k.prop = c.prop
      /\ Nodes(k) = Nodes(h) /\ Nodes(c) = Nodes(h) /\ Live(k) = Live(c)
  BY <1>0, <1>1 DEF RaiseNodeGives, SameOverlay, Nodes, Live
<1>5. /\ h.out \in [Nodes(h) -> SUBSET Nat] /\ h.inc \in [Nodes(h) -> SUBSET Nat]
      /\ id \in Nodes(h) /\ Live(k) = Live(h) \cup {id} /\ h.out[id] = {}
      /\ Live(k) \subseteq Nodes(h) /\ id \notin Live(h)
  BY <1>1, <1>3, <1>4 DEF OutOK, InOK, NodesTyped, Live, Nodes
<1>6. k.out = c.out
  BY <1>0, <1>1, <1>5 DEF RaiseNodeGives
<1>7. rec.out = c.out[id] /\ rec.out \subseteq Nat
  BY <1>1, <1>3, <1>4, <1>5 DEF OutOK
<1>8. /\ k.inc = [n \in Nodes(h) |-> IF n = id THEN rec.inc
                    ELSE h.inc[n] \cup {e \in rec.out : h.ends[e].to = n}]
      /\ k.inc \in [Nodes(h) -> SUBSET Nat]
  <2>1. k.inc = [n \in Nodes(h) |-> IF n = id THEN rec.inc
                    ELSE h.inc[n] \cup {e \in rec.out : h.ends[e].to = n}]
    BY <1>0, <1>5 DEF RaiseNodeGives
  <2> QED
    BY <1>1, <1>5, <1>7, <2>1
<1>9. SameCore(k, c)
  BY <1>1, <1>4, <1>6 DEF SameCore
<1>10. NodesTyped(k) /\ OutOK(k, k.ends) /\ EndsOK(k) /\ OverlayOK(k)
  BY <1>1, <1>3, <1>4, <1>6 DEF NodesTyped, OutOK, EndsOK, OverlayOK
<1>11. ExtOK(k)
  BY <1>4 DEF Sound, ExtOK
<1>12. \A e \in rec.out : /\ e \in DOMAIN h.ends /\ h.ends[e].from = id
                          /\ h.ends[e].to \in Live(k)
  BY <1>3, <1>4, <1>5, <1>7 DEF OutOK
<1>13. InOK(k)
  <2>0. /\ k.out[id] = rec.out
        /\ \A n \in Nodes(h) : n # id =>
             k.out[n] = h.out[n] \cup {e \in rec.inc : h.ends[e].from = n}
    BY <1>1, <1>5, <1>6
  <2>1. ASSUME NEW n \in Nodes(h), NEW e \in k.inc[n]
        PROVE  /\ e \in DOMAIN h.ends /\ h.ends[e].to = n
               /\ h.ends[e].from \in Nodes(h) /\ e \in k.out[h.ends[e].from]
    <3>1. CASE n = id
      <4>1. e \in rec.inc
        BY <1>8, <3>1
      <4> QED
        BY <1>2, <2>0, <3>1, <4>1
    <3>2. CASE n # id /\ e \in h.inc[n]
      <4>1. /\ e \in DOMAIN h.ends /\ h.ends[e].to = n
            /\ h.ends[e].from \in Nodes(h) /\ e \in h.out[h.ends[e].from]
        BY <1>3, <3>2 DEF InOK
      <4>2. h.ends[e].from # id
        BY <1>5, <4>1
      <4> QED
        BY <2>0, <4>1, <4>2
    <3>3. CASE n # id /\ e \notin h.inc[n]
      <4>1. e \in rec.out /\ h.ends[e].to = n
        BY <1>8, <3>3
      <4> QED
        BY <1>5, <1>12, <2>0, <4>1
    <3> QED
      BY <3>1, <3>2, <3>3
  <2>2. ASSUME NEW n \in Nodes(h), NEW e \in k.out[n], h.ends[e].to # n
        PROVE  e \in k.inc[h.ends[e].to]
    <3>1. CASE n = id
      <4>1. e \in rec.out /\ h.ends[e].to \in Nodes(h) /\ h.ends[e].to # id
        BY <1>5, <1>12, <2>0, <2>2, <3>1
      <4> QED
        BY <1>8, <4>1
    <3>2. CASE n # id /\ e \in h.out[n]
      <4>1. h.ends[e].to \in Live(h) /\ e \in h.inc[h.ends[e].to]
        BY <1>3, <2>2, <3>2 DEF OutOK, InOK
      <4>2. h.ends[e].to # id /\ h.ends[e].to \in Nodes(h)
        BY <1>5, <4>1
      <4> QED
        BY <1>8, <4>1, <4>2
    <3>3. CASE n # id /\ e \notin h.out[n]
      <4>1. e \in rec.inc
        BY <2>0, <3>3
      <4> QED
        BY <1>2, <1>5, <1>8, <4>1
    <3> QED
      BY <3>1, <3>2, <3>3
  <2> QED
    BY <1>4, <1>8, <2>1, <2>2 DEF InOK
<1>14. CountOK(k)
  <2>0. h.count = [t \in Types |-> Cardinality(OfType(h.ends, Edges(h), t))]
    BY DEF Sound, CountOK
  <2> DEFINE X == rec.out \cup rec.inc
  <2>1. EdgesOf(h, rec) = X
    BY <1>1, <1>2 DEF EdgesOf
  <2>2. X \in SUBSET DOMAIN h.ends /\ X \cap Edges(h) = {}
    BY <1>2, <1>12 DEF Edges
  <2>3. Edges(k) = Edges(h) \cup X
    <3>1. /\ k.out[id] = rec.out
          /\ \A n \in Nodes(h) : n # id =>
               k.out[n] = h.out[n] \cup {e \in rec.inc : h.ends[e].from = n}
      BY <1>1, <1>5, <1>6
    <3>2. \A e \in Edges(k) : e \in Edges(h) \cup X
      BY <1>4, <3>1 DEF Edges
    <3>3. \A e \in Edges(h) : e \in Edges(k)
      BY <1>4, <1>5, <3>1 DEF Edges
    <3>4. \A e \in X : e \in Edges(k)
      BY <1>2, <1>4, <1>5, <3>1 DEF Edges
    <3> QED
      BY <3>2, <3>3, <3>4
  <2> HIDE DEF X
  <2>4. Recount(h, X) = [t \in Types |-> Cardinality(OfType(h.ends, Edges(h) \cup X, t))]
    BY <1>3, <2>0, <2>2, RecountExact
  <2>5. k.count = Recount(h, X)
    BY <1>0, <2>1 DEF RaiseNodeGives
  <2> QED
    BY <1>4, <2>3, <2>4, <2>5 DEF CountOK
<1>15. BucketsOK(k)
  <2>1. h.bucket = [m \in Labels |-> {i \in Live(h) : m \in h.labels[i]}]
    BY DEF Sound, BucketsOK
  <2>2. \A i \in Nodes(h) : k.labels[i] = IF i = id THEN rec.labels ELSE h.labels[i]
    BY <1>1, <1>3, <1>4, <1>5 DEF NodesTyped
  <2>3. ASSUME NEW m \in Labels
        PROVE  (IF m \in rec.labels THEN h.bucket[m] \cup {id} ELSE h.bucket[m])
               = {i \in Live(k) : m \in k.labels[i]}
    BY <1>5, <2>1, <2>2
  <2>4. k.bucket = [l \in Labels |->
                     IF l \in rec.labels THEN h.bucket[l] \cup {id} ELSE h.bucket[l]]
    BY <1>0 DEF RaiseNodeGives
  <2> QED
    BY <2>3, <2>4 DEF BucketsOK
<1>16. IndexOK(k)
  <2>1. NodesTyped(h) /\ IndexOK(h)
    BY <1>3 DEF Sound
  <2>2. rec.value \in Cells
    BY <1>1, <1>3, <1>4, <1>5 DEF NodesTyped
  <2>3. /\ id \in Nodes(h) /\ id \notin k.dead /\ Nodes(k) = Nodes(h)
        /\ k.dead = h.dead \ {id}
    BY <1>1, <1>4, <1>5
  <2>4. k.prop = [h.prop EXCEPT ![id] = rec.value] /\ k.index = Reindex(h, id, h.prop[id], rec.value)
    BY <1>0 DEF RaiseNodeGives
  <2> QED
    BY <2>1, <2>2, <2>3, <2>4, ReindexExact
<1> QED
  BY <1>4, <1>9, <1>10, <1>11, <1>13, <1>14, <1>15, <1>16 DEF Sound, WellFormed, k

\* A record of the log takes a store with the core of h back to the core c.
(* The other records: c is what the store h was before the step that       *)
(* logged rec.                                                             *)
PopsNode(c, rec, h) ==
    /\ rec.op = "AddNode"
    /\ Len(h.ext) > 0 /\ Len(h.ext) \notin h.dead /\ h.out[Len(h.ext)] = {}
    /\ c.ext = Front(h.ext) /\ c.labels = Front(h.labels) /\ c.prop = Front(h.prop)
    /\ c.out = Front(h.out) /\ c.dead = h.dead

CutsEdge(c, rec, h, ends) ==
    /\ rec.op = "AddEdge" /\ rec.eid \in DOMAIN ends
    /\ {ends[rec.eid].from, ends[rec.eid].to} \subseteq Nodes(h)
    /\ c.ext = h.ext /\ c.dead = h.dead /\ c.labels = h.labels /\ c.prop = h.prop
    /\ c.out = [n \in Nodes(h) |-> h.out[n] \ {rec.eid}]

RestoresLabels(c, rec, h) ==
    /\ c.ext = h.ext /\ c.dead = h.dead /\ c.prop = h.prop /\ c.out = h.out
    /\ rec.id \in Live(h) /\ rec.label \in Labels
    /\ \/ rec.op = "AddLabel" /\ c.labels = [h.labels EXCEPT ![rec.id] = @ \ {rec.label}]
       \/ rec.op = "RemoveLabel" /\ c.labels = [h.labels EXCEPT ![rec.id] = @ \cup {rec.label}]

RestoresCell(c, rec, h) ==
    /\ rec.op = "RestoreCell" /\ rec.id \in Live(h) /\ rec.value \in Cells
    /\ c.ext = h.ext /\ c.dead = h.dead /\ c.labels = h.labels /\ c.out = h.out
    /\ c.prop = [h.prop EXCEPT ![rec.id] = rec.value]

(* The record rec undoes the step from the core c to the store h. *)
Undoes(c, rec, h, ends) ==
    \/ PopsNode(c, rec, h)
    \/ CutsEdge(c, rec, h, ends)
    \/ RestoresLabels(c, rec, h)
    \/ RestoresCell(c, rec, h)
    \/ rec.op = "RestoreEdge" /\ RestoresEdge(c, rec, h, ends)
    \/ rec.op = "RestoreNode" /\ RestoresNode(c, rec, h, rec.id, ends)

(* What a record undoes depends on the core of a store alone. *)
LEMMA UndoesAlike ==
  ASSUME NEW h, NEW k, SameCore(h, k), NEW c, NEW rec, NEW ends, Undoes(c, rec, k, ends)
  PROVE  Undoes(c, rec, h, ends)
<1> USE DEF SameCore, Nodes, Live
<1>1. PopsNode(c, rec, k) => PopsNode(c, rec, h)
  BY DEF PopsNode
<1>2. CutsEdge(c, rec, k, ends) => CutsEdge(c, rec, h, ends)
  BY DEF CutsEdge
<1>3. RestoresLabels(c, rec, k) => RestoresLabels(c, rec, h)
  BY DEF RestoresLabels
<1>4. RestoresCell(c, rec, k) => RestoresCell(c, rec, h)
  BY DEF RestoresCell
<1>5. RestoresEdge(c, rec, k, ends) => RestoresEdge(c, rec, h, ends)
  BY DEF RestoresEdge
<1>6. RestoresNode(c, rec, k, rec.id, ends) => RestoresNode(c, rec, h, rec.id, ends)
  BY DEF RestoresNode
<1> QED
  BY <1>1, <1>2, <1>3, <1>4, <1>5, <1>6 DEF Undoes

(* reindex_node neither builds an index nor drops one. *)
LEMMA ReindexKeepsIndex ==
  ASSUME NEW h, NodesTyped(h), IndexOK(h), NEW id \in Nat, NEW old, NEW new
  PROVE  Reindex(h, id, old, new) = NoIndex <=> h.index = NoIndex
<1>1. CASE h.index = NoIndex
  BY <1>1 DEF Reindex
<1>2. CASE h.index # NoIndex
  <2>0. id \in Nat /\ Live(h) \subseteq Nat
    BY NodesAre
  <2>1. h.index = [v \in Indexable |-> {i \in Live(h) : h.prop[i] = v}]
    BY <1>2 DEF IndexOK, IndexOf
  <2> DEFINE r == [v \in Indexable |->
            (IF v = old THEN h.index[v] \ {id} ELSE h.index[v])
                \cup (IF v = new THEN {id} ELSE {})]
  <2>2. \A v \in Indexable : h.index[v] \subseteq Nat
    BY <2>0, <2>1
  <2>3. r \in [Indexable -> SUBSET Nat]
    BY <2>0, <2>2
  <2>4. Reindex(h, id, old, new) = r
    BY <1>2, Zenon DEF Reindex
  <2> HIDE DEF r
  <2> QED
    BY <1>2, <2>3, <2>4, StoreAssumption
<1> QED
  BY <1>1, <1>2

(* k is a sound store with the core c, and the ends and the schema of h. *)
UndoneTo(h, k, c) ==
    Sound(k) /\ SameCore(k, c) /\ k.ends = h.ends /\ (Indexed(k) <=> Indexed(h))

(* One record replayed gives back the core before it, in a sound store. *)
LEMMA ApplyUndoRestores ==
  ASSUME NEW h, Sound(h), NEW c, WellFormed(c, h.ends), NEW rec, Undoes(c, rec, h, h.ends)
  PROVE  UndoneTo(h, ApplyUndo(h, rec), c)
<1> DEFINE i == Invalidate(h)
<1>1. Sound(i) /\ SameNodes(h, i) /\ SameEdges(h, i) /\ i.csr = Stale
  BY InvalidateSound
<1> HIDE DEF i
<1>2. /\ SameCore(i, h) /\ i.ends = h.ends /\ i.index = h.index /\ IsStore(i)
      /\ NodesTyped(i) /\ IndexOK(i) /\ WellFormed(c, i.ends)
  BY <1>1 DEF SameCore, SameNodes, SameEdges, Sound, WellFormed
<1>3. Undoes(c, rec, i, i.ends)
  BY <1>2, UndoesAlike
<1>4. ASSUME NEW k, UndoneTo(i, k, c) PROVE UndoneTo(h, k, c)
  BY <1>2, <1>4 DEF UndoneTo, Indexed
<1>5. CASE PopsNode(c, rec, i)
  <2> DEFINE k == PopNode(i)
             n == Len(i.ext)
  <2>0. ApplyUndo(h, rec) = k
    BY <1>5 DEF PopsNode, ApplyUndo, i
  <2>1. PopNodeGives(i, k, n)
    BY <1>2, PopNodeFields
  <2>2. /\ n > 0 /\ n \notin i.dead /\ i.out[n] = {}
        /\ c.ext = Front(i.ext) /\ c.labels = Front(i.labels) /\ c.prop = Front(i.prop)
        /\ c.out = Front(i.out) /\ c.dead = i.dead
    BY <1>5 DEF PopsNode
  <2>3. \A m \in Nodes(i) : \A e \in i.out[m] : i.ends[e].to # n
    <3>0. n \in Nat /\ Nodes(i) = 1 .. n
      BY <1>2, NodesAre
    <3>1. OutOK(i, i.ends) /\ OutOK(c, i.ends) /\ NodesTyped(c)
      BY <1>1, <1>2 DEF Sound, WellFormed
    <3>2. i.ext \in [1 .. n -> Nat] /\ i.out \in [1 .. n -> SUBSET Nat]
      BY <1>2, <3>0, <3>1 DEF NodesTyped, OutOK
    <3>3. Front(i.ext) = [m \in 1 .. (n - 1) |-> i.ext[m]]
      <4>1. n \in Nat /\ n > 0
        BY <2>2, <3>0
      <4>2. i.ext \in [1 .. n -> Nat]
        BY <3>2
      <4> HIDE DEF n
      <4> QED
        BY <4>1, <4>2, FrontIs
    <3>4. Front(i.out) = [m \in 1 .. (n - 1) |-> i.out[m]]
      <4>1. n \in Nat /\ n > 0
        BY <2>2, <3>0
      <4>2. i.out \in [1 .. n -> SUBSET Nat]
        BY <3>2
      <4> HIDE DEF n
      <4> QED
        BY <4>1, <4>2, FrontIs
    <3> HIDE DEF n
    <3>5. Nodes(c) = 1 .. (n - 1) /\ \A m \in 1 .. (n - 1) : c.out[m] = i.out[m]
      BY <2>2, <3>3, <3>4 DEF Nodes
    <3> SUFFICES ASSUME NEW m \in Nodes(i), NEW e \in i.out[m] PROVE i.ends[e].to # n
      OBVIOUS
    <3>6. m \in 1 .. (n - 1)
      BY <2>2, <3>0
    <3>7. i.ends[e].to \in Nodes(c)
      BY <3>1, <3>5, <3>6 DEF OutOK, Live
    <3> QED
      BY <3>0, <3>5, <3>7
  <2>4. Sound(k)
    BY <1>1, <2>2, <2>3, PopNodeSound
  <2>5. n \in Nat
    BY <1>2, <2>2, NodesAre
  <2> HIDE DEF k, n
  <2>6. SameCore(k, c) /\ k.ends = i.ends
    BY <2>1, <2>2 DEF PopNodeGives, SameCore
  <2>7. Indexed(k) <=> Indexed(i)
    BY <1>2, <2>1, <2>5, ReindexKeepsIndex DEF PopNodeGives, Indexed
  <2> QED
    BY <1>4, <2>0, <2>4, <2>6, <2>7 DEF UndoneTo
<1>6. CASE CutsEdge(c, rec, i, i.ends)
  <2> DEFINE k == CutEdge(i, rec.eid)
  <2>0. ApplyUndo(h, rec) = k
    BY <1>6 DEF CutsEdge, ApplyUndo, i
  <2>1. CutEdgeGives(i, k, rec.eid)
    BY <1>2, EdgeFields
  <2>2. Sound(k)
    BY <1>1, <1>6, CutEdgeSound DEF CutsEdge
  <2>3. DOMAIN i.out = Nodes(i)
    BY <1>1 DEF Sound, WellFormed, OutOK
  <2> HIDE DEF k
  <2>4. SameCore(k, c) /\ k.ends = i.ends /\ k.index = i.index
    BY <1>6, <2>1, <2>3 DEF CutEdgeGives, CutsEdge, SameCore, SameNodes
  <2> QED
    BY <1>4, <2>0, <2>2, <2>4 DEF UndoneTo, Indexed
<1>7. CASE RestoresLabels(c, rec, i)
  <2>1. CASE rec.op = "AddLabel"
    <3> DEFINE k == DropLabel(i, rec.id, rec.label)
    <3>0. ApplyUndo(h, rec) = k
      BY <2>1 DEF ApplyUndo, i
    <3>1. DropLabelGives(i, k, rec.id, rec.label)
      BY <1>2, SmallFields
    <3>2. Sound(k)
      BY <1>1, <1>7, DropLabelSound DEF RestoresLabels
    <3> HIDE DEF k
    <3>3. SameCore(k, c) /\ k.ends = i.ends /\ k.index = i.index
      BY <1>7, <2>1, <3>1 DEF DropLabelGives, RestoresLabels, SameCore, SameEdges
    <3> QED
      BY <1>4, <3>0, <3>2, <3>3 DEF UndoneTo, Indexed
  <2>2. CASE rec.op = "RemoveLabel"
    <3> DEFINE k == PutLabel(i, rec.id, rec.label)
    <3>0. ApplyUndo(h, rec) = k
      BY <2>2 DEF ApplyUndo, i
    <3>1. PutLabelGives(i, k, rec.id, rec.label)
      BY <1>2, SmallFields
    <3>2. Sound(k)
      BY <1>1, <1>7, PutLabelSound DEF RestoresLabels
    <3> HIDE DEF k
    <3>3. SameCore(k, c) /\ k.ends = i.ends /\ k.index = i.index
      BY <1>7, <2>2, <3>1 DEF PutLabelGives, RestoresLabels, SameCore, SameEdges
    <3> QED
      BY <1>4, <3>0, <3>2, <3>3 DEF UndoneTo, Indexed
  <2> QED
    BY <1>7, <2>1, <2>2 DEF RestoresLabels
<1>8. CASE RestoresCell(c, rec, i)
  <2> DEFINE k == WriteCell(i, rec.id, rec.value)
  <2>0. ApplyUndo(h, rec) = k
    BY <1>8 DEF RestoresCell, ApplyUndo, i
  <2>1. WriteCellGives(i, k, rec.id, rec.value)
    BY <1>2, SmallFields
  <2>2. Sound(k) /\ rec.id \in Nat
    BY <1>1, <1>2, <1>8, NodesAre, WriteCellSound DEF RestoresCell, Live
  <2> HIDE DEF k
  <2>3. SameCore(k, c) /\ k.ends = i.ends
    BY <1>8, <2>1 DEF WriteCellGives, RestoresCell, SameCore, SameEdges
  <2>4. Indexed(k) <=> Indexed(i)
    BY <1>2, <2>1, <2>2, ReindexKeepsIndex DEF WriteCellGives, Indexed
  <2> QED
    BY <1>4, <2>0, <2>2, <2>3, <2>4 DEF UndoneTo
<1>9. CASE rec.op = "RestoreEdge" /\ RestoresEdge(c, rec, i, i.ends)
  <2> DEFINE k == RaiseEdge(i, rec)
  <2>0. ApplyUndo(h, rec) = k
    BY <1>9 DEF ApplyUndo, i
  <2>1. RaiseEdgeGives(i, k, rec)
    BY <1>2, RaiseEdgeFields
  <2>2. Sound(k) /\ SameCore(k, c)
    BY <1>1, <1>2, <1>9, RaiseEdgeSound
  <2> HIDE DEF k
  <2>3. k.ends = i.ends /\ k.index = i.index
    BY <2>1 DEF RaiseEdgeGives, SameNodes
  <2> QED
    BY <1>4, <2>0, <2>2, <2>3 DEF UndoneTo, Indexed
<1>10. CASE rec.op = "RestoreNode" /\ RestoresNode(c, rec, i, rec.id, i.ends)
  <2> DEFINE k == RaiseNode(i, rec)
  <2>0. ApplyUndo(h, rec) = k
    BY <1>10 DEF ApplyUndo, i
  <2>1. RaiseNodeGives(i, k, rec, rec.id)
    BY <1>2, RaiseNodeFields
  <2>2. Sound(k) /\ SameCore(k, c)
    BY <1>1, <1>2, <1>10, RaiseNodeSound
  <2>3. rec.id \in Nat
    BY <1>2, <1>10, NodesAre DEF RestoresNode, NodesTyped
  <2> HIDE DEF k
  <2>4. k.ends = i.ends /\ (Indexed(k) <=> Indexed(i))
    BY <1>2, <2>1, <2>3, ReindexKeepsIndex DEF RaiseNodeGives, Indexed
  <2> QED
    BY <1>4, <2>0, <2>2, <2>4 DEF UndoneTo
<1> QED
  BY <1>3, <1>5, <1>6, <1>7, <1>8, <1>9, <1>10 DEF Undoes

(* A past of a store: the cores it went through, cs[0] when the log was    *)
(* empty and cs[i] after the i-th record, each of which the record undoes. *)
Chain(cs, log, ends) ==
    \A i \in 1 .. Len(log) :
        WellFormed(cs[i - 1], ends) /\ Undoes(cs[i - 1], log[i], cs[i], ends)

(* A replay takes a sound store back to the first core of its past, and it *)
(* is sound again: the records are undone from the last to the first, and  *)
(* there is no least record that has been reached and not undone.          *)
LEMMA ReplayRestores ==
  ASSUME NEW h, Sound(h), NEW S, NEW log \in Seq(S), NEW cs,
         Chain(cs, log, h.ends), SameCore(h, cs[Len(log)])
  PROVE  UndoneTo(h, Replay(h, log), cs[0])
<1>1. PICK past : /\ past[Len(log)] = h
                  /\ \A i \in 1 .. Len(log) : past[i - 1] = ApplyUndo(past[i], log[i])
                  /\ Replay(h, log) = past[0]
  BY ReplayGoesBack
<1> DEFINE n == Len(log)
           T == {i \in 0 .. n : UndoneTo(h, past[i], cs[i])}
<1>2. n \in Nat
  OBVIOUS
<1>3. UndoneTo(h, past[n], cs[n])
  BY <1>1 DEF UndoneTo
<1>4. n \in T /\ T \in SUBSET Nat
  BY <1>2, <1>3
<1>5. PICK m \in T : \A i \in T : m <= i
  <2> HIDE DEF T
  <2> QED
    BY <1>4, LeastNumber
<1>6. m \in 0 .. n /\ UndoneTo(h, past[m], cs[m])
  BY <1>5
<1>7. CASE m = 0
  BY <1>1, <1>6, <1>7
<1>8. CASE m # 0
  <2>1. m \in 1 .. n /\ m - 1 \in 0 .. n /\ ~(m <= m - 1)
    BY <1>2, <1>6, <1>8
  <2>2. Sound(past[m]) /\ SameCore(past[m], cs[m]) /\ past[m].ends = h.ends
        /\ (Indexed(past[m]) <=> Indexed(h))
    BY <1>6 DEF UndoneTo
  <2>3. WellFormed(cs[m - 1], past[m].ends) /\ Undoes(cs[m - 1], log[m], cs[m], past[m].ends)
    BY <2>1, <2>2 DEF Chain
  <2>4. Undoes(cs[m - 1], log[m], past[m], past[m].ends)
    BY <2>2, <2>3, UndoesAlike
  <2>5. UndoneTo(past[m], ApplyUndo(past[m], log[m]), cs[m - 1])
    BY <2>2, <2>3, <2>4, ApplyUndoRestores
  <2>6. past[m - 1] = ApplyUndo(past[m], log[m])
    BY <1>1, <2>1
  <2>7. UndoneTo(h, past[m - 1], cs[m - 1])
    BY <2>2, <2>5, <2>6 DEF UndoneTo
  <2>8. m - 1 \in T
    BY <2>1, <2>7
  <2> QED
    BY <1>5, <2>1, <2>8
<1> QED
  BY <1>7, <1>8

(* ends are the ends before, and those of edges added since. *)
Extends(ends, before) ==
    DOMAIN before \subseteq DOMAIN ends /\ \A e \in DOMAIN before : ends[e] = before[e]

(* What every mutation of a sound store h owes: a sound store k, and a     *)
(* record that undoes it.                                                  *)
Logged(h, rec, k) ==
    /\ Sound(k) /\ Undoes(h, rec, k, k.ends)
    /\ Extends(k.ends, h.ends) /\ (Indexed(k) <=> Indexed(h))

(* Removing the last node undoes adding it. *)
LEMMA AddNodeLogged ==
  ASSUME NEW h, Sound(h), NEW ext \in Nat, NEW labels \in SUBSET Labels, NEW value \in Cells
  PROVE  Logged(h, [op |-> "AddNode"], PushNode(h, ext, labels, value))
<1> DEFINE k == PushNode(h, ext, labels, value)
           rec == [op |-> "AddNode"]
<1>1. Sound(k) /\ Grown(h, k)
  BY PushNodeSound
<1> HIDE DEF k
<1>2. NodesTyped(h) /\ NodesTyped(k) /\ OutOK(h, h.ends) /\ OutOK(k, k.ends)
  BY <1>1 DEF Sound, WellFormed
<1>3. PICK n \in Nat : n = Len(h.ext)
  BY <1>2, NodesAre
<1>4. PICK m \in Nat : m = n + 1
  OBVIOUS
<1>5. Len(k.ext) = m /\ Nodes(h) = 1 .. n /\ Nodes(k) = 1 .. m
  BY <1>1, <1>2, <1>3, <1>4, NodesAre DEF Grown
<1>6. m > 0 /\ m - 1 = n /\ m \notin Nodes(h)
  BY <1>4, <1>5
<1>7. m \notin k.dead /\ k.out[m] = {}
  BY <1>1, <1>2, <1>5, <1>6 DEF Grown, NodesTyped
<1>8. /\ h.ext \in [1 .. n -> Nat] /\ h.labels \in [1 .. n -> SUBSET Labels]
      /\ h.prop \in [1 .. n -> Cells] /\ h.out \in [1 .. n -> SUBSET Nat]
      /\ k.ext \in [1 .. m -> Nat] /\ k.labels \in [1 .. m -> SUBSET Labels]
      /\ k.prop \in [1 .. m -> Cells] /\ k.out \in [1 .. m -> SUBSET Nat]
  <2>1. h.ext \in [1 .. n -> Nat] /\ k.ext \in [1 .. m -> Nat]
    BY <1>2, <1>3, <1>5 DEF NodesTyped
  <2> QED
    BY <1>2, <1>5, <2>1 DEF NodesTyped, OutOK
<1>9. \A i \in 1 .. n : /\ k.ext[i] = h.ext[i] /\ k.labels[i] = h.labels[i]
                        /\ k.prop[i] = h.prop[i] /\ k.out[i] = h.out[i]
  BY <1>1, <1>5 DEF Grown
<1>10. h.ext = Front(k.ext)
  <2>1. Front(k.ext) = [i \in 1 .. (m - 1) |-> k.ext[i]]
    BY <1>6, <1>8, FrontIs, ZenonT(60)
  <2> QED
    BY <1>6, <1>8, <1>9, <2>1
<1>11. h.labels = Front(k.labels)
  <2>0. k.labels \in [1 .. m -> SUBSET Labels]
    BY <1>8
  <2>1. Front(k.labels) = [i \in 1 .. (m - 1) |-> k.labels[i]]
    BY <1>6, <2>0, FrontIs, ZenonT(60)
  <2> QED
    BY <1>6, <1>8, <1>9, <2>1
<1>12. h.prop = Front(k.prop)
  <2>1. Front(k.prop) = [i \in 1 .. (m - 1) |-> k.prop[i]]
    BY <1>6, <1>8, FrontIs, ZenonT(60)
  <2> QED
    BY <1>6, <1>8, <1>9, <2>1
<1>13. h.out = Front(k.out)
  <2>0. k.out \in [1 .. m -> SUBSET Nat]
    BY <1>8
  <2>1. Front(k.out) = [i \in 1 .. (m - 1) |-> k.out[i]]
    BY <1>6, <2>0, FrontIs, ZenonT(60)
  <2> QED
    BY <1>6, <1>8, <1>9, <2>1
<1>14. PopsNode(h, rec, k)
  BY <1>1, <1>5, <1>6, <1>7, <1>10, <1>11, <1>12, <1>13 DEF PopsNode, Grown
<1> QED
  BY <1>1, <1>14 DEF Logged, Undoes, Extends, Grown, k

(* Deleting the edge undoes adding it. *)
LEMMA AddEdgeLogged ==
  ASSUME NEW h, Sound(h), NEW from \in Live(h), NEW to \in Live(h), NEW type \in Types
  PROVE  Logged(h, [op |-> "AddEdge", eid |-> Len(h.ends) + 1], PushEdge(h, from, to, type))
<1> DEFINE k == PushEdge(h, from, to, type)
           end == [from |-> from, to |-> to, type |-> type]
<1>1. PICK n, eid : n = Len(h.ends) /\ eid = Len(h.ends) + 1
  OBVIOUS
<1> DEFINE rec == [op |-> "AddEdge", eid |-> eid]
<1>2. PushEdgeGives(h, k, from, to, type, eid)
  BY <1>1, EdgeFields DEF Sound
<1>3. Sound(k)
  BY PushEdgeSound
<1> HIDE DEF k
<1>4. /\ SameNodes(h, k) /\ k.ends = Append(h.ends, end)
      /\ k.out = [h.out EXCEPT ![from] = @ \cup {eid}]
  BY <1>2 DEF PushEdgeGives
<1>5. NodesTyped(h) /\ OutOK(h, h.ends) /\ h.ends \in Seq(EdgeType)
  BY DEF Sound, WellFormed, EndsOK
<1>6. n \in Nat /\ DOMAIN h.ends = 1 .. n /\ h.ends \in [1 .. n -> EdgeType] /\ eid = n + 1
  BY <1>1, <1>5
<1>7. Nodes(k) = Nodes(h) /\ from \in Nodes(h) /\ to \in Nodes(h) /\ Nodes(h) \subseteq Nat
  BY <1>4, <1>5, NodesAre DEF SameNodes, Nodes, Live
<1>8. end \in EdgeType
  BY <1>7 DEF EdgeType
<1>9. end.from = from /\ end.to = to
  OBVIOUS
<1> HIDE DEF end
<1>10. k.ends = [i \in 1 .. (n + 1) |-> IF i = n + 1 THEN end ELSE h.ends[i]]
  <2>1. Append(h.ends, end) = [i \in 1 .. (n + 1) |-> IF i = n + 1 THEN end ELSE h.ends[i]]
    BY <1>6, <1>8, AppendIs
  <2> QED
    BY <1>4, <2>1
<1>11. eid \in DOMAIN k.ends /\ k.ends[eid] = end /\ eid \notin DOMAIN h.ends
       /\ Extends(k.ends, h.ends)
  BY <1>6, <1>10 DEF Extends
<1>12. h.out = [i \in Nodes(k) |-> k.out[i] \ {eid}]
  <2>1. h.out \in [Nodes(h) -> SUBSET Nat] /\ \A i \in Nodes(h) : eid \notin h.out[i]
    BY <1>5, <1>11 DEF OutOK
  <2>2. \A i \in Nodes(h) : k.out[i] = IF i = from THEN h.out[i] \cup {eid} ELSE h.out[i]
    BY <1>4, <2>1
  <2>3. \A i \in Nodes(h) : k.out[i] \ {eid} = h.out[i]
    BY <2>1, <2>2
  <2> QED
    BY <1>7, <2>1, <2>3
<1>13. CutsEdge(h, rec, k, k.ends)
  BY <1>4, <1>7, <1>9, <1>11, <1>12 DEF CutsEdge, SameNodes
<1>14. Logged(h, rec, k)
  BY <1>3, <1>4, <1>11, <1>13 DEF Logged, Undoes, SameNodes, Indexed
<1> QED
  BY <1>1, <1>14 DEF k

(* Writing the old value undoes writing a value, and the inverse of a      *)
(* label operation is the other one.                                       *)
LEMMA WriteCellLogged ==
  ASSUME NEW h, Sound(h), NEW id \in Live(h), NEW value \in Cells
  PROVE  Logged(h, [op |-> "RestoreCell", id |-> id, value |-> h.prop[id]],
                WriteCell(h, id, value))
<1> DEFINE k == WriteCell(h, id, value)
           rec == [op |-> "RestoreCell", id |-> id, value |-> h.prop[id]]
<1>1. Sound(k)
  BY WriteCellSound
<1>2. WriteCellGives(h, k, id, value)
  BY SmallFields DEF Sound
<1> HIDE DEF k
<1>3. NodesTyped(h) /\ IndexOK(h) /\ id \in Nodes(h) /\ id \in Nat
  BY NodesAre DEF Sound, WellFormed
<1>4. h.prop = [k.prop EXCEPT ![id] = h.prop[id]] /\ h.prop[id] \in Cells
  BY <1>2, <1>3 DEF WriteCellGives, NodesTyped
<1>5. RestoresCell(h, rec, k)
  BY <1>2, <1>4 DEF WriteCellGives, RestoresCell, SameEdges, Live, Nodes
<1>6. Indexed(k) <=> Indexed(h)
  BY <1>2, <1>3, ReindexKeepsIndex DEF WriteCellGives, Indexed
<1> QED
  BY <1>1, <1>2, <1>5, <1>6 DEF Logged, Undoes, WriteCellGives, SameEdges, Extends, k

(* add_label and remove_label log a record that undoes them. *)
LEMMA LabelLogged ==
  ASSUME NEW h, Sound(h), NEW id \in Live(h), NEW l \in Labels
  PROVE  /\ id \notin h.bucket[l] =>
              Logged(h, [op |-> "AddLabel", id |-> id, label |-> l], PutLabel(h, id, l))
         /\ id \in h.bucket[l] =>
              Logged(h, [op |-> "RemoveLabel", id |-> id, label |-> l], DropLabel(h, id, l))
<1>1. /\ NodesTyped(h) /\ id \in Nodes(h)
      /\ id \in h.bucket[l] <=> l \in h.labels[id]
  BY NodesAre DEF Sound, WellFormed, BucketsOK
<1>2. h.labels \in [Nodes(h) -> SUBSET Labels]
  BY <1>1 DEF NodesTyped
<1>3. ASSUME id \notin h.bucket[l]
      PROVE  Logged(h, [op |-> "AddLabel", id |-> id, label |-> l], PutLabel(h, id, l))
  <2> DEFINE k == PutLabel(h, id, l)
             rec == [op |-> "AddLabel", id |-> id, label |-> l]
  <2>1. Sound(k)
    BY PutLabelSound
  <2>2. PutLabelGives(h, k, id, l)
    BY SmallFields DEF Sound
  <2> HIDE DEF k
  <2>3. h.labels = [k.labels EXCEPT ![id] = @ \ {l}]
    BY <1>1, <1>2, <1>3, <2>2 DEF PutLabelGives
  <2>4. RestoresLabels(h, rec, k)
    BY <2>2, <2>3 DEF PutLabelGives, RestoresLabels, SameEdges, Live, Nodes
  <2> QED
    BY <2>1, <2>2, <2>4 DEF Logged, Undoes, PutLabelGives, SameEdges, Extends, Indexed, k
<1>4. ASSUME id \in h.bucket[l]
      PROVE  Logged(h, [op |-> "RemoveLabel", id |-> id, label |-> l], DropLabel(h, id, l))
  <2> DEFINE k == DropLabel(h, id, l)
             rec == [op |-> "RemoveLabel", id |-> id, label |-> l]
  <2>1. Sound(k)
    BY DropLabelSound
  <2>2. DropLabelGives(h, k, id, l)
    BY SmallFields DEF Sound
  <2> HIDE DEF k
  <2>3. h.labels = [k.labels EXCEPT ![id] = @ \cup {l}]
    BY <1>1, <1>2, <1>4, <2>2 DEF DropLabelGives
  <2>4. RestoresLabels(h, rec, k)
    BY <2>2, <2>3 DEF DropLabelGives, RestoresLabels, SameEdges, Live, Nodes
  <2> QED
    BY <2>1, <2>2, <2>4 DEF Logged, Undoes, DropLabelGives, SameEdges, Extends, Indexed, k
<1> QED
  BY <1>3, <1>4

(* The entries that delete_edge removes bring back the edge. *)
LEMMA DeleteEdgeLogged ==
  ASSUME NEW h, Sound(h), NEW eid \in DOMAIN h.ends,
         {h.ends[eid].from, h.ends[eid].to} \subseteq Nodes(h)
  PROVE  Logged(h, [op |-> "RestoreEdge", eid |-> eid, entries |-> EdgeEntries(h, eid)],
                CutEdge(h, eid))
<1> DEFINE k == CutEdge(h, eid)
           entries == EdgeEntries(h, eid)
           rec == [op |-> "RestoreEdge", eid |-> eid, entries |-> entries]
<1>1. Sound(k)
  BY CutEdgeSound
<1>2. CutEdgeGives(h, k, eid)
  BY EdgeFields DEF Sound
<1> HIDE DEF k
<1>3. /\ SameNodes(h, k) /\ k.ends = h.ends
      /\ k.out = [n \in DOMAIN h.out |-> h.out[n] \ {eid}]
  BY <1>2 DEF CutEdgeGives
<1>4. OutOK(h, h.ends) /\ InOK(h)
  BY DEF Sound, WellFormed
<1>5. DOMAIN h.out = Nodes(h) /\ Nodes(k) = Nodes(h)
  BY <1>3, <1>4 DEF OutOK, SameNodes, Nodes
<1>6. PICK from, to : from = h.ends[eid].from /\ to = h.ends[eid].to
  OBVIOUS
<1>7. from \in Nodes(h) /\ to \in Nodes(h)
  BY <1>6
<1> DEFINE There(n, isOut) == [node |-> n, isOut |-> isOut] \in entries
<1>8. \A n : There(n, TRUE) <=> n \in {from, to} /\ eid \in h.out[n]
  BY <1>6 DEF EdgeEntries
<1>9. \A n : There(n, FALSE) <=> n \in {from, to} /\ eid \in h.inc[n]
  BY <1>6 DEF EdgeEntries
<1>10. ASSUME NEW entry \in entries, entry.isOut PROVE There(entry.node, TRUE)
  BY <1>10 DEF EdgeEntries
<1> HIDE DEF entries
<1>11. \A n \in Nodes(h) : eid \in h.out[n] => n = from
  BY <1>4, <1>6 DEF OutOK
<1>12. \A n \in Nodes(h) : eid \in h.inc[n] => n = to /\ eid \in h.out[from]
  BY <1>4, <1>6 DEF InOK
<1>13. eid \in h.out[from] /\ from # to => eid \in h.inc[to]
  BY <1>4, <1>6, <1>7 DEF InOK
<1>14. \A n \in Nodes(h) : There(n, TRUE) => n = from
  BY <1>8, <1>11
<1>15. \A n \in Nodes(h) : There(n, FALSE) => n = to /\ There(from, TRUE)
  BY <1>8, <1>9, <1>12
<1>16. There(from, TRUE) => (from # to => There(to, FALSE))
  BY <1>8, <1>9, <1>13
<1>17. (\E entry \in entries : entry.isOut) => There(from, TRUE)
  <2> SUFFICES ASSUME NEW entry \in entries, entry.isOut PROVE There(from, TRUE)
    OBVIOUS
  <2>1. There(entry.node, TRUE)
    BY <1>10
  <2> QED
    BY <1>7, <1>8, <1>11, <2>1
<1>18. h.out = [n \in Nodes(k) |-> k.out[n] \cup Back(rec, n, TRUE)]
  <2>1. ASSUME NEW n \in Nodes(h)
        PROVE  h.out[n] = k.out[n] \cup Back(rec, n, TRUE)
    <3>1. k.out[n] = h.out[n] \ {eid}
      BY <1>3, <1>5
    <3>2. There(n, TRUE) <=> eid \in h.out[n]
      BY <1>8, <1>11
    <3>3. Back(rec, n, TRUE) = IF There(n, TRUE) THEN {eid} ELSE {}
      BY DEF Back
    <3> HIDE DEF There
    <3> QED
      BY <3>1, <3>2, <3>3
  <2>2. h.out = [n \in Nodes(h) |-> h.out[n]]
    BY <1>4 DEF OutOK
  <2> HIDE DEF rec
  <2> QED
    BY <1>5, <2>1, <2>2
<1>19. \A n \in Nodes(k) : eid \notin k.out[n]
  BY <1>3, <1>5
<1>20. RestoresEdge(h, rec, k, k.ends)
  BY <1>3, <1>5, <1>6, <1>7, <1>14, <1>15, <1>16, <1>17, <1>18, <1>19
     DEF RestoresEdge, SameNodes
<1>21. Logged(h, rec, k)
  BY <1>1, <1>3, <1>20 DEF Logged, Undoes, SameNodes, Extends, Indexed
<1> QED
  BY <1>21 DEF k, entries

(* What delete_node takes brings back the node and its edges. *)
LEMMA DeleteNodeLogged ==
  ASSUME NEW h, Sound(h), NEW id \in Live(h)
  PROVE  Logged(h, NodeRecord(h, id), BuryNode(h, id))
<1> DEFINE k == BuryNode(h, id)
           cut == CutOut(h, id)
           rec == NodeRecord(h, id)
<1>1. Sound(k)
  BY BuryNodeSound
<1>2. CutOutGives(h, cut, id) /\ BuryNodeGives(h, cut, k, id)
  BY BuryNodeFields DEF Sound
<1>0. /\ rec.op = "RestoreNode" /\ rec.id = id /\ rec.out = h.out[id]
      /\ rec.inc = cut.inc[id] /\ rec.labels = {l \in Labels : id \in h.bucket[l]}
      /\ rec.value = h.prop[id]
  BY DEF NodeRecord
<1> HIDE DEF k, cut, rec
<1>3. /\ NodesTyped(h) /\ OutOK(h, h.ends) /\ InOK(h) /\ IndexOK(h) /\ BucketsOK(h)
      /\ id \in Nodes(h) /\ id \in Nat /\ Live(h) \subseteq Nodes(h)
  BY NodesAre DEF Sound, WellFormed
<1>4. /\ k.ext = h.ext /\ k.dead = h.dead \cup {id} /\ k.ends = h.ends
      /\ k.labels = [h.labels EXCEPT ![id] = {}]
      /\ k.prop = [h.prop EXCEPT ![id] = Absent]
      /\ k.index = Reindex(h, id, h.prop[id], Absent)
      /\ k.out = [n \in DOMAIN cut.out |-> cut.out[n] \ cut.inc[id]]
  BY <1>2 DEF BuryNodeGives
<1>5. cut.out = [h.out EXCEPT ![id] = {}] /\ cut.inc = [n \in DOMAIN h.inc |-> h.inc[n] \ h.out[id]]
  BY <1>2 DEF CutOutGives
<1>6. /\ h.out \in [Nodes(h) -> SUBSET Nat] /\ h.inc \in [Nodes(h) -> SUBSET Nat]
      /\ Nodes(k) = Nodes(h)
  BY <1>3, <1>4 DEF OutOK, InOK, Nodes
<1>7. rec.inc = h.inc[id] \ h.out[id]
  BY <1>0, <1>3, <1>5, <1>6
<1>8. k.out = [n \in Nodes(h) |-> IF n = id THEN {} ELSE h.out[n] \ rec.inc]
  <2>1. ASSUME NEW n \in Nodes(h)
        PROVE  cut.out[n] \ rec.inc = IF n = id THEN {} ELSE h.out[n] \ rec.inc
    BY <1>3, <1>5, <1>6
  <2>2. DOMAIN cut.out = Nodes(h)
    BY <1>5, <1>6
  <2>3. k.out = [n \in Nodes(h) |-> cut.out[n] \ rec.inc]
    BY <1>0, <1>4, <2>2
  <2> QED
    BY <2>1, <2>3
<1>9. \A e \in rec.inc :
         /\ e \in DOMAIN h.ends /\ h.ends[e].to = id /\ h.ends[e].from # id
         /\ h.ends[e].from \in Nodes(h) /\ e \in h.out[h.ends[e].from]
  BY <1>3, <1>7 DEF InOK
<1>10. \A n \in Nodes(h) : \A e \in h.out[n] : h.ends[e].from = n
  BY <1>3 DEF OutOK
<1>11. h.out = [n \in Nodes(k) |-> IF n = id THEN rec.out
                  ELSE k.out[n] \cup {e \in rec.inc : h.ends[e].from = n}]
  <2>1. ASSUME NEW n \in Nodes(h)
        PROVE  h.out[n] = IF n = id THEN rec.out
                          ELSE k.out[n] \cup {e \in rec.inc : h.ends[e].from = n}
    <3>1. CASE n = id
      BY <1>0, <3>1
    <3>2. CASE n # id
      <4>1. k.out[n] = h.out[n] \ rec.inc
        BY <1>8, <3>2
      <4>2. \A e \in rec.inc : h.ends[e].from = n <=> e \in h.out[n]
        BY <1>9, <1>10
      <4> QED
        BY <3>2, <4>1, <4>2
    <3> QED
      BY <3>1, <3>2
  <2> QED
    BY <1>6, <2>1
<1>12. \A e \in rec.out \cup rec.inc : \A n \in Nodes(k) : e \notin k.out[n]
  <2> SUFFICES ASSUME NEW e \in rec.out \cup rec.inc, NEW n \in Nodes(h), e \in k.out[n]
               PROVE  FALSE
    BY <1>6
  <2>1. n # id /\ e \in h.out[n] /\ e \notin rec.inc
    BY <1>8
  <2>2. e \in h.out[id]
    BY <1>0, <2>1
  <2> QED
    BY <1>3, <1>10, <2>1, <2>2
<1>13. h.labels = [k.labels EXCEPT ![id] = rec.labels] /\ h.prop = [k.prop EXCEPT ![id] = rec.value]
  <2>1. h.labels \in [Nodes(h) -> SUBSET Labels] /\ h.prop \in [Nodes(h) -> Cells]
    BY <1>3 DEF NodesTyped
  <2>2. rec.labels = h.labels[id]
    <3>1. \A l \in Labels : id \in h.bucket[l] <=> l \in h.labels[id]
      BY <1>3 DEF BucketsOK
    <3> QED
      BY <1>0, <1>3, <2>1, <3>1
  <2>3. h.labels = [k.labels EXCEPT ![id] = rec.labels]
    BY <1>3, <1>4, <2>1, <2>2
  <2>4. h.prop = [k.prop EXCEPT ![id] = rec.value]
    BY <1>0, <1>3, <1>4, <2>1
  <2> QED
    BY <2>3, <2>4
<1>14. id \notin h.dead /\ rec.inc \subseteq Nat
  BY <1>3, <1>6, <1>7 DEF Live
<1>15. RestoresNode(h, rec, k, rec.id, k.ends)
  <2>1. h.out = [n \in Nodes(k) |-> IF n = rec.id THEN rec.out
                  ELSE k.out[n] \cup {e \in rec.inc : k.ends[e].from = n}]
    BY <1>0, <1>4, <1>11
  <2>2. h.ext = k.ext /\ h.dead = k.dead \ {rec.id} /\ rec.id \in k.dead
    BY <1>0, <1>4, <1>14
  <2>3. h.labels = [k.labels EXCEPT ![rec.id] = rec.labels]
        /\ h.prop = [k.prop EXCEPT ![rec.id] = rec.value]
    BY <1>0, <1>13
  <2>4. /\ rec.inc \subseteq Nat
        /\ \A e \in rec.inc :
             /\ e \in DOMAIN k.ends /\ k.ends[e].to = rec.id /\ k.ends[e].from # rec.id
             /\ k.ends[e].from \in Nodes(k)
    BY <1>0, <1>4, <1>6, <1>9, <1>14
  <2> QED
    BY <1>12, <2>1, <2>2, <2>3, <2>4 DEF RestoresNode
<1>16. Indexed(k) <=> Indexed(h)
  BY <1>3, <1>4, ReindexKeepsIndex DEF Indexed
<1>17. Logged(h, rec, k)
  BY <1>0, <1>1, <1>4, <1>15, <1>16 DEF Logged, Undoes, Extends
<1> QED
  BY <1>17 DEF k, rec

(* What a record undoes depends on the core it gives back, and on the ends *)
(* of the edges that were there.                                           *)
LEMMA UndoesToo ==
  ASSUME NEW h, NEW c, SameCore(h, c), NEW rec, NEW k, NEW ends, Undoes(h, rec, k, ends)
  PROVE  Undoes(c, rec, k, ends)
<1> USE DEF SameCore
<1>1. PopsNode(h, rec, k) => PopsNode(c, rec, k)
  BY DEF PopsNode
<1>2. CutsEdge(h, rec, k, ends) => CutsEdge(c, rec, k, ends)
  BY DEF CutsEdge
<1>3. RestoresLabels(h, rec, k) => RestoresLabels(c, rec, k)
  BY DEF RestoresLabels
<1>4. RestoresCell(h, rec, k) => RestoresCell(c, rec, k)
  BY DEF RestoresCell
<1>5. RestoresEdge(h, rec, k, ends) => RestoresEdge(c, rec, k, ends)
  BY DEF RestoresEdge
<1>6. RestoresNode(h, rec, k, rec.id, ends) => RestoresNode(c, rec, k, rec.id, ends)
  BY DEF RestoresNode
<1> QED
  BY <1>1, <1>2, <1>3, <1>4, <1>5, <1>6 DEF Undoes

(* A record undoes its step still when edges have been added since. *)
LEMMA UndoesLater ==
  ASSUME NEW c, NEW rec, NEW k, NEW before, NEW ends, Extends(ends, before),
         Undoes(c, rec, k, before)
  PROVE  Undoes(c, rec, k, ends)
<1> USE DEF Extends
<1>1. CutsEdge(c, rec, k, before) => CutsEdge(c, rec, k, ends)
  BY DEF CutsEdge
<1>2. RestoresEdge(c, rec, k, before) => RestoresEdge(c, rec, k, ends)
  BY DEF RestoresEdge
<1>3. ASSUME RestoresNode(c, rec, k, rec.id, before)
      PROVE  RestoresNode(c, rec, k, rec.id, ends)
  <2>1. \A e \in rec.inc : e \in DOMAIN ends /\ ends[e] = before[e]
    BY <1>3 DEF RestoresNode
  <2>2. \A n : {e \in rec.inc : ends[e].from = n} = {e \in rec.inc : before[e].from = n}
    BY <2>1
  <2>3. c.out = [n \in Nodes(k) |-> IF n = rec.id THEN rec.out
                  ELSE k.out[n] \cup {e \in rec.inc : ends[e].from = n}]
    <3> DEFINE Now(n) == {e \in rec.inc : ends[e].from = n}
               Was(n) == {e \in rec.inc : before[e].from = n}
    <3>1. c.out = [n \in Nodes(k) |-> IF n = rec.id THEN rec.out ELSE k.out[n] \cup Was(n)]
      BY <1>3 DEF RestoresNode
    <3>2. \A n : Now(n) = Was(n)
      BY <2>2
    <3> HIDE DEF Now, Was
    <3>3. c.out = [n \in Nodes(k) |-> IF n = rec.id THEN rec.out ELSE k.out[n] \cup Now(n)]
      BY <3>1, <3>2
    <3> QED
      BY <3>3 DEF Now
  <2> QED
    BY <1>3, <2>1, <2>3 DEF RestoresNode
<1> QED
  BY <1>1, <1>2, <1>3 DEF Undoes

(* A core that is well formed is so still when edges have been added       *)
(* since.                                                                  *)
LEMMA WellFormedLater ==
  ASSUME NEW h, NEW c, SameCore(h, c), NEW before, NEW ends, Extends(ends, before),
         WellFormed(h, before)
  PROVE  WellFormed(c, ends)
<1>1. NodesTyped(c)
  BY DEF SameCore, WellFormed, NodesTyped, Nodes
<1>2. OutOK(c, ends)
  BY DEF SameCore, WellFormed, OutOK, Extends, Nodes, Live
<1> QED
  BY <1>1, <1>2 DEF WellFormed

\* a past that goes on
(* The history cs with one core more *)
Then(cs, n, k) == [i \in 0 .. (n + 1) |-> IF i = n + 1 THEN k ELSE cs[i]]

(* A logged mutation adds a core to the past of a store. *)
LEMMA ChainGrows ==
  ASSUME NEW h, Sound(h), NEW S, NEW log \in Seq(S), NEW cs, NEW n, n = Len(log),
         Chain(cs, log, h.ends), SameCore(h, cs[n]),
         NEW rec \in S, NEW k, Logged(h, rec, k)
  PROVE  Chain(Then(cs, n, k), Append(log, rec), k.ends) /\ SameCore(k, Then(cs, n, k)[n + 1])
<1> DEFINE ds == Then(cs, n, k)
           longer == Append(log, rec)
<1>1. n \in Nat
  OBVIOUS
<1>2. ds[n + 1] = k /\ \A i \in 0 .. n : ds[i] = cs[i]
  BY <1>1 DEF Then
<1>3. /\ Len(longer) = n + 1 /\ longer[n + 1] = rec
      /\ \A i \in 1 .. n : longer[i] = log[i]
  BY <1>1
<1> HIDE DEF ds, longer
<1>4. Extends(k.ends, h.ends) /\ Undoes(h, rec, k, k.ends) /\ WellFormed(h, h.ends)
  BY DEF Logged, Sound
<1>5. ASSUME NEW i \in 1 .. (n + 1)
      PROVE  WellFormed(ds[i - 1], k.ends) /\ Undoes(ds[i - 1], longer[i], ds[i], k.ends)
  <2>1. CASE i = n + 1
    <3>1. ds[i - 1] = cs[n] /\ ds[i] = k /\ longer[i] = rec
      BY <1>1, <1>2, <1>3, <2>1
    <3>2. WellFormed(cs[n], k.ends)
      BY <1>4, WellFormedLater
    <3>3. Undoes(cs[n], rec, k, k.ends)
      BY <1>4, UndoesToo
    <3> QED
      BY <3>1, <3>2, <3>3
  <2>2. CASE i # n + 1
    <3>1. i \in 1 .. n /\ i - 1 \in 0 .. n /\ i \in 0 .. n
      BY <1>1, <2>2
    <3>2. WellFormed(cs[i - 1], h.ends) /\ Undoes(cs[i - 1], log[i], cs[i], h.ends)
      BY <3>1 DEF Chain
    <3>3. Undoes(cs[i - 1], log[i], cs[i], k.ends)
      BY <1>4, <3>2, UndoesLater
    <3>4. SameCore(cs[i - 1], cs[i - 1])
      BY DEF SameCore
    <3>5. WellFormed(cs[i - 1], k.ends)
      BY <1>4, <3>2, <3>4, WellFormedLater
    <3>6. ds[i - 1] = cs[i - 1] /\ ds[i] = cs[i] /\ longer[i] = log[i]
      BY <1>2, <1>3, <3>1
    <3> QED
      BY <3>3, <3>5, <3>6
  <2> QED
    BY <2>1, <2>2
<1>6. Chain(ds, longer, k.ends)
  BY <1>3, <1>5 DEF Chain
<1>7. SameCore(k, ds[n + 1])
  BY <1>2 DEF SameCore
<1> QED
  BY <1>6, <1>7 DEF ds, longer

(* What a query sees is part of the core. *)
LEMMA SameView ==
  ASSUME NEW h, NEW c, SameCore(h, c)
  PROVE  View(h) = View(c)
  BY DEF SameCore, View, Live, Nodes

-----------------------------------------------------------------------------
(* The changes *)

NodeKinds == {"NodeAdded", "NodeProp", "NodeLabel", "NodeDeleted"}

(* The node id is in the cores c and k the same, or in neither. *)
SameNode(c, k, id) ==
    /\ id \in Live(c) <=> id \in Live(k)
    /\ id \in Live(c) => /\ k.ext[id] = c.ext[id] /\ k.labels[id] = c.labels[id]
                         /\ k.prop[id] = c.prop[id]

(* A change names the one node of c that is another in k; dead nodes stay  *)
(* dead.                                                                   *)
Reports(c, change, k) ==
    /\ change.kind \in NodeKinds \cup {"EdgeAdded", "EdgeDeleted"}
    /\ c.dead \subseteq k.dead
    /\ change.kind = "NodeDeleted" => change.id \in k.dead
    /\ \A id : SameNode(c, k, id) \/ (change.kind \in NodeKinds /\ change.id = id)

(* What a change reports depends on the cores alone. *)
LEMMA ReportsToo ==
  ASSUME NEW h, NEW c, SameCore(h, c), NEW change, NEW k, NEW d, SameCore(k, d),
         Reports(h, change, k)
  PROVE  Reports(c, change, d)
  BY DEF SameCore, Reports, SameNode, Live, Nodes

ChangeType == [kind : NodeKinds \cup {"EdgeAdded", "EdgeDeleted"}, id : Nat]

(* The change list log tells the history cs, n steps long. *)
Reported(cs, log, n) ==
    /\ log \in Seq(ChangeType) /\ Len(log) = n
    /\ \A i \in 1 .. n : Reports(cs[i - 1], log[i], cs[i])

(* A history of reports: nothing but the nodes the changes name is another *)
(* at the end, and a node that is alive at the end was not deleted.        *)
LEMMA ReportsCover ==
  ASSUME NEW cs, NEW log, NEW n \in Nat,
         Reported(cs, log, n), NEW id, ~SameNode(cs[0], cs[n], id)
  PROVE  \E i \in 1 .. n : /\ log[i].id = id /\ log[i].kind \in NodeKinds
                           /\ id \in Live(cs[n]) => log[i].kind # "NodeDeleted"
<1>0. \A i \in 1 .. n : Reports(cs[i - 1], log[i], cs[i])
  BY DEF Reported
<1>1. ASSUME NEW i \in 1 .. n, log[i].kind = "NodeDeleted", log[i].id = id
      PROVE  id \notin Live(cs[n])
  <2> DEFINE T == {j \in i .. n : id \notin cs[j].dead}
  <2> SUFFICES ASSUME id \in Live(cs[n]) PROVE FALSE
    OBVIOUS
  <2>1. n \in T /\ T \in SUBSET Nat
    BY DEF Live
  <2>2. PICK j \in T : \A m \in T : j <= m
    <3> HIDE DEF T
    <3> QED
      BY <2>1, LeastNumber
  <2>3. id \in cs[i].dead
    BY <1>0, <1>1 DEF Reports
  <2>4. j \in (i + 1) .. n /\ j \in 1 .. n /\ j - 1 \in i .. n /\ ~(j <= j - 1)
    BY <2>2, <2>3
  <2>5. id \in cs[j - 1].dead
    BY <2>2, <2>4
  <2>6. cs[j - 1].dead \subseteq cs[j].dead
    BY <1>0, <2>4 DEF Reports
  <2> QED
    BY <2>2, <2>5, <2>6
<1>2. PICK i \in 1 .. n : log[i].id = id /\ log[i].kind \in NodeKinds
  <2> SUFFICES ASSUME ~ \E i \in 1 .. n : log[i].id = id /\ log[i].kind \in NodeKinds
               PROVE  FALSE
    OBVIOUS
  <2> DEFINE T == {j \in 0 .. n : ~SameNode(cs[0], cs[j], id)}
  <2>1. n \in T /\ T \in SUBSET Nat
    OBVIOUS
  <2>2. PICK j \in T : \A m \in T : j <= m
    <3> HIDE DEF T
    <3> QED
      BY <2>1, LeastNumber
  <2>3. SameNode(cs[0], cs[0], id)
    BY DEF SameNode
  <2>4. j \in 1 .. n /\ j - 1 \in 0 .. n /\ ~(j <= j - 1)
    BY <2>2, <2>3
  <2>5. SameNode(cs[0], cs[j - 1], id)
    BY <2>2, <2>4
  <2>6. SameNode(cs[j - 1], cs[j], id)
    BY <1>0, <2>4 DEF Reports
  <2>7. SameNode(cs[0], cs[j], id)
    BY <2>5, <2>6 DEF SameNode
  <2> QED
    BY <2>2, <2>7
<1> QED
  BY <1>1, <1>2

(* What a mutation reports: the node it writes, or an edge. *)
LEMMA NodeReports ==
  ASSUME NEW h, Sound(h), NEW id \in Live(h)
  PROVE  /\ \A value \in Cells :
              Reports(h, [kind |-> "NodeProp", id |-> id], WriteCell(h, id, value))
         /\ \A l \in Labels :
              /\ Reports(h, [kind |-> "NodeLabel", id |-> id], PutLabel(h, id, l))
              /\ Reports(h, [kind |-> "NodeLabel", id |-> id], DropLabel(h, id, l))
         /\ Reports(h, [kind |-> "NodeDeleted", id |-> id], BuryNode(h, id))
<1>1. IsStore(h) /\ NodesTyped(h) /\ Live(h) \subseteq Nodes(h)
  BY NodesAre DEF Sound, WellFormed
<1>2. h.labels \in [Nodes(h) -> SUBSET Labels] /\ h.prop \in [Nodes(h) -> Cells]
  BY <1>1 DEF NodesTyped
<1>3. ASSUME NEW value \in Cells
      PROVE  Reports(h, [kind |-> "NodeProp", id |-> id], WriteCell(h, id, value))
  <2> DEFINE k == WriteCell(h, id, value)
  <2>1. WriteCellGives(h, k, id, value)
    BY <1>1, SmallFields
  <2> HIDE DEF k
  <2>2. \A i : SameNode(h, k, i) \/ i = id
    BY <1>1, <1>2, <2>1 DEF WriteCellGives, SameNode, Live, Nodes
  <2> QED
    BY <2>1, <2>2 DEF WriteCellGives, Reports, NodeKinds, k
<1>4. ASSUME NEW l \in Labels
      PROVE  Reports(h, [kind |-> "NodeLabel", id |-> id], PutLabel(h, id, l))
  <2> DEFINE k == PutLabel(h, id, l)
  <2>1. PutLabelGives(h, k, id, l)
    BY <1>1, SmallFields
  <2> HIDE DEF k
  <2>2. \A i : SameNode(h, k, i) \/ i = id
    BY <1>1, <1>2, <2>1 DEF PutLabelGives, SameNode, Live, Nodes
  <2> QED
    BY <2>1, <2>2 DEF PutLabelGives, Reports, NodeKinds, k
<1>5. ASSUME NEW l \in Labels
      PROVE  Reports(h, [kind |-> "NodeLabel", id |-> id], DropLabel(h, id, l))
  <2> DEFINE k == DropLabel(h, id, l)
  <2>1. DropLabelGives(h, k, id, l)
    BY <1>1, SmallFields
  <2> HIDE DEF k
  <2>2. \A i : SameNode(h, k, i) \/ i = id
    BY <1>1, <1>2, <2>1 DEF DropLabelGives, SameNode, Live, Nodes
  <2> QED
    BY <2>1, <2>2 DEF DropLabelGives, Reports, NodeKinds, k
<1>6. Reports(h, [kind |-> "NodeDeleted", id |-> id], BuryNode(h, id))
  <2> DEFINE k == BuryNode(h, id)
             cut == CutOut(h, id)
  <2>1. BuryNodeGives(h, cut, k, id)
    BY <1>1, BuryNodeFields
  <2> HIDE DEF k, cut
  <2>2. \A i : SameNode(h, k, i) \/ i = id
    BY <1>1, <1>2, <2>1 DEF BuryNodeGives, SameNode, Live, Nodes
  <2> QED
    BY <2>1, <2>2 DEF BuryNodeGives, Reports, NodeKinds, k
<1> QED
  BY <1>3, <1>4, <1>5, <1>6

(* NodeAdded reports a step that adds a node. *)
LEMMA NewNodeReports ==
  ASSUME NEW h, NodesTyped(h), NEW k, NodesTyped(k), Grown(h, k)
  PROVE  Reports(h, [kind |-> "NodeAdded", id |-> Len(h.ext) + 1], k)
<1>1. PICK n \in Nat : n = Len(h.ext) /\ Nodes(h) = 1 .. n
  BY NodesAre
<1>2. Nodes(k) = 1 .. (n + 1) /\ k.dead = h.dead /\ h.dead \subseteq Nodes(h)
  BY <1>1, NodesAre DEF Grown, NodesTyped
<1>3. \A i : i # n + 1 => (i \in Live(h) <=> i \in Live(k))
  BY <1>1, <1>2 DEF Live
<1>4. \A i : i \in Live(h) => i \in Nodes(h)
  BY DEF Live
<1>5. \A i : SameNode(h, k, i) \/ i = n + 1
  BY <1>3, <1>4 DEF Grown, SameNode
<1> QED
  BY <1>1, <1>2, <1>5 DEF Reports, NodeKinds

(* EdgeAdded and EdgeDeleted report a step that touches no node. *)
LEMMA EdgeReports ==
  ASSUME NEW h, NEW k, SameNodes(h, k), NEW change, change.kind \in {"EdgeAdded", "EdgeDeleted"}
  PROVE  Reports(h, change, k)
  BY DEF SameNodes, Reports, SameNode, Live, Nodes

-----------------------------------------------------------------------------
(* Constraints, on a core *)

(* The core c satisfies the constraints of the label l. *)
HoldsFor(c, l) ==
    LET Value(id) == IF c.prop[id] = Absent THEN Null ELSE c.prop[id]
        Labelled == {id \in Live(c) : l \in c.labels[id]}
    IN /\ l \in Required => \A id \in Labelled : Value(id) # Null
       /\ l \in Unique => \A i, j \in Labelled :
                              Value(i) = Value(j) => i = j \/ Value(i) = Null

(* The constraint check, which reads the buckets, says what the core says. *)
LEMMA SatisfiesIs ==
  ASSUME NEW h, BucketsOK(h), NEW l \in Labels
  PROVE  Satisfies(h, l) <=> HoldsFor(h, l)
<1>1. h.bucket[l] = {id \in Live(h) : l \in h.labels[id]}
  BY DEF BucketsOK
<1> QED
  BY <1>1 DEF Satisfies, HoldsFor

(* A label holds on when its nodes are as they were. *)
LEMMA HoldsOn ==
  ASSUME NEW c, NEW k, NEW l, HoldsFor(c, l),
         \A id \in Live(k) : l \in k.labels[id] => SameNode(c, k, id)
  PROVE  HoldsFor(k, l)
<1>1. \A id : id \in Live(k) /\ l \in k.labels[id] =>
         id \in Live(c) /\ l \in c.labels[id] /\ k.prop[id] = c.prop[id]
  BY DEF SameNode
<1> QED
  BY <1>1 DEF HoldsFor

-----------------------------------------------------------------------------
(* The schema *)

(* create_index and drop_index leave a sound store sound, with its core. *)
LEMMA IndexSound ==
  ASSUME NEW h, Sound(h)
  PROVE  /\ Sound(BuildIndex(h)) /\ SameCore(h, BuildIndex(h)) /\ Indexed(BuildIndex(h))
         /\ BuildIndex(h).ends = h.ends
         /\ Sound([h EXCEPT !.index = NoIndex]) /\ SameCore(h, [h EXCEPT !.index = NoIndex])
         /\ ~Indexed([h EXCEPT !.index = NoIndex])
         /\ [h EXCEPT !.index = NoIndex].ends = h.ends
<1>1. ASSUME NEW x, x = NoIndex \/ x = IndexOf(h), NEW k, k = [h EXCEPT !.index = x]
      PROVE  Sound(k) /\ SameCore(h, k) /\ k.index = x /\ k.ends = h.ends
  <2>1. /\ IsStore(k) /\ k.index = x /\ k.csr = h.csr
        /\ k.ext = h.ext /\ k.idOf = h.idOf /\ k.dead = h.dead /\ k.labels = h.labels
        /\ k.bucket = h.bucket /\ k.prop = h.prop
        /\ k.ends = h.ends /\ k.out = h.out /\ k.inc = h.inc /\ k.count = h.count
    BY <1>1 DEF Sound, IsStore, Fields
  <2>2. EndsOK(k) /\ WellFormed(k, k.ends) /\ ExtOK(k) /\ BucketsOK(k)
    BY <2>1 DEF Sound, EndsOK, WellFormed, NodesTyped, OutOK, ExtOK, BucketsOK, Nodes, Live
  <2>3. IndexOK(k)
    BY <1>1, <2>1 DEF IndexOK, IndexOf, Live, Nodes
  <2>4. InOK(k) /\ CountOK(k) /\ OverlayOK(k)
    BY <2>1 DEF Sound, InOK, CountOK, OverlayOK, Edges, Nodes, Overlay
  <2> QED
    BY <2>1, <2>2, <2>3, <2>4 DEF Sound, SameCore
<1>2. BuildIndex(h) = [h EXCEPT !.index = IndexOf(h)]
  BY DEF BuildIndex, IndexOf, Live
<1>3. IndexOf(h) # NoIndex
  BY IndexIsThere DEF Sound, WellFormed
<1>4. \A k : k = [h EXCEPT !.index = IndexOf(h)] =>
         Sound(k) /\ SameCore(h, k) /\ k.index = IndexOf(h) /\ k.ends = h.ends
  BY <1>1
<1>5. \A k : k = [h EXCEPT !.index = NoIndex] =>
         Sound(k) /\ SameCore(h, k) /\ k.index = NoIndex /\ k.ends = h.ends
  BY <1>1
<1> QED
  BY <1>2, <1>3, <1>4, <1>5 DEF Indexed

(* Restoring the schema touches the index only. *)
LEMMA RestoreSchemaSound ==
  ASSUME NEW h, Sound(h), NEW indexed \in BOOLEAN \cup {None}
  PROVE  /\ Sound(RestoreSchema(h, indexed)) /\ SameCore(h, RestoreSchema(h, indexed))
         /\ Indexed(RestoreSchema(h, indexed)) <=>
                IF indexed = None THEN Indexed(h) ELSE indexed
<1>1. None \notin BOOLEAN
  BY StoreAssumption
<1>2. SameCore(h, h)
  BY DEF SameCore
<1>3. CASE indexed = None
  BY <1>2, <1>3 DEF RestoreSchema
<1>4. CASE indexed = FALSE
  <2>1. RestoreSchema(h, indexed) = [h EXCEPT !.index = NoIndex]
    BY <1>1, <1>4 DEF RestoreSchema
  <2> QED
    BY <1>1, <1>4, <2>1, IndexSound
<1>5. CASE indexed = TRUE
  <2>1. RestoreSchema(h, indexed) = IF h.index = NoIndex THEN BuildIndex(h) ELSE h
    BY <1>1, <1>5 DEF RestoreSchema
  <2> QED
    BY <1>1, <1>2, <1>5, <2>1, IndexSound DEF Indexed
<1> QED
  BY <1>1, <1>3, <1>4, <1>5

(* An overlay is taken from the adjacency lists as they are. *)
LEMMA OverlaySound ==
  ASSUME NEW h, Sound(h), NEW k, IsStore(k), SameNodes(h, k), SameEdges(h, k),
         k.csr = Overlay(h) \/ k.csr = h.csr
  PROVE  Sound(k) /\ SameCore(h, k) /\ k.ends = h.ends /\ (Indexed(k) <=> Indexed(h))
<1>1. /\ k.ext = h.ext /\ k.idOf = h.idOf /\ k.dead = h.dead /\ k.labels = h.labels
      /\ k.bucket = h.bucket /\ k.prop = h.prop /\ k.index = h.index
      /\ k.ends = h.ends /\ k.out = h.out /\ k.inc = h.inc /\ k.count = h.count
  BY DEF SameNodes, SameEdges
<1>2. EndsOK(k) /\ WellFormed(k, k.ends) /\ ExtOK(k)
  BY <1>1 DEF Sound, EndsOK, WellFormed, NodesTyped, OutOK, ExtOK, Nodes, Live
<1>3. BucketsOK(k) /\ IndexOK(k)
  BY <1>1 DEF Sound, BucketsOK, IndexOK, IndexOf, Nodes, Live
<1>4. InOK(k) /\ CountOK(k) /\ OverlayOK(k)
  BY <1>1 DEF Sound, InOK, CountOK, OverlayOK, Edges, Nodes, Overlay
<1> QED
  BY <1>1, <1>2, <1>3, <1>4 DEF Sound, SameCore, Indexed

(* cs is the past of the open transaction: it starts at the graph the      *)
(* transaction found, it ends at the graph of now, and, as long as no      *)
(* undo reported a change, the change list tells it.                       *)
Past(cs) ==
    /\ SameCore(g, cs[Len(undo)]) /\ Chain(cs, undo, g.ends)
    /\ \A begun \in begunAt :
         /\ begun.graph = View(cs[0])
         /\ ~begun.strayed => \A l \in Labels : HoldsFor(cs[0], l)
    /\ \A seen \in markedAt : seen = View(cs[mark])
    /\ ~strayed => Reported(cs, changes, Len(undo))

(* What is open: a statement only in a transaction, a schema to go back to *)
(* only in one, and the history variables with them.                       *)
Frame ==
    /\ undo \in Seq(UndoType) \cup {None}
    /\ strayed \in BOOLEAN /\ txIndexed \in BOOLEAN \cup {None}
    /\ undo = None <=> begunAt = {}
    /\ undo = None => mark = None /\ txIndexed = None
    /\ mark = None <=> markedAt = {}
    /\ mark # None => mark \in 0 .. Len(undo)

(* What the transaction found is still what its rollback would give back. *)
Begun ==
    \A begun \in begunAt :
        /\ begun.strayed \in BOOLEAN /\ (begun.strayed => strayed)
        /\ begun.schema \in BOOLEAN
        /\ begun.schema <=> IF txIndexed = None THEN Indexed(g) ELSE txIndexed

(* The inductive invariant. *)
StoreInv ==
    /\ Sound(g) /\ Frame /\ Begun
    /\ InTransaction => \E cs : Past(cs)
    /\ ChecksCoverTheTransaction

(* What a write leaves alone of what a transaction promises. *)
OnlyWrites == (Indexed(g') <=> Indexed(g)) /\ UNCHANGED <<begunAt, markedAt>>

(* An open transaction has an undo log. *)
LEMMA LogOfTransaction ==
  ASSUME Frame, InTransaction
  PROVE  undo \in Seq(UndoType) /\ Len(undo) \in Nat
  BY DEF Frame, InTransaction

(* Every mutation keeps the invariant: its record lengthens the past.      *)
LEMMA MutationKeeps ==
  ASSUME StoreInv, NEW rec \in UndoType, NEW change \in ChangeType, NEW k, g' = k,
         Logged(g, rec, k), Reports(g, change, k), Record(rec, change),
         InTransaction \/ Valid(k)
  PROVE  StoreInv' /\ OnlyWrites
<1>1. Sound(g)' /\ (Indexed(k) <=> Indexed(g)) /\ Sound(g) /\ Frame /\ Begun
  BY DEF StoreInv, Logged
<1>2. UNCHANGED <<txIndexed, mark, strayed, begunAt, markedAt>>
  BY DEF Record
<1>3. Begun'
  BY <1>1, <1>2 DEF Begun
<1>6. OnlyWrites
  BY <1>1, <1>2 DEF OnlyWrites
<1>4. CASE ~InTransaction
  <2>1. undo' = undo
    BY <1>4 DEF Record
  <2>2. Frame' /\ ~InTransaction'
    BY <1>1, <1>2, <1>4, <2>1 DEF Frame, InTransaction
  <2>3. ChecksCoverTheTransaction'
    BY <1>4 DEF ChecksCoverTheTransaction
  <2> QED
    BY <1>1, <1>3, <1>6, <2>2, <2>3 DEF StoreInv
<1>5. CASE InTransaction
  <2>1. undo' = Append(undo, rec) /\ changes' = Append(changes, change)
    BY <1>5 DEF Record
  <2>2. PICK cs : Past(cs)
    BY <1>5 DEF StoreInv
  <2>3. PICK n \in Nat : n = Len(undo)
    BY <1>1, <1>5, LogOfTransaction
  <2>4. undo \in Seq(UndoType)
    BY <1>1, <1>5, LogOfTransaction
  <2>5. undo' \in Seq(UndoType) /\ Len(undo)' = n + 1
    BY <2>1, <2>3, <2>4
  <2>6. InTransaction' /\ Frame'
    BY <1>1, <1>2, <1>5, <2>3, <2>5, StoreAssumption DEF Frame, InTransaction
  <2> DEFINE ds == Then(cs, n, k)
  <2>7. ds[n + 1] = k /\ \A i \in 0 .. n : ds[i] = cs[i]
    BY <2>3 DEF Then
  <2>8. Chain(ds, undo', k.ends) /\ SameCore(k, ds[n + 1])
    <3>1. Chain(cs, undo, g.ends) /\ SameCore(g, cs[n])
      BY <2>2, <2>3 DEF Past
    <3>2. Chain(Then(cs, n, k), Append(undo, rec), k.ends) /\ SameCore(k, Then(cs, n, k)[n + 1])
      BY <1>1, <2>3, <2>4, <3>1, ChainGrows
    <3> QED
      BY <2>1, <3>2
  <2> HIDE DEF ds
  <2>9. \A seen \in markedAt : seen = View(ds[mark])
    <3>1. markedAt # {} => mark \in 0 .. n
      BY <1>1, <2>3 DEF Frame
    <3> QED
      BY <2>2, <2>7, <3>1 DEF Past
  <2>10. ASSUME ~strayed PROVE Reported(ds, changes', n + 1)
    <3>1. Reported(cs, changes, n) /\ SameCore(g, cs[n])
      BY <2>2, <2>3, <2>10 DEF Past
    <3>2. /\ changes' \in Seq(ChangeType) /\ Len(changes') = n + 1
          /\ changes'[n + 1] = change
          /\ \A i \in 1 .. n : changes'[i] = changes[i]
      BY <2>1, <2>3, <3>1 DEF Reported
    <3>3. SameCore(k, ds[n + 1])
      BY <2>8
    <3>4. Reports(cs[n], change, ds[n + 1])
      BY <3>1, <3>3, ReportsToo
    <3>5. ASSUME NEW i \in 1 .. (n + 1)
          PROVE  Reports(ds[i - 1], changes'[i], ds[i])
      <4>1. CASE i = n + 1
        <5>1. ds[i - 1] = cs[n]
          BY <2>7, <4>1
        <5> QED
          BY <3>2, <3>4, <4>1, <5>1
      <4>2. CASE i # n + 1
        <5>1. i \in 1 .. n /\ ds[i - 1] = cs[i - 1] /\ ds[i] = cs[i]
          BY <2>7, <4>2
        <5> QED
          BY <3>1, <3>2, <5>1 DEF Reported
      <4> QED
        BY <4>1, <4>2
    <3> QED
      BY <3>2, <3>5 DEF Reported
  <2>11. ds[0] = cs[0]
    BY <2>7
  <2>12. Past(ds)'
    BY <1>2, <2>2, <2>5, <2>8, <2>9, <2>10, <2>11 DEF Past
  <2>13. ChecksCoverTheTransaction'
    BY <2>6 DEF ChecksCoverTheTransaction
  <2> QED
    BY <1>1, <1>3, <1>6, <2>6, <2>12, <2>13 DEF StoreInv
<1> QED
  BY <1>4, <1>5

(* A graph is as valid as its core. *)
LEMMA ValidAlike ==
  ASSUME NEW h, Sound(h), NEW k, Sound(k), SameCore(h, k), Valid(h)
  PROVE  Valid(k)
<1>1. ASSUME NEW l \in Labels PROVE Satisfies(k, l)
  <2>1. HoldsFor(h, l)
    BY SatisfiesIs DEF Sound, Valid
  <2>2. \A id \in Live(k) : SameNode(h, k, id)
    BY DEF SameCore, SameNode, Live, Nodes
  <2>3. HoldsFor(k, l)
    BY <2>1, <2>2, HoldsOn
  <2> QED
    BY <2>3, SatisfiesIs DEF Sound
<1> QED
  BY <1>1 DEF Valid

(* What leaves the core of the store and the frame alone keeps the         *)
(* invariant.                                                              *)
LEMMA QuietKeeps ==
  ASSUME StoreInv, NEW k, g' = k, Sound(k), SameCore(g, k), k.ends = g.ends,
         UNCHANGED <<undo, changes, mark, strayed, begunAt, markedAt>>,
         Frame', Begun'
  PROVE  StoreInv'
<1>1. ASSUME NEW cs, Past(cs) PROVE Past(cs)'
  <2>1. SameCore(k, cs[Len(undo)]) /\ Chain(cs, undo, k.ends)
    BY <1>1 DEF Past, SameCore
  <2> QED
    BY <1>1, <2>1 DEF Past
<1>2. InTransaction' => \E cs : Past(cs)'
  BY <1>1 DEF StoreInv, InTransaction
<1>3. ChecksCoverTheTransaction'
  <2>1. Valid(g) => Valid(k)
    BY ValidAlike DEF StoreInv
  <2> QED
    BY <2>1 DEF StoreInv, ChecksCoverTheTransaction, InTransaction
<1> QED
  BY <1>2, <1>3 DEF StoreInv

(* The empty store is sound. *)
LEMMA EmptyIsSound ==
  Sound(EmptyStore)
<1> DEFINE h == EmptyStore
<1>1. /\ IsStore(h) /\ h.ext = <<>> /\ h.idOf = <<>> /\ h.dead = {} /\ h.labels = <<>>
      /\ h.bucket = [l \in Labels |-> {}] /\ h.prop = <<>> /\ h.index = NoIndex
      /\ h.ends = <<>> /\ h.out = <<>> /\ h.inc = <<>>
      /\ h.count = [t \in Types |-> 0] /\ h.csr = Stale
  BY DEF EmptyStore, IsStore, Fields
<1> HIDE DEF h
<1>2. Nodes(h) = {} /\ Live(h) = {}
  BY <1>1 DEF Nodes, Live
<1>3. \A S : <<>> \in [{} -> S] /\ <<>> \in Seq(S)
  OBVIOUS
<1>4. EndsOK(h) /\ WellFormed(h, h.ends) /\ InOK(h)
  BY <1>1, <1>2, <1>3 DEF EndsOK, WellFormed, NodesTyped, OutOK, InOK
<1>5. DOMAIN h.idOf = {}
  BY <1>1
<1>6. ExtOK(h) /\ BucketsOK(h) /\ IndexOK(h) /\ OverlayOK(h)
  BY <1>1, <1>2, <1>5 DEF ExtOK, BucketsOK, IndexOK, OverlayOK
<1>7. CountOK(h)
  <2>1. \A t \in Types : OfType(h.ends, Edges(h), t) = {}
    BY <1>2 DEF Edges, OfType
  <2>2. Cardinality({}) = 0
    BY FS_EmptySet
  <2> QED
    BY <1>1, <2>1, <2>2 DEF CountOK
<1> QED
  BY <1>1, <1>4, <1>6, <1>7 DEF Sound, h

(* The invariant holds at the beginning. *)
LEMMA InitKeeps == StoreInit => StoreInv
<1> SUFFICES ASSUME StoreInit PROVE StoreInv
  OBVIOUS
<1>1. Sound(g)
  BY EmptyIsSound DEF StoreInit
<1>2. Frame /\ Begun /\ ~InTransaction
  BY DEF StoreInit, Frame, Begun, InTransaction
<1>3. Valid(g)
  <2>1. /\ \A l \in Labels : g.bucket[l] = {}
    BY DEF StoreInit, EmptyStore
  <2> QED
    BY <2>1 DEF Valid, Satisfies
<1> QED
  BY <1>1, <1>2, <1>3 DEF StoreInv, ChecksCoverTheTransaction

(* The mutations *)

(* Adding a node, inside a transaction or out of one, keeps the invariant. *)
LEMMA AddNodeKeeps ==
  ASSUME StoreInv, NEW ext \in ExtIds \cup 1 .. MaxNodes, NEW node \in NewNodes,
         AddNode(ext, node.labels, node.value), InTransaction \/ Valid(g')
  PROVE  StoreInv' /\ OnlyWrites
<1> DEFINE labels == node.labels
           value == node.value
           k == PushNode(g, ext, labels, value)
<1>1. labels \in SUBSET Labels /\ value \in Cells
  BY StoreAssumption
<1>2. Sound(g) /\ NodesTyped(g) /\ Len(g.ext) \in Nat
  BY NodesAre DEF StoreInv, Sound, WellFormed
<1>3. ext \in Nat
  BY <1>2, StoreAssumption DEF AddNode
<1>4. g' = k /\ Record([op |-> "AddNode"], [kind |-> "NodeAdded", id |-> Len(g.ext) + 1])
  BY DEF AddNode
<1> HIDE DEF labels, value
<1>5. Logged(g, [op |-> "AddNode"], k) /\ Sound(k) /\ Grown(g, k)
  BY <1>1, <1>2, <1>3, AddNodeLogged, PushNodeSound
<1> HIDE DEF k
<1>6. Reports(g, [kind |-> "NodeAdded", id |-> Len(g.ext) + 1], k)
  BY <1>2, <1>5, NewNodeReports DEF Sound, WellFormed
<1>7. [op |-> "AddNode"] \in UndoType
      /\ [kind |-> "NodeAdded", id |-> Len(g.ext) + 1] \in ChangeType
  BY <1>2 DEF UndoType, ChangeType, NodeKinds
<1> QED
  BY <1>4, <1>5, <1>6, <1>7, MutationKeeps

(* Adding an edge, inside a transaction or out of one, keeps the           *)
(* invariant.                                                              *)
LEMMA AddEdgeKeeps ==
  ASSUME StoreInv, NEW from \in Live(g), NEW to \in Live(g), NEW type \in Types,
         AddEdge(from, to, type), InTransaction \/ Valid(g')
  PROVE  StoreInv' /\ OnlyWrites
<1> DEFINE k == PushEdge(g, from, to, type)
           rec == [op |-> "AddEdge", eid |-> Len(g.ends) + 1]
           change == [kind |-> "EdgeAdded", id |-> Len(g.ends) + 1]
<1>1. Sound(g) /\ Len(g.ends) \in Nat
  BY DEF StoreInv, Sound, EndsOK
<1>2. g' = k /\ Record(rec, change)
  BY DEF AddEdge
<1>3. Logged(g, rec, k)
  BY <1>1, AddEdgeLogged
<1>4. SameNodes(g, k)
  <2>1. PICK eid : eid = Len(g.ends) + 1
    OBVIOUS
  <2>2. PushEdgeGives(g, k, from, to, type, eid)
    BY <1>1, <2>1, EdgeFields DEF Sound
  <2> QED
    BY <2>2 DEF PushEdgeGives
<1> HIDE DEF k
<1>5. change.kind \in {"EdgeAdded", "EdgeDeleted"}
  OBVIOUS
<1>6. rec \in UndoType /\ change \in ChangeType
  BY <1>1 DEF UndoType, ChangeType
<1> HIDE DEF rec, change
<1>7. Reports(g, change, k)
  BY <1>4, <1>5, EdgeReports
<1> QED
  BY <1>2, <1>3, <1>6, <1>7, MutationKeeps

(* Writing a property keeps the invariant. *)
LEMMA SetPropKeeps ==
  ASSUME StoreInv, InTransaction, NEW id \in Live(g), NEW value \in Cells, SetProp(id, value)
  PROVE  StoreInv' /\ OnlyWrites
<1> DEFINE k == WriteCell(g, id, value)
           rec == [op |-> "RestoreCell", id |-> id, value |-> g.prop[id]]
           change == [kind |-> "NodeProp", id |-> id]
<1>1. Sound(g) /\ NodesTyped(g) /\ id \in Nodes(g) /\ id \in Nat
  BY NodesAre DEF StoreInv, Sound, WellFormed
<1>2. g' = k /\ Record(rec, change)
  BY DEF SetProp
<1>3. Logged(g, rec, k)
  BY <1>1, WriteCellLogged
<1>4. Reports(g, change, k)
  BY <1>1, NodeReports
<1>5. g.prop[id] \in Cells
  BY <1>1 DEF NodesTyped
<1>6. rec \in UndoType /\ change \in ChangeType
  BY <1>1, <1>5 DEF UndoType, ChangeType, NodeKinds
<1> HIDE DEF k, rec, change
<1> QED
  BY <1>2, <1>3, <1>4, <1>6, MutationKeeps

(* Adding or removing a label keeps the invariant. *)
LEMMA LabelKeeps ==
  ASSUME StoreInv, InTransaction, NEW id \in Live(g), NEW l \in Labels,
         AddLabel(id, l) \/ RemoveLabel(id, l)
  PROVE  StoreInv' /\ OnlyWrites
<1> DEFINE change == [kind |-> "NodeLabel", id |-> id]
<1>1. Sound(g) /\ id \in Nat
  BY NodesAre DEF StoreInv, Sound, WellFormed
<1>2. change \in ChangeType
  BY <1>1 DEF ChangeType, NodeKinds
<1>3. CASE AddLabel(id, l)
  <2> DEFINE k == PutLabel(g, id, l)
             rec == [op |-> "AddLabel", id |-> id, label |-> l]
  <2>1. g' = k /\ Record(rec, change) /\ Logged(g, rec, k)
    BY <1>1, <1>3, LabelLogged DEF AddLabel
  <2>2. Reports(g, change, k)
    BY <1>1, NodeReports
  <2>3. rec \in UndoType
    BY <1>1 DEF UndoType
  <2> HIDE DEF k, rec, change
  <2> QED
    BY <1>2, <2>1, <2>2, <2>3, MutationKeeps
<1>4. CASE RemoveLabel(id, l)
  <2> DEFINE k == DropLabel(g, id, l)
             rec == [op |-> "RemoveLabel", id |-> id, label |-> l]
  <2>1. g' = k /\ Record(rec, change) /\ Logged(g, rec, k)
    BY <1>1, <1>4, LabelLogged DEF RemoveLabel
  <2>2. Reports(g, change, k)
    BY <1>1, NodeReports
  <2>3. rec \in UndoType
    BY <1>1 DEF UndoType
  <2> HIDE DEF k, rec, change
  <2> QED
    BY <1>2, <2>1, <2>2, <2>3, MutationKeeps
<1> QED
  BY <1>3, <1>4

(* Removing an edge keeps the invariant. *)
LEMMA DeleteEdgeKeeps ==
  ASSUME StoreInv, InTransaction, NEW eid \in DOMAIN g.ends, DeleteEdge(eid)
  PROVE  StoreInv' /\ OnlyWrites
<1> DEFINE k == CutEdge(g, eid)
           rec == [op |-> "RestoreEdge", eid |-> eid, entries |-> EdgeEntries(g, eid)]
           change == [kind |-> "EdgeDeleted", id |-> eid]
<1>1. Sound(g) /\ NodesTyped(g) /\ g.ends \in Seq(EdgeType)
  BY DEF StoreInv, Sound, WellFormed, EndsOK
<1>2. {g.ends[eid].from, g.ends[eid].to} \subseteq Nodes(g) /\ eid \in Nat
  BY <1>1 DEF DeleteEdge
<1>3. g' = k /\ Record(rec, change)
  BY DEF DeleteEdge
<1>4. Logged(g, rec, k)
  BY <1>1, <1>2, DeleteEdgeLogged
<1>5. SameNodes(g, k)
  BY <1>1, EdgeFields DEF Sound, CutEdgeGives
<1>6. change.kind \in {"EdgeAdded", "EdgeDeleted"} /\ change \in ChangeType
  BY <1>2 DEF ChangeType
<1>7. rec \in UndoType
  <2>1. EdgeEntries(g, eid) \in SUBSET [node : Nat, isOut : BOOLEAN]
    BY <1>1, <1>2, NodesAre DEF EdgeEntries
  <2> QED
    BY <1>2, <2>1 DEF UndoType
<1> HIDE DEF k, rec, change
<1>8. Reports(g, change, k)
  BY <1>5, <1>6, EdgeReports
<1> QED
  BY <1>3, <1>4, <1>6, <1>7, <1>8, MutationKeeps

(* Removing a node with its edges keeps the invariant. *)
LEMMA DeleteNodeKeeps ==
  ASSUME StoreInv, InTransaction, NEW id \in Live(g), DeleteNode(id)
  PROVE  StoreInv' /\ OnlyWrites
<1> DEFINE k == BuryNode(g, id)
           rec == NodeRecord(g, id)
           change == [kind |-> "NodeDeleted", id |-> id]
<1>1. Sound(g) /\ NodesTyped(g) /\ id \in Nodes(g) /\ id \in Nat /\ OutOK(g, g.ends) /\ InOK(g)
  BY NodesAre DEF StoreInv, Sound, WellFormed
<1>2. g' = k /\ Record(rec, change)
  BY DEF DeleteNode
<1>3. Logged(g, rec, k)
  BY <1>1, DeleteNodeLogged
<1>4. Reports(g, change, k)
  BY <1>1, NodeReports
<1>5. change \in ChangeType
  BY <1>1 DEF ChangeType, NodeKinds
<1>6. rec \in UndoType
  <2>1. g.out[id] \in SUBSET Nat /\ g.inc \in [Nodes(g) -> SUBSET Nat] /\ g.prop[id] \in Cells
    BY <1>1 DEF OutOK, InOK, NodesTyped
  <2>2. CutOut(g, id).inc = [n \in DOMAIN g.inc |-> g.inc[n] \ g.out[id]]
    <3>1. CutOutGives(g, CutOut(g, id), id)
      BY <1>1, BuryNodeFields DEF Sound
    <3> QED
      BY <3>1 DEF CutOutGives
  <2>3. CutOut(g, id).inc[id] \in SUBSET Nat
    BY <1>1, <2>1, <2>2
  <2>4. {l \in Labels : id \in g.bucket[l]} \in SUBSET Labels
    OBVIOUS
  <2> QED
    BY <1>1, <2>1, <2>3, <2>4 DEF NodeRecord, UndoType
<1> HIDE DEF k, rec, change
<1> QED
  BY <1>2, <1>3, <1>4, <1>5, <1>6, MutationKeeps

(* Creating or dropping the index keeps the invariant. *)
LEMMA SchemaKeeps ==
  ASSUME StoreInv, CreateIndex \/ DropIndex
  PROVE  StoreInv'
<1>1. Sound(g) /\ Frame /\ Begun
  BY DEF StoreInv
<1>2. PICK k : /\ SchemaOp(k) /\ Sound(k) /\ SameCore(g, k) /\ k.ends = g.ends
  BY <1>1, IndexSound DEF CreateIndex, DropIndex
<1>3. /\ g' = k
      /\ txIndexed' = IF InTransaction /\ txIndexed = None THEN Indexed(g) ELSE txIndexed
      /\ UNCHANGED <<undo, changes, mark, strayed, begunAt, markedAt>>
  BY <1>2 DEF SchemaOp
<1>4. Indexed(g) \in BOOLEAN
  BY DEF Indexed
<1>5. txIndexed' \in BOOLEAN \cup {None} /\ (InTransaction => txIndexed' \in BOOLEAN)
      /\ (~InTransaction => txIndexed' = txIndexed)
  BY <1>1, <1>3, <1>4 DEF Frame
<1>6. Frame'
  BY <1>1, <1>3, <1>5 DEF Frame, InTransaction
<1>7. None \notin BOOLEAN
  BY StoreAssumption
<1>8. ASSUME NEW begun \in begunAt
      PROVE  begun.schema <=> IF txIndexed' = None THEN Indexed(k) ELSE txIndexed'
  <2>1. InTransaction
    BY <1>1 DEF Frame, InTransaction
  <2>2. txIndexed' \in BOOLEAN /\ txIndexed' # None
    BY <1>5, <1>7, <2>1
  <2>3. begun.schema <=> IF txIndexed = None THEN Indexed(g) ELSE txIndexed
    BY <1>1 DEF Begun
  <2>4. CASE txIndexed = None
    <3>1. txIndexed' = Indexed(g)
      BY <1>3, <2>1, <2>4
    <3> QED
      BY <2>2, <2>3, <2>4, <3>1
  <2>5. CASE txIndexed # None
    <3>1. txIndexed' = txIndexed
      BY <1>3, <2>5
    <3> QED
      BY <2>2, <2>3, <2>5, <3>1
  <2> QED
    BY <2>4, <2>5
<1>9. Begun'
  BY <1>1, <1>3, <1>8 DEF Begun
<1> QED
  BY <1>2, <1>3, <1>6, <1>9, QuietKeeps

(* A read, which may build the overlay, keeps the invariant. *)
LEMMA ReadKeeps ==
  ASSUME StoreInv, Read
  PROVE  StoreInv'
<1>1. Sound(g) /\ IsStore(g) /\ Frame /\ Begun
  BY DEF StoreInv, Sound
<1>2. UNCHANGED <<undo, changes, lastCommit, txIndexed, mark, strayed, txs, begunAt, markedAt>>
  BY DEF Read
<1>3. /\ IsStore(g') /\ SameNodes(g, g') /\ SameEdges(g, g')
      /\ g'.csr = Overlay(g) \/ g'.csr = g.csr
  <2>1. g' = [g EXCEPT !.reads = @ + 1,
                       !.csr = IF g.reads + 1 >= RearmAfter THEN Overlay(g) ELSE @]
    BY DEF Read
  <2> QED
    BY <1>1, <2>1 DEF IsStore, Fields, SameNodes, SameEdges
<1>4. Sound(g') /\ SameCore(g, g') /\ g'.ends = g.ends /\ (Indexed(g') <=> Indexed(g))
  BY <1>1, <1>3, OverlaySound
<1>5. Frame' /\ Begun'
  BY <1>1, <1>2, <1>4 DEF Frame, Begun
<1> QED
  BY <1>2, <1>4, <1>5, QuietKeeps

(* Begin starts a history of one core: the graph it found. *)
LEMMA BeginKeeps ==
  ASSUME StoreInv, Begin
  PROVE  StoreInv'
<1>1. /\ undo' = <<>> /\ changes' = <<>> /\ undo = None
      /\ begunAt' = {[graph |-> View(g), schema |-> Indexed(g), strayed |-> strayed]}
      /\ UNCHANGED <<g, lastCommit, txIndexed, mark, strayed, markedAt>>
  BY DEF Begin, InTransaction
<1>2. Sound(g) /\ Frame /\ ChecksCoverTheTransaction
  BY DEF StoreInv
<1>3. mark = None /\ txIndexed = None /\ markedAt = {}
  BY <1>1, <1>2 DEF Frame
<1>4. undo' \in Seq(UndoType) /\ Len(undo') = 0
  BY <1>1
<1>5. Frame' /\ InTransaction'
  BY <1>1, <1>2, <1>3, <1>4, StoreAssumption DEF Frame, InTransaction
<1>6. Indexed(g) \in BOOLEAN /\ strayed \in BOOLEAN
  BY <1>2 DEF Indexed, Frame
<1>7. Begun'
  BY <1>1, <1>3, <1>6 DEF Begun
<1>20. PICK cs : cs = [i \in {0} |-> g]
  OBVIOUS
<1>8. SameCore(g, cs[0]) /\ cs[0] = g
  BY <1>20 DEF SameCore
<1>9. ~strayed => \A l \in Labels : HoldsFor(cs[0], l)
  <2>1. ~strayed => Valid(g)
    BY <1>1, <1>2 DEF ChecksCoverTheTransaction, InTransaction
  <2> QED
    BY <1>2, <1>8, <2>1, SatisfiesIs DEF Sound, Valid
<1>10. Chain(cs, undo', g.ends)
  BY <1>4 DEF Chain
<1>11. Reported(cs, changes', 0)
  BY <1>1 DEF Reported
<1>12. Past(cs)'
  <2>1. \A begun \in begunAt' : begun.graph = View(cs[0]) /\ begun.strayed = strayed
    BY <1>1, <1>8
  <2>2. SameCore(g, cs[Len(undo')]) /\ Reported(cs, changes', Len(undo'))
    BY <1>4, <1>8, <1>11
  <2>3. UNCHANGED <<g, strayed>> /\ markedAt' = {}
    BY <1>1, <1>3
  <2>4. /\ SameCore(g', cs[Len(undo')]) /\ Chain(cs, undo', g'.ends)
        /\ ~strayed' => Reported(cs, changes', Len(undo'))
    BY <1>10, <2>2, <2>3
  <2>5. \A begun \in begunAt' :
            begun.graph = View(cs[0]) /\ (~begun.strayed => \A l \in Labels : HoldsFor(cs[0], l))
    BY <1>9, <2>1
  <2> QED
    BY <2>3, <2>4, <2>5 DEF Past
<1>13. ChecksCoverTheTransaction'
  BY <1>5 DEF ChecksCoverTheTransaction
<1> QED
  BY <1>1, <1>2, <1>5, <1>7, <1>12, <1>13 DEF StoreInv

(* A label the checks do not look at has only nodes the transaction did    *)
(* not change, and one that they look at is checked: the graph is valid.   *)
LEMMA ChecksSuffice ==
  ASSUME StoreInv, InTransaction, ChecksPass, ~strayed
  PROVE  Valid(g)
<1>1. PICK cs : Past(cs)
  BY DEF StoreInv
<1>2. Sound(g) /\ Frame /\ Begun
  BY DEF StoreInv
<1>3. PICK n \in Nat : n = Len(undo)
  BY <1>2, LogOfTransaction
<1>4. SameCore(g, cs[n]) /\ Reported(cs, changes, n)
  BY <1>1, <1>3 DEF Past
<1>5. \A l \in Labels : HoldsFor(cs[0], l)
  <2>1. PICK begun \in begunAt : TRUE
    BY <1>2 DEF Frame, InTransaction
  <2>2. ~begun.strayed
    BY <1>2 DEF Begun
  <2> QED
    BY <1>1, <2>2 DEF Past
<1>6. ASSUME NEW l \in Labels PROVE Satisfies(g, l)
  <2>1. CASE l \in Touched(g, changes)
    BY <2>1 DEF ChecksPass
  <2>2. CASE l \notin Touched(g, changes)
    <3>1. ASSUME NEW id \in Live(g), l \in g.labels[id]
          PROVE  SameNode(cs[0], g, id)
      <4> SUFFICES ASSUME ~SameNode(cs[0], g, id) PROVE FALSE
        OBVIOUS
      <4>1. ~SameNode(cs[0], cs[n], id) /\ id \in Live(cs[n])
        BY <1>4, <3>1 DEF SameCore, SameNode, Live, Nodes
      <4>3. PICK i \in 1 .. n : changes[i].id = id /\ changes[i].kind \in NodeKinds
                                /\ changes[i].kind # "NodeDeleted"
        BY <1>3, <1>4, <4>1, ReportsCover, SMTT(60)
      <4>4. DOMAIN changes = 1 .. n
        BY <1>4 DEF Reported
      <4>5. changes[i].kind \in {"NodeAdded", "NodeProp", "NodeLabel"}
        BY <4>3 DEF NodeKinds
      <4> DEFINE T == {m \in DOMAIN changes :
                          changes[m].kind \in {"NodeAdded", "NodeProp", "NodeLabel"}
                            /\ changes[m].id \in Live(g)}
                 named == {changes[m] : m \in T}
      <4>6. i \in T
        BY <3>1, <4>3, <4>4, <4>5
      <4>7. changes[i] \in named
        BY <4>6
      <4>8. Touched(g, changes) = UNION {g.labels[c.id] : c \in named}
        BY DEF Touched
      <4> HIDE DEF T, named
      <4> QED
        BY <2>2, <3>1, <4>3, <4>7, <4>8
    <3>2. HoldsFor(g, l)
      BY <1>5, <3>1, HoldsOn
    <3> QED
      BY <1>2, <3>2, SatisfiesIs DEF Sound
  <2> QED
    BY <2>1, <2>2
<1> QED
  BY <1>6 DEF Valid

(* A commit that passes its checks leaves a valid graph: a node that could *)
(* violate a constraint was named by a change.                             *)
LEMMA CommitKeeps ==
  ASSUME StoreInv, Commit
  PROVE  StoreInv'
<1>1. /\ undo' = None /\ txIndexed' = None /\ begunAt' = {} /\ mark = None
      /\ UNCHANGED <<g, mark, strayed, txs, markedAt>>
      /\ InTransaction /\ ChecksPass
  BY DEF Commit
<1>2. Sound(g)' /\ Frame' /\ Begun' /\ ~InTransaction'
  BY <1>1 DEF StoreInv, Frame, Begun, InTransaction
<1>3. ChecksCoverTheTransaction'
  BY <1>1, ChecksSuffice DEF ChecksCoverTheTransaction
<1> QED
  BY <1>2, <1>3 DEF StoreInv

(* A rollback takes the store back to the first core of its past.          *)
LEMMA RollbackRestores ==
  ASSUME StoreInv, Rollback, NEW cs, Past(cs)
  PROVE  /\ Sound(g') /\ SameCore(g', cs[0])
         /\ \A begun \in begunAt : Indexed(g') <=> begun.schema
<1>1. /\ InTransaction /\ g' = RestoreSchema(Replay(g, undo), txIndexed)
      /\ Sound(g) /\ Frame /\ Begun
  BY DEF Rollback, StoreInv
<1>2. undo \in Seq(UndoType)
  BY <1>1, LogOfTransaction
<1>3. PICK k : k = Replay(g, undo)
  OBVIOUS
<1>4. Chain(cs, undo, g.ends) /\ SameCore(g, cs[Len(undo)])
  BY DEF Past
<1>5. UndoneTo(g, k, cs[0])
  BY <1>1, <1>2, <1>3, <1>4, ReplayRestores
<1>6. Sound(k) /\ SameCore(k, cs[0]) /\ (Indexed(k) <=> Indexed(g))
  BY <1>5 DEF UndoneTo
<1>7. txIndexed \in BOOLEAN \cup {None}
  BY <1>1 DEF Frame
<1>8. /\ Sound(g') /\ SameCore(k, g')
      /\ Indexed(g') <=> IF txIndexed = None THEN Indexed(k) ELSE txIndexed
  BY <1>1, <1>3, <1>6, <1>7, RestoreSchemaSound
<1>9. SameCore(g', cs[0])
  BY <1>6, <1>8 DEF SameCore
<1>10. \A begun \in begunAt : begun.schema <=> IF txIndexed = None THEN Indexed(g) ELSE txIndexed
  BY <1>1 DEF Begun
<1> QED
  BY <1>6, <1>8, <1>9, <1>10

(* A rollback replays the whole log, and comes back to the first core. *)
LEMMA RollbackKeeps ==
  ASSUME StoreInv, Rollback
  PROVE  StoreInv'
<1>1. /\ InTransaction /\ mark = None /\ undo' = None /\ txIndexed' = None /\ begunAt' = {}
      /\ UNCHANGED <<lastCommit, mark, txs, markedAt>>
      /\ Frame /\ Begun
  BY DEF Rollback, StoreInv
<1>2. PICK begun \in begunAt : strayed' = begun.strayed
  BY DEF Rollback
<1>3. PICK cs : Past(cs)
  BY <1>1 DEF StoreInv
<1>4. Sound(g') /\ SameCore(g', cs[0])
  BY <1>3, RollbackRestores
<1>5. begun.strayed \in BOOLEAN
  BY <1>1 DEF Begun
<1>6. Frame' /\ Begun' /\ ~InTransaction'
  BY <1>1, <1>2, <1>5 DEF Frame, Begun, InTransaction
<1>7. ~strayed' => Valid(g')
  <2> SUFFICES ASSUME ~strayed', NEW l \in Labels PROVE Satisfies(g', l)
    BY DEF Valid
  <2>1. HoldsFor(cs[0], l)
    BY <1>2, <1>3 DEF Past
  <2>2. \A id \in Live(g') : SameNode(cs[0], g', id)
    BY <1>4 DEF SameCore, SameNode, Live, Nodes
  <2>3. HoldsFor(g', l)
    BY <2>1, <2>2, HoldsOn
  <2> QED
    BY <1>4, <2>3, SatisfiesIs DEF Sound
<1>8. ChecksCoverTheTransaction'
  BY <1>7 DEF ChecksCoverTheTransaction
<1> QED
  BY <1>4, <1>6, <1>8 DEF StoreInv

(* A savepoint keeps the invariant: the core it marks is the last one. *)
LEMMA StatementBeginKeeps ==
  ASSUME StoreInv, StatementBegin
  PROVE  StoreInv'
<1>1. /\ InTransaction /\ mark' = Len(undo) /\ markedAt' = {View(g)}
      /\ UNCHANGED <<g, undo, changes, lastCommit, txIndexed, strayed, txs, begunAt>>
      /\ Sound(g) /\ Frame /\ Begun
  BY DEF StatementBegin, StoreInv
<1>2. undo \in Seq(UndoType) /\ Len(undo) \in Nat
  BY <1>1, LogOfTransaction
<1>3. Frame' /\ Begun' /\ InTransaction'
  BY <1>1, <1>2, StoreAssumption DEF Frame, Begun, InTransaction
<1>4. PICK cs : Past(cs)
  BY <1>1 DEF StoreInv
<1>5. View(g) = View(cs[mark'])
  BY <1>1, <1>4, SameView DEF Past
<1>6. Past(cs)'
  BY <1>1, <1>4, <1>5 DEF Past
<1>7. ChecksCoverTheTransaction'
  BY <1>3 DEF ChecksCoverTheTransaction
<1> QED
  BY <1>1, <1>3, <1>6, <1>7 DEF StoreInv

(* The end of a statement keeps the invariant. *)
LEMMA StatementCommitKeeps ==
  ASSUME StoreInv, StatementCommit
  PROVE  StoreInv'
<1>1. /\ mark # None /\ mark' = None /\ markedAt' = {}
      /\ UNCHANGED <<g, undo, changes, lastCommit, txIndexed, strayed, txs, begunAt>>
      /\ Sound(g) /\ Frame /\ Begun
  BY DEF StatementCommit, StoreInv
<1>2. Frame' /\ Begun' /\ InTransaction /\ InTransaction'
  BY <1>1 DEF Frame, Begun, InTransaction
<1>3. PICK cs : Past(cs)
  BY <1>2 DEF StoreInv
<1>4. Past(cs)'
  BY <1>1, <1>3 DEF Past
<1>5. ChecksCoverTheTransaction'
  BY <1>2 DEF ChecksCoverTheTransaction
<1> QED
  BY <1>1, <1>2, <1>4, <1>5 DEF StoreInv

(* The records of a statement, and those before it.                        *)
LEMMA LogParts ==
  ASSUME NEW S, NEW log \in Seq(S), NEW m \in 0 .. Len(log)
  PROVE  /\ SubSeq(log, 1, m) \in Seq(S) /\ Len(SubSeq(log, 1, m)) = m
         /\ \A i \in 1 .. m : SubSeq(log, 1, m)[i] = log[i]
         /\ SubSeq(log, m + 1, Len(log)) \in Seq(S)
         /\ Len(SubSeq(log, m + 1, Len(log))) = Len(log) - m
         /\ \A i \in 1 .. (Len(log) - m) : SubSeq(log, m + 1, Len(log))[i] = log[m + i]
<1>1. PICK n \in Nat : n = Len(log)
  OBVIOUS
<1>2. \A i \in 1 .. m : i \in 1 .. n
  BY <1>1
<1>3. \A i \in (m + 1) .. n : i \in 1 .. n
  BY <1>1
<1>4. /\ SubSeq(log, 1, m) \in Seq(S) /\ Len(SubSeq(log, 1, m)) = m
      /\ \A i \in 1 .. m : SubSeq(log, 1, m)[i] = log[i]
  BY <1>1, <1>2
<1>5. /\ SubSeq(log, m + 1, n) \in Seq(S)
      /\ Len(SubSeq(log, m + 1, n)) = n - m
      /\ \A i \in 1 .. (n - m) : SubSeq(log, m + 1, n)[i] = log[m + i]
  BY <1>1, <1>3
<1> QED
  BY <1>1, <1>4, <1>5

(* A failed statement takes the store back to the core of its savepoint.   *)
LEMMA StatementRestores ==
  ASSUME StoreInv, StatementRollback, NEW cs, Past(cs)
  PROVE  UndoneTo(g, g', cs[mark])
<1>1. Sound(g) /\ Frame /\ mark # None
  BY DEF StoreInv, StatementRollback
<1>2. InTransaction /\ mark \in 0 .. Len(undo)
  BY <1>1 DEF Frame, InTransaction
<1>3. undo \in Seq(UndoType)
  BY <1>1, <1>2, LogOfTransaction
<1>4. PICK log \in Seq(UndoType) : log = undo
  BY <1>3
<1>5. PICK m \in 0 .. Len(log) : m = mark
  BY <1>2, <1>4
<1>6. PICK n \in Nat : n = Len(log)
  OBVIOUS
<1>7. PICK undone : undone = SubSeq(log, m + 1, Len(log))
  OBVIOUS
<1>8. /\ undone \in Seq(UndoType) /\ Len(undone) = n - m
      /\ \A i \in 1 .. (n - m) : undone[i] = log[m + i]
  BY <1>6, <1>7, LogParts
<1> DEFINE ds == [i \in 0 .. (n - m) |-> cs[m + i]]
<1>9. Chain(cs, log, g.ends) /\ SameCore(g, cs[n])
  BY <1>4, <1>6 DEF Past
<1>10. ds[0] = cs[m] /\ ds[n - m] = cs[n]
  BY <1>5, <1>6
<1>11. Chain(ds, undone, g.ends)
  <2>1. ASSUME NEW i \in 1 .. (n - m)
        PROVE  WellFormed(ds[i - 1], g.ends) /\ Undoes(ds[i - 1], undone[i], ds[i], g.ends)
    <3>1. m + i \in 1 .. Len(log) /\ (m + i) - 1 = m + (i - 1)
      BY <1>5, <1>6
    <3>2. ds[i - 1] = cs[m + (i - 1)] /\ ds[i] = cs[m + i] /\ undone[i] = log[m + i]
      BY <1>8
    <3> QED
      BY <1>9, <3>1, <3>2 DEF Chain
  <2> HIDE DEF ds
  <2> QED
    BY <1>8, <2>1 DEF Chain
<1> HIDE DEF ds
<1>12. UndoneTo(g, Replay(g, undone), ds[0])
  <2>1. SameCore(g, ds[Len(undone)])
    BY <1>8, <1>9, <1>10
  <2> QED
    BY <1>1, <1>8, <1>11, <2>1, ReplayRestores
<1>13. g' = Replay(g, undone)
  BY <1>4, <1>5, <1>7 DEF StatementRollback
<1> QED
  BY <1>5, <1>10, <1>12, <1>13

(* A failed statement replays the log down to its mark, and the history    *)
(* ends there: its changes are gone unless an edge was among them.         *)
LEMMA StatementRollbackKeeps ==
  ASSUME StoreInv, StatementRollback
  PROVE  StoreInv'
<1>1. Sound(g) /\ Frame /\ Begun /\ mark # None
  BY DEF StoreInv, StatementRollback
<1>2. InTransaction /\ mark \in 0 .. Len(undo)
  BY <1>1 DEF Frame, InTransaction
<1>3. undo \in Seq(UndoType)
  BY <1>1, <1>2, LogOfTransaction
<1>4. PICK cs : Past(cs)
  BY <1>2 DEF StoreInv
<1>5. PICK m \in Nat : m = mark /\ m \in 0 .. Len(undo)
  BY <1>2, <1>3
<1>6. Sound(g') /\ SameCore(g', cs[m]) /\ g'.ends = g.ends /\ (Indexed(g') <=> Indexed(g))
  BY <1>4, <1>5, StatementRestores DEF UndoneTo
<1>7. /\ undo' = SubSeq(undo, 1, m) /\ mark' = None /\ markedAt' = {}
      /\ UNCHANGED <<lastCommit, txIndexed, txs, begunAt>>
  BY <1>5 DEF StatementRollback
<1>8. /\ undo' \in Seq(UndoType) /\ Len(undo') = m
      /\ \A i \in 1 .. m : undo'[i] = undo[i]
  BY <1>3, <1>5, <1>7, LogParts
<1>9. PICK cuts : /\ strayed' = (strayed \/ cuts # <<>>)
                  /\ changes' = ChangesKept \o [n \in DOMAIN cuts |->
                                    [kind |-> "EdgeDeleted", id |-> cuts[n].eid]]
  BY DEF StatementRollback
<1>10. strayed' \in BOOLEAN /\ (strayed => strayed')
  BY <1>1, <1>9 DEF Frame
<1>11. Frame' /\ InTransaction'
  BY <1>1, <1>2, <1>7, <1>8, <1>10, StoreAssumption DEF Frame, InTransaction
<1>12. Begun'
  BY <1>1, <1>6, <1>7, <1>10 DEF Begun
<1>13. Chain(cs, undo', g'.ends)
  BY <1>4, <1>5, <1>6, <1>8 DEF Past, Chain
<1>14. ASSUME ~strayed' PROVE Reported(cs, changes', m)
  <2>1. ~strayed /\ cuts = <<>>
    BY <1>9, <1>14
  <2>2. Reported(cs, changes, Len(undo))
    BY <1>4, <2>1 DEF Past
  <2>3. changes \in Seq(ChangeType) /\ Len(changes) = Len(undo)
    BY <2>2 DEF Reported
  <2>4. ChangesKept = SubSeq(changes, 1, m)
    BY <1>5, <2>3 DEF ChangesKept
  <2>5. /\ SubSeq(changes, 1, m) \in Seq(ChangeType) /\ Len(SubSeq(changes, 1, m)) = m
        /\ \A i \in 1 .. m : SubSeq(changes, 1, m)[i] = changes[i]
    BY <1>5, <2>3, LogParts
  <2>6. changes' = SubSeq(changes, 1, m)
    <3>1. [n \in DOMAIN cuts |-> [kind |-> "EdgeDeleted", id |-> cuts[n].eid]] = <<>>
      BY <2>1
    <3> QED
      BY <1>9, <2>4, <2>5, <3>1
  <2>7. \A i \in 1 .. m : i \in 1 .. Len(undo)
    BY <1>3, <1>5
  <2> QED
    BY <2>2, <2>5, <2>6, <2>7 DEF Reported
<1>15. Past(cs)'
  <2>1. \A begun \in begunAt' :
            begun.graph = View(cs[0]) /\ (~begun.strayed => \A l \in Labels : HoldsFor(cs[0], l))
    BY <1>4, <1>7 DEF Past
  <2> QED
    BY <1>6, <1>7, <1>8, <1>13, <1>14, <2>1 DEF Past
<1>16. ChecksCoverTheTransaction'
  BY <1>11 DEF ChecksCoverTheTransaction
<1> QED
  BY <1>6, <1>11, <1>12, <1>15, <1>16 DEF StoreInv

-----------------------------------------------------------------------------
(* The invariant, and the properties of the runs *)

(* Every write keeps the invariant, and what the transaction found. *)
LEMMA WritesKeep ==
  ASSUME StoreInv, Add \/ Change
  PROVE  StoreInv' /\ OnlyWrites
<1> DEFINE Goal == StoreInv' /\ OnlyWrites
<1>1. CASE Add
  <2>1. ASSUME NEW ext \in ExtIds \cup 1 .. MaxNodes, NEW node \in NewNodes,
               AddNode(ext, node.labels, node.value)
        PROVE  Goal
    BY <1>1, <2>1, AddNodeKeeps DEF Add
  <2>2. ASSUME NEW from \in Live(g), NEW to \in Live(g), NEW type \in Types,
               AddEdge(from, to, type)
        PROVE  Goal
    BY <1>1, <2>2, AddEdgeKeeps DEF Add
  <2> HIDE DEF Goal
  <2>5. Goal
    BY <1>1, <2>1, <2>2 DEF Add
  <2> QED
    BY <2>5 DEF Goal
<1>2. CASE Change
  <2>1. ASSUME NEW id \in Live(g), NEW value \in Cells, SetProp(id, value)
        PROVE  Goal
    BY <1>2, <2>1, SetPropKeeps DEF Change
  <2>2. ASSUME NEW id \in Live(g), NEW l \in Labels, AddLabel(id, l) \/ RemoveLabel(id, l)
        PROVE  Goal
    BY <1>2, <2>2, LabelKeeps DEF Change
  <2>3. ASSUME NEW id \in Live(g), DeleteNode(id)
        PROVE  Goal
    BY <1>2, <2>3, DeleteNodeKeeps DEF Change
  <2>4. ASSUME NEW eid \in DOMAIN g.ends, DeleteEdge(eid)
        PROVE  Goal
    BY <1>2, <2>4, DeleteEdgeKeeps DEF Change
  <2> HIDE DEF Goal
  <2>5. Goal
    BY <1>2, <2>1, <2>2, <2>3, <2>4 DEF Change
  <2> QED
    BY <2>5 DEF Goal
<1> QED
  BY <1>1, <1>2

(* Every step keeps the invariant. *)
LEMMA NextKeeps ==
  ASSUME StoreInv, [StoreNext]_storeVars
  PROVE  StoreInv'
<1>3. CASE UNCHANGED storeVars
  <2>1. UNCHANGED <<g, undo, changes, lastCommit, txIndexed, mark, strayed, txs, begunAt, markedAt>>
    BY <1>3 DEF storeVars
  <2>2. Sound(g') /\ SameCore(g, g') /\ g'.ends = g.ends /\ Frame' /\ Begun'
    BY <2>1 DEF StoreInv, Frame, Begun, SameCore
  <2> QED
    BY <2>1, <2>2, QuietKeeps
<1> QED
  BY <1>3, WritesKeep, SchemaKeeps, BeginKeeps, CommitKeeps, RollbackKeeps,
     StatementBeginKeeps, StatementCommitKeeps, StatementRollbackKeeps, ReadKeeps
     DEF StoreNext

(* The store is sound at all times, and an open transaction has a past     *)
(* that its undo log and its change list tell.                             *)
THEOREM StoreIsSound == StoreSpec => []StoreInv
<1>1. StoreInv /\ [StoreNext]_storeVars => StoreInv'
  BY NextKeeps
<1> QED
  BY <1>1, InitKeeps, PTL DEF StoreSpec

(* For every set of labels, values and constraints, the store's data and   *)
(* its transaction frame keep their types.                                 *)
THEOREM StoreTypeCorrect == StoreSpec => []StoreTypeOK
<1>1. StoreInv => StoreTypeOK
  <2> SUFFICES ASSUME StoreInv PROVE StoreTypeOK
    OBVIOUS
  <2>1. NodesTyped(g) /\ OutOK(g, g.ends) /\ InOK(g)
    BY DEF StoreInv, Sound, WellFormed
  <2>2. \A id \in Nodes(g) : g.out[id] \cup g.inc[id] \subseteq DOMAIN g.ends
    BY <2>1 DEF OutOK, InOK
  <2>3. mark # None => InTransaction /\ mark \in 0 .. Len(undo)
    BY DEF StoreInv, Frame, InTransaction
  <2>4. /\ DOMAIN g.prop = Nodes(g) /\ DOMAIN g.labels = Nodes(g)
        /\ DOMAIN g.out = Nodes(g) /\ DOMAIN g.inc = Nodes(g)
        /\ g.dead \subseteq Nodes(g)
        /\ \A id \in Nodes(g) : g.prop[id] \in Cells /\ g.labels[id] \subseteq Labels
    BY <2>1 DEF NodesTyped, OutOK, InOK
  <2> QED
    BY <2>2, <2>3, <2>4 DEF StoreTypeOK
<1> QED
  BY <1>1, StoreIsSound, PTL

(* Whatever is written, deleted, declared and rolled back, in any order:   *)
(* the buckets, the index, the counts, the mirrors, the overlay and the    *)
(* map of external ids are what the nodes and edges say.                   *)
THEOREM NothingGoesStale == StoreSpec => []NothingDerivedIsStale
<1>1. StoreInv => NothingDerivedIsStale
  <2> SUFFICES ASSUME Sound(g) PROVE NothingDerivedIsStale
    BY DEF StoreInv
  <2>1. NodesTyped(g) /\ OutOK(g, g.ends) /\ InOK(g)
    BY DEF Sound, WellFormed
  <2>2. EdgesThere = Edges(g)
    BY DEF EdgesThere, Edges
  <2>3. \A l \in Labels : g.bucket[l] = {id \in Live(g) : l \in g.labels[id]}
    BY DEF Sound, BucketsOK
  <2>4. Indexed(g) =>
          \A v \in Indexable : g.index[v] = {id \in Live(g) : g.prop[id] = v}
    BY DEF Sound, IndexOK, IndexOf, Indexed
  <2>5. \A t \in Types : g.count[t] = Cardinality({e \in EdgesThere : g.ends[e].type = t})
    BY <2>2 DEF Sound, CountOK, OfType
  <2>6. \A e \in EdgesThere :
          LET ends == g.ends[e] IN
          /\ {ends.from, ends.to} \subseteq Live(g)
          /\ \A id \in Nodes(g) : e \in g.out[id] <=> id = ends.from
          /\ ends.from # ends.to => e \in g.inc[ends.to]
    <3> SUFFICES ASSUME NEW e \in Edges(g)
                 PROVE  /\ {g.ends[e].from, g.ends[e].to} \subseteq Live(g)
                        /\ \A id \in Nodes(g) : e \in g.out[id] <=> id = g.ends[e].from
                        /\ g.ends[e].from # g.ends[e].to => e \in g.inc[g.ends[e].to]
      BY <2>2
    <3>1. PICK n \in Nodes(g) : e \in g.out[n]
      BY DEF Edges
    <3> QED
      BY <2>1, <3>1 DEF OutOK, InOK
  <2>7. \A id \in Nodes(g) : \A e \in g.inc[id] : g.ends[e].to = id /\ e \in EdgesThere
    BY <2>1, <2>2 DEF InOK, Edges
  <2>8. DerivedStateAgrees
    BY <2>3, <2>4, <2>5, <2>6, <2>7 DEF DerivedStateAgrees
  <2>9. FreshOverlayIsCurrent /\ ExtMapIsSound
    BY DEF Sound, OverlayOK, ExtOK, FreshOverlayIsCurrent, ExtMapIsSound
  <2> QED
    BY <2>8, <2>9 DEF NothingDerivedIsStale
<1> QED
  BY <1>1, StoreIsSound, PTL

(* A node that a transaction changed is named by a change. *)
LEMMA ChangedIsNamed ==
  ASSUME StoreInv, ~strayed, NEW cs, Past(cs), InTransaction,
         NEW id, ~SameNode(cs[0], g, id)
  PROVE  \E i \in DOMAIN changes : changes[i].id = id /\ changes[i].kind \in NodeKinds
<1>1. PICK n \in Nat : n = Len(undo)
  BY LogOfTransaction DEF StoreInv
<1>2. SameCore(g, cs[n]) /\ Reported(cs, changes, n)
  BY <1>1 DEF Past
<1>3. ~SameNode(cs[0], cs[n], id)
  BY <1>2 DEF SameCore, SameNode, Live, Nodes
<1>4. Reported(cs, changes, n)
  BY <1>2
<1>5. PICK i \in 1 .. n : changes[i].id = id /\ changes[i].kind \in NodeKinds
  BY <1>1, <1>3, <1>4, ReportsCover
<1>6. i \in DOMAIN changes
  BY <1>4 DEF Reported
<1> QED
  BY <1>5, <1>6

(* Every node that a transaction changed is named by a change when it      *)
(* commits, unless a failed statement had added an edge.                   *)
THEOREM ChangesAreReported == StoreSpec => []ChangesCoverTheTransaction
<1>1. StoreInv => ChangesCoverTheTransaction
  <2> SUFFICES ASSUME StoreInv, NEW begun \in begunAt, ~strayed,
                      NEW found, found = begun.graph.nodes, NEW now, now = View(g).nodes,
                      NEW id, ~(/\ id \in DOMAIN found <=> id \in DOMAIN now
                                /\ id \in DOMAIN found => found[id] = now[id])
               PROVE  \E n \in DOMAIN changes :
                        /\ changes[n].id = id
                        /\ changes[n].kind \notin {"EdgeAdded", "EdgeDeleted"}
    BY DEF ChangesCoverTheTransaction
  <2>1. InTransaction
    BY DEF StoreInv, Frame, InTransaction
  <2>2. PICK cs : Past(cs)
    BY <2>1 DEF StoreInv
  <2>3. begun.graph = View(cs[0])
    BY <2>2 DEF Past
  <2>4. /\ found = [i \in Live(cs[0]) |->
                    [ext |-> cs[0].ext[i], labels |-> cs[0].labels[i], value |-> cs[0].prop[i]]]
        /\ now = [i \in Live(g) |->
                    [ext |-> g.ext[i], labels |-> g.labels[i], value |-> g.prop[i]]]
    BY <2>3 DEF View
  <2>5. ~SameNode(cs[0], g, id)
    BY <2>4 DEF SameNode
  <2>6. \E i \in DOMAIN changes : changes[i].id = id /\ changes[i].kind \in NodeKinds
    BY <2>1, <2>2, <2>5, ChangedIsNamed
  <2> QED
    BY <2>6 DEF NodeKinds
<1> QED
  BY <1>1, StoreIsSound, PTL

(* A commit looks at the labels its changes lead to, and that is enough:   *)
(* outside a transaction every constraint holds, with the same exception.  *)
THEOREM CommitsAreChecked == StoreSpec => []ChecksCoverTheTransaction
<1>1. StoreInv => ChecksCoverTheTransaction
  BY DEF StoreInv
<1> QED
  BY <1>1, StoreIsSound, PTL

-----------------------------------------------------------------------------
(* The promise of a transaction *)

(* Every step of the store is a step of the promise, or none: what is      *)
(* undone gives back what the transaction or its statement found.          *)
LEMMA TxStep ==
  ASSUME StoreInv, [StoreNext]_storeVars
  PROVE  [Tx!TxNext]_(Tx!txVars)
<1> DEFINE graph == View(g)
           schema == Indexed(g)
           saved == {[graph |-> begun.graph, schema |-> begun.schema] : begun \in begunAt}
<1>0. Sound(g) /\ Frame /\ Begun
  BY DEF StoreInv
<1>1. (saved = {} <=> begunAt = {}) /\ (begunAt' = begunAt => saved' = saved)
  OBVIOUS
<1>2. (Indexed(g') <=> Indexed(g)) => schema' = schema
  BY DEF Indexed
<1>3. SameCore(g, g') => graph' = graph
  BY SameView
<1>4. CASE Add \/ Change
  <2>1. Tx!WriteGraph
    BY <1>1, <1>2, <1>4, WritesKeep DEF OnlyWrites, Tx!WriteGraph
  <2> QED
    BY <2>1 DEF Tx!TxNext
<1>5. CASE CreateIndex \/ DropIndex
  <2>1. PICK k : SchemaOp(k) /\ SameCore(g, k)
    BY <1>0, <1>5, IndexSound DEF CreateIndex, DropIndex
  <2>2. Tx!Declare
    BY <1>1, <1>3, <2>1 DEF SchemaOp, Tx!Declare
  <2> QED
    BY <2>2 DEF Tx!TxNext
<1>6. CASE Begin
  <2>1. Tx!BeginTx
    BY <1>0, <1>1, <1>6 DEF Begin, Frame, InTransaction, Tx!BeginTx
  <2> QED
    BY <2>1 DEF Tx!TxNext
<1>7. CASE Commit
  <2>1. Tx!CommitTx
    BY <1>0, <1>1, <1>7 DEF Commit, Frame, InTransaction, Tx!CommitTx
  <2> QED
    BY <2>1 DEF Tx!TxNext
<1>8. CASE Rollback
  <2>1. InTransaction /\ mark = None /\ begunAt' = {} /\ UNCHANGED markedAt
    BY <1>8 DEF Rollback
  <2>2. PICK cs : Past(cs)
    BY <2>1 DEF StoreInv
  <2>3. PICK begun \in begunAt : TRUE
    BY <1>0, <2>1 DEF Frame, InTransaction
  <2>4. graph' = View(cs[0]) /\ (Indexed(g') <=> begun.schema)
    BY <1>8, <2>2, RollbackRestores, SameView
  <2>5. graph' = begun.graph
    BY <2>2, <2>4 DEF Past
  <2>6. begun.schema \in BOOLEAN
    BY <1>0 DEF Begun
  <2>7. schema' = begun.schema
    BY <2>4, <2>6 DEF Indexed
  <2>8. [graph |-> begun.graph, schema |-> begun.schema] \in saved
    OBVIOUS
  <2>9. \E found \in saved : graph' = found.graph /\ schema' = found.schema
    BY <2>5, <2>7, <2>8
  <2>10. saved' = {} /\ markedAt = {} /\ UNCHANGED markedAt
    BY <1>0, <2>1 DEF Frame
  <2> HIDE DEF graph, schema, saved
  <2>11. Tx!RollbackTx
    BY <2>9, <2>10 DEF Tx!RollbackTx, graph, schema, saved
  <2> QED
    BY <2>11 DEF Tx!TxNext
<1>9. CASE StatementBegin
  <2>1. Tx!BeginStatement
    BY <1>0, <1>1, <1>9 DEF StatementBegin, Frame, InTransaction, Tx!BeginStatement
  <2> QED
    BY <2>1 DEF Tx!TxNext
<1>10. CASE StatementCommit
  <2>1. Tx!EndStatement
    BY <1>0, <1>1, <1>10 DEF StatementCommit, Frame, Tx!EndStatement
  <2> QED
    BY <2>1 DEF Tx!TxNext
<1>11. CASE StatementRollback
  <2>1. mark # None /\ markedAt' = {} /\ UNCHANGED begunAt
    BY <1>11 DEF StatementRollback
  <2>2. InTransaction /\ markedAt # {}
    BY <1>0, <2>1 DEF Frame, InTransaction
  <2>3. PICK cs : Past(cs)
    BY <2>2 DEF StoreInv
  <2>4. UndoneTo(g, g', cs[mark])
    BY <1>11, <2>3, StatementRestores
  <2>5. PICK seen \in markedAt : seen = View(cs[mark])
    BY <2>2, <2>3 DEF Past
  <2>6. graph' = seen
    BY <2>4, <2>5, SameView DEF UndoneTo
  <2>7. schema' = schema
    BY <1>2, <2>4 DEF UndoneTo
  <2>8. Tx!FailStatement
    BY <1>1, <2>1, <2>5, <2>6, <2>7 DEF Tx!FailStatement
  <2> QED
    BY <2>8 DEF Tx!TxNext
<1>12. CASE Read
  <2>1. /\ IsStore(g') /\ SameNodes(g, g') /\ SameEdges(g, g')
        /\ g'.csr = Overlay(g) \/ g'.csr = g.csr
    <3>1. g' = [g EXCEPT !.reads = @ + 1,
                         !.csr = IF g.reads + 1 >= RearmAfter THEN Overlay(g) ELSE @]
      BY <1>12 DEF Read
    <3> QED
      BY <1>0, <3>1 DEF Sound, IsStore, Fields, SameNodes, SameEdges
  <2>2. SameCore(g, g') /\ (Indexed(g') <=> Indexed(g))
    BY <1>0, <2>1, OverlaySound
  <2> QED
    BY <1>1, <1>2, <1>3, <1>12, <2>2 DEF Read, Tx!txVars
<1>13. CASE UNCHANGED storeVars
  BY <1>13 DEF storeVars, Tx!txVars, View, Indexed, Live, Nodes
<1> QED
  BY <1>4, <1>5, <1>6, <1>7, <1>8, <1>9, <1>10, <1>11, <1>12, <1>13 DEF StoreNext

(* The store keeps the promise GraphTx: a rollback gives back the graph    *)
(* and the schema of the beginning, a failed statement the graph of its    *)
(* savepoint, and no read, commit or savepoint changes what a query sees.  *)
THEOREM Transactional == StoreSpec => ImplementsGraphTx
<1>1. StoreInit => Tx!TxInit
  BY DEF StoreInit, Tx!TxInit
<1>2. StoreInv /\ [StoreNext]_storeVars => [Tx!TxNext]_(Tx!txVars)
  BY TxStep
<1> QED
  BY <1>1, <1>2, StoreIsSound, PTL DEF StoreSpec, ImplementsGraphTx, Tx!TxSpec
=============================================================================
