------------------------------- MODULE Store -------------------------------
(***************************************************************************)
(* The graph store of the native engine and its transactions               *)
(* (crates/lenke-engine/src/store.rs).  Every primitive keeps several      *)
(* structures in step - label buckets, the forward label map, adjacency in *)
(* both directions, the edge count of each type, a property index, the     *)
(* map of external ids, the CSR read overlay - and, while a transaction is *)
(* open, logs an inverse and reports a change.  A rollback replays the     *)
(* inverses, last first, through the same primitives.                      *)
(*                                                                         *)
(* Dense ids count from 1 here.  An adjacency entry is the id of its edge  *)
(* (the ends and the type of an edge never change), and the order inside   *)
(* an adjacency list or a bucket is left out: both are sets.  One property *)
(* key stands for all of them.  An external id is a number: the one the    *)
(* store mints for a node is the number of that node.                      *)
(***************************************************************************)
EXTENDS Naturals, FiniteSets, Sequences, SequencesExt, TLC

CONSTANTS
    Labels, Types,
    Values,         \* what a property can hold
    Null,           \* a stored null, one of the values: never in an index
    Absent,         \* no value
    NoIndex,        \* the property has no index
    Stale,          \* there is no CSR overlay
    None,           \* no transaction, no savepoint, no schema snapshot
    Required,       \* labels whose nodes must have a value that is not null
    Unique,         \* labels whose nodes must have different values
    RearmAfter,     \* REARM_AFTER: reads on a stale overlay before a rebuild
    ExtIds,         \* bound of the runs: the explicit ids an INSERT may carry
    NewNodes,       \* bound of the runs: [labels, value] of a node that is added
    MaxNodes,       \* bound of the runs: dense node ids
    MaxEdges,       \* bound of the runs: edge ids
    MaxLoad,        \* bound of the runs: nodes and edges of the bulk load
    MaxLog,         \* bound of the runs: length of the undo log
    MaxTxs          \* bound of the runs: transactions begun

VARIABLES
    g,              \* the store's data, a record: see EmptyStore
    undo,           \* Store::undo, or None outside a transaction
    changes,        \* Store::changes
    lastCommit,     \* Store::last_commit, the observable change list
    txIndexed,      \* Store::tx_schema: whether the index existed, or None
    mark,           \* the open statement's StmtScope::Nested(mark), or None
    strayed,        \* history: undoing an edge reported a change: rollback_to
    txs,            \* bound of the runs: how many transactions were begun
    begunAt,        \* history: of an open transaction, what it found
    markedAt        \* history: of an open statement, the graph it found

storeVars == <<g, undo, changes, lastCommit, txIndexed, mark, strayed, txs, begunAt, markedAt>>

EmptyStore ==
    [ext |-> <<>>,                          \* node_ext; its length is node_count
     idOf |-> <<>>,                         \* ext_to_node
     dead |-> {},                           \* deleted
     labels |-> <<>>,                       \* node_labels
     bucket |-> [l \in Labels |-> {}],      \* by_label
     prop |-> <<>>,                         \* the column of the one key
     index |-> NoIndex,                     \* indexes: value |-> nodes
     ends |-> <<>>,                         \* edge_ends, edge_etype
     out |-> <<>>, inc |-> <<>>,            \* out_adj, in_adj
     count |-> [t \in Types |-> 0],         \* etype_counts
     csr |-> Stale,                         \* csr_out and csr_in while fresh
     reads |-> 0]                           \* stale_reads

Nodes(h) == DOMAIN h.ext
Live(h) == Nodes(h) \ h.dead
Cells == Values \cup {Absent}
Indexable == Values \ {Null}

(* Undo: the records of the log *)
UndoType ==
    [op : {"AddNode"}]
        \cup [op : {"AddEdge"}, eid : Nat]
        \cup [op : {"AddLabel", "RemoveLabel"}, id : Nat, label : Labels]
        \cup [op : {"RestoreCell"}, id : Nat, value : Cells]
        \cup [op : {"RestoreEdge"}, eid : Nat, entries : SUBSET [node : Nat, isOut : BOOLEAN]]
        \cup [op : {"RestoreNode"}, id : Nat, out : SUBSET Nat, inc : SUBSET Nat,
              labels : SUBSET Labels, value : Cells]

(* The names that stand for nothing are not something. *)
ASSUME StoreAssumption ==
    /\ ExtIds \subseteq Nat
    /\ NewNodes \subseteq [labels : SUBSET Labels, value : Cells]
    /\ Absent \notin Values
    /\ NoIndex \notin [Indexable -> SUBSET Nat]
    /\ None \notin Nat \cup BOOLEAN /\ None \notin Seq(UndoType)

-----------------------------------------------------------------------------
(* The primitives, on a store h. *)

(* invalidate_csr *)
Invalidate(h) == [h EXCEPT !.csr = Stale, !.reads = 0]

(* bump_etype_count for the edges of a set that leave *)
Uncount(h, eids) ==
    [t \in Types |->
        LET gone == Cardinality({e \in eids : h.ends[e].type = t}) IN
        IF gone > h.count[t] THEN 0 ELSE h.count[t] - gone]

Recount(h, eids) ==
    [t \in Types |-> h.count[t] + Cardinality({e \in eids : h.ends[e].type = t})]

(* reindex_node: the node leaves the bucket of its old value and enters    *)
(* that of its new one; nulls and absences have no bucket.                 *)
Reindex(h, id, old, new) ==
    IF h.index = NoIndex THEN NoIndex
    ELSE [v \in Indexable |->
            (IF v = old THEN h.index[v] \ {id} ELSE h.index[v])
                \cup (IF v = new THEN {id} ELSE {})]

(* apply_set_prop, and apply_remove_prop when the value is Absent *)
WriteCell(h, id, value) ==
    [h EXCEPT !.prop[id] = value, !.index = Reindex(h, id, h.prop[id], value)]

(* apply_add_label and apply_remove_label *)
PutLabel(h, id, l) ==
    [h EXCEPT !.bucket[l] = @ \cup {id}, !.labels[id] = @ \cup {l}]
DropLabel(h, id, l) ==
    [h EXCEPT !.bucket[l] = @ \ {id}, !.labels[id] = @ \ {l}]

(* add_node_with_id *)
PushNode(h, ext, labels, value) ==
    LET id == Len(h.ext) + 1
        grown == [Invalidate(h) EXCEPT
                    !.ext = Append(@, ext),
                    !.idOf = [e \in {ext} \cup DOMAIN @ |-> IF e = ext THEN id ELSE @[e]],
                    !.prop = Append(@, Absent),
                    !.out = Append(@, {}),
                    !.inc = Append(@, {}),
                    !.labels = Append(@, labels),
                    !.bucket = [l \in Labels |->
                        IF l \in labels THEN @[l] \cup {id} ELSE @[l]]]
    IN WriteCell(grown, id, value)

(* The entry of a popped node leaves the map, whichever node it names. *)
ForgetExt(h, id) == [e \in DOMAIN h.idOf \ {h.ext[id]} |-> h.idOf[e]]

(* pop_last_node *)
PopNode(h) ==
    LET id == Len(h.ext) IN
    [Invalidate(h) EXCEPT
        !.index = Reindex(h, id, h.prop[id], Absent),
        !.bucket = [l \in Labels |-> @[l] \ {id}],
        !.prop = Front(@),
        !.count = Uncount(h, h.out[id]),
        !.out = Front(@),
        !.inc = Front(@),
        !.labels = Front(@),
        !.idOf = ForgetExt(h, id),
        !.ext = Front(@),
        !.dead = @ \ {id}]

(* add_edge_with_id *)
PushEdge(h, from, to, type) ==
    LET eid == Len(h.ends) + 1 IN
    [Invalidate(h) EXCEPT
        !.ends = Append(@, [from |-> from, to |-> to, type |-> type]),
        !.out[from] = @ \cup {eid},
        !.inc[to] = @ \cup {eid},
        !.count[type] = @ + 1]

(* The adjacency entries delete_edge removes: none of an edge that is      *)
(* gone already.                                                           *)
EdgeEntries(h, eid) ==
    {entry \in [node : {h.ends[eid].from, h.ends[eid].to}, isOut : BOOLEAN] :
        eid \in (IF entry.isOut THEN h.out ELSE h.inc)[entry.node]}

(* Mutant: an edge leaves and the overlay stays. *)
CutEdgeKeepsOverlay(h, eid) ==
    [h EXCEPT
        !.out = [n \in DOMAIN @ |-> @[n] \ {eid}],
        !.inc = [n \in DOMAIN @ |-> @[n] \ {eid}],
        !.count = IF EdgeEntries(h, eid) = {} THEN @ ELSE Uncount(h, {eid})]

(* delete_edge *)
CutEdge(h, eid) ==
    [Invalidate(h) EXCEPT
        !.out = [n \in DOMAIN @ |-> @[n] \ {eid}],
        !.inc = [n \in DOMAIN @ |-> @[n] \ {eid}],
        !.count = IF EdgeEntries(h, eid) = {} THEN @ ELSE Uncount(h, {eid})]

(* delete_node_inner first empties the node's own out list and takes the   *)
(* mirrors off the in lists.  The mirror of a self-loop is in the node's   *)
(* own in list, and leaves it here.                                        *)
CutOut(h, id) ==
    [h EXCEPT !.out[id] = {},
              !.inc = [n \in DOMAIN @ |-> @[n] \ h.out[id]],
              !.count = Uncount(h, h.out[id])]

(* delete_node_inner, and the bucket sweep of delete_nodes *)
BuryNode(h, id) ==
    LET cut == CutOut(h, id) IN
    [Invalidate(cut) EXCEPT
        !.index = Reindex(h, id, h.prop[id], Absent),
        !.prop[id] = Absent,
        !.inc[id] = {},
        !.out = [n \in DOMAIN @ |-> @[n] \ cut.inc[id]],
        !.count = Uncount(cut, cut.inc[id]),
        !.dead = @ \cup {id},
        !.labels[id] = {},
        !.bucket = [l \in Labels |-> @[l] \ {id}]]

(* the RestoreNode record: the out list, what is left of the in list when  *)
(* delete_node_inner takes it, the labels and the cell                     *)
NodeRecord(h, id) ==
    [op |-> "RestoreNode", id |-> id, out |-> h.out[id],
     inc |-> CutOut(h, id).inc[id],
     labels |-> {l \in Labels : id \in h.bucket[l]}, value |-> h.prop[id]]

(* The edges a restored node brings back, each counted once: its whole out *)
(* list, and the entries of its in list that are not its own.              *)
EdgesOf(h, rec) == rec.out \cup {e \in rec.inc : h.ends[e].from # rec.id}

(* the RestoreNode arm of apply_undo *)
RaiseNode(h, rec) ==
    LET id == rec.id
        Sources(n) == {e \in rec.inc : h.ends[e].from = n}
        Targets(n) == {e \in rec.out : h.ends[e].to = n}
        raised == [h EXCEPT
            !.dead = @ \ {id},
            !.out = [n \in DOMAIN @ |->
                        IF n = id THEN rec.out ELSE @[n] \cup Sources(n)],
            !.inc = [n \in DOMAIN @ |->
                        IF n = id THEN rec.inc ELSE @[n] \cup Targets(n)],
            !.count = Recount(h, EdgesOf(h, rec)),
            !.labels[id] = rec.labels,
            !.bucket = [l \in Labels |->
                            IF l \in rec.labels THEN @[l] \cup {id} ELSE @[l]]]
    IN WriteCell(raised, id, rec.value)

(* the RestoreEdge arm of apply_undo *)
RaiseEdge(h, rec) ==
    LET Back(n, isOut) == IF [node |-> n, isOut |-> isOut] \in rec.entries
                          THEN {rec.eid} ELSE {}
    IN [h EXCEPT
            !.out = [n \in DOMAIN @ |-> @[n] \cup Back(n, TRUE)],
            !.inc = [n \in DOMAIN @ |-> @[n] \cup Back(n, FALSE)],
            !.count = IF \E entry \in rec.entries : entry.isOut
                      THEN Recount(h, {rec.eid}) ELSE @]

(* apply_undo, which drops the overlay whatever the record is *)
ApplyUndo(h, rec) ==
    LET i == Invalidate(h) IN
    CASE rec.op = "AddNode" -> PopNode(i)
      [] rec.op = "AddEdge" -> CutEdge(i, rec.eid)
      [] rec.op = "AddLabel" -> DropLabel(i, rec.id, rec.label)
      [] rec.op = "RemoveLabel" -> PutLabel(i, rec.id, rec.label)
      [] rec.op = "RestoreCell" -> WriteCell(i, rec.id, rec.value)
      [] rec.op = "RestoreEdge" -> RaiseEdge(i, rec)
      [] rec.op = "RestoreNode" -> RaiseNode(i, rec)

(* the inverses of a log, last first *)
Replay(h, log) == FoldLeft(ApplyUndo, h, Reverse(log))

(* create_index, over the nodes that are there *)
BuildIndex(h) ==
    [h EXCEPT !.index =
        [v \in Indexable |-> {id \in Nodes(h) \ h.dead : h.prop[id] = v}]]

(* Mutant: an index created in the transaction outlives it. *)
RestoreSchemaKeepsCreated(h, indexed) ==
    IF indexed # None /\ indexed /\ h.index = NoIndex THEN BuildIndex(h) ELSE h

(* restore_schema *)
RestoreSchema(h, indexed) ==
    CASE indexed = None -> h
      [] indexed # None /\ ~indexed -> [h EXCEPT !.index = NoIndex]
      [] indexed # None /\ indexed ->
            IF h.index = NoIndex THEN BuildIndex(h) ELSE h

(* rebuild_csr *)
Overlay(h) == [out |-> h.out, inc |-> h.inc]

-----------------------------------------------------------------------------
(* What a query can see: the live nodes, with their label, property and    *)
(* external id, and the edges of the out lists.                            *)
View(h) ==
    [size |-> Len(h.ext),
     nodes |-> [id \in Live(h) |->
        [ext |-> h.ext[id], labels |-> h.labels[id], value |-> h.prop[id]]],
     edges |-> [id \in Live(h) |-> h.out[id]]]

Indexed(h) == h.index # NoIndex

(* check_required_for_label and check_unique_for_label; a null is no value *)
(* to either.                                                              *)
Satisfies(h, l) ==
    LET Value(id) == IF h.prop[id] = Absent THEN Null ELSE h.prop[id] IN
    /\ l \in Required => \A id \in h.bucket[l] : Value(id) # Null
    /\ l \in Unique => \A i, j \in h.bucket[l] :
                           Value(i) = Value(j) => i = j \/ Value(i) = Null

Valid(h) == \A l \in Labels : Satisfies(h, l)

(* Mutant: a value that was written is not checked. *)
TouchedByLabels(h, log) ==
    UNION {h.labels[c.id] : c \in {log[n] : n \in
        {m \in DOMAIN log : log[m].kind \in {"NodeAdded", "NodeLabel"}
                              /\ log[m].id \in Live(h)}}}

(* The labels run_deferred_checks looks at: those of the live nodes that   *)
(* the change list names.                                                  *)
Touched(h, log) ==
    UNION {h.labels[c.id] : c \in {log[n] : n \in
        {m \in DOMAIN log : log[m].kind \in {"NodeAdded", "NodeProp", "NodeLabel"}
                              /\ log[m].id \in Live(h)}}}

InTransaction == undo # None

StoreInit ==
    /\ g = EmptyStore
    /\ undo = None /\ changes = <<>> /\ lastCommit = <<>>
    /\ txIndexed = None /\ mark = None /\ strayed = FALSE /\ txs = 0
    /\ begunAt = {} /\ markedAt = {}

(* Every mutation ends like this: outside a transaction nothing is logged. *)
Record(rec, change) ==
    /\ InTransaction => Len(undo) < MaxLog
    /\ undo' = IF InTransaction THEN Append(undo, rec) ELSE undo
    /\ changes' = IF InTransaction THEN Append(changes, change) ELSE changes
    /\ UNCHANGED <<lastCommit, txIndexed, mark, strayed, txs, begunAt, markedAt>>

(* insert_node_with_identity: an explicit id must not be in use *)
AddNode(ext, labels, value) ==
    /\ Len(g.ext) < MaxNodes
    /\ ext \in (ExtIds \ DOMAIN g.idOf) \cup {Len(g.ext) + 1}
    /\ g' = PushNode(g, ext, labels, value)
    /\ Record([op |-> "AddNode"], [kind |-> "NodeAdded", id |-> Len(g.ext) + 1])

(* add_edge, between live nodes *)
AddEdge(from, to, type) ==
    /\ Len(g.ends) < MaxEdges
    /\ g' = PushEdge(g, from, to, type)
    /\ Record([op |-> "AddEdge", eid |-> Len(g.ends) + 1],
              [kind |-> "EdgeAdded", id |-> Len(g.ends) + 1])

(* set_prop and remove_prop *)
SetProp(id, value) ==
    /\ g' = WriteCell(g, id, value)
    /\ Record([op |-> "RestoreCell", id |-> id, value |-> g.prop[id]],
              [kind |-> "NodeProp", id |-> id])

AddLabel(id, l) ==
    /\ id \notin g.bucket[l]
    /\ g' = PutLabel(g, id, l)
    /\ Record([op |-> "AddLabel", id |-> id, label |-> l],
              [kind |-> "NodeLabel", id |-> id])

RemoveLabel(id, l) ==
    /\ id \in g.bucket[l]
    /\ g' = DropLabel(g, id, l)
    /\ Record([op |-> "RemoveLabel", id |-> id, label |-> l],
              [kind |-> "NodeLabel", id |-> id])

(* Applied::DeleteEdge: also of an edge that an earlier row of the same    *)
(* statement deleted already.                                              *)
DeleteEdge(eid) ==
    /\ {g.ends[eid].from, g.ends[eid].to} \subseteq Nodes(g)
    /\ g' = CutEdge(g, eid)
    /\ Record([op |-> "RestoreEdge", eid |-> eid, entries |-> EdgeEntries(g, eid)],
              [kind |-> "EdgeDeleted", id |-> eid])

DeleteNode(id) ==
    /\ g' = BuryNode(g, id)
    /\ Record(NodeRecord(g, id), [kind |-> "NodeDeleted", id |-> id])

(* apply_schema_op takes the schema snapshot, then creates or drops. *)
SchemaOp(h) ==
    /\ g' = h
    /\ txIndexed' = IF InTransaction /\ txIndexed = None
                    THEN Indexed(g) ELSE txIndexed
    /\ UNCHANGED <<undo, changes, lastCommit, mark, strayed, txs, begunAt, markedAt>>

CreateIndex == g.index = NoIndex /\ SchemaOp(BuildIndex(g))
DropIndex == g.index # NoIndex /\ SchemaOp([g EXCEPT !.index = NoIndex])

Begin ==
    /\ ~InTransaction /\ txs < MaxTxs
    /\ txs' = txs + 1
    /\ undo' = <<>> /\ changes' = <<>>
    /\ begunAt' = {[graph |-> View(g), schema |-> Indexed(g), strayed |-> strayed]}
    /\ UNCHANGED <<g, lastCommit, txIndexed, mark, strayed, markedAt>>

ChecksPass == \A l \in Touched(g, changes) : Satisfies(g, l)

(* Mutant: the transaction is committed under an open statement. *)
CommitMidStatement ==
    /\ InTransaction /\ ChecksPass
    /\ undo' = None
    /\ lastCommit' = changes /\ changes' = <<>>
    /\ txIndexed' = None /\ begunAt' = {}
    /\ UNCHANGED <<g, mark, strayed, txs, markedAt>>

(* commit_with_deferred_checks, when the checks pass *)
Commit ==
    /\ InTransaction /\ mark = None /\ ChecksPass
    /\ undo' = None
    /\ lastCommit' = changes /\ changes' = <<>>
    /\ txIndexed' = None /\ begunAt' = {}
    /\ UNCHANGED <<g, mark, strayed, txs, markedAt>>

(* rollback: asked for, or because the checks of a commit fail *)
Rollback ==
    /\ InTransaction /\ mark = None
    /\ g' = RestoreSchema(Replay(g, undo), txIndexed)
    /\ undo' = None /\ changes' = <<>>
    /\ txIndexed' = None /\ begunAt' = {}
    /\ \E begun \in begunAt : strayed' = begun.strayed
    /\ UNCHANGED <<lastCommit, mark, txs, markedAt>>

(* stmt_begin inside a transaction: a savepoint *)
StatementBegin ==
    /\ InTransaction /\ mark = None
    /\ mark' = Len(undo) /\ markedAt' = {View(g)}
    /\ UNCHANGED <<g, undo, changes, lastCommit, txIndexed, strayed, txs, begunAt>>

StatementCommit ==
    /\ mark # None
    /\ mark' = None /\ markedAt' = {}
    /\ UNCHANGED <<g, undo, changes, lastCommit, txIndexed, strayed, txs, begunAt>>

(* Mutant: the whole change list goes, as in a rollback. *)
NothingKept == <<>>

(* The changes reported before the savepoint, by the length of the undo    *)
(* log then: the two lists are taken to grow in step.                      *)
ChangesKept == SubSeq(changes, 1, IF Len(changes) > mark THEN mark ELSE Len(changes))

(* rollback_to(mark).  The changes are cut to the mark before the inverses *)
(* run, and are still recorded while they run: undoing an AddEdge calls    *)
(* delete_edge, which reports an EdgeDeleted.                              *)
StatementRollback ==
    LET undone == SubSeq(undo, mark + 1, Len(undo))
        cuts == SelectSeq(Reverse(undone), LAMBDA rec : rec.op = "AddEdge")
    IN
    /\ mark # None
    /\ g' = Replay(g, undone)
    /\ undo' = SubSeq(undo, 1, mark)
    /\ changes' = ChangesKept \o [n \in DOMAIN cuts |->
                              [kind |-> "EdgeDeleted", id |-> cuts[n].eid]]
    /\ strayed' = (strayed \/ cuts # <<>>)
    /\ mark' = None /\ markedAt' = {}
    /\ UNCHANGED <<lastCommit, txIndexed, txs, begunAt>>

(* rearm_if_warranted, at the start of each query *)
Read ==
    /\ g.csr = Stale
    /\ g' = [g EXCEPT !.reads = @ + 1,
                      !.csr = IF g.reads + 1 >= RearmAfter THEN Overlay(g) ELSE @]
    /\ UNCHANGED <<undo, changes, lastCommit, txIndexed, mark, strayed, txs, begunAt, markedAt>>

(* A bulk load only adds, and needs no transaction; a constraint is        *)
(* declared only over data that satisfies it.                              *)
Add ==
    /\ InTransaction \/ Len(g.ext) + Len(g.ends) < MaxLoad
    /\ \/ \E ext \in ExtIds \cup 1 .. MaxNodes, node \in NewNodes :
             AddNode(ext, node.labels, node.value)
       \/ \E from, to \in Live(g), type \in Types : AddEdge(from, to, type)
    /\ InTransaction \/ Valid(g')

(* Everything else is done by a statement, which opens a transaction if    *)
(* none is open.                                                           *)
Change ==
    /\ InTransaction
    /\ \/ \E id \in Live(g) :
             \/ \E value \in Cells : SetProp(id, value)
             \/ \E l \in Labels : AddLabel(id, l) \/ RemoveLabel(id, l)
             \/ DeleteNode(id)
       \/ \E eid \in DOMAIN g.ends : DeleteEdge(eid)

StoreNext ==
    \/ Add \/ Change
    \/ CreateIndex \/ DropIndex
    \/ Begin \/ Commit \/ Rollback
    \/ StatementBegin \/ StatementCommit \/ StatementRollback
    \/ Read

StoreSpec == StoreInit /\ [][StoreNext]_storeVars

-----------------------------------------------------------------------------

(* Type invariant of the store's data and of the transaction frame. *)
StoreTypeOK ==
    /\ DOMAIN g.prop = Nodes(g) /\ DOMAIN g.labels = Nodes(g)
    /\ DOMAIN g.out = Nodes(g) /\ DOMAIN g.inc = Nodes(g)
    /\ g.dead \subseteq Nodes(g)
    /\ \A id \in Nodes(g) : g.prop[id] \in Cells /\ g.labels[id] \subseteq Labels
    /\ \A id \in Nodes(g) : g.out[id] \cup g.inc[id] \subseteq DOMAIN g.ends
    /\ mark # None => InTransaction /\ mark \in 0 .. Len(undo)

(* The promise of a transaction, GraphTx, kept by the undo log: a rollback *)
(* gives back the graph and the schema of the beginning, a failed          *)
(* statement the graph of its savepoint, and no read, commit or savepoint  *)
(* changes what a query sees.                                              *)
Tx == INSTANCE GraphTx WITH
    graph <- View(g),
    schema <- Indexed(g),
    saved <- {[graph |-> begun.graph, schema |-> begun.schema] : begun \in begunAt},
    atMark <- markedAt

ImplementsGraphTx == Tx!TxSpec

(* After any mix of writes, deletes, schema operations and rollbacks the   *)
(* structures agree: the buckets invert the forward label map and hold     *)
(* live nodes only, the index holds exactly the live nodes with a value,   *)
(* the edges counted of each type are the edges that are there, and an     *)
(* edge is in the out list of its source and in the in list of its target. *)
EdgesThere == UNION {g.out[id] : id \in Nodes(g)}

DerivedStateAgrees ==
    /\ \A l \in Labels : g.bucket[l] = {id \in Live(g) : l \in g.labels[id]}
    /\ Indexed(g) =>
         \A v \in Indexable : g.index[v] = {id \in Live(g) : g.prop[id] = v}
    /\ \A t \in Types :
         g.count[t] = Cardinality({e \in EdgesThere : g.ends[e].type = t})
    /\ \A e \in EdgesThere :
         LET ends == g.ends[e] IN
         /\ {ends.from, ends.to} \subseteq Live(g)
         /\ \A id \in Nodes(g) : e \in g.out[id] <=> id = ends.from
         /\ ends.from # ends.to => e \in g.inc[ends.to]
    /\ \A id \in Nodes(g) : \A e \in g.inc[id] :
         g.ends[e].to = id /\ e \in EdgesThere

(* Reads that take the CSR overlay see the adjacency as it is: every write *)
(* and every undo that touches an edge has dropped the overlay before.     *)
FreshOverlayIsCurrent == g.csr # Stale => g.csr = Overlay(g)

(* An external id never resolves to a node that does not carry it: ids     *)
(* that are taken again after a rollback included.                         *)
ExtMapIsSound ==
    \A ext \in DOMAIN g.idOf : g.idOf[ext] \in Nodes(g) /\ g.ext[g.idOf[ext]] = ext

(* The structures a write or an undo has to keep in step: the three above. *)
NothingDerivedIsStale == DerivedStateAgrees /\ FreshOverlayIsCurrent /\ ExtMapIsSound

(* Between the statements of a transaction, every node that differs from   *)
(* what it was at the beginning is named by a change: the commit reports   *)
(* it, and its constraints are checked.  Unless a failed statement had     *)
(* added an edge: see CommittedGraphIsValid.                               *)
ChangesCoverTheTransaction ==
    \A begun \in begunAt : mark = None /\ ~strayed =>
        LET then == begun.graph.nodes
            now == View(g).nodes
            Same(id) == /\ id \in DOMAIN then <=> id \in DOMAIN now
                        /\ id \in DOMAIN then => then[id] = now[id]
        IN \A id \in DOMAIN then \cup DOMAIN now :
              ~Same(id) => \E n \in DOMAIN changes :
                               /\ changes[n].id = id
                               /\ changes[n].kind \notin {"EdgeAdded", "EdgeDeleted"}

(* What is committed satisfies every constraint, though a commit checks    *)
(* only the labels its change list leads to; with the same exception.      *)
ChecksCoverTheTransaction == InTransaction \/ strayed \/ Valid(g)

(* The constraint checks of a commit see every change that could have      *)
(* violated them: outside a transaction the graph is valid.                *)
CommittedGraphIsValid == InTransaction \/ Valid(g)

(* An edge is in its target's in list whenever it is in its source's out   *)
(* list: also a self-loop, also after its node was deleted and the delete  *)
(* rolled back.                                                            *)
MirrorsAgree ==
    \A e \in EdgesThere : e \in g.inc[g.ends[e].to]
=============================================================================
