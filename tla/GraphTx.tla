------------------------------ MODULE GraphTx ------------------------------
(***************************************************************************)
(* What a transaction on the graph store promises, whatever the store      *)
(* keeps to make it true: writes change the graph, a statement that fails  *)
(* leaves the graph as it found it, a transaction that is rolled back      *)
(* leaves graph and schema as it found them, and nothing else changes      *)
(* either.  A failed statement does not take back a schema operation: the  *)
(* schema belongs to the whole transaction.                                *)
(***************************************************************************)
VARIABLES
    graph,              \* the nodes and edges a query can see
    schema,             \* the declared indexes
    saved,              \* of an open transaction, the [graph, schema] it found
    atMark              \* of an open statement, the graph it found

txVars == <<graph, schema, saved, atMark>>

TxInit == saved = {} /\ atMark = {}

(* A write, inside a transaction or on its own. *)
WriteGraph == UNCHANGED <<schema, saved, atMark>>

Declare == UNCHANGED <<graph, saved, atMark>>

BeginTx ==
    /\ saved = {}
    /\ saved' = {[graph |-> graph, schema |-> schema]}
    /\ UNCHANGED <<graph, schema, atMark>>

BeginStatement ==
    /\ saved # {} /\ atMark = {}
    /\ atMark' = {graph}
    /\ UNCHANGED <<graph, schema, saved>>

EndStatement ==
    /\ atMark # {}
    /\ atMark' = {}
    /\ UNCHANGED <<graph, schema, saved>>

FailStatement ==
    /\ atMark # {}
    /\ graph' \in atMark
    /\ atMark' = {}
    /\ UNCHANGED <<schema, saved>>

CommitTx ==
    /\ saved # {} /\ atMark = {}
    /\ saved' = {}
    /\ UNCHANGED <<graph, schema, atMark>>

RollbackTx ==
    /\ atMark = {}
    /\ \E found \in saved : graph' = found.graph /\ schema' = found.schema
    /\ saved' = {}
    /\ UNCHANGED atMark

TxNext ==
    \/ WriteGraph \/ Declare
    \/ BeginTx \/ BeginStatement \/ EndStatement \/ FailStatement
    \/ CommitTx \/ RollbackTx

TxSpec == TxInit /\ [][TxNext]_txVars
=============================================================================
