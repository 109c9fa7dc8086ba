------------------------------ MODULE MCStore ------------------------------
EXTENDS Store

CONSTANTS A, v

\* Nodes are added with the label and a value, and may lose both.
Labelled == {[labels |-> {A}, value |-> v]}

\* lastCommit is written by a commit and read by nobody in the store.
Seen == <<g, undo, changes, txIndexed, mark, strayed, txs, begunAt, markedAt>>

\* Bound: what follows a stray report is left to the run that looks for it.
NotStrayed == ~strayed
=============================================================================
