------------------------------- MODULE MCSync -------------------------------
(***************************************************************************)
(* The connection manager, the demand-fill, and the standing query with    *)
(* the demand-fill it starts, in one run: the initial state picks the part *)
(* that moves, the others stay idle.                                       *)
(***************************************************************************)
EXTENDS Reconnect, LiveRows

VARIABLE part

Row(k, x, y) == [key |-> k, cells |-> [x |-> x, y |-> y]]
(* a key appears, one goes, the order moves, one cell of a row changes *)
MCStored == {<<Row("a", 0, 0)>>}
MCResults == {<<>>, <<Row("a", 0, 0)>>, <<Row("b", 0, 0), Row("a", 0, 1)>>}

\* The rows wait for one slice; the first retry is on the timer.
SyncInit ==
  /\ part \in {"dial", "fill", "rows"}
  /\ Init /\ RowsInit
  /\ part = "dial" => fill.baseMs = 0 /\ \A s \in Scopes : fill.state[s] = "empty"
  /\ part = "rows" => fill.baseMs = 1 /\ \A s \in Scopes \ Reads : fill.state[s] = "complete"

DialPart(A) == part = "dial" /\ A /\ UNCHANGED <<part, fillVars, rowVars>>
FillPart(A) == part = "fill" /\ A /\ UNCHANGED <<part, vars, rowVars>>
RowsPart(A) == part = "rows" /\ A /\ UNCHANGED <<part, vars>>

SyncNext == DialPart(Next) \/ FillPart(FillNext) \/ RowsPart(RowsNext)

syncVars == <<part, vars, fillVars, rowVars>>

SyncSpec ==
  /\ SyncInit /\ [][SyncNext]_syncVars
  /\ WF_syncVars(DialPart(Start)) /\ WF_syncVars(DialPart(Dial))
  /\ \A d \in Dials : WF_syncVars(DialPart(Opened(d)))
  /\ WF_syncVars(FillPart(FillProgress)) /\ WF_syncVars(RowsPart(LoadsGoOn))
=============================================================================
