-------------------------------- MODULE TopK --------------------------------
(***************************************************************************)
(* The windows of ORDER BY ... LIMIT that are found without a sort of all  *)
(* the rows (crates/lenke-engine/src/exec/order.rs).  A scan reads the key *)
(* of one node after the other, keeps the best it has seen, and where the  *)
(* least or greatest key is known beforehand - a dictionary, a boolean -   *)
(* stops when that key has filled the window (try_scan_top_k and its two   *)
(* arms).  Over a hop the rows are nodes with a multiplicity, and the      *)
(* window is cut out of the candidates (hop_top_k_window).  Both must give *)
(* what the general path gives: the stable sort of all the rows, cut.      *)
(*                                                                         *)
(* A key is its rank; how a node is read, and the size below which the     *)
(* numeric scan is not worth its buffer, are left out.                     *)
(***************************************************************************)
EXTENDS Integers, Sequences, FiniteSets, FiniteSetsExt, SequencesExt

CONSTANTS
    Pleas,          \* the windows asked for, a set of records: see PleaType
    Null,           \* a stored null
    Absent,         \* a cell with no value
    TrimFactor, LeastTrim   \* the buffer is trimmed at the greater of the two bounds

PleaType ==
    [column : {"num", "temporal", "ranked", "hop"}, \* "ranked": Dict and Bool
     cells : Seq(Nat \cup {Null, Absent}),          \* the key of every node, in scan order
     times : Seq(Nat),                              \* how often a hop reaches it
     top : Nat,                                     \* the last rank of the dictionary
     filtered : BOOLEAN,                            \* under the filter of Gremlin's values(k)
     desc : BOOLEAN, nullsFirst : BOOLEAN,
     skip : Nat, limit : Nat]

ASSUME PleaAssumption ==
    /\ Pleas \subseteq PleaType
    /\ Null \notin Nat /\ Absent \notin Nat
    /\ \A p \in Pleas :
         /\ p.column = "ranked" =>
              \A i \in DOMAIN p.cells : p.cells[i] \in (0 .. p.top) \cup {Null, Absent}
         /\ p.column = "hop" => Len(p.times) = Len(p.cells)
ASSUME TrimAssumption == TrimFactor \in Nat \ {0} /\ LeastTrim \in Nat

VARIABLES
    plea,           \* the window asked for
    phase,          \* "asked", "scan", "hop", "done", or "declined" to the general path
    next,           \* the node the scan reads next
    kept,           \* the buffer: the nodes kept
    atBest,         \* at_best
    nullsSeen,
    line,           \* hop: the candidates, in order
    dropped,        \* hop: rows dropped for the skip
    page            \* the answer: nodes of a scan, keys of a hop

pageVars == <<plea, phase, next, kept, atBest, nullsSeen, line, dropped, page>>

IsHole(v) == plea.cells[v] \in {Null, Absent}
Window == plea.skip + plea.limit
Trim == Max({TrimFactor * Window, LeastTrim})
BestRank == IF plea.desc THEN plea.top ELSE 0

(* Key before key, a hole where the language puts it. *)
KeyBefore(v, w) ==
    IF IsHole(v) \/ IsHole(w) THEN IsHole(v) # IsHole(w) /\ IsHole(v) = plea.nullsFirst
    ELSE IF plea.desc THEN plea.cells[v] > plea.cells[w] ELSE plea.cells[v] < plea.cells[w]
(* ... and arrival in a tie *)
RowBefore(v, w) == KeyBefore(v, w) \/ (~KeyBefore(w, v) /\ v < w)
InOrder(nodes) ==
    [i \in 1 .. Cardinality(nodes) |->
        CHOOSE v \in nodes : Cardinality({w \in nodes : RowBefore(w, v)}) = i - 1]
Foremost(nodes, n) == {v \in nodes : Cardinality({w \in nodes : RowBefore(w, v)}) < n}

PageInit ==
    /\ plea \in Pleas /\ phase = "asked"
    /\ next = 1 /\ kept = {} /\ atBest = 0 /\ nullsSeen = FALSE
    /\ line = <<>> /\ dropped = 0 /\ page = <<>>

-----------------------------------------------------------------------------
(* The scan. *)

(* The gates: a temporal column is not read with nulls first, an empty     *)
(* window needs no scan, and a large one is no prefix.                     *)
OpenScan ==
    /\ phase = "asked" /\ plea.column # "hop"
    /\ phase' = IF plea.column = "temporal" /\ plea.nullsFirst THEN "declined"
                ELSE IF Window = 0 THEN "done"
                ELSE IF 2 * Window >= Len(plea.cells) THEN "declined"
                ELSE "scan"
    /\ UNCHANGED <<plea, next, kept, atBest, nullsSeen, line, dropped, page>>

(* Mutant: the scan stops one row short of a full window. *)
SettlesARowEarly == plea.column = "ranked" /\ atBest + 1 >= Window

(* nothing later can displace these *)
Settles == plea.column = "ranked" /\ atBest >= Window

Reading == phase = "scan" /\ next <= Len(plea.cells) /\ ~Settles

ReadHole ==
    /\ Reading /\ IsHole(next)
    /\ nullsSeen' = TRUE
    /\ next' = next + 1
    /\ UNCHANGED <<plea, phase, kept, atBest, line, dropped, page>>

ReadKey ==
    /\ Reading /\ ~IsHole(next)
    /\ atBest' = IF plea.cells[next] = BestRank THEN atBest + 1 ELSE atBest
    /\ kept' = IF Cardinality(kept) + 1 >= Trim THEN Foremost(kept \cup {next}, Window)
               ELSE kept \cup {next}
    /\ next' = next + 1
    /\ UNCHANGED <<plea, phase, nullsSeen, line, dropped, page>>

(* The rows with no key are the general path's as soon as one of them can  *)
(* be in the window; for a number, as soon as there is one.                *)
NullsMatter ==
    /\ nullsSeen
    /\ \/ plea.column = "num"
       \/ plea.nullsFirst
       \/ Cardinality(kept) < Window

CloseScan ==
    /\ phase = "scan" /\ (next > Len(plea.cells) \/ Settles)
    /\ IF NullsMatter
       THEN phase' = "declined" /\ UNCHANGED page
       ELSE /\ phase' = "done"
            /\ page' = SubSeq(InOrder(kept), plea.skip + 1, Min({Window, Cardinality(kept)}))
    /\ UNCHANGED <<plea, next, kept, atBest, nullsSeen, line, dropped>>

-----------------------------------------------------------------------------
(* The hop. *)

Reached == {v \in DOMAIN plea.times : plea.times[v] > 0}

(* The candidates, as many as the window could need, best first.  Neither  *)
(* the selection nor the sort is stable: tied nodes come as they may.      *)
OpenHop ==
    /\ phase = "asked" /\ plea.column = "hop"
    /\ \E s \in SetToSeqs(Reached) :
         /\ \A i, j \in DOMAIN s : i < j => ~KeyBefore(s[j], s[i])
         /\ line' = SubSeq(s, 1, Min({Window, Len(s)}))
    /\ phase' = "hop"
    /\ UNCHANGED <<plea, next, kept, atBest, nullsSeen, dropped, page>>

(* One candidate with all its copies. *)
TakeCopies ==
    /\ phase = "hop" /\ line # <<>> /\ Len(page) < plea.limit
    /\ LET v == Head(line)
           off == Min({plea.times[v], plea.skip - dropped})
           copies == Min({plea.times[v] - off, plea.limit - Len(page)})
       IN  /\ dropped' = dropped + off
           /\ page' = page \o [i \in 1 .. copies |-> IF IsHole(v) THEN Null ELSE plea.cells[v]]
    /\ line' = Tail(line)
    /\ UNCHANGED <<plea, phase, next, kept, atBest, nullsSeen>>

CloseHop ==
    /\ phase = "hop" /\ (line = <<>> \/ Len(page) >= plea.limit)
    /\ phase' = "done"
    /\ UNCHANGED <<plea, next, kept, atBest, nullsSeen, line, dropped, page>>

PageNext ==
    \/ OpenScan \/ ReadHole \/ ReadKey \/ CloseScan
    \/ OpenHop \/ TakeCopies \/ CloseHop

PageSpec == PageInit /\ [][PageNext]_pageVars

-----------------------------------------------------------------------------
(* The reference: the rows of the query, sorted, and the window cut out.   *)

(* The presence filter keeps a stored null. *)
Rows == {v \in DOMAIN plea.cells : ~(plea.filtered /\ plea.cells[v] = Absent)}
Shown(v) == IF IsHole(v) THEN Null ELSE plea.cells[v]

SortedRows ==
    IF plea.column = "hop"
    THEN FlattenSeq([i \in DOMAIN InOrder(Reached) |->
             [n \in 1 .. plea.times[InOrder(Reached)[i]] |-> Shown(InOrder(Reached)[i])]])
    ELSE InOrder(Rows)

(* The window found on the way is the window of the sort: with rows that   *)
(* have no key, on either side of the order, behind a presence filter, in  *)
(* ties, with nodes a hop reaches more than once, and when the scan stops  *)
(* before its end or throws most of what it read away.                     *)
PagesAreExact ==
    phase = "done" => page = SubSeq(SortedRows, plea.skip + 1, Min({Window, Len(SortedRows)}))
=============================================================================
