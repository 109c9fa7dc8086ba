----------------------------- MODULE AtMostOnce -----------------------------
(***************************************************************************)
(* What the write path promises the application, without connections,      *)
(* retries or a registry: every mutate() is applied at most once, its      *)
(* promise settles at most once, and it only resolves after the write was  *)
(* applied.  A session the server forgot loses the first guarantee and     *)
(* keeps the others.                                                       *)
(***************************************************************************)
EXTENDS Naturals

CONSTANTS Sessions, MaxSeq

VARIABLES
  writeSeq,  \* writes issued, per session
  applied,   \* how often each reached the graph
  outcome,   \* what became of its promise
  forgotten  \* the sessions the server no longer recognises writes of

vars == <<writeSeq, applied, outcome, forgotten>>

Init ==
  /\ writeSeq = [s \in Sessions |-> 0]
  /\ applied = [s \in Sessions |-> [n \in 1..MaxSeq |-> 0]]
  /\ outcome = [s \in Sessions |-> [n \in 1..MaxSeq |-> "none"]]
  /\ forgotten = {}

Issue(s) ==
  /\ writeSeq[s] < MaxSeq
  /\ writeSeq' = [writeSeq EXCEPT ![s] = @ + 1]
  /\ UNCHANGED <<applied, outcome, forgotten>>

\* Applying a write may cost other sessions, or this one, their place.
Apply(s, n) ==
  /\ n <= writeSeq[s]
  /\ applied[s][n] = 0 \/ s \in forgotten
  /\ applied' = [applied EXCEPT ![s][n] = @ + 1]
  /\ \E lost \in SUBSET Sessions : forgotten' = forgotten \cup lost
  /\ UNCHANGED <<writeSeq, outcome>>

Settle(s, n, result) ==
  /\ n <= writeSeq[s]
  /\ outcome[s][n] = "none"
  /\ result = "ok" => applied[s][n] >= 1
  /\ outcome' = [outcome EXCEPT ![s][n] = result]
  /\ UNCHANGED <<writeSeq, applied, forgotten>>

\* The client closes: what has not settled never will.
Close(s) ==
  /\ outcome' = [outcome EXCEPT ![s] =
                   [n \in 1..MaxSeq |-> IF @[n] = "none" /\ n <= writeSeq[s]
                                        THEN "closed" ELSE @[n]]]
  /\ UNCHANGED <<writeSeq, applied, forgotten>>

Forget(lost) ==
  /\ forgotten' = forgotten \cup lost
  /\ UNCHANGED <<writeSeq, applied, outcome>>

Next ==
  \/ \E s \in Sessions :
       \/ Issue(s)
       \/ Close(s)
       \/ \E n \in 1..MaxSeq :
            \/ Apply(s, n)
            \/ \E result \in {"ok", "rejected"} : Settle(s, n, result)
  \/ \E lost \in SUBSET Sessions : Forget(lost)

Spec == Init /\ [][Next]_vars
=============================================================================
