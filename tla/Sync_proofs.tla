---------------------------- MODULE Sync_proofs ----------------------------
(***************************************************************************)
(* Proofs about the connection manager (Reconnect), the demand-fill        *)
(* (DemandFill) and the live rows over it (LiveRows).  The manager keeps   *)
(* one chain of dials and reports its connectivity truly, for every number *)
(* of dials and every order of the transports' reports.  The gate of the   *)
(* demand-fill is sound for every set of slices and every number of slots  *)
(* and retries.  What a client shows as complete is one answer of the      *)
(* query, and the store's when nothing is under way, for all queries,      *)
(* writes, loads and connections.                                          *)
(***************************************************************************)
EXTENDS Reconnect, LiveRows, FiniteSetTheorems, SequenceTheorems, WellFoundedInduction, TLAPS

----------------------------------------------------------------------------
(* The connection manager *)

\* The initial state satisfies the inductive invariant.
LEMMA InitInv == Init => Inv
  <1> SUFFICES ASSUME Init PROVE Inv
    OBVIOUS
  <1> USE MaxAttemptAssumption, BoundAssumption DEF Init
  <1>1. NoDial \in Held
    BY DEF NoDial, Held
  <1>2. TypeOK
    <2>1. held \in [Dials -> Held]
          /\ wire \in [Dials -> {"none", "connecting", "open", "failed", "gone"}]
      BY <1>1
    <2>2. started \in BOOLEAN /\ stopped \in BOOLEAN /\ up \in BOOLEAN /\ redial \in BOOLEAN
      OBVIOUS
    <2>3. conn \in 0..MaxDials /\ attempt \in 0..MaxAttempt /\ dials \in 0..MaxDials
          /\ released \subseteq Dials
      OBVIOUS
    <2> QED
      BY <2>1, <2>2, <2>3 DEF TypeOK
  <1>3. HeldIsCurrent
    BY DEF HeldIsCurrent, NoDial, Dials
  <1>4. TimerOnlyWhileRunning /\ OneChain /\ UpIsLive
    BY DEF TimerOnlyWhileRunning, OneChain, UpIsLive, Open
  <1> QED
    BY <1>2, <1>3, <1>4 DEF Inv

\* What the three ways through dial() have in common.
LEMMA ConnectShape ==
  ASSUME TypeOK, Connect
  PROVE  /\ dials + 1 \in Dials /\ dials' = dials + 1
         /\ \E h \in Held, w \in {"connecting", "open", "failed"} :
              /\ held' = [held EXCEPT ![dials + 1] = h]
              /\ wire' = [wire EXCEPT ![dials + 1] = w]
              /\ h.settled <=> w = "failed"
              /\ h.opened => w # "connecting"
              /\ w # "failed" => h.c
              /\ \/ /\ w = "connecting" /\ redial' = FALSE
                    /\ UNCHANGED <<conn, up, attempt, released>>
                 \/ /\ w = "open" /\ h.opened /\ redial' = FALSE
                    /\ GoLive(dials + 1)
                    /\ UNCHANGED released
                 \/ /\ w = "failed"
                    /\ up' = FALSE
                    /\ BackOff
                    /\ released' = released \cup {dials + 1}
                    /\ UNCHANGED conn
  <1> DEFINE Shape(h, w) ==
              /\ held' = [held EXCEPT ![dials + 1] = h]
              /\ wire' = [wire EXCEPT ![dials + 1] = w]
              /\ h.settled <=> w = "failed"
              /\ h.opened => w # "connecting"
              /\ w # "failed" => h.c
              /\ \/ /\ w = "connecting" /\ redial' = FALSE
                    /\ UNCHANGED <<conn, up, attempt, released>>
                 \/ /\ w = "open" /\ h.opened /\ redial' = FALSE
                    /\ GoLive(dials + 1)
                    /\ UNCHANGED released
                 \/ /\ w = "failed"
                    /\ up' = FALSE
                    /\ BackOff
                    /\ released' = released \cup {dials + 1}
                    /\ UNCHANGED conn
  <1>1. dials + 1 \in Dials
    BY BoundAssumption DEF TypeOK, Connect, Dials
  <1>2. CASE ConnectsLater
    <2> DEFINE h == [c |-> TRUE, opened |-> FALSE, settled |-> FALSE]
    <2>1. h \in Held /\ Shape(h, "connecting")
      BY <1>2 DEF ConnectsLater, NextDial, Held
    <2> HIDE DEF h, Shape
    <2>2. \E g \in Held, w \in {"connecting", "open", "failed"} : Shape(g, w)
      BY <2>1
    <2> QED
      BY <1>1, <1>2, <2>2 DEF ConnectsLater, NextDial, Shape
  <1>3. CASE OpensAtOnce
    <2> DEFINE h == [c |-> TRUE, opened |-> TRUE, settled |-> FALSE]
    <2>1. h \in Held /\ Shape(h, "open")
      BY <1>3 DEF OpensAtOnce, NextDial, Held
    <2> HIDE DEF h, Shape
    <2>2. \E g \in Held, w \in {"connecting", "open", "failed"} : Shape(g, w)
      BY <2>1
    <2> QED
      BY <1>1, <1>3, <2>2 DEF OpensAtOnce, NextDial, Shape
  <1>4. CASE ClosesAtOnce
    <2>1. PICK opened \in BOOLEAN :
            NextDial([c |-> FALSE, opened |-> opened, settled |-> TRUE], "failed")
      BY <1>4 DEF ClosesAtOnce
    <2> DEFINE h == [c |-> FALSE, opened |-> opened, settled |-> TRUE]
    <2>2. h \in Held /\ Shape(h, "failed")
      BY <1>4, <2>1 DEF ClosesAtOnce, NextDial, Held
    <2> HIDE DEF h, Shape
    <2>3. \E g \in Held, w \in {"connecting", "open", "failed"} : Shape(g, w)
      BY <2>2
    <2> QED
      BY <1>1, <2>1, <2>3 DEF NextDial, Shape
  <1> QED
    BY <1>2, <1>3, <1>4 DEF Connect

\* A new dial starts when no other may still report.
LEMMA ConnectStep ==
  ASSUME Inv, Connect, Open = {}, ~stopped,
         started' = TRUE, stopped' = FALSE, conn = 0
  PROVE  Inv'
  <1> DEFINE e == dials + 1
  <1>0. TypeOK /\ HeldIsCurrent /\ UpIsLive
    BY DEF Inv
  <1>1. e \in Dials /\ dials' = e /\ dials \in Nat
    <2>1. dials \in 0..MaxDials
      BY <1>0 DEF TypeOK
    <2> QED
      BY <1>0, <2>1, BoundAssumption, ConnectShape
  <1>2. PICK h \in Held, w \in {"connecting", "open", "failed"} :
          /\ held' = [held EXCEPT ![e] = h]
          /\ wire' = [wire EXCEPT ![e] = w]
          /\ h.settled <=> w = "failed"
          /\ h.opened => w # "connecting"
          /\ w # "failed" => h.c
          /\ \/ /\ w = "connecting" /\ redial' = FALSE
                /\ UNCHANGED <<conn, up, attempt, released>>
             \/ /\ w = "open" /\ h.opened /\ redial' = FALSE
                /\ GoLive(e)
                /\ UNCHANGED released
             \/ /\ w = "failed"
                /\ up' = FALSE
                /\ BackOff
                /\ released' = released \cup {e}
                /\ UNCHANGED conn
    BY <1>0, ConnectShape
  <1>3. TypeOK'
    <2>1. held' \in [Dials -> Held]
          /\ wire' \in [Dials -> {"none", "connecting", "open", "failed", "gone"}]
      BY <1>0, <1>1, <1>2 DEF TypeOK
    <2>2. up' \in BOOLEAN /\ redial' \in BOOLEAN /\ released' \subseteq Dials
      BY <1>0, <1>1, <1>2 DEF TypeOK, GoLive, BackOff
    <2>4. conn' \in 0..MaxDials /\ dials' \in 0..MaxDials
      BY <1>0, <1>1, <1>2, BoundAssumption DEF TypeOK, GoLive, Dials
    <2>3. attempt' \in 0..MaxAttempt
      BY <1>0, <1>2, MaxAttemptAssumption DEF TypeOK, GoLive, BackOff
    <2>5. started' \in BOOLEAN /\ stopped' \in BOOLEAN
      OBVIOUS
    <2> QED
      BY <2>1, <2>2, <2>3, <2>4, <2>5 DEF TypeOK
  <1>4. HeldIsCurrent'
    BY <1>0, <1>1, <1>2, BoundAssumption DEF TypeOK, HeldIsCurrent, Dials, Held
  <1>5. Open' = IF w = "failed" THEN {} ELSE {e}
    <2>1. \A d \in 1..dials' : held'[d] = IF d = e THEN h ELSE held[d]
      BY <1>0, <1>1, <1>2, BoundAssumption DEF TypeOK, Dials
    <2>2. \A d \in 1..dials : held[d].settled
      BY DEF Open
    <2> QED
      BY <1>1, <1>2, <2>1, <2>2 DEF Open
  <1>6. TimerOnlyWhileRunning'
    BY <1>1 DEF TimerOnlyWhileRunning
  <1>7. OneChain'
    BY <1>2, <1>5 DEF OneChain, BackOff
  <1>8. UpIsLive'
    <2>1. held'[e] = h /\ e \notin released /\ e # 0
      BY <1>0, <1>1, <1>2 DEF TypeOK, HeldIsCurrent, Dials
    <2>2. up = FALSE
      BY <1>0 DEF UpIsLive, TypeOK
    <2> QED
      BY <1>2, <1>5, <2>1, <2>2 DEF UpIsLive, GoLive
  <1> QED
    BY <1>3, <1>4, <1>6, <1>7, <1>8 DEF Inv

\* The first dial.
LEMMA StartStep == ASSUME Inv, Start PROVE Inv'
  <1>1. dials = 0 /\ ~stopped /\ ~redial /\ Connect /\ started' = TRUE
        /\ stopped' = FALSE
    BY DEF Inv, TypeOK, TimerOnlyWhileRunning, Start
  <1>2. Open = {}
    BY <1>1 DEF Open
  <1>3. conn = 0
    BY <1>2 DEF Inv, UpIsLive
  <1> QED
    BY <1>1, <1>2, <1>3, ConnectStep

\* The timer dials again.
LEMMA DialStep == ASSUME Inv, Dial PROVE Inv'
  <1>1. ~stopped /\ redial /\ Connect /\ started' = TRUE
        /\ stopped' = FALSE /\ started
    BY DEF Inv, TypeOK, TimerOnlyWhileRunning, Dial
  <1>2. Open = {}
    BY <1>1 DEF Inv, OneChain
  <1>3. conn = 0
    BY <1>2 DEF Inv, UpIsLive
  <1> QED
    BY <1>1, <1>2, <1>3, ConnectStep

\* A dial opens, in time or late.
LEMMA OpenedStep == ASSUME Inv, NEW d \in Dials, Opened(d) PROVE Inv'
  <1>0. TypeOK /\ HeldIsCurrent /\ UpIsLive /\ TimerOnlyWhileRunning /\ OneChain
    BY DEF Inv
  <1>1. /\ wire[d] = "connecting" /\ held[d].c /\ ~held[d].settled
        /\ d \notin released /\ d # 0 /\ d <= dials /\ held[d] \in Held
    BY <1>0 DEF Opened, TypeOK, HeldIsCurrent, Dials
  <1>2. /\ conn' = d /\ attempt' = 0 /\ up' = TRUE
        /\ wire' = [wire EXCEPT ![d] = "open"]
        /\ held' = [held EXCEPT ![d].opened = TRUE]
        /\ UNCHANGED <<started, stopped, redial, dials, released>>
    BY <1>1 DEF Opened, GoLive
  <1>3. \A x \in Dials : /\ held'[x] \in Held
                         /\ held'[x].settled = held[x].settled
                         /\ held'[x].c = held[x].c
                         /\ x # d => held'[x] = held[x] /\ wire'[x] = wire[x]
    BY <1>0, <1>2 DEF TypeOK, Held
  <1>4. held'[d].opened /\ wire'[d] = "open"
    BY <1>0, <1>2 DEF TypeOK, Held
  <1>5. TypeOK'
    <2>1. held' \in [Dials -> Held]
      BY <1>0, <1>2, <1>3 DEF TypeOK
    <2> QED
      BY <1>0, <1>2, <2>1, MaxAttemptAssumption, BoundAssumption DEF TypeOK, Dials
  <1>6. HeldIsCurrent'
    BY <1>0, <1>1, <1>2, <1>3, <1>4 DEF HeldIsCurrent
  <1>7. Open' = Open
    BY <1>0, <1>2, <1>3, BoundAssumption DEF Open, TypeOK, Dials
  <1>8. TimerOnlyWhileRunning' /\ OneChain'
    BY <1>0, <1>2, <1>7 DEF TimerOnlyWhileRunning, OneChain
  <1>9. UpIsLive'
    <2>1. d \in Open
      BY <1>0, <1>1, BoundAssumption DEF Open, TypeOK, Dials
    <2> QED
      BY <1>1, <1>2, <1>4, <1>7, <2>1 DEF UpIsLive
  <1> QED
    BY <1>5, <1>6, <1>8, <1>9 DEF Inv

\* A dial closes, also one that was superseded.
LEMMA ClosedStep == ASSUME Inv, NEW d \in Dials, Closed(d) PROVE Inv'
  <1>0. TypeOK /\ HeldIsCurrent /\ UpIsLive /\ TimerOnlyWhileRunning /\ OneChain
    BY DEF Inv
  <1>1. /\ wire[d] \in {"connecting", "open", "failed"} /\ held[d] \in Held
        /\ d <= dials /\ d # 0
        /\ wire' = [wire EXCEPT ![d] = IF @ = "failed" THEN "gone" ELSE "failed"]
        /\ UNCHANGED <<started, stopped, dials, released>>
    BY <1>0 DEF Closed, TypeOK, HeldIsCurrent, Dials
  <1>2. /\ wire'[d] \in {"failed", "gone"}
        /\ \A x \in Dials \ {d} : wire'[x] = wire[x]
        /\ wire' \in [Dials -> {"none", "connecting", "open", "failed", "gone"}]
    BY <1>0, <1>1 DEF TypeOK
  <1>3. CASE OnClosed(d)
    <2>1. /\ held' = [held EXCEPT ![d].settled = TRUE]
          /\ conn' = IF conn = d THEN 0 ELSE conn
          /\ up' = FALSE
          /\ stopped => UNCHANGED <<redial, attempt>>
          /\ ~stopped => BackOff
          /\ ~held[d].settled
      BY <1>3 DEF OnClosed
    <2>2. \A x \in Dials : /\ held'[x] \in Held
                           /\ held'[x].opened = held[x].opened
                           /\ held'[x].c = held[x].c
                           /\ x # d => held'[x] = held[x]
      BY <1>0, <2>1 DEF TypeOK, Held
    <2>3. held'[d].settled = TRUE
      BY <1>0, <2>1 DEF TypeOK, Held
    <2>4. TypeOK'
      <3>1. held' \in [Dials -> Held]
        BY <1>0, <2>1, <2>2 DEF TypeOK
      <3>2. redial' \in BOOLEAN
        BY <1>0, <2>1 DEF TypeOK, BackOff
      <3>3. attempt' \in 0..MaxAttempt
        BY <1>0, <2>1, MaxAttemptAssumption DEF TypeOK, BackOff
      <3>4. conn' \in 0..MaxDials
        BY <1>0, <2>1, BoundAssumption DEF TypeOK
      <3>5. up' \in BOOLEAN /\ started' \in BOOLEAN /\ stopped' \in BOOLEAN
            /\ dials' \in 0..MaxDials /\ released' \subseteq Dials
        BY <1>0, <1>1, <2>1 DEF TypeOK
      <3> QED
        BY <1>2, <3>1, <3>2, <3>3, <3>4, <3>5 DEF TypeOK
    <2>5. HeldIsCurrent'
      BY <1>0, <1>1, <1>2, <2>2, <2>3 DEF HeldIsCurrent
    <2>6. Open' = Open \ {d} /\ d \in Open
      BY <1>0, <1>1, <2>1, <2>2, <2>3, BoundAssumption DEF Open, TypeOK, Dials
    <2>7. started
      BY <1>0, <1>1, BoundAssumption DEF TimerOnlyWhileRunning, TypeOK, Dials
    <2>8. TimerOnlyWhileRunning'
      BY <1>0, <1>1, <2>1, <2>7 DEF TimerOnlyWhileRunning
    <2>9. OneChain'
      BY <1>0, <1>1, <2>1, <2>6 DEF OneChain, BackOff
    <2>10. UpIsLive'
      <3>1. conn' = 0
        BY <1>0, <2>1, <2>6 DEF OneChain, UpIsLive
      <3> QED
        BY <2>1, <3>1 DEF UpIsLive
    <2> QED
      BY <2>4, <2>5, <2>8, <2>9, <2>10 DEF Inv
  <1>4. CASE OnClosedAgain(d)
    <2>1. held[d].settled /\ UNCHANGED <<held, conn, up, redial, attempt>>
      BY <1>4 DEF OnClosedAgain
    <2>2. TypeOK'
      BY <1>0, <1>1, <1>2, <2>1 DEF TypeOK
    <2>3. HeldIsCurrent'
      BY <1>0, <1>1, <1>2, <2>1 DEF HeldIsCurrent
    <2>4. Open' = Open
      BY <1>1, <2>1 DEF Open
    <2> QED
      BY <1>0, <1>1, <2>1, <2>2, <2>3, <2>4
      DEF Inv, TimerOnlyWhileRunning, OneChain, UpIsLive
  <1> QED
    BY <1>3, <1>4 DEF Closed

\* The application closes the manager.
LEMMA CloseStep == ASSUME Inv, Close PROVE Inv'
  <1>0. TypeOK /\ HeldIsCurrent /\ UpIsLive /\ TimerOnlyWhileRunning /\ OneChain
    BY DEF Inv
  <1>1. /\ started /\ stopped' = TRUE /\ redial' = FALSE /\ conn' = 0 /\ up' = FALSE
        /\ released' = IF conn # 0 THEN released \cup {conn} ELSE released
        /\ UNCHANGED <<started, attempt, dials, held, wire>>
    BY DEF Close
  <1>2. conn # 0 => conn \in Dials /\ held[conn].opened /\ conn <= dials
    BY <1>0, BoundAssumption DEF UpIsLive, TypeOK, Open, Dials
  <1>3. TypeOK'
    <2>1. conn' \in 0..MaxDials /\ released' \subseteq Dials
      BY <1>0, <1>1, <1>2, BoundAssumption DEF TypeOK
    <2> QED
      BY <1>0, <1>1, <2>1 DEF TypeOK
  <1>4. HeldIsCurrent'
    BY <1>0, <1>1, <1>2, BoundAssumption DEF HeldIsCurrent, TypeOK, Dials
  <1>5. Open' = Open
    BY <1>1 DEF Open
  <1> QED
    BY <1>0, <1>1, <1>3, <1>4, <1>5 DEF Inv, TimerOnlyWhileRunning, OneChain, UpIsLive

\* Every step keeps the inductive invariant.
LEMMA NextInv == Inv /\ [Next]_vars => Inv'
  <1> SUFFICES ASSUME Inv, [Next]_vars PROVE Inv'
    OBVIOUS
  <1>1. CASE Next
    BY <1>1, StartStep, DialStep, CloseStep, OpenedStep, ClosedStep DEF Next
  <1>2. CASE UNCHANGED vars
    BY <1>2 DEF vars, Inv, TypeOK, HeldIsCurrent, TimerOnlyWhileRunning, OneChain,
       UpIsLive, Open
  <1> QED
    BY <1>1, <1>2

\* The inductive invariant holds for any number of dials.
THEOREM Invariance == Spec => []Inv
  BY InitInv, NextInv, PTL DEF Spec

\* reconnect.ts never forks and never strands its chain of dials.
THEOREM OneChainHolds == Spec => []OneChain
  <1>1. Inv => OneChain
    BY DEF Inv
  <1> QED
    BY <1>1, Invariance, PTL

\* connected() is true exactly while an open transport is in use.
THEOREM UpIsLiveHolds == Spec => []UpIsLive
  <1>1. Inv => UpIsLive
    BY DEF Inv
  <1> QED
    BY <1>1, Invariance, PTL

----------------------------------------------------------------------------
(* The demand-fill *)

(* The order that the inductions over numbers go along *)
Less == OpToRel(<, Nat)

(* The natural numbers are well-founded. *)
LEMMA LessIsWellFounded == IsWellFoundedOn(Less, Nat)
  BY NatLessThanWellFounded, Zenon DEF Less

(* A set of numbers that is not empty has a least one. *)
LEMMA LeastNumber ==
  ASSUME NEW T \in SUBSET Nat, T # {}
  PROVE  \E x \in T : \A y \in T : x <= y
<1>1. \A x, y \in Nat : <<y, x>> \in Less <=> y < x
  BY Zenon DEF Less, OpToRel
<1>2. PICK x \in T : \A y \in T : ~(<<y, x>> \in Less)
  BY LessIsWellFounded, WFMin, Zenon
<1>3. \A y \in T : ~(y < x)
  BY <1>1, <1>2
<1> QED
  BY <1>3

(* What the fields of the gate range over *)
States == {"empty", "loading", "complete", "error"}
Job ==
  [scope : Scopes, attempt : Nat, priority : Int, live : BOOLEAN,
   at : {"timer", "waiting", "running", "settled"}] \cup {Spent}
Fill ==
  [state : [Scopes -> States], attemptOf : [Scopes -> Nat], priorityOf : [Scopes -> Int],
   cancelPending : [Scopes -> Nat], jobs : Seq(Job), waiting : Seq(Nat), inFlight : Nat,
   baseMs : {0, 1}]

\* A job that waits, for its timer or for a slot, and may still run
Pending(f, j) == f.jobs[j].at \in {"timer", "waiting"} /\ f.jobs[j].live
Slots(f) == {j \in Jobs(f) : f.jobs[j].at \in {"running", "settled"}}

(* The queue holds waiting jobs, none twice, and every live one that waits. *)
QueueSound(f) ==
  /\ \A i \in DOMAIN f.waiting : f.waiting[i] \in Jobs(f) /\ f.jobs[f.waiting[i]].at = "waiting"
  /\ \A i, k \in DOMAIN f.waiting : f.waiting[i] = f.waiting[k] => i = k
  /\ \A j \in Jobs(f) : f.jobs[j].at = "waiting" /\ f.jobs[j].live =>
       \E i \in DOMAIN f.waiting : f.waiting[i] = j

(* A slice has at most one job that may still run and at most one that     *)
(* does; it is in loading exactly while one does.                          *)
JobsSound(f) ==
  /\ \A j \in Jobs(f) : f.jobs[j].at = "timer" => f.jobs[j].live
  /\ \A j \in Jobs(f) : Pending(f, j) => f.state[f.jobs[j].scope] \in {"empty", "error"}
  /\ \A j, k \in Jobs(f) : Pending(f, j) /\ Pending(f, k) /\ f.jobs[j].scope = f.jobs[k].scope => j = k
  /\ \A j \in Running(f) : f.state[f.jobs[j].scope] = "loading"
  /\ \A j, k \in Running(f) : f.jobs[j].scope = f.jobs[k].scope => j = k
  /\ \A s \in Scopes : f.state[s] = "loading" => \E j \in Running(f) : f.jobs[j].scope = s
  /\ \A s \in Scopes : f.cancelPending[s] = NoJob \/ f.cancelPending[s] \in Jobs(f)

(* inFlight counts the slots that are taken, never more than there are. *)
SlotsSound(f) == f.inFlight = Cardinality(Slots(f)) /\ f.inFlight <= MaxConcurrent

(* What holds at every point of a call, the gate's own calls included *)
Core(f) == f \in Fill /\ QueueSound(f) /\ JobsSound(f) /\ SlotsSound(f)

(* The pending job of a slice is the one that its next demand supersedes. *)
Linked(f, S) ==
  \A j \in Jobs(f) : Pending(f, j) /\ f.jobs[j].scope \in S => f.cancelPending[f.jobs[j].scope] = j
(* No job waits for a slot that is free. *)
Full(f) ==
  (\E i \in DOMAIN f.waiting : f.jobs[f.waiting[i]].live) => f.inFlight = MaxConcurrent
(* What holds between the calls *)
Sound(f) == Core(f) /\ Linked(f, Scopes) /\ Full(f)

(* The live entries among the first n of the queue, their jobs, and the    *)
(* gate after it took them                                                 *)
LiveIn(f, n) == {i \in 1..n : f.jobs[f.waiting[i]].live}
Taken(f, n) == {f.waiting[i] : i \in LiveIn(f, n)}
ScopesOf(f, B) == {f.jobs[j].scope : j \in B}
Begun(f, n) ==
  [f EXCEPT !.waiting = SubSeq(@, n + 1, Len(@)),
            !.inFlight = @ + Cardinality(Taken(f, n)),
            !.jobs = [j \in DOMAIN @ |-> IF j \in Taken(f, n) THEN [f.jobs[j] EXCEPT !.at = "running"]
                                                              ELSE f.jobs[j]],
            !.state = [s \in Scopes |-> IF s \in ScopesOf(f, Taken(f, n)) THEN "loading" ELSE @[s]],
            !.cancelPending =
              [s \in Scopes |-> IF s \in ScopesOf(f, Taken(f, n)) THEN NoJob ELSE @[s]]]
Ends(f) ==
  {n \in 0..Len(f.waiting) :
     n = Len(f.waiting) \/ Cardinality(LiveIn(f, n)) = MaxConcurrent - f.inFlight}

(* Pump takes what stands before the first place where it may end. *)
LEMMA PumpIs ==
  ASSUME NEW f
  PROVE  Pump(f) = Begun(f, Min(Ends(f)))
  BY Zenon DEF Pump, Begun, Ends, Taken, LiveIn, ScopesOf

(* One entry more is at most one live job more. *)
LEMMA LiveInGrows ==
  ASSUME NEW f
  PROVE  /\ \A n \in Nat : IsFiniteSet(LiveIn(f, n)) /\ Cardinality(LiveIn(f, n)) \in Nat
         /\ Cardinality(LiveIn(f, 0)) = 0
         /\ \A n \in Nat : Cardinality(LiveIn(f, n + 1)) <= Cardinality(LiveIn(f, n)) + 1
         /\ \A m, n \in Nat : m <= n => Cardinality(LiveIn(f, m)) <= Cardinality(LiveIn(f, n))
<1>1. ASSUME NEW n \in Nat PROVE IsFiniteSet(LiveIn(f, n)) /\ Cardinality(LiveIn(f, n)) \in Nat
  <2>1. IsFiniteSet(1..n)
    BY FS_Interval
  <2>2. LiveIn(f, n) \in SUBSET (1..n)
    BY DEF LiveIn
  <2>3. IsFiniteSet(LiveIn(f, n))
    BY <2>1, <2>2, FS_Subset
  <2> QED
    BY <2>3, FS_CardinalityType
<1>2. Cardinality(LiveIn(f, 0)) = 0
  <2>1. LiveIn(f, 0) = {}
    BY DEF LiveIn
  <2> QED
    BY <2>1, FS_EmptySet
<1>3. ASSUME NEW n \in Nat PROVE Cardinality(LiveIn(f, n + 1)) <= Cardinality(LiveIn(f, n)) + 1
  <2>1. LiveIn(f, n + 1) \in SUBSET (LiveIn(f, n) \cup {n + 1})
    BY DEF LiveIn
  <2>2. /\ IsFiniteSet(LiveIn(f, n) \cup {n + 1})
        /\ Cardinality(LiveIn(f, n) \cup {n + 1}) <= Cardinality(LiveIn(f, n)) + 1
    <3>1. IsFiniteSet(LiveIn(f, n)) /\ Cardinality(LiveIn(f, n)) \in Nat
      BY <1>1
    <3>2. /\ IsFiniteSet(LiveIn(f, n) \cup {n + 1})
          /\ Cardinality(LiveIn(f, n) \cup {n + 1}) =
               IF n + 1 \in LiveIn(f, n) THEN Cardinality(LiveIn(f, n)) ELSE Cardinality(LiveIn(f, n)) + 1
      BY <3>1, FS_AddElement
    <3> QED
      BY <3>1, <3>2
  <2>3. Cardinality(LiveIn(f, n + 1)) <= Cardinality(LiveIn(f, n) \cup {n + 1})
    BY <2>1, <2>2, FS_Subset
  <2> QED
    BY <1>1, <2>2, <2>3, FS_CardinalityType
<1>4. ASSUME NEW m \in Nat, NEW n \in Nat, m <= n
      PROVE  Cardinality(LiveIn(f, m)) <= Cardinality(LiveIn(f, n))
  <2>1. LiveIn(f, m) \in SUBSET LiveIn(f, n)
    BY <1>4 DEF LiveIn
  <2> QED
    BY <1>1, <2>1, FS_Subset
<1> QED
  BY <1>1, <1>2, <1>3, <1>4

(* Where pump() ends: the queue is empty, or every slot is taken.  It never *)
(* takes more jobs than there are free slots.                              *)
LEMMA WherePumpEnds ==
  ASSUME NEW f \in Fill, f.inFlight <= MaxConcurrent
  PROVE  \E n \in 0..Len(f.waiting) :
           /\ Pump(f) = Begun(f, n)
           /\ Cardinality(LiveIn(f, n)) <= MaxConcurrent - f.inFlight
           /\ n = Len(f.waiting) \/ Cardinality(LiveIn(f, n)) = MaxConcurrent - f.inFlight
<1> DEFINE room == MaxConcurrent - f.inFlight
           len == Len(f.waiting)
           Card(n) == Cardinality(LiveIn(f, n))
<1>0. room \in Nat /\ len \in Nat
  BY GateAssumption, LenProperties DEF Fill
<1>1. \A n \in Nat : Card(n) \in Nat /\ Card(n + 1) <= Card(n) + 1
  BY LiveInGrows
<1>2. Card(0) = 0 /\ \A m, n \in Nat : m <= n => Card(m) <= Card(n)
  BY LiveInGrows
<1>3. PICK last \in Ends(f) : \A n \in Ends(f) : last <= n
  <2>1. Ends(f) \in SUBSET Nat /\ len \in Ends(f)
    BY <1>0 DEF Ends
  <2> QED
    BY <2>1, LeastNumber
<1>4. Min(Ends(f)) \in Ends(f) /\ \A n \in Ends(f) : Min(Ends(f)) <= n
  BY <1>3, Zenon DEF Min
<1>5. Card(Min(Ends(f))) <= room
  <2> DEFINE Over == {n \in 0..len : Card(n) >= room}
             m == Min(Ends(f))
  <2> HIDE DEF Card, m, room, len
  <2>0. m \in 0..len /\ (m = len \/ Card(m) = room)
    BY <1>4 DEF Ends, Card, m, room, len
  <2>1. CASE Over = {}
    <3>1. m \in Nat /\ m \notin Over
      BY <1>0, <2>0, <2>1
    <3>2. Card(m) \in Nat /\ Card(m) < room
      BY <1>0, <1>1, <2>0, <3>1
    <3> QED
      BY <1>0, <3>2 DEF m
  <2>2. CASE Over # {}
    <3>1. PICK n \in Over : \A k \in Over : n <= k
      <4>1. Over \in SUBSET Nat
        BY <1>0
      <4> HIDE DEF Over
      <4> QED
        BY <2>2, <4>1, LeastNumber
    <3>2. Card(n) = room
      <4>1. CASE n = 0
        BY <1>0, <1>2, <3>1, <4>1
      <4>2. CASE n # 0
        <5>1. n - 1 \in Nat /\ n - 1 \in 0..len /\ n - 1 \notin Over
          BY <1>0, <3>1, <4>2
        <5>2. Card(n - 1) \in Nat /\ Card(n - 1) < room
          BY <1>0, <1>1, <5>1
        <5>3. Card(n) <= Card(n - 1) + 1
          BY <1>1, <5>1
        <5> QED
          <6>1. Card(n) \in Nat /\ Card(n) >= room
            BY <1>0, <1>1, <3>1
          <6> QED
            BY <1>0, <5>2, <5>3, <6>1
      <4> QED
        BY <4>1, <4>2
    <3>3. n \in Ends(f)
      BY <3>1, <3>2 DEF Ends, Card, room, len
    <3>4. m <= n /\ m \in Nat /\ n \in Nat
      BY <1>0, <1>4, <2>0, <3>1, <3>3 DEF m
    <3>5. Card(m) <= Card(n)
      BY <1>2, <3>4
    <3> QED
      BY <3>2, <3>5 DEF m
  <2> QED
    BY <2>1, <2>2
<1>6. Min(Ends(f)) \in 0..len /\ (Min(Ends(f)) = len \/ Card(Min(Ends(f))) = room)
  BY <1>4 DEF Ends
<1>7. Pump(f) = Begun(f, Min(Ends(f)))
  BY PumpIs
<1> QED
  BY <1>5, <1>6, <1>7

(* The jobs that pump() starts *)
LEMMA TakenAre ==
  ASSUME NEW f, Core(f), NEW n \in 0..Len(f.waiting)
  PROVE  /\ Taken(f, n) \in SUBSET Jobs(f)
         /\ \A j \in Taken(f, n) : /\ f.jobs[j].at = "waiting" /\ f.jobs[j].live
                                   /\ f.jobs[j].scope \in Scopes
         /\ \A i \in 1..n : f.jobs[f.waiting[i]].live => f.waiting[i] \in Taken(f, n)
         /\ \A i \in DOMAIN f.waiting : f.waiting[i] \in Taken(f, n) => i \in 1..n
         /\ IsFiniteSet(Taken(f, n))
         /\ Cardinality(Taken(f, n)) = Cardinality(LiveIn(f, n))
<1> DEFINE L == LiveIn(f, n)
           pick == [i \in L |-> f.waiting[i]]
<1>1. DOMAIN f.waiting = 1..Len(f.waiting) /\ Len(f.waiting) \in Nat
  BY LenProperties DEF Core, Fill
<1>2. L \in SUBSET (1..n) /\ n \in Nat /\ 1..n \in SUBSET DOMAIN f.waiting
  BY <1>1 DEF LiveIn
<1>3. \A i \in 1..n : f.waiting[i] \in Jobs(f) /\ f.jobs[f.waiting[i]].at = "waiting"
  BY <1>2 DEF Core, QueueSound
<1>4. \A j \in Jobs(f) : f.jobs[j] \in Job
  BY LenProperties DEF Core, Fill, Jobs
<1>5. \A j \in Jobs(f) : f.jobs[j].at = "waiting" => f.jobs[j].scope \in Scopes
  BY <1>4 DEF Job, Spent
<1>6. Taken(f, n) \in SUBSET Jobs(f)
  BY <1>2, <1>3 DEF Taken
<1>7. \A j \in Taken(f, n) : /\ f.jobs[j].at = "waiting" /\ f.jobs[j].live
                             /\ f.jobs[j].scope \in Scopes
  BY <1>2, <1>3, <1>5 DEF Taken, LiveIn
<1>8. \A i \in 1..n : f.jobs[f.waiting[i]].live => f.waiting[i] \in Taken(f, n)
  BY DEF Taken, LiveIn
<1>9. \A i, k \in DOMAIN f.waiting : f.waiting[i] = f.waiting[k] => i = k
  BY DEF Core, QueueSound
<1>10. \A i \in DOMAIN f.waiting : f.waiting[i] \in Taken(f, n) => i \in 1..n
  BY <1>2, <1>9 DEF Taken
<1>11. pick \in Bijection(L, Taken(f, n))
  <2>1. pick \in [L -> Taken(f, n)]
    BY DEF Taken
  <2>2. pick \in Injection(L, Taken(f, n))
    BY <1>2, <1>9, <2>1 DEF Injection, IsInjective
  <2>3. pick \in Surjection(L, Taken(f, n))
    BY <2>1 DEF Surjection, Taken
  <2> QED
    BY <2>2, <2>3 DEF Bijection
<1>12. IsFiniteSet(L)
  BY <1>2, LiveInGrows
<1>13. IsFiniteSet(Taken(f, n)) /\ Cardinality(Taken(f, n)) = Cardinality(L)
  <2>1. ExistsBijection(L, Taken(f, n))
    BY <1>11 DEF ExistsBijection
  <2> QED
    BY <1>12, <2>1, FS_Bijection
<1> QED
  BY <1>6, <1>7, <1>8, <1>10, <1>13

(* The fields of the gate after pump() *)
LEMMA BegunFields ==
  ASSUME NEW f, Core(f), NEW n \in 0..Len(f.waiting)
  PROVE  LET B == Taken(f, n)
             g == Begun(f, n)
         IN  /\ g \in Fill
             /\ Jobs(g) = Jobs(f)
             /\ g.inFlight = f.inFlight + Cardinality(B)
             /\ \A j \in Jobs(f) :
                  /\ g.jobs[j].scope = f.jobs[j].scope /\ g.jobs[j].live = f.jobs[j].live
                  /\ g.jobs[j].at = IF j \in B THEN "running" ELSE f.jobs[j].at
             /\ \A s \in Scopes :
                  /\ g.state[s] = IF s \in ScopesOf(f, B) THEN "loading" ELSE f.state[s]
                  /\ g.cancelPending[s] = IF s \in ScopesOf(f, B) THEN NoJob ELSE f.cancelPending[s]
             /\ Len(g.waiting) = Len(f.waiting) - n
             /\ DOMAIN g.waiting = 1..(Len(f.waiting) - n)
             /\ \A i \in 1..(Len(f.waiting) - n) : g.waiting[i] = f.waiting[i + n]
<1> DEFINE B == Taken(f, n)
           g == Begun(f, n)
           js == [j \in DOMAIN f.jobs |-> IF j \in B THEN [f.jobs[j] EXCEPT !.at = "running"]
                                          ELSE f.jobs[j]]
           st == [s \in Scopes |-> IF s \in ScopesOf(f, B) THEN "loading" ELSE f.state[s]]
           cp == [s \in Scopes |-> IF s \in ScopesOf(f, B) THEN NoJob ELSE f.cancelPending[s]]
           wt == SubSeq(f.waiting, n + 1, Len(f.waiting))
<1>1. f \in Fill /\ f.inFlight \in Nat
  BY DEF Core, Fill
<1>2. /\ DOMAIN f.waiting = 1..Len(f.waiting) /\ Len(f.waiting) \in Nat /\ n \in Nat
      /\ \A i \in DOMAIN f.waiting : f.waiting[i] \in Nat
  BY LenProperties DEF Core, Fill
<1>3. /\ wt \in Seq(Nat) /\ Len(wt) = Len(f.waiting) - n
      /\ \A i \in 1..(Len(f.waiting) - n) : wt[i] = f.waiting[i + n]
  <2>1. \A i \in n + 1 .. Len(f.waiting) : f.waiting[i] \in Nat
    BY <1>2
  <2>2. /\ wt \in Seq(Nat)
        /\ Len(wt) = IF n + 1 <= Len(f.waiting) THEN Len(f.waiting) - (n + 1) + 1 ELSE 0
        /\ \A i \in 1..(Len(f.waiting) - (n + 1) + 1) : wt[i] = f.waiting[n + 1 + i - 1]
    BY <1>2, <2>1, SubSeqProperties
  <2> QED
    BY <1>2, <2>2
<1>4. \A j \in Jobs(f) : f.jobs[j] \in Job /\ Jobs(f) = 1..Len(f.jobs) /\ Len(f.jobs) \in Nat
  BY LenProperties DEF Core, Fill, Jobs
<1>5. /\ B \in SUBSET Jobs(f)
      /\ \A j \in B : f.jobs[j].at = "waiting" /\ f.jobs[j].scope \in Scopes
      /\ IsFiniteSet(B)
  BY TakenAre
<1>6. \A j \in B : f.jobs[j] \in [scope : Scopes, attempt : Nat, priority : Int, live : BOOLEAN,
                                  at : {"timer", "waiting", "running", "settled"}]
  BY <1>4, <1>5 DEF Job, Spent
<1>7. js \in Seq(Job)
  <2>1. \A j \in DOMAIN f.jobs : js[j] \in Job
    BY <1>4, <1>6 DEF Jobs, Job
  <2>2. DOMAIN f.jobs = 1..Len(f.jobs) /\ Len(f.jobs) \in Nat
    BY LenProperties DEF Core, Fill
  <2> HIDE DEF js
  <2>3. js \in [1..Len(f.jobs) -> Job]
    BY <2>1, <2>2 DEF js
  <2> QED
    BY <2>2, <2>3
<1>8. /\ DOMAIN js = DOMAIN f.jobs
      /\ \A j \in Jobs(f) :
           /\ js[j].scope = f.jobs[j].scope /\ js[j].live = f.jobs[j].live
           /\ js[j].at = IF j \in B THEN "running" ELSE f.jobs[j].at
  BY <1>4, <1>6 DEF Jobs
<1>9. f.state \in [Scopes -> States] /\ f.cancelPending \in [Scopes -> Nat]
  BY DEF Core, Fill
<1>10. st \in [Scopes -> States] /\ cp \in [Scopes -> Nat]
  BY <1>9 DEF States, NoJob
<1>11. f.inFlight + Cardinality(B) \in Nat
  <2>1. IsFiniteSet(B)
    BY <1>5
  <2>2. Cardinality(B) \in Nat
    <3> HIDE DEF B
    <3> QED
      BY <2>1, FS_CardinalityType
  <2> QED
    BY <1>1, <2>2
<1>12. g = [f EXCEPT !.waiting = wt, !.inFlight = f.inFlight + Cardinality(B), !.jobs = js,
                     !.state = st, !.cancelPending = cp]
  BY <1>1, Zenon DEF Begun
<1>13. /\ g.waiting = wt /\ g.inFlight = f.inFlight + Cardinality(B) /\ g.jobs = js
       /\ g.state = st /\ g.cancelPending = cp /\ g \in Fill
  <2> HIDE DEF g, js, st, cp, wt, B
  <2> QED
    BY <1>1, <1>3, <1>7, <1>10, <1>11, <1>12 DEF Fill
<1>14. \A s \in Scopes :
         /\ st[s] = IF s \in ScopesOf(f, B) THEN "loading" ELSE f.state[s]
         /\ cp[s] = IF s \in ScopesOf(f, B) THEN NoJob ELSE f.cancelPending[s]
  OBVIOUS
<1>15. DOMAIN wt = 1..(Len(f.waiting) - n)
  BY <1>3, LenProperties
<1> HIDE DEF g, js, st, cp, wt, B
<1>16. Jobs(g) = Jobs(f)
  BY <1>8, <1>13 DEF Jobs
<1> QED
  BY <1>3, <1>8, <1>13, <1>14, <1>15, <1>16 DEF g, B

(* The same slices are complete. *)
SameComplete(f, g) == \A s \in Scopes : g.state[s] = "complete" <=> f.state[s] = "complete"

(* What is complete stays complete. *)
KeepsComplete(f, g) == \A s \in Scopes : f.state[s] = "complete" => g.state[s] = "complete"

(* The jobs of f that may still run are jobs of g that may still run.      *)
Keeps(f, g) ==
  /\ SameComplete(f, g)
  /\ Jobs(f) \in SUBSET Jobs(g)
  /\ \A j \in Jobs(f) : Alive(f, j) => Alive(g, j) /\ g.jobs[j].scope = f.jobs[j].scope

(* Pump keeps what holds of the jobs and leaves no slot idle. *)
LEMMA PumpSound ==
  ASSUME NEW f, Core(f), NEW S \in SUBSET Scopes, Linked(f, S)
  PROVE  Core(Pump(f)) /\ Linked(Pump(f), S) /\ Full(Pump(f)) /\ Keeps(f, Pump(f))
<1>1. PICK n \in 0..Len(f.waiting) :
        /\ Pump(f) = Begun(f, n)
        /\ Cardinality(LiveIn(f, n)) <= MaxConcurrent - f.inFlight
        /\ n = Len(f.waiting) \/ Cardinality(LiveIn(f, n)) = MaxConcurrent - f.inFlight
  BY WherePumpEnds DEF Core, SlotsSound
<1> DEFINE B == Taken(f, n)
           g == Begun(f, n)
           len == Len(f.waiting)
<1>2. /\ B \in SUBSET Jobs(f)
      /\ \A j \in B : f.jobs[j].at = "waiting" /\ f.jobs[j].live /\ f.jobs[j].scope \in Scopes
      /\ \A i \in 1..n : f.jobs[f.waiting[i]].live => f.waiting[i] \in B
      /\ \A i \in DOMAIN f.waiting : f.waiting[i] \in B => i \in 1..n
      /\ IsFiniteSet(B)
      /\ Cardinality(B) = Cardinality(LiveIn(f, n))
  BY TakenAre
<1>3. /\ g \in Fill
      /\ Jobs(g) = Jobs(f)
      /\ g.inFlight = f.inFlight + Cardinality(B)
      /\ \A j \in Jobs(f) :
           /\ g.jobs[j].scope = f.jobs[j].scope /\ g.jobs[j].live = f.jobs[j].live
           /\ g.jobs[j].at = IF j \in B THEN "running" ELSE f.jobs[j].at
      /\ \A s \in Scopes :
           /\ g.state[s] = IF s \in ScopesOf(f, B) THEN "loading" ELSE f.state[s]
           /\ g.cancelPending[s] = IF s \in ScopesOf(f, B) THEN NoJob ELSE f.cancelPending[s]
      /\ DOMAIN g.waiting = 1..(len - n)
      /\ \A i \in 1..(len - n) : g.waiting[i] = f.waiting[i + n]
  BY BegunFields
<1>4. /\ DOMAIN f.waiting = 1..len /\ len \in Nat /\ n \in 0..len /\ f.inFlight \in Nat
      /\ \A j \in Jobs(f) : j \in Nat
  BY LenProperties DEF Core, Fill, Jobs
<1>5. \A j \in Jobs(f) : f.jobs[j] \in Job
  BY LenProperties DEF Core, Fill, Jobs
<1>6. \A j \in Jobs(f) : f.jobs[j].at # "done" => f.jobs[j].scope \in Scopes
  BY <1>5 DEF Job, Spent
<1> HIDE DEF B, g, len
(* A slice of a job that is started has no other job. *)
<1>7. \A j \in B, k \in Jobs(f) :
        f.jobs[k].scope = f.jobs[j].scope => k = j \/ ~Alive(f, k)
  <2> SUFFICES ASSUME NEW j \in B, NEW k \in Jobs(f), f.jobs[k].scope = f.jobs[j].scope, Alive(f, k)
               PROVE  k = j
    OBVIOUS
  <2>1. j \in Jobs(f) /\ Pending(f, j) /\ f.state[f.jobs[j].scope] \in {"empty", "error"}
    BY <1>2 DEF Core, JobsSound, Pending
  <2>2. ~(k \in Running(f))
    BY <2>1 DEF Core, JobsSound
  <2>3. Pending(f, k)
    BY <2>2 DEF Alive, Pending, Running
  <2> QED
    BY <2>1, <2>3 DEF Core, JobsSound
<1>8. \A j \in Jobs(f) : /\ Pending(g, j) <=> Pending(f, j) /\ j \notin B
                         /\ j \in Running(g) <=> j \in Running(f) \/ j \in B
                         /\ j \in Slots(g) <=> j \in Slots(f) \/ j \in B
  BY <1>2, <1>3 DEF Pending, Running, Slots
<1>9. \A j \in Jobs(f) : Pending(g, j) => f.jobs[j].scope \notin ScopesOf(f, B)
  BY <1>7, <1>8 DEF ScopesOf, Alive, Pending
<1>10. QueueSound(g)
  <2>1. \A i \in DOMAIN g.waiting : i + n \in DOMAIN f.waiting /\ i + n \notin 1..n
                                    /\ g.waiting[i] = f.waiting[i + n] /\ i \in Nat
    BY <1>3, <1>4
  <2>2. ASSUME NEW i \in DOMAIN g.waiting
        PROVE  g.waiting[i] \in Jobs(g) /\ g.jobs[g.waiting[i]].at = "waiting"
    <3>1. f.waiting[i + n] \in Jobs(f) /\ f.jobs[f.waiting[i + n]].at = "waiting"
      BY <2>1 DEF Core, QueueSound
    <3>2. f.waiting[i + n] \notin B
      BY <1>2, <2>1
    <3> QED
      BY <1>3, <2>1, <3>1, <3>2
  <2>3. ASSUME NEW i \in DOMAIN g.waiting, NEW k \in DOMAIN g.waiting, g.waiting[i] = g.waiting[k]
        PROVE  i = k
    <3>1. i + n = k + n
      BY <2>1, <2>3 DEF Core, QueueSound
    <3> QED
      BY <1>4, <2>1, <3>1
  <2>4. ASSUME NEW j \in Jobs(g), g.jobs[j].at = "waiting", g.jobs[j].live
        PROVE  \E i \in DOMAIN g.waiting : g.waiting[i] = j
    <3>1. j \in Jobs(f) /\ f.jobs[j].at = "waiting" /\ f.jobs[j].live /\ j \notin B
      BY <1>3, <2>4
    <3>2. PICK i \in DOMAIN f.waiting : f.waiting[i] = j
      BY <3>1 DEF Core, QueueSound
    <3>3. i \notin 1..n
      BY <1>2, <3>1, <3>2
    <3>4. i - n \in 1..(len - n) /\ i - n + n = i
      BY <1>4, <3>2, <3>3
    <3> QED
      BY <1>3, <3>2, <3>4
  <2> QED
    BY <2>2, <2>3, <2>4 DEF QueueSound
<1>11. JobsSound(g)
  <2>1. \A j \in Jobs(g) : g.jobs[j].at = "timer" => g.jobs[j].live
    BY <1>3 DEF Core, JobsSound
  <2>2. ASSUME NEW j \in Jobs(g), Pending(g, j)
        PROVE  g.state[g.jobs[j].scope] \in {"empty", "error"}
    <3>1. Pending(f, j) /\ f.jobs[j].scope \in Scopes
      BY <1>3, <1>6, <1>8, <2>2 DEF Pending
    <3>2. f.state[f.jobs[j].scope] \in {"empty", "error"}
      BY <1>3, <3>1 DEF Core, JobsSound
    <3> QED
      BY <1>3, <1>9, <2>2, <3>1, <3>2
  <2>3. ASSUME NEW j \in Jobs(g), NEW k \in Jobs(g), Pending(g, j), Pending(g, k),
               g.jobs[j].scope = g.jobs[k].scope
        PROVE  j = k
    BY <1>3, <1>8, <2>3 DEF Core, JobsSound
  <2>4. ASSUME NEW j \in Running(g) PROVE g.state[g.jobs[j].scope] = "loading"
    <3>1. j \in Jobs(f) /\ (j \in Running(f) \/ j \in B)
      BY <1>3, <1>8 DEF Running
    <3>2. f.jobs[j].scope \in Scopes
      BY <1>2, <1>6, <3>1 DEF Running
    <3>3. CASE j \in B
      <4>1. f.jobs[j].scope \in ScopesOf(f, B)
        BY <3>3 DEF ScopesOf
      <4> QED
        BY <1>3, <3>1, <3>2, <4>1
    <3>4. CASE j \in Running(f)
      <4>1. f.state[f.jobs[j].scope] = "loading"
        BY <3>4 DEF Core, JobsSound
      <4> QED
        BY <1>3, <3>1, <3>2, <4>1
    <3> QED
      BY <3>1, <3>3, <3>4
  <2>5. ASSUME NEW j \in Running(g), NEW k \in Running(g), g.jobs[j].scope = g.jobs[k].scope
        PROVE  j = k
    <3>1. /\ j \in Jobs(f) /\ (j \in Running(f) \/ j \in B)
          /\ k \in Jobs(f) /\ (k \in Running(f) \/ k \in B)
          /\ f.jobs[j].scope = f.jobs[k].scope
      BY <1>3, <1>8, <2>5 DEF Running
    <3>2. CASE j \in Running(f) /\ k \in Running(f)
      BY <3>1, <3>2 DEF Core, JobsSound
    <3>3. CASE j \in B
      <4>1. Alive(f, k)
        BY <1>2, <3>1 DEF Alive, Running
      <4> QED
        BY <1>7, <3>1, <3>3, <4>1
    <3>4. CASE k \in B
      <4>1. Alive(f, j)
        BY <1>2, <3>1 DEF Alive, Running
      <4> QED
        BY <1>7, <3>1, <3>4, <4>1
    <3> QED
      BY <3>1, <3>2, <3>3, <3>4
  <2>6. ASSUME NEW s \in Scopes, g.state[s] = "loading"
        PROVE  \E j \in Running(g) : g.jobs[j].scope = s
    <3>1. CASE s \in ScopesOf(f, B)
      <4>1. PICK j \in B : f.jobs[j].scope = s
        BY <3>1 DEF ScopesOf
      <4> QED
        BY <1>2, <1>3, <1>8, <4>1
    <3>2. CASE s \notin ScopesOf(f, B)
      <4>1. f.state[s] = "loading"
        BY <1>3, <2>6, <3>2
      <4>2. PICK j \in Running(f) : f.jobs[j].scope = s
        BY <4>1 DEF Core, JobsSound
      <4>3. j \in Jobs(f)
        BY DEF Running
      <4> QED
        BY <1>3, <1>8, <4>2, <4>3
    <3> QED
      BY <3>1, <3>2
  <2>7. \A s \in Scopes : g.cancelPending[s] = NoJob \/ g.cancelPending[s] \in Jobs(g)
    BY <1>3 DEF Core, JobsSound
  <2> QED
    BY <2>1, <2>2, <2>3, <2>4, <2>5, <2>6, <2>7 DEF JobsSound
<1>12. SlotsSound(g)
  <2>1. Slots(g) = Slots(f) \cup B /\ Slots(f) \cap B = {}
    BY <1>2, <1>3, <1>8 DEF Slots
  <2>2. IsFiniteSet(Slots(f))
    <3>1. Slots(f) \in SUBSET (1..Len(f.jobs)) /\ Len(f.jobs) \in Nat
      BY LenProperties DEF Slots, Jobs, Core, Fill
    <3>2. IsFiniteSet(1..Len(f.jobs))
      BY <3>1, FS_Interval
    <3> QED
      BY <3>1, <3>2, FS_Subset
  <2>3. Cardinality(Slots(g)) = Cardinality(Slots(f)) + Cardinality(B)
    <3>1. Cardinality(Slots(f) \cup B) = Cardinality(Slots(f)) + Cardinality(B) - Cardinality(Slots(f) \cap B)
      BY <1>2, <2>2, FS_Union
    <3>2. Cardinality(Slots(f) \cap B) = 0
      BY <2>1, FS_EmptySet
    <3>3. Cardinality(Slots(f)) \in Nat /\ Cardinality(B) \in Nat
      BY <1>2, <2>2, FS_CardinalityType
    <3> QED
      BY <2>1, <3>1, <3>2, <3>3
  <2>4. Cardinality(B) \in Nat
    BY <1>2, FS_CardinalityType
  <2> QED
    BY <1>1, <1>2, <1>3, <1>4, <2>3, <2>4, GateAssumption DEF SlotsSound, Core
<1>13. Linked(g, S)
  <2> SUFFICES ASSUME NEW j \in Jobs(g), Pending(g, j), g.jobs[j].scope \in S
               PROVE  g.cancelPending[g.jobs[j].scope] = j
    BY DEF Linked
  <2>1. Pending(f, j) /\ g.jobs[j].scope = f.jobs[j].scope /\ j \in Jobs(f)
    BY <1>3, <1>8
  <2>2. f.cancelPending[f.jobs[j].scope] = j /\ f.jobs[j].scope \in Scopes
    BY <2>1 DEF Linked
  <2>3. f.jobs[j].scope \notin ScopesOf(f, B)
    BY <1>9, <2>1
  <2> QED
    BY <1>3, <2>1, <2>2, <2>3
<1>14. Full(g)
  <2> SUFFICES ASSUME NEW i \in DOMAIN g.waiting PROVE g.inFlight = MaxConcurrent
    BY DEF Full
  <2>1. n # len
    BY <1>3, <1>4
  <2>2. Cardinality(B) = MaxConcurrent - f.inFlight
    BY <1>1, <1>2, <2>1 DEF len
  <2> QED
    BY <1>3, <1>4, <2>2, GateAssumption
<1>15. Keeps(f, g)
  <2>0. SameComplete(f, g)
    <3>1. \A j \in B : j \in Jobs(f) /\ Pending(f, j) /\ f.jobs[j].scope \in Scopes
      BY <1>2 DEF Pending
    <3>2. \A s \in ScopesOf(f, B) : f.state[s] # "complete"
      BY <3>1 DEF Core, JobsSound, ScopesOf
    <3> QED
      BY <1>3, <3>2 DEF SameComplete
  <2>1. \A j \in Jobs(f) : Alive(f, j) => Alive(g, j)
    BY <1>3 DEF Alive
  <2> QED
    BY <1>3, <2>0, <2>1 DEF Keeps
<1> QED
  BY <1>1, <1>3, <1>10, <1>11, <1>12, <1>13, <1>14, <1>15 DEF Core, g

(* A sequence with an element put in, as a function *)
IsInserted(t, S, w, p, e) ==
  /\ t \in Seq(S)
  /\ Len(t) = Len(w) + 1
  /\ \A i \in 1..(Len(w) + 1) : t[i] = IF i < p THEN w[i] ELSE IF i = p THEN e ELSE w[i - 1]

(* InsertAt puts the element in its place and moves those after it up. *)
LEMMA InsertAtIs ==
  ASSUME NEW S, NEW w \in Seq(S), NEW e \in S, NEW p \in Nat, 1 <= p, p <= Len(w) + 1
  PROVE  IsInserted(InsertAt(w, p, e), S, w, p, e)
<1> DEFINE a == SubSeq(w, 1, p - 1)
           b == SubSeq(w, p, Len(w))
           m == <<e>>
           t == InsertAt(w, p, e)
<1>1. /\ Len(w) \in Nat /\ p \in Nat /\ p - 1 \in Nat
      /\ \A i \in 1..Len(w) : w[i] \in S
  BY LenProperties
<1>2. a \in Seq(S) /\ Len(a) = p - 1 /\ \A i \in 1..(p - 1) : a[i] = w[i]
  <2>1. \A i \in 1..(p - 1) : w[i] \in S
    BY <1>1
  <2>2. /\ a \in Seq(S) /\ Len(a) = IF 1 <= p - 1 THEN p - 1 - 1 + 1 ELSE 0
        /\ \A i \in 1..(p - 1 - 1 + 1) : a[i] = w[1 + i - 1]
    BY <1>1, <2>1, SubSeqProperties
  <2> QED
    BY <1>1, <2>2
<1>3. b \in Seq(S) /\ Len(b) = Len(w) - p + 1 /\ \A i \in 1..(Len(w) - p + 1) : b[i] = w[p + i - 1]
  <2>1. \A i \in p..Len(w) : w[i] \in S
    BY <1>1
  <2>2. /\ b \in Seq(S) /\ Len(b) = IF p <= Len(w) THEN Len(w) - p + 1 ELSE 0
        /\ \A i \in 1..(Len(w) - p + 1) : b[i] = w[p + i - 1]
    BY <1>1, <2>1, SubSeqProperties
  <2> QED
    BY <1>1, <2>2
<1>4. m \in Seq(S) /\ Len(m) = 1 /\ m[1] = e
  OBVIOUS
<1>5. t = (a \o m) \o b
  BY DEF InsertAt
<1> HIDE DEF a, b, m, t
<1> DEFINE am == a \o m
<1>6. /\ am \in Seq(S) /\ Len(am) = p
      /\ \A i \in 1..p : am[i] = IF i <= p - 1 THEN a[i] ELSE m[i - (p - 1)]
  <2>1. /\ a \o m \in Seq(S) /\ Len(a \o m) = Len(a) + Len(m)
        /\ \A i \in 1..Len(a) + Len(m) : (a \o m)[i] = IF i <= Len(a) THEN a[i] ELSE m[i - Len(a)]
    BY <1>2, <1>4, ConcatProperties
  <2> QED
    BY <1>1, <1>2, <1>4, <2>1
<1> HIDE DEF am
<1>7. /\ t \in Seq(S) /\ Len(t) = Len(w) + 1
      /\ \A i \in 1..(Len(w) + 1) : t[i] = IF i <= p THEN am[i] ELSE b[i - p]
  <2>1. /\ am \o b \in Seq(S) /\ Len(am \o b) = Len(am) + Len(b)
        /\ \A i \in 1..Len(am) + Len(b) : (am \o b)[i] = IF i <= Len(am) THEN am[i] ELSE b[i - Len(am)]
    BY <1>3, <1>6, ConcatProperties
  <2>2. t = am \o b
    BY <1>5 DEF am
  <2> QED
    BY <1>1, <1>3, <1>6, <2>1, <2>2
<1>8. ASSUME NEW i \in 1..(Len(w) + 1)
      PROVE  t[i] = IF i < p THEN w[i] ELSE IF i = p THEN e ELSE w[i - 1]
  <2>1. CASE i < p
    <3>1. i \in 1..p /\ i \in 1..(p - 1) /\ i <= p - 1
      BY <1>1, <2>1
    <3> QED
      BY <1>2, <1>6, <1>7, <2>1, <3>1
  <2>2. CASE i = p
    <3>1. am[p] = m[p - (p - 1)] /\ p - (p - 1) = 1
      BY <1>1, <1>6
    <3> QED
      BY <1>1, <1>4, <1>7, <2>2, <3>1
  <2>3. CASE i > p
    <3>1. i - p \in 1..(Len(w) - p + 1) /\ p + (i - p) - 1 = i - 1
      BY <1>1, <2>3
    <3> QED
      BY <1>1, <1>3, <1>7, <2>3, <3>1
  <2> QED
    BY <1>1, <2>1, <2>2, <2>3
<1> QED
  BY <1>7, <1>8 DEF t, IsInserted

(* A job that leaves its timer takes its place in the queue, and what has  *)
(* a slot now runs.                                                        *)
LEMMA EnqueueSound ==
  ASSUME NEW f, Core(f), NEW S \in SUBSET Scopes, Linked(f, S),
         NEW j \in Jobs(f), f.jobs[j].at = "timer"
  PROVE  /\ Core(Enqueue(f, j)) /\ Linked(Enqueue(f, j), S)
         /\ Full(Enqueue(f, j)) /\ Keeps(f, Enqueue(f, j))
<1> DEFINE ahead == {i \in DOMAIN f.waiting : f.jobs[f.waiting[i]].priority >= f.jobs[j].priority}
           p == Cardinality(ahead) + 1
           w == InsertAt(f.waiting, p, j)
           js == [f.jobs EXCEPT ![j].at = "waiting"]
           g == [f EXCEPT !.waiting = w, !.jobs = js]
           len == Len(f.waiting)
<1>1. /\ f \in Fill /\ f.waiting \in Seq(Nat) /\ f.jobs \in Seq(Job)
      /\ DOMAIN f.waiting = 1..len /\ len \in Nat
      /\ Jobs(f) = 1..Len(f.jobs) /\ Len(f.jobs) \in Nat /\ j \in Nat
  BY LenProperties DEF Core, Fill, Jobs
<1>2. p \in 1..(len + 1)
  <2>1. IsFiniteSet(1..len) /\ Cardinality(1..len) = len
    <3> HIDE DEF len
    <3>1. IsFiniteSet(1..len) /\ Cardinality(1..len) = IF 1 > len THEN 0 ELSE len - 1 + 1
      BY <1>1, FS_Interval
    <3> QED
      BY <1>1, <3>1
  <2>2. ahead \in SUBSET (1..len)
    BY <1>1
  <2>3. IsFiniteSet(ahead) /\ Cardinality(ahead) <= len
    <3> HIDE DEF ahead
    <3> QED
      BY <2>1, <2>2, FS_Subset
  <2>4. Cardinality(ahead) \in Nat
    <3> HIDE DEF ahead
    <3> QED
      BY <2>3, FS_CardinalityType
  <2> QED
    BY <1>1, <2>3, <2>4
<1>3. /\ w \in Seq(Nat) /\ Len(w) = len + 1
      /\ \A i \in 1..(len + 1) :
           w[i] = IF i < p THEN f.waiting[i] ELSE IF i = p THEN j ELSE f.waiting[i - 1]
  <2> HIDE DEF p
  <2>1. f.waiting \in Seq(Nat) /\ j \in Nat /\ p \in 1..(Len(f.waiting) + 1)
    BY <1>1, <1>2
  <2> DEFINE v == f.waiting
  <2>2. v \in Seq(Nat) /\ j \in Nat /\ p \in Nat /\ 1 <= p /\ p <= Len(v) + 1
    BY <1>1, <2>1
  <2> HIDE DEF v
  <2>3. IsInserted(InsertAt(v, p, j), Nat, v, p, j)
    BY <2>2, InsertAtIs, Zenon
  <2> QED
    BY <2>3 DEF v, IsInserted
<1>4. DOMAIN w = 1..(len + 1)
  BY <1>3, LenProperties
<1>5. f.jobs[j] \in Job /\ f.jobs[j] # Spent /\ f.jobs[j].live
  BY <1>1 DEF Core, JobsSound, Spent, Jobs
<1>6. f.jobs[j] \in [scope : Scopes, attempt : Nat, priority : Int, live : BOOLEAN,
                     at : {"timer", "waiting", "running", "settled"}]
  BY <1>5 DEF Job
<1>7. /\ js \in Seq(Job) /\ DOMAIN js = DOMAIN f.jobs
      /\ \A k \in Jobs(f) :
           /\ js[k].scope = f.jobs[k].scope /\ js[k].live = f.jobs[k].live
           /\ js[k].at = IF k = j THEN "waiting" ELSE f.jobs[k].at
  <2> DEFINE moved == [f.jobs[j] EXCEPT !.at = "waiting"]
  <2>1. /\ moved \in Job /\ moved.scope = f.jobs[j].scope /\ moved.live = f.jobs[j].live
        /\ moved.at = "waiting"
    BY <1>6 DEF Job
  <2>2. js = [f.jobs EXCEPT ![j] = moved]
    OBVIOUS
  <2> HIDE DEF moved, js
  <2>3. js \in Seq(Job) /\ DOMAIN js = DOMAIN f.jobs
    BY <1>1, <2>1, <2>2
  <2>4. \A k \in Jobs(f) : js[k] = IF k = j THEN moved ELSE f.jobs[k]
    BY <2>2 DEF Jobs
  <2> QED
    BY <2>1, <2>3, <2>4
<1> HIDE DEF p, w, js
<1>8. /\ g \in Fill /\ g.waiting = w /\ g.jobs = js /\ g.state = f.state
      /\ g.cancelPending = f.cancelPending /\ g.inFlight = f.inFlight
  BY <1>1, <1>3, <1>7 DEF Fill
<1>9. Enqueue(f, j) = Pump(g)
  BY DEF Enqueue, p, w, js
<1> HIDE DEF g, len
<1>10. Jobs(g) = Jobs(f)
  BY <1>7, <1>8 DEF Jobs
<1>11. \A k \in Jobs(f) : /\ Pending(g, k) <=> Pending(f, k)
                          /\ k \in Running(g) <=> k \in Running(f)
                          /\ k \in Slots(g) <=> k \in Slots(f)
  BY <1>7, <1>8, <1>10 DEF Pending, Running, Slots
<1>12. QueueSound(g)
  <2>0. \A i \in 1..(len + 1) :
          \/ i < p /\ i \in DOMAIN f.waiting /\ w[i] = f.waiting[i] /\ w[i] # j
          \/ i = p /\ w[i] = j
          \/ i > p /\ i - 1 \in DOMAIN f.waiting /\ w[i] = f.waiting[i - 1] /\ w[i] # j
    <3>1. \A i \in DOMAIN f.waiting : f.waiting[i] # j
      BY DEF Core, QueueSound
    <3>2. \A i \in 1..(len + 1) : (i < p => i \in 1..len) /\ (i > p => i - 1 \in 1..len)
                                  /\ (i < p \/ i = p \/ i > p)
      BY <1>1, <1>2
    <3> QED
      BY <1>1, <1>2, <1>3, <3>1, <3>2
  <2>1. ASSUME NEW i \in DOMAIN g.waiting
        PROVE  g.waiting[i] \in Jobs(g) /\ g.jobs[g.waiting[i]].at = "waiting"
    BY <1>4, <1>7, <1>8, <1>10, <2>0 DEF Core, QueueSound
  <2>2. ASSUME NEW i \in DOMAIN g.waiting, NEW k \in DOMAIN g.waiting, g.waiting[i] = g.waiting[k]
        PROVE  i = k
    <3>1. i \in 1..(len + 1) /\ k \in 1..(len + 1) /\ w[i] = w[k]
      BY <1>4, <1>8, <2>2
    <3>2. \A a, b \in DOMAIN f.waiting : f.waiting[a] = f.waiting[b] => a = b
      BY DEF Core, QueueSound
    <3> DEFINE o(x) == IF x < p THEN x ELSE x - 1
    <3>3. \A x \in 1..(len + 1) : x # p => o(x) \in DOMAIN f.waiting /\ w[x] = f.waiting[o(x)] /\ w[x] # j
      BY <1>1, <1>2, <2>0
    <3>4. w[p] = j /\ p \in 1..(len + 1)
      BY <1>2, <1>3
    <3>5. CASE i = p \/ k = p
      BY <3>1, <3>3, <3>4, <3>5
    <3>6. CASE i # p /\ k # p
      <4>1. o(i) = o(k)
        <5> HIDE DEF o
        <5> QED
          BY <3>1, <3>2, <3>3, <3>6
      <4> QED
        BY <1>1, <1>2, <3>1, <3>6, <4>1
    <3> QED
      BY <3>5, <3>6
  <2>3. ASSUME NEW k \in Jobs(g), g.jobs[k].at = "waiting", g.jobs[k].live
        PROVE  \E i \in DOMAIN g.waiting : g.waiting[i] = k
    <3>1. CASE k = j
      <4>1. p \in 1..(len + 1) /\ w[p] = j
        BY <1>2, <1>3
      <4> QED
        BY <1>4, <1>8, <3>1, <4>1
    <3>2. CASE k # j
      <4>1. f.jobs[k].at = "waiting" /\ f.jobs[k].live /\ k \in Jobs(f)
        BY <1>7, <1>8, <1>10, <2>3, <3>2
      <4>2. PICK i \in DOMAIN f.waiting : f.waiting[i] = k
        BY <4>1 DEF Core, QueueSound
      <4>3. CASE i < p
        <5>1. i \in 1..(len + 1)
          BY <1>1, <1>2, <4>2
        <5> QED
          BY <1>3, <1>4, <1>8, <4>2, <4>3, <5>1
      <4>4. CASE i >= p
        <5>1. PICK x \in 1..(len + 1) : ~(x < p) /\ x # p /\ x - 1 = i
          <6>1. i \in 1..len /\ p \in Int /\ ~(i < p)
            BY <1>1, <1>2, <4>2, <4>4
          <6>2. PICK x \in Int : x = i + 1
            BY <6>1
          <6>3. x \in 1..(len + 1) /\ ~(x < p) /\ x # p /\ x - 1 = i
            BY <1>1, <6>1, <6>2
          <6> QED
            BY <6>3
        <5>2. w[x] = f.waiting[i]
          BY <1>3, <5>1
        <5> QED
          BY <1>4, <1>8, <4>2, <5>2
      <4> QED
        BY <1>1, <1>2, <4>3, <4>4
    <3> QED
      BY <3>1, <3>2
  <2> QED
    BY <2>1, <2>2, <2>3 DEF QueueSound
<1>13. JobsSound(g)
  <2>1. \A k \in Jobs(g) : g.jobs[k].scope = f.jobs[k].scope /\ (g.jobs[k].at = "timer" => f.jobs[k].at = "timer")
                           /\ g.jobs[k].live = f.jobs[k].live
    BY <1>7, <1>8, <1>10
  <2>2. Running(g) = Running(f) /\ \A k \in Running(f) : k \in Jobs(f)
    BY <1>10, <1>11 DEF Running
  <2>3. JobsSound(f)
    BY DEF Core
  <2> QED
    BY <1>8, <1>10, <1>11, <2>1, <2>2, <2>3 DEF JobsSound
<1>14. SlotsSound(g)
  <2>1. Slots(g) = Slots(f)
    BY <1>10, <1>11 DEF Slots
  <2> QED
    BY <1>8, <2>1 DEF SlotsSound, Core
<1>15. Linked(g, S)
  BY <1>7, <1>8, <1>10, <1>11 DEF Linked
<1>16. Core(Pump(g)) /\ Linked(Pump(g), S) /\ Full(Pump(g)) /\ Keeps(g, Pump(g))
  BY <1>8, <1>12, <1>13, <1>14, <1>15, PumpSound DEF Core
<1>17. Keeps(f, Pump(g))
  <2>1. \A k \in Jobs(f) : g.jobs[k].scope = f.jobs[k].scope /\ (Alive(f, k) => Alive(g, k))
    BY <1>7, <1>8 DEF Alive
  <2>2. SameComplete(f, Pump(g))
    BY <1>8, <1>16 DEF Keeps, SameComplete
  <2> QED
    BY <1>10, <1>16, <2>1, <2>2 DEF Keeps
<1> QED
  BY <1>9, <1>16, <1>17

(* The fields of the gate with a new job for s, its last one superseded *)
Alone(f, s, tries, priority) ==
  Cancel([f EXCEPT !.attemptOf[s] = tries, !.priorityOf[s] = priority,
                   !.jobs = Append(@, [scope |-> s, attempt |-> tries, priority |-> priority,
                                       live |-> TRUE, at |-> "timer"])], s)

(* What a new job and the end of the superseded one change *)
LEMMA AloneFields ==
  ASSUME NEW f, Sound(f), NEW s \in Scopes, NEW tries \in Nat, NEW priority \in Int
  PROVE  LET g == Alone(f, s, tries, priority)
             j == Len(f.jobs) + 1
             superseded(k) == k = f.cancelPending[s]
         IN  /\ g \in Fill
             /\ j \notin Jobs(f) /\ Jobs(g) = Jobs(f) \cup {j}
             /\ g.jobs[j].scope = s /\ g.jobs[j].live /\ g.jobs[j].at = "timer"
             /\ \A k \in Jobs(f) :
                  /\ g.jobs[k].live <=> f.jobs[k].live /\ ~superseded(k)
                  /\ superseded(k) /\ f.jobs[k].at = "timer" => g.jobs[k].at = "done"
                  /\ ~(superseded(k) /\ f.jobs[k].at = "timer") =>
                       g.jobs[k].at = f.jobs[k].at /\ g.jobs[k].scope = f.jobs[k].scope
             /\ g.waiting = f.waiting /\ g.inFlight = f.inFlight
             /\ g.state = f.state /\ g.cancelPending = f.cancelPending
<1> DEFINE g == Alone(f, s, tries, priority)
           j == Len(f.jobs) + 1
           job == [scope |-> s, attempt |-> tries, priority |-> priority, live |-> TRUE, at |-> "timer"]
           c == f.cancelPending[s]
           js == Append(f.jobs, job)
           f1 == [f EXCEPT !.attemptOf[s] = tries, !.priorityOf[s] = priority, !.jobs = js]
           old == IF js[c].at = "timer" THEN Spent ELSE [js[c] EXCEPT !.live = FALSE]
           f2 == [f1 EXCEPT !.jobs = [js EXCEPT ![c] = old]]
<1>1. /\ f \in Fill /\ f.jobs \in Seq(Job) /\ Len(f.jobs) \in Nat /\ Jobs(f) = 1..Len(f.jobs)
      /\ c \in Nat
      /\ f.attemptOf \in [Scopes -> Nat] /\ f.priorityOf \in [Scopes -> Int]
  BY LenProperties DEF Sound, Core, Fill, Jobs
<1>2. job \in Job
  BY DEF Job
<1>3. /\ js \in Seq(Job) /\ Len(js) = j
      /\ \A k \in 1..Len(f.jobs) : js[k] = f.jobs[k]
      /\ js[j] = job
  <2> HIDE DEF job
  <2> QED
    BY <1>1, <1>2, AppendProperties
<1>4. j \notin Jobs(f) /\ DOMAIN js = Jobs(f) \cup {j} /\ j \in Nat
  <2>1. DOMAIN js = 1..j
    BY <1>3, LenProperties
  <2> QED
    BY <1>1, <2>1
<1>5. /\ f1 \in Fill /\ f1.jobs = js /\ f1.waiting = f.waiting /\ f1.inFlight = f.inFlight
      /\ f1.state = f.state /\ f1.cancelPending = f.cancelPending
  <2> HIDE DEF js, job
  <2>1. /\ [f.attemptOf EXCEPT ![s] = tries] \in [Scopes -> Nat]
        /\ [f.priorityOf EXCEPT ![s] = priority] \in [Scopes -> Int]
    BY <1>1
  <2> QED
    BY <1>1, <1>3, <2>1 DEF Fill
<1>6. g = IF c = NoJob THEN f1 ELSE f2
  <2>1. g = Cancel(f1, s)
    BY DEF Alone
  <2>2. f1.cancelPending[s] = c
    BY <1>5
  <2>3. Cancel(f1, s) = IF f1.cancelPending[s] = NoJob THEN f1
                        ELSE [f1 EXCEPT !.jobs[f1.cancelPending[s]] =
                                IF @.at = "timer" THEN Spent ELSE [@ EXCEPT !.live = FALSE]]
    BY DEF Cancel
  <2>4. [f1 EXCEPT !.jobs[c] = IF @.at = "timer" THEN Spent ELSE [@ EXCEPT !.live = FALSE]] = f2
    <3> HIDE DEF f1, js
    <3> QED
      BY <1>5
  <2> HIDE DEF f1, f2, g, c
  <2> QED
    BY <2>1, <2>2, <2>3, <2>4
<1>7. c = NoJob \/ c \in Jobs(f)
  BY DEF Sound, Core, JobsSound
<1>8. CASE c = NoJob
  <2>1. c \notin Jobs(f)
    BY <1>1, <1>8 DEF NoJob
  <2>3. /\ g.jobs = js /\ g \in Fill /\ g.waiting = f.waiting /\ g.inFlight = f.inFlight
        /\ g.state = f.state /\ g.cancelPending = f.cancelPending
    <3> HIDE DEF f1, f2, g, js, c
    <3> QED
      BY <1>5, <1>6, <1>8
  <2>4. \A k \in Jobs(f) : k # c /\ g.jobs[k] = f.jobs[k]
    BY <1>1, <1>3, <2>1, <2>3
  <2>5. g.jobs[j].scope = s /\ g.jobs[j].live /\ g.jobs[j].at = "timer"
    BY <1>3, <2>3
  <2>6. Jobs(g) = Jobs(f) \cup {j}
    BY <1>4, <2>3 DEF Jobs
  <2> HIDE DEF g, js, j, c
  <2> QED
    BY <1>4, <2>3, <2>4, <2>5, <2>6 DEF g, j, c
<1>9. CASE c \in Jobs(f)
  <2>1. c # NoJob /\ js[c] = f.jobs[c] /\ f.jobs[c] \in Job
    BY <1>1, <1>3, <1>9 DEF NoJob
  <2>2. /\ old \in Job /\ ~old.live
        /\ f.jobs[c].at = "timer" => old.at = "done"
        /\ f.jobs[c].at # "timer" => old.at = f.jobs[c].at /\ old.scope = f.jobs[c].scope
    <3>1. CASE f.jobs[c].at = "timer"
      BY <2>1, <3>1 DEF Job, Spent
    <3>2. CASE f.jobs[c] = Spent
          <4>0. [Spent EXCEPT !.live = FALSE] = Spent
        <5>1. Spent = [x \in DOMAIN Spent |-> Spent[x]] /\ Spent["live"] = FALSE
          BY DEF Spent
        <5> QED
          BY <5>1
      <4>1. [Spent EXCEPT !.live = FALSE] = Spent /\ Spent.at = "done" /\ ~Spent.live /\ Spent \in Job
        BY <4>0 DEF Job, Spent
      <4>2. old = Spent
        <5>1. f.jobs[c].at # "timer"
          BY <3>2, <4>1
        <5> QED
          BY <2>1, <3>2, <4>1, <5>1
      <4> HIDE DEF old
      <4> QED
        BY <3>2, <4>1, <4>2
    <3>3. CASE f.jobs[c].at # "timer" /\ f.jobs[c] # Spent
      <4>1. f.jobs[c] \in [scope : Scopes, attempt : Nat, priority : Int, live : BOOLEAN,
                           at : {"timer", "waiting", "running", "settled"}]
        BY <2>1, <3>3 DEF Job
      <4>2. old = [f.jobs[c] EXCEPT !.live = FALSE]
        BY <2>1, <3>3
      <4> HIDE DEF old
      <4> QED
        BY <3>3, <4>1, <4>2 DEF Job
    <3> QED
      BY <3>1, <3>2, <3>3
  <2> DEFINE new == [js EXCEPT ![c] = old]
  <2> HIDE DEF old
  <2>3. /\ new \in Seq(Job) /\ DOMAIN new = DOMAIN js
        /\ \A k \in DOMAIN js : new[k] = IF k = c THEN old ELSE js[k]
    <3>1. c \in 1..Len(js)
      BY <1>1, <1>3, <1>9
    <3>2. DOMAIN js = 1..Len(js)
      BY <1>3, LenProperties
    <3> HIDE DEF js, c
    <3> QED
      BY <1>3, <2>2, <3>1, <3>2
  <2>4. /\ g.jobs = new /\ g \in Fill /\ g.waiting = f.waiting /\ g.inFlight = f.inFlight
        /\ g.state = f.state /\ g.cancelPending = f.cancelPending
    <3>1. g = [f1 EXCEPT !.jobs = new]
      BY <1>6, <2>1
    <3> HIDE DEF f1, g, js, c, new
    <3> QED
      BY <1>5, <2>3, <3>1 DEF Fill
  <2> HIDE DEF new, g
  <2>5. \A k \in Jobs(f) : g.jobs[k] = IF k = c THEN old ELSE f.jobs[k]
    BY <1>1, <1>3, <1>4, <2>3, <2>4
  <2>6. g.jobs[j].scope = s /\ g.jobs[j].live /\ g.jobs[j].at = "timer"
    BY <1>3, <1>4, <1>9, <2>3, <2>4
  <2>7. Jobs(g) = Jobs(f) \cup {j}
    BY <1>4, <2>3, <2>4 DEF Jobs
  <2> HIDE DEF js, j, c
  <2>8. \A k \in Jobs(f) :
          /\ g.jobs[k].live <=> f.jobs[k].live /\ k # c
          /\ k = c /\ f.jobs[k].at = "timer" => g.jobs[k].at = "done"
          /\ ~(k = c /\ f.jobs[k].at = "timer") =>
               g.jobs[k].at = f.jobs[k].at /\ g.jobs[k].scope = f.jobs[k].scope
    BY <2>2, <2>5
  <2> QED
    BY <1>4, <2>4, <2>6, <2>7, <2>8 DEF g, j, c
<1> QED
  BY <1>7, <1>8, <1>9

(* A job for a slice that no job loads and that is not complete: the       *)
(* pending one, if there is one, gives way to it.                          *)
LEMMA ScheduleSound ==
  ASSUME NEW f, Sound(f), NEW s \in Scopes, NEW tries \in Nat, NEW priority \in Int,
         f.state[s] \in {"empty", "error"}
  PROVE  Sound(Schedule(f, s, tries, priority)) /\ SameComplete(f, Schedule(f, s, tries, priority))
<1> DEFINE a == Alone(f, s, tries, priority)
           j == Len(f.jobs) + 1
           c == f.cancelPending[s]
           g == IF tries = 0 \/ f.baseMs = 0 THEN Enqueue(a, j) ELSE a
           h == [g EXCEPT !.cancelPending[s] = j]
<1>1. /\ a \in Fill
      /\ j \notin Jobs(f) /\ Jobs(a) = Jobs(f) \cup {j}
      /\ a.jobs[j].scope = s /\ a.jobs[j].live /\ a.jobs[j].at = "timer"
      /\ \A k \in Jobs(f) :
           /\ a.jobs[k].live <=> f.jobs[k].live /\ k # c
           /\ k = c /\ f.jobs[k].at = "timer" => a.jobs[k].at = "done"
           /\ ~(k = c /\ f.jobs[k].at = "timer") =>
                a.jobs[k].at = f.jobs[k].at /\ a.jobs[k].scope = f.jobs[k].scope
      /\ a.waiting = f.waiting /\ a.inFlight = f.inFlight
      /\ a.state = f.state /\ a.cancelPending = f.cancelPending
  BY AloneFields
<1>2. Schedule(f, s, tries, priority) = h
  BY Zenon DEF Schedule, Alone
<1> HIDE DEF a, j, c
<1>3. /\ QueueSound(f) /\ JobsSound(f) /\ SlotsSound(f) /\ Linked(f, Scopes) /\ Full(f)
      /\ \A k \in Jobs(f) : f.jobs[k] \in Job
  BY LenProperties DEF Sound, Core, Fill, Jobs
<1>4. \A k \in Jobs(f) : /\ Pending(a, k) => Pending(f, k) /\ k # c /\ a.jobs[k].scope = f.jobs[k].scope
                         /\ k \in Running(a) <=> k \in Running(f)
                         /\ k \in Running(a) => a.jobs[k].scope = f.jobs[k].scope
                         /\ k \in Slots(a) <=> k \in Slots(f)
  BY <1>1 DEF Pending, Running, Slots
<1>5. j \notin Running(a) /\ j \notin Slots(a)
  BY <1>1 DEF Running, Slots
<1>6. Running(a) = Running(f) /\ Slots(a) = Slots(f)
  BY <1>1, <1>4, <1>5 DEF Running, Slots
<1>7. \A k \in Jobs(f) : Pending(a, k) => a.jobs[k].scope \in Scopes \ {s}
  <2> SUFFICES ASSUME NEW k \in Jobs(f), Pending(a, k) PROVE a.jobs[k].scope \in Scopes \ {s}
    OBVIOUS
  <2>1. Pending(f, k) /\ k # c /\ a.jobs[k].scope = f.jobs[k].scope
    BY <1>4
  <2>2. f.jobs[k].scope \in Scopes
    BY <1>3, <2>1 DEF Pending, Job, Spent
  <2> QED
    BY <1>3, <2>1, <2>2 DEF Linked, c
<1>8. QueueSound(a)
  <2>1. \A i \in DOMAIN a.waiting : a.waiting[i] \in Jobs(a) /\ a.jobs[a.waiting[i]].at = "waiting"
    BY <1>1, <1>3 DEF QueueSound
  <2>2. \A i, k \in DOMAIN a.waiting : a.waiting[i] = a.waiting[k] => i = k
    BY <1>1, <1>3 DEF QueueSound
  <2>3. ASSUME NEW k \in Jobs(a), a.jobs[k].at = "waiting", a.jobs[k].live
        PROVE  \E i \in DOMAIN a.waiting : a.waiting[i] = k
    <3>1. k \in Jobs(f) /\ f.jobs[k].at = "waiting" /\ f.jobs[k].live
      BY <1>1, <2>3
    <3> QED
      BY <1>1, <1>3, <3>1 DEF QueueSound
  <2> QED
    BY <2>1, <2>2, <2>3 DEF QueueSound
<1>9. JobsSound(a)
  <2>1. ASSUME NEW k \in Jobs(a), a.jobs[k].at = "timer" PROVE a.jobs[k].live
    BY <1>1, <1>3, <2>1 DEF JobsSound
  <2>2. ASSUME NEW k \in Jobs(a), Pending(a, k) PROVE a.state[a.jobs[k].scope] \in {"empty", "error"}
    <3>1. CASE k = j
      BY <1>1, <3>1
    <3>2. CASE k \in Jobs(f)
      BY <1>1, <1>3, <1>4, <2>2, <3>2 DEF JobsSound
    <3> QED
      BY <1>1, <3>1, <3>2
  <2>3. ASSUME NEW k \in Jobs(a), NEW m \in Jobs(a), Pending(a, k), Pending(a, m),
               a.jobs[k].scope = a.jobs[m].scope
        PROVE  k = m
    <3>1. CASE k \in Jobs(f) /\ m \in Jobs(f)
      BY <1>3, <1>4, <2>3, <3>1 DEF JobsSound
    <3>2. CASE k = j \/ m = j
      BY <1>1, <1>7, <2>3, <3>2
    <3> QED
      BY <1>1, <3>1, <3>2
  <2>4. \A k \in Running(a) : a.state[a.jobs[k].scope] = "loading"
    BY <1>1, <1>3, <1>4, <1>6 DEF JobsSound, Running
  <2>5. \A k, m \in Running(a) : a.jobs[k].scope = a.jobs[m].scope => k = m
    BY <1>3, <1>4, <1>6 DEF JobsSound, Running
  <2>6. \A x \in Scopes : a.state[x] = "loading" => \E k \in Running(a) : a.jobs[k].scope = x
    BY <1>1, <1>3, <1>4, <1>6 DEF JobsSound, Running
  <2>7. \A x \in Scopes : a.cancelPending[x] = NoJob \/ a.cancelPending[x] \in Jobs(a)
    BY <1>1, <1>3 DEF JobsSound
  <2> QED
    BY <2>1, <2>2, <2>3, <2>4, <2>5, <2>6, <2>7 DEF JobsSound
<1>10. Core(a)
  BY <1>1, <1>3, <1>6, <1>8, <1>9 DEF Core, SlotsSound
<1>11. Linked(a, Scopes \ {s})
  <2> SUFFICES ASSUME NEW k \in Jobs(a), Pending(a, k), a.jobs[k].scope \in Scopes \ {s}
               PROVE  a.cancelPending[a.jobs[k].scope] = k
    BY DEF Linked
  <2>1. k \in Jobs(f)
    BY <1>1
  <2> QED
    BY <1>1, <1>3, <1>4, <2>1 DEF Linked
<1>12. Full(a)
  <2>1. \A i \in DOMAIN f.waiting : f.waiting[i] \in Jobs(f)
    BY <1>3 DEF QueueSound
  <2> QED
    BY <1>1, <1>3, <2>1 DEF Full
<1>13. j \in Jobs(a) /\ Alive(a, j) /\ a.jobs[j].at = "timer"
  BY <1>1 DEF Alive
<1>14. /\ Core(g) /\ Linked(g, Scopes \ {s}) /\ Full(g)
       /\ j \in Jobs(g) /\ Alive(g, j) /\ g.jobs[j].scope = s
       /\ SameComplete(f, g)
  <2>1. CASE tries = 0 \/ f.baseMs = 0
    <3>1. g = Enqueue(a, j)
      BY <2>1
    <3>2. Core(Enqueue(a, j)) /\ Linked(Enqueue(a, j), Scopes \ {s}) /\ Full(Enqueue(a, j))
          /\ Keeps(a, Enqueue(a, j))
      BY <1>10, <1>11, <1>13, EnqueueSound
    <3> HIDE DEF g
    <3> QED
      BY <1>1, <1>13, <3>1, <3>2 DEF Keeps, SameComplete
  <2>2. CASE ~(tries = 0 \/ f.baseMs = 0)
    <3>1. g = a
      BY <2>2
    <3> HIDE DEF g
    <3> QED
      BY <1>1, <1>10, <1>11, <1>12, <1>13, <3>1 DEF SameComplete
  <2> QED
    BY <2>1, <2>2
<1> HIDE DEF g
<1>15. j \in Nat
  BY LenProperties DEF j, Sound, Core, Fill
<1>16. /\ h \in Fill /\ h.jobs = g.jobs /\ h.waiting = g.waiting /\ h.inFlight = g.inFlight
       /\ h.state = g.state
       /\ \A x \in Scopes : h.cancelPending[x] = IF x = s THEN j ELSE g.cancelPending[x]
  BY <1>14, <1>15 DEF Core, Fill
<1> HIDE DEF h
<1>17. /\ Jobs(h) = Jobs(g) /\ Running(h) = Running(g) /\ Slots(h) = Slots(g)
       /\ \A k : Pending(h, k) <=> Pending(g, k)
  BY <1>16 DEF Jobs, Running, Slots, Pending
<1>18. Core(h)
  <2>1. QueueSound(h)
    BY <1>14, <1>16, <1>17 DEF Core, QueueSound
  <2>2. JobsSound(h)
    BY <1>14, <1>16, <1>17 DEF Core, JobsSound
  <2>3. SlotsSound(h)
    BY <1>14, <1>16, <1>17 DEF Core, SlotsSound
  <2> QED
    BY <1>16, <2>1, <2>2, <2>3 DEF Core
<1>19. Full(h)
  BY <1>14, <1>16 DEF Full
<1>20. Linked(h, Scopes)
  <2> SUFFICES ASSUME NEW k \in Jobs(h), Pending(h, k), h.jobs[k].scope \in Scopes
               PROVE  h.cancelPending[h.jobs[k].scope] = k
    BY DEF Linked
  <2>1. k \in Jobs(g) /\ Pending(g, k) /\ h.jobs[k].scope = g.jobs[k].scope
    BY <1>16, <1>17
  <2>2. CASE g.jobs[k].scope # s
    BY <1>14, <1>16, <2>1, <2>2 DEF Linked
  <2>3. CASE g.jobs[k].scope = s
    <3>1. g.state[s] \in {"empty", "error"}
      BY <1>14, <2>1, <2>3 DEF Core, JobsSound
    <3>2. j \notin Running(g)
      BY <1>14, <3>1 DEF Core, JobsSound
    <3>3. Pending(g, j)
      BY <1>14, <3>2 DEF Alive, Pending, Running
    <3>4. k = j
      BY <1>14, <2>1, <2>3, <3>3 DEF Core, JobsSound
    <3> QED
      BY <1>16, <2>1, <2>3, <3>4
  <2> QED
    BY <2>2, <2>3
<1>21. SameComplete(f, h)
  BY <1>14, <1>16 DEF SameComplete
<1> QED
  BY <1>2, <1>18, <1>19, <1>20, <1>21 DEF Sound

(* A load that ends, well or not, keeps its slot. *)
Settles(f, j, x, g) ==
  /\ Jobs(g) = Jobs(f)
  /\ \A k \in Jobs(f) :
       /\ g.jobs[k].scope = f.jobs[k].scope /\ g.jobs[k].live = f.jobs[k].live
       /\ g.jobs[k].at = IF k = j THEN "settled" ELSE f.jobs[k].at
  /\ \A s \in Scopes : g.state[s] = IF s = f.jobs[j].scope THEN x ELSE f.state[s]
  /\ g.waiting = f.waiting /\ g.inFlight = f.inFlight /\ g.cancelPending = f.cancelPending

(* The end of a load disturbs no other job. *)
LEMMA SettleSound ==
  ASSUME NEW f, Sound(f), NEW j \in Running(f), NEW g \in Fill, NEW x \in {"complete", "error"},
         Settles(f, j, x, g)
  PROVE  Sound(g)
<1> USE DEF Settles
<1>1. /\ QueueSound(f) /\ JobsSound(f) /\ SlotsSound(f) /\ Linked(f, Scopes) /\ Full(f)
      /\ \A k \in Jobs(f) : f.jobs[k] \in Job
  BY LenProperties DEF Sound, Core, Fill, Jobs
<1>2. \A k \in Jobs(f) : f.jobs[k].at # "done" => f.jobs[k].scope \in Scopes
  BY <1>1 DEF Job, Spent
<1>3. j \in Jobs(f) /\ f.jobs[j].at = "running"
  BY DEF Running
<1>4. \A k \in Jobs(f) : /\ Pending(g, k) <=> Pending(f, k)
                         /\ k \in Running(g) <=> k \in Running(f) /\ k # j
                         /\ k \in Slots(g) <=> k \in Slots(f)
  BY <1>3 DEF Pending, Running, Slots
(* The slice whose load ended has no other job. *)
<1>5. \A k \in Jobs(f) : k # j /\ Alive(f, k) => f.jobs[k].scope # f.jobs[j].scope
  <2> SUFFICES ASSUME NEW k \in Jobs(f), k # j, Alive(f, k), f.jobs[k].scope = f.jobs[j].scope
               PROVE  FALSE
    OBVIOUS
  <2>1. f.state[f.jobs[j].scope] = "loading"
    BY <1>1 DEF JobsSound
  <2>2. CASE Pending(f, k)
    BY <1>1, <2>1, <2>2 DEF JobsSound
  <2>3. CASE k \in Running(f)
    BY <1>1, <2>3 DEF JobsSound
  <2> QED
    BY <2>2, <2>3 DEF Alive, Pending, Running
<1>6. QueueSound(g)
  <2>1. \A i \in DOMAIN g.waiting : g.waiting[i] \in Jobs(g) /\ g.jobs[g.waiting[i]].at = "waiting"
    BY <1>1, <1>3 DEF QueueSound
  <2>2. \A k \in Jobs(g) : g.jobs[k].at = "waiting" /\ g.jobs[k].live =>
          \E i \in DOMAIN g.waiting : g.waiting[i] = k
    BY <1>1, <1>3 DEF QueueSound
  <2> QED
    BY <1>1, <2>1, <2>2 DEF QueueSound
<1>7. JobsSound(g)
  <2>1. \A k \in Jobs(g) : g.jobs[k].at = "timer" => g.jobs[k].live
    BY <1>1 DEF JobsSound
  <2>2. ASSUME NEW k \in Jobs(g), Pending(g, k) PROVE g.state[g.jobs[k].scope] \in {"empty", "error"}
    <3>1. Pending(f, k) /\ k # j /\ k \in Jobs(f)
      BY <1>3, <1>4, <2>2 DEF Pending
    <3>2. f.jobs[k].scope # f.jobs[j].scope /\ f.jobs[k].scope \in Scopes
      BY <1>2, <1>5, <3>1 DEF Pending, Alive
    <3> QED
      BY <1>1, <3>1, <3>2 DEF JobsSound
  <2>3. \A k, m \in Jobs(g) : Pending(g, k) /\ Pending(g, m) /\ g.jobs[k].scope = g.jobs[m].scope => k = m
    BY <1>1, <1>4 DEF JobsSound
  <2>4. ASSUME NEW k \in Running(g) PROVE g.state[g.jobs[k].scope] = "loading"
    <3>1. k \in Running(f) /\ k # j /\ k \in Jobs(f)
      BY <1>4 DEF Running
    <3>2. f.jobs[k].scope # f.jobs[j].scope /\ f.jobs[k].scope \in Scopes
      BY <1>2, <1>5, <3>1 DEF Running, Alive
    <3> QED
      BY <1>1, <3>1, <3>2 DEF JobsSound
  <2>5. \A k, m \in Running(g) : g.jobs[k].scope = g.jobs[m].scope => k = m
    <3>1. \A k \in Running(g) : k \in Running(f) /\ k \in Jobs(f)
      BY <1>4 DEF Running
    <3> QED
      BY <1>1, <3>1 DEF JobsSound
  <2>6. ASSUME NEW s \in Scopes, g.state[s] = "loading" PROVE \E k \in Running(g) : g.jobs[k].scope = s
    <3>1. s # f.jobs[j].scope /\ f.state[s] = "loading"
      BY <2>6
    <3>2. PICK k \in Running(f) : f.jobs[k].scope = s
      BY <1>1, <3>1 DEF JobsSound
    <3>3. k # j /\ k \in Jobs(f)
      BY <3>1, <3>2 DEF Running
    <3> QED
      BY <1>4, <3>2, <3>3
  <2>7. \A s \in Scopes : g.cancelPending[s] = NoJob \/ g.cancelPending[s] \in Jobs(g)
    BY <1>1 DEF JobsSound
  <2> QED
    BY <2>1, <2>2, <2>3, <2>4, <2>5, <2>6, <2>7 DEF JobsSound
<1>8. SlotsSound(g)
  <2>1. Slots(g) = Slots(f)
    BY <1>4 DEF Slots
  <2> QED
    BY <1>1, <2>1 DEF SlotsSound
<1>9. Linked(g, Scopes)
  BY <1>1, <1>4 DEF Linked
<1>10. Full(g)
  BY <1>1 DEF Full, QueueSound
<1> QED
  BY <1>6, <1>7, <1>8, <1>9, <1>10 DEF Sound, Core

(* The gate with one job ended *)
Ended(f, j, x, n) ==
  [f EXCEPT !.jobs[j].at = "settled", !.state[f.jobs[j].scope] = x, !.attemptOf[f.jobs[j].scope] = n]

(* It keeps the gate sound, and leaves the slice in its final state. *)
LEMMA EndedSound ==
  ASSUME NEW f, Sound(f), NEW j \in Running(f), NEW x \in {"complete", "error"}, NEW n \in Nat
  PROVE  /\ Sound(Ended(f, j, x, n)) /\ f.jobs[j].scope \in Scopes
         /\ Ended(f, j, x, n).state[f.jobs[j].scope] = x
         /\ KeepsComplete(f, Ended(f, j, x, n))
<1> DEFINE s == f.jobs[j].scope
           over == [f.jobs[j] EXCEPT !.at = "settled"]
           js == [f.jobs EXCEPT ![j] = over]
           g == Ended(f, j, x, n)
<1>1. /\ f \in Fill /\ f.jobs \in Seq(Job) /\ Jobs(f) = 1..Len(f.jobs) /\ Len(f.jobs) \in Nat
      /\ f.state \in [Scopes -> States] /\ f.attemptOf \in [Scopes -> Nat]
  BY LenProperties DEF Sound, Core, Fill, Jobs
<1>2. j \in Jobs(f) /\ f.jobs[j].at = "running" /\ f.jobs[j] \in Job
  BY <1>1 DEF Running, Jobs
<1>3. f.jobs[j] \in [scope : Scopes, attempt : Nat, priority : Int, live : BOOLEAN,
                     at : {"timer", "waiting", "running", "settled"}]
  BY <1>2 DEF Job, Spent
<1>4. /\ over \in Job /\ over.at = "settled" /\ over.scope = s /\ over.live = f.jobs[j].live
      /\ s \in Scopes
  BY <1>3 DEF Job
<1> HIDE DEF over, s
<1>5. /\ js \in Seq(Job) /\ DOMAIN js = DOMAIN f.jobs
      /\ \A k \in Jobs(f) : js[k] = IF k = j THEN over ELSE f.jobs[k]
  BY <1>1, <1>2, <1>4 DEF Jobs
<1>6. /\ [f.state EXCEPT ![s] = x] \in [Scopes -> States]
      /\ [f.attemptOf EXCEPT ![s] = n] \in [Scopes -> Nat]
      /\ \A y \in Scopes : [f.state EXCEPT ![s] = x][y] = IF y = s THEN x ELSE f.state[y]
  BY <1>1, <1>4 DEF States
<1>7. g = [f EXCEPT !.jobs = js, !.state = [f.state EXCEPT ![s] = x],
                    !.attemptOf = [f.attemptOf EXCEPT ![s] = n]]
  BY <1>1 DEF Ended, s, over
<1> HIDE DEF js, g
<1>8. /\ g \in Fill /\ g.jobs = js /\ g.state = [f.state EXCEPT ![s] = x]
      /\ g.waiting = f.waiting /\ g.inFlight = f.inFlight /\ g.cancelPending = f.cancelPending
  BY <1>1, <1>5, <1>6, <1>7 DEF Fill
<1>9. /\ Jobs(g) = Jobs(f)
      /\ \A k \in Jobs(f) :
           /\ g.jobs[k].scope = f.jobs[k].scope /\ g.jobs[k].live = f.jobs[k].live
           /\ g.jobs[k].at = IF k = j THEN "settled" ELSE f.jobs[k].at
  BY <1>4, <1>5, <1>8 DEF Jobs, s
<1>10. \A y \in Scopes : g.state[y] = IF y = f.jobs[j].scope THEN x ELSE f.state[y]
  BY <1>6, <1>8 DEF s
<1>11. Settles(f, j, x, g)
  BY <1>8, <1>9, <1>10 DEF Settles
<1>12. Sound(g)
  BY <1>8, <1>11, SettleSound
<1>13. KeepsComplete(f, g)
  <2>1. f.state[f.jobs[j].scope] = "loading"
    BY DEF Sound, Core, JobsSound
  <2> QED
    BY <1>10, <2>1 DEF KeepsComplete
<1> QED
  BY <1>4, <1>10, <1>12, <1>13 DEF g, s

(* The loader answered, and its writes are applied. *)
LEMMA LoadedSound ==
  ASSUME NEW f, Sound(f), NEW j \in Running(f)
  PROVE  Sound(Loaded(f, j)) /\ KeepsComplete(f, Loaded(f, j))
<1>1. Loaded(f, j) = Ended(f, j, "complete", 0)
  BY DEF Loaded, Ended
<1> QED
  BY <1>1, EndedSound

(* A load failed: with tries left the next one is on its timer. *)
LEMMA FailedSound ==
  ASSUME NEW f, Sound(f), NEW j \in Running(f)
  PROVE  Sound(Failed(f, j)) /\ KeepsComplete(f, Failed(f, j))
<1> DEFINE s == f.jobs[j].scope
           wrong == [f EXCEPT !.jobs[j].at = "settled", !.state[s] = "error"]
           next == f.attemptOf[s] + 1
<1>1. f \in Fill /\ s \in Scopes
  BY EndedSound DEF Sound, Core
<1>2. f.attemptOf \in [Scopes -> Nat] /\ f.priorityOf \in [Scopes -> Int]
  BY <1>1 DEF Fill
<1>3. next \in Nat /\ f.attemptOf[s] \in Nat /\ f.priorityOf[s] \in Int
  BY <1>1, <1>2
<1>4. wrong = Ended(f, j, "error", f.attemptOf[s])
  <2> HIDE DEF s
  <2>1. [f.attemptOf EXCEPT ![s] = f.attemptOf[s]] = f.attemptOf
    BY <1>1, <1>2
  <2>2. Ended(f, j, "error", f.attemptOf[s]) =
          [f EXCEPT !.jobs[j].at = "settled", !.state[s] = "error",
                    !.attemptOf = [f.attemptOf EXCEPT ![s] = f.attemptOf[s]]]
    BY <1>1 DEF Ended, s, Fill
  <2> QED
    BY <1>1, <2>1, <2>2 DEF Fill
<1>5. Sound(wrong) /\ wrong.state[s] = "error" /\ KeepsComplete(f, wrong)
  <2>1. Sound(Ended(f, j, "error", f.attemptOf[s]))
        /\ KeepsComplete(f, Ended(f, j, "error", f.attemptOf[s]))
        /\ Ended(f, j, "error", f.attemptOf[s]).state[s] = "error"
    <3> HIDE DEF s, next
    <3> QED
      BY <1>3, EndedSound DEF s
  <2> HIDE DEF wrong
  <2> QED
    BY <1>4, <2>1
<1>6. CASE next < LoadAttempts
  <2>1. Failed(f, j) = Schedule(wrong, s, next, f.priorityOf[s])
    BY <1>6 DEF Failed
  <2>2. /\ Sound(Schedule(wrong, s, next, f.priorityOf[s]))
        /\ SameComplete(wrong, Schedule(wrong, s, next, f.priorityOf[s]))
    <3> HIDE DEF wrong, s, next
    <3> QED
      BY <1>1, <1>3, <1>5, ScheduleSound
  <2> HIDE DEF wrong, s, next
  <2> QED
    BY <1>5, <2>1, <2>2 DEF SameComplete, KeepsComplete
<1>7. CASE ~(next < LoadAttempts)
  <2>1. Failed(f, j) = [wrong EXCEPT !.attemptOf[s] = 0]
    BY <1>7 DEF Failed
  <2>2. [wrong EXCEPT !.attemptOf[s] = 0] = Ended(f, j, "error", 0)
    <3> HIDE DEF s
    <3> QED
      BY <1>1, <1>2 DEF Ended, s, Fill
  <2> QED
    BY <2>1, <2>2, EndedSound
<1> QED
  BY <1>6, <1>7

(* A slot is given back: the next job in the queue takes it. *)
LEMMA ReleasedSound ==
  ASSUME NEW f, Sound(f), NEW j \in Jobs(f), f.jobs[j].at = "settled"
  PROVE  Sound(Released(f, j)) /\ SameComplete(f, Released(f, j))
<1> DEFINE js == [f.jobs EXCEPT ![j] = Spent]
           g == [f EXCEPT !.jobs = js, !.inFlight = f.inFlight - 1]
<1>1. /\ f \in Fill /\ f.jobs \in Seq(Job) /\ Jobs(f) = 1..Len(f.jobs) /\ Len(f.jobs) \in Nat
      /\ f.inFlight \in Nat /\ \A k \in Jobs(f) : f.jobs[k] \in Job
  BY LenProperties DEF Sound, Core, Fill, Jobs
<1>2. /\ QueueSound(f) /\ JobsSound(f) /\ SlotsSound(f) /\ Linked(f, Scopes)
  BY DEF Sound, Core
<1>3. /\ js \in Seq(Job) /\ DOMAIN js = DOMAIN f.jobs
      /\ \A k \in Jobs(f) : js[k] = IF k = j THEN Spent ELSE f.jobs[k]
  BY <1>1 DEF Jobs, Job
<1>4. /\ j \in Slots(f) /\ IsFiniteSet(Slots(f))
  <2>1. Slots(f) \in SUBSET (1..Len(f.jobs))
    BY <1>1 DEF Slots
  <2>2. IsFiniteSet(1..Len(f.jobs))
    <3> DEFINE n == Len(f.jobs)
    <3>1. n \in Int
      BY <1>1
    <3> HIDE DEF n
    <3>2. IsFiniteSet(1..n)
      BY <3>1, FS_Interval
    <3> QED
      BY <3>2 DEF n
  <2> QED
    BY <2>1, <2>2, FS_Subset DEF Slots
<1>5. /\ IsFiniteSet(Slots(f) \ {j}) /\ Cardinality(Slots(f) \ {j}) = Cardinality(Slots(f)) - 1
      /\ Cardinality(Slots(f) \ {j}) \in Nat
  <2>1. IsFiniteSet(Slots(f) \ {j}) /\ Cardinality(Slots(f) \ {j}) = Cardinality(Slots(f)) - 1
    BY <1>4, FS_RemoveElement
  <2> QED
    BY <2>1, FS_CardinalityType
<1>6. f.inFlight - 1 \in Nat /\ f.inFlight - 1 <= MaxConcurrent
  BY <1>1, <1>2, <1>5, GateAssumption DEF SlotsSound
<1> HIDE DEF js
<1>7. /\ g \in Fill /\ g.jobs = js /\ g.inFlight = f.inFlight - 1 /\ g.state = f.state
      /\ g.waiting = f.waiting /\ g.cancelPending = f.cancelPending
  BY <1>1, <1>3, <1>6 DEF Fill
<1>8. Released(f, j) = Pump(g)
  <2>1. g = [f EXCEPT !.jobs[j] = Spent, !.inFlight = @ - 1]
    BY <1>1 DEF js, Fill
  <2> QED
    BY <2>1 DEF Released
<1> HIDE DEF g
<1>9. /\ Jobs(g) = Jobs(f) /\ j \in Jobs(f) /\ ~Pending(g, j) /\ g.jobs[j].at = "done"
      /\ \A k \in Jobs(f) : k # j => g.jobs[k] = f.jobs[k]
  BY <1>3, <1>7 DEF Jobs, Pending, Spent
<1>10. \A k \in Jobs(f) : /\ Pending(g, k) <=> Pending(f, k)
                          /\ k \in Running(g) <=> k \in Running(f)
                          /\ k \in Slots(g) <=> k \in Slots(f) /\ k # j
                          /\ Alive(f, k) => k # j
  BY <1>9 DEF Pending, Running, Slots, Alive
<1>11. QueueSound(g)
  BY <1>2, <1>7, <1>9 DEF QueueSound
<1>12. Running(g) = Running(f) /\ j \notin Running(f)
  BY <1>9, <1>10 DEF Running
<1>13. JobsSound(g)
  <2>1. \A k \in Jobs(g) : g.jobs[k].at = "timer" => g.jobs[k].live
    BY <1>2, <1>9 DEF JobsSound
  <2>2. \A k \in Jobs(g) : Pending(g, k) => k # j /\ k \in Jobs(f) /\ Pending(f, k)
    BY <1>9, <1>10
  <2>3. \A k \in Jobs(g) : Pending(g, k) => g.state[g.jobs[k].scope] \in {"empty", "error"}
    BY <1>2, <1>7, <1>9, <2>2 DEF JobsSound
  <2>4. \A k, m \in Jobs(g) : Pending(g, k) /\ Pending(g, m) /\ g.jobs[k].scope = g.jobs[m].scope => k = m
    BY <1>2, <1>9, <2>2 DEF JobsSound
  <2>5. \A k \in Running(g) : k # j /\ k \in Jobs(f) /\ k \in Running(f)
    BY <1>12 DEF Running
  <2>6. \A k \in Running(g) : g.state[g.jobs[k].scope] = "loading"
    BY <1>2, <1>7, <1>9, <2>5 DEF JobsSound
  <2>7. \A k, m \in Running(g) : g.jobs[k].scope = g.jobs[m].scope => k = m
    BY <1>2, <1>9, <2>5 DEF JobsSound
  <2>8. \A s \in Scopes : g.state[s] = "loading" => \E k \in Running(g) : g.jobs[k].scope = s
    <3>1. \A k \in Running(f) : g.jobs[k] = f.jobs[k]
      BY <1>9, <1>12 DEF Running
    <3> QED
      BY <1>2, <1>7, <1>12, <3>1 DEF JobsSound
  <2>9. \A s \in Scopes : g.cancelPending[s] = NoJob \/ g.cancelPending[s] \in Jobs(g)
    BY <1>2, <1>7, <1>9 DEF JobsSound
  <2> QED
    BY <2>1, <2>3, <2>4, <2>6, <2>7, <2>8, <2>9 DEF JobsSound
<1>14. SlotsSound(g)
  <2>1. Slots(g) = Slots(f) \ {j}
    BY <1>9, <1>10 DEF Slots
  <2> QED
    BY <1>2, <1>5, <1>6, <1>7, <2>1 DEF SlotsSound
<1>15. Linked(g, Scopes)
  <2>1. \A k \in Jobs(g) : Pending(g, k) => k # j /\ k \in Jobs(f) /\ Pending(f, k)
    BY <1>9, <1>10
  <2> QED
    BY <1>2, <1>7, <1>9, <2>1 DEF Linked
<1>16. Core(g)
  BY <1>7, <1>11, <1>13, <1>14 DEF Core
<1>17. Core(Pump(g)) /\ Linked(Pump(g), Scopes) /\ Full(Pump(g)) /\ Keeps(g, Pump(g))
  BY <1>15, <1>16, PumpSound
<1> QED
  BY <1>7, <1>8, <1>17 DEF Sound, Keeps, SameComplete

(* A backoff timer fires. *)
LEMMA FiredSound ==
  ASSUME NEW f, Sound(f), NEW j \in Jobs(f), f.jobs[j].at = "timer"
  PROVE  Sound(Enqueue(f, j)) /\ SameComplete(f, Enqueue(f, j))
  BY EnqueueSound DEF Sound, Keeps

(* The fold of AskFor, unfolded: a function on the sets of slices *)
Asks(f, spared, priority, last, g, D) ==
  IF D = {} THEN f
  ELSE IF g[D \ {last[D]}].state[last[D]] \in spared THEN g[D \ {last[D]}]
  ELSE Schedule(g[D \ {last[D]}], last[D], 0, priority[last[D]])
Unfolds(f, spared, priority, last, Ds, g) ==
  g = [D \in Ds |-> Asks(f, spared, priority, last, g, D)]
Fold(f, spared, priority, last, S) ==
  CHOOSE g : Unfolds(f, spared, priority, last, SUBSET S, g)

(* AskFor is that fold. *)
LEMMA AskForIs ==
  ASSUME NEW f, NEW S, NEW spared, NEW priority, NEW last
  PROVE  AskFor(f, S, spared, priority, last) = Fold(f, spared, priority, last, S)[S]
  BY Zenon DEF AskFor, Fold, Unfolds, Asks, MapThenFoldSet

(* The sets of fewer than n slices *)
Fewer(n) == {D \in SUBSET Scopes : Cardinality(D) < n}

(* A set of slices without the last one to ask for has one member fewer. *)
LEMMA OneFewer ==
  ASSUME NEW last \in Orders, NEW D \in SUBSET Scopes, D # {}
  PROVE  /\ last[D] \in D /\ last[D] \in Scopes
         /\ D \ {last[D]} \in SUBSET Scopes
         /\ Cardinality(D) \in Nat
         /\ Cardinality(D \ {last[D]}) \in Nat
         /\ Cardinality(D \ {last[D]}) < Cardinality(D)
<1>1. last[D] \in D
  BY DEF Orders
<1>2. IsFiniteSet(D)
  BY FS_Subset, ScopesAssumption
<1>3. /\ IsFiniteSet(D \ {last[D]})
      /\ Cardinality(D \ {last[D]}) = Cardinality(D) - 1
  BY <1>1, <1>2, FS_RemoveElement
<1>4. Cardinality(D) \in Nat /\ Cardinality(D \ {last[D]}) \in Nat
  BY <1>2, <1>3, FS_CardinalityType
<1> QED
  BY <1>1, <1>3, <1>4

(* The recursion of the fold has a solution: otherwise there is a least n  *)
(* for which the sets of fewer than n slices have none, and the one for    *)
(* n - 1 extends to n.                                                     *)
LEMMA FoldUnfolds ==
  ASSUME NEW f, NEW spared, NEW priority, NEW last \in Orders, NEW S \in SUBSET Scopes
  PROVE  Unfolds(f, spared, priority, last, SUBSET S, Fold(f, spared, priority, last, S))
<1> DEFINE U(Ds, g) == Unfolds(f, spared, priority, last, Ds, g)
           A(g, D) == Asks(f, spared, priority, last, g, D)
           Bad == {n \in Nat : ~ \E g : U(Fewer(n), g)}
<1>0. \A D \in SUBSET Scopes : Cardinality(D) \in Nat /\ Cardinality(D) <= Cardinality(Scopes)
  BY FS_Subset, FS_CardinalityType, ScopesAssumption
<1>1. Bad = {}
  <2> SUFFICES ASSUME Bad # {} PROVE FALSE
    OBVIOUS
  <2>1. PICK n \in Bad : \A m \in Bad : n <= m
    <3>1. Bad \in SUBSET Nat
      OBVIOUS
    <3> HIDE DEF Bad
    <3> QED
      BY <3>1, LeastNumber
  <2>2. n \in Nat /\ ~ \E g : U(Fewer(n), g)
    BY <2>1
  <2>3. CASE n = 0
    <3>1. Fewer(0) = {}
      BY <1>0 DEF Fewer
    <3>2. U({}, [D \in {} |-> 0])
      BY DEF Unfolds
    <3> QED
      BY <2>2, <2>3, <3>1, <3>2
  <2>4. CASE n # 0
    <3>1. n - 1 \in Nat /\ n - 1 \notin Bad
      BY <2>1, <2>2, <2>4
    <3>2. PICK g : U(Fewer(n - 1), g)
      BY <3>1
    <3> DEFINE e == [D \in Fewer(n) |-> A(g, D)]
    <3>3. ASSUME NEW D \in Fewer(n)
          PROVE  A(g, D) = A(e, D)
      <4>1. CASE D = {}
        BY <4>1 DEF Asks
      <4>2. CASE D # {}
        <5> DEFINE C == D \ {last[D]}
        <5>1. C \in Fewer(n - 1) /\ C \in Fewer(n)
          <6>1. D \in SUBSET Scopes /\ Cardinality(D) < n
            BY DEF Fewer
          <6>2. C \in SUBSET Scopes /\ Cardinality(C) \in Nat /\ Cardinality(D) \in Nat
                /\ Cardinality(C) < Cardinality(D)
            BY <4>2, <6>1, OneFewer
          <6> HIDE DEF C
          <6>3. Cardinality(C) < n - 1 /\ Cardinality(C) < n
            BY <2>2, <6>1, <6>2
          <6> QED
            BY <6>2, <6>3 DEF Fewer
        <5>2. g[C] = A(g, C) /\ e[C] = A(g, C)
          BY <3>2, <5>1, Zenon DEF Unfolds
        <5>3. g[C] = e[C]
          BY <5>2
        <5> HIDE DEF e
        <5> QED
          BY <4>2, <5>3, Zenon DEF Asks
      <4> QED
        BY <4>1, <4>2
    <3>4. U(Fewer(n), e)
      <4> HIDE DEF e
      <4>1. e = [D \in Fewer(n) |-> A(g, D)]
        BY DEF e
      <4> QED
        BY <3>3, <4>1 DEF Unfolds
    <3> QED
      BY <2>2, <3>4
  <2> QED
    BY <2>3, <2>4
<1>2. Cardinality(Scopes) \in Nat
  BY <1>0
<1>3. Fewer(Cardinality(Scopes) + 1) = SUBSET Scopes
  BY <1>0, <1>2 DEF Fewer
<1>4. PICK g : U(SUBSET Scopes, g)
  <2> DEFINE n == Cardinality(Scopes) + 1
  <2>1. n \in Nat /\ n \notin Bad
    BY <1>1, <1>2
  <2> QED
    BY <1>3, <2>1
<1> DEFINE e == [D \in SUBSET S |-> g[D]]
<1>5. U(SUBSET S, e)
  <2>1. ASSUME NEW D \in SUBSET S PROVE e[D] = A(e, D)
    <3>1. e[D] = g[D] /\ g[D] = A(g, D)
      BY <1>4, Zenon DEF Unfolds
    <3>2. CASE D = {}
      BY <3>1, <3>2 DEF Asks
    <3>3. CASE D # {}
      <4>1. D \ {last[D]} \in SUBSET S
        OBVIOUS
      <4>2. e[D \ {last[D]}] = g[D \ {last[D]}]
        BY <4>1, Zenon
      <4> HIDE DEF e
      <4> QED
        BY <3>1, <3>3, <4>2, Zenon DEF Asks
    <3> QED
      BY <3>2, <3>3
  <2>2. e = [D \in SUBSET S |-> e[D]]
    OBVIOUS
  <2> HIDE DEF e
  <2> QED
    BY <2>1, <2>2 DEF Unfolds
<1> QED
  BY <1>5, Zenon DEF Fold

(* A job for each of a set of slices, asked for in any order: every one    *)
(* that is asked for is in a state that is not spared, so it may have one. *)
LEMMA AskForSound ==
  ASSUME NEW f, Sound(f), NEW S \in SUBSET Scopes, NEW spared, {"loading", "complete"} \subseteq spared,
         NEW priority \in [Scopes -> Int], NEW last \in Orders
  PROVE  Sound(AskFor(f, S, spared, priority, last))
<1> DEFINE F == Fold(f, spared, priority, last, S)
           Bad == {n \in Nat : \E D \in SUBSET S : Cardinality(D) = n /\ ~Sound(F[D])}
<1>0. Unfolds(f, spared, priority, last, SUBSET S, F)
  BY FoldUnfolds
<1> HIDE DEF F
<1>1. \A D \in SUBSET S : F[D] = Asks(f, spared, priority, last, F, D)
  BY <1>0, Zenon DEF Unfolds
<1>2. Bad = {}
  <2> SUFFICES ASSUME Bad # {} PROVE FALSE
    OBVIOUS
  <2>1. PICK n \in Bad : \A m \in Bad : n <= m
    <3>1. Bad \in SUBSET Nat
      OBVIOUS
    <3> HIDE DEF Bad
    <3> QED
      BY <3>1, LeastNumber
  <2>2. PICK D \in SUBSET S : Cardinality(D) = n /\ ~Sound(F[D])
    BY <2>1
  <2>3. CASE D = {}
    BY <1>1, <2>2, <2>3 DEF Asks
  <2>4. CASE D # {}
    <3> DEFINE s == last[D]
               C == D \ {s}
    <3>1. /\ s \in Scopes /\ C \in SUBSET S
          /\ Cardinality(C) \in Nat /\ Cardinality(D) \in Nat /\ Cardinality(C) < Cardinality(D)
      BY <2>4, OneFewer
    <3>2. Sound(F[C])
      <4>1. Cardinality(C) \notin Bad
        <5> HIDE DEF Bad
        <5> QED
          BY <2>1, <2>2, <3>1
      <4> QED
        BY <3>1, <4>1
    <3>3. F[D] = IF F[C].state[s] \in spared THEN F[C] ELSE Schedule(F[C], s, 0, priority[s])
      BY <1>1, <2>4, Zenon DEF Asks
    <3> HIDE DEF s, C
    <3>4. CASE F[C].state[s] \in spared
      BY <2>2, <3>2, <3>3, <3>4
    <3>5. CASE F[C].state[s] \notin spared
      <4>1. F[C].state[s] \in States
        BY <3>1, <3>2 DEF Sound, Core, Fill
      <4>2. F[C].state[s] \in {"empty", "error"}
        BY <3>5, <4>1 DEF States
      <4>3. priority[s] \in Int
        BY <3>1
      <4>4. Sound(Schedule(F[C], s, 0, priority[s]))
        BY <3>1, <3>2, <4>2, <4>3, ScheduleSound
      <4> QED
        BY <2>2, <3>3, <3>5, <4>4
    <3> QED
      BY <3>4, <3>5
  <2> QED
    BY <2>3, <2>4
<1>3. Sound(F[S])
  <2>1. Cardinality(S) \in Nat
    BY FS_Subset, FS_CardinalityType, ScopesAssumption
  <2> QED
    BY <1>2, <2>1
<1> QED
  BY <1>3, AskForIs DEF F

(* A set of slices that is not empty has a greatest one. *)
LEMMA LastDeclared ==
  [D \in (SUBSET Scopes) \ {{}} |-> Max(D)] \in Orders
<1> DEFINE Unbounded(D) == D # {} /\ ~ \E m \in D : \A x \in D : m >= x
           Bad == {n \in Nat : \E D \in SUBSET Scopes : Cardinality(D) = n /\ Unbounded(D)}
<1>0. Scopes \subseteq Nat /\ \A D \in SUBSET Scopes : IsFiniteSet(D) /\ Cardinality(D) \in Nat
  BY FS_Subset, FS_CardinalityType, ScopesAssumption
<1>1. Bad = {}
  <2> SUFFICES ASSUME Bad # {} PROVE FALSE
    OBVIOUS
  <2>1. PICK n \in Bad : \A m \in Bad : n <= m
    <3>1. Bad \in SUBSET Nat
      OBVIOUS
    <3> HIDE DEF Bad
    <3> QED
      BY <3>1, LeastNumber
  <2>2. PICK D \in SUBSET Scopes : Cardinality(D) = n /\ Unbounded(D)
    BY <2>1
  <2>3. PICK y \in D : TRUE
    BY <2>2
  <2> DEFINE C == D \ {y}
  <2>4. /\ C \in SUBSET Scopes /\ Cardinality(C) \in Nat
        /\ Cardinality(D) \in Nat /\ Cardinality(C) < Cardinality(D)
    <3>1. Cardinality(C) = Cardinality(D) - 1
      BY <1>0, <2>3, FS_RemoveElement
    <3> HIDE DEF C
    <3>2. C \in SUBSET Scopes
      BY DEF C
    <3> QED
      BY <1>0, <3>1, <3>2
  <2>5. ~Unbounded(C)
    <3>1. Cardinality(C) \notin Bad
      <4> HIDE DEF Bad, C
      <4> QED
        BY <2>1, <2>2, <2>4
    <3> HIDE DEF C, Unbounded
    <3> QED
      BY <2>4, <3>1
  <2>6. \A x \in D : x = y \/ x \in C
    OBVIOUS
  <2>7. CASE C = {}
    <3>1. \A x \in D : y >= x
      BY <1>0, <2>6, <2>7
    <3> QED
      BY <2>2, <2>3, <3>1
  <2>8. CASE C # {}
    <3>1. PICK m \in C : \A x \in C : m >= x
      BY <2>5, <2>8
    <3>2. CASE m >= y
      <4>1. m \in D /\ \A x \in D : m >= x
        BY <2>6, <3>1, <3>2
      <4> QED
        BY <2>2, <4>1
    <3>3. CASE ~(m >= y)
      <4>1. \A x \in D : y >= x
        BY <1>0, <2>6, <3>1, <3>3
      <4> QED
        BY <2>2, <2>3, <4>1
    <3> QED
      BY <3>2, <3>3
  <2> QED
    BY <2>7, <2>8
<1>2. ASSUME NEW D \in (SUBSET Scopes) \ {{}} PROVE Max(D) \in D
  <2>1. ~Unbounded(D)
    BY <1>0, <1>1
  <2>2. PICK m \in D : \A x \in D : m >= x
    BY <2>1
  <2> QED
    BY <2>2, Zenon DEF Max
<1> QED
  BY <1>2 DEF Orders

(* A demand for some slices keeps the gate sound. *)
LEMMA EnsureSound ==
  ASSUME NEW f, Sound(f), NEW wanted \in SUBSET Scopes, NEW priority \in Int
  PROVE  Sound(Ensure(f, wanted, priority))
<1> DEFINE last == [D \in (SUBSET Scopes) \ {{}} |-> Max(D)]
           asked == [s \in Scopes |-> priority]
<1>1. last \in Orders
  BY LastDeclared
<1>2. asked \in [Scopes -> Int]
  OBVIOUS
<1>3. Ensure(f, wanted, priority) = AskFor(f, wanted, {"loading", "complete"}, asked, last)
  BY DEF Ensure
<1> HIDE DEF last, asked
<1> QED
  BY <1>1, <1>2, <1>3, AskForSound

(* So does a retry of those in error, in any order. *)
LEMMA AllRetriedSound ==
  ASSUME NEW f, Sound(f), NEW last \in Orders
  PROVE  Sound(AllRetried(f, last))
<1>1. f.priorityOf \in [Scopes -> Int]
  BY DEF Sound, Core, Fill
<1>2. {"loading", "complete"} \subseteq {"empty", "loading", "complete"}
  OBVIOUS
<1> QED
  BY <1>1, <1>2, AskForSound DEF AllRetried

(* The inductive invariant of the demand-fill *)
FillInv == Sound(fill)

(* It holds at first. *)
LEMMA FillInitSound == FillInit => FillInv
<1> SUFFICES ASSUME FillInit PROVE Sound(fill)
  BY DEF FillInv
<1>1. PICK state \in [Scopes -> {"empty", "complete"}], base \in {0, 1} :
        fill = [state |-> state, attemptOf |-> [s \in Scopes |-> 0],
                priorityOf |-> [s \in Scopes |-> 0], cancelPending |-> [s \in Scopes |-> NoJob],
                jobs |-> <<>>, waiting |-> <<>>, inFlight |-> 0, baseMs |-> base]
  BY DEF FillInit
<1>2. /\ Jobs(fill) = {} /\ Running(fill) = {} /\ Slots(fill) = {} /\ DOMAIN fill.waiting = {}
      /\ \A s \in Scopes : fill.state[s] # "loading" /\ fill.cancelPending[s] = NoJob
      /\ fill.inFlight = 0
  BY <1>1 DEF Jobs, Running, Slots
<1>3. fill \in Fill
  <2>1. state \in [Scopes -> States]
    BY DEF States
  <2> QED
    BY <1>1, <2>1 DEF Fill, NoJob
<1>4. QueueSound(fill) /\ JobsSound(fill) /\ Linked(fill, Scopes) /\ Full(fill)
  BY <1>2 DEF QueueSound, JobsSound, Linked, Full
<1>5. SlotsSound(fill)
  BY <1>2, FS_EmptySet, GateAssumption DEF SlotsSound
<1> QED
  BY <1>3, <1>4, <1>5 DEF Sound, Core

(* Every step keeps it. *)
LEMMA FillStepSound == FillInv /\ [FillNext]_fillVars => FillInv'
<1> SUFFICES ASSUME FillInv, [FillNext]_fillVars PROVE FillInv'
  OBVIOUS
<1>0. Sound(fill)
  BY DEF FillInv
<1>1. CASE Demand
  <2>1. PICK wanted \in Wants, priority \in Priorities : fill' = Ensure(fill, wanted, priority)
    BY <1>1 DEF Demand
  <2>2. wanted \in SUBSET Scopes /\ priority \in Int
    BY ScopesAssumption, GateAssumption
  <2>3. Sound(fill')
    BY <1>0, <2>1, <2>2, EnsureSound
  <2> QED
    BY <2>3 DEF FillInv
<1>2. CASE RetryAll
  <2>1. PICK last \in Orders : fill' = AllRetried(fill, last)
    BY <1>2 DEF RetryAll
  <2>2. Sound(fill')
    BY <1>0, <2>1, AllRetriedSound
  <2> QED
    BY <2>2 DEF FillInv
<1>3. CASE FillProgress
  <2>1. CASE LoadSucceeds
    <3>1. PICK j \in Running(fill) : fill' = Loaded(fill, j)
      BY <2>1 DEF LoadSucceeds
    <3>2. Sound(fill')
      BY <1>0, <3>1, LoadedSound
    <3> QED
      BY <3>2 DEF FillInv
  <2>2. CASE LoadFails
    <3>1. PICK j \in Running(fill) : fill' = Failed(fill, j)
      BY <2>2 DEF LoadFails
    <3>2. Sound(fill')
      BY <1>0, <3>1, FailedSound
    <3> QED
      BY <3>2 DEF FillInv
  <2>3. CASE SlotFreed
    <3>1. PICK j \in Jobs(fill) : fill.jobs[j].at = "settled" /\ fill' = Released(fill, j)
      BY <2>3 DEF SlotFreed
    <3>2. Sound(fill')
      BY <1>0, <3>1, ReleasedSound
    <3> QED
      BY <3>2 DEF FillInv
  <2>4. CASE TimerFires
    <3>1. PICK j \in Jobs(fill) : fill.jobs[j].at = "timer" /\ fill' = Enqueue(fill, j)
      BY <2>4 DEF TimerFires
    <3>2. Sound(fill')
      BY <1>0, <3>1, FiredSound
    <3> QED
      BY <3>2 DEF FillInv
  <2> QED
    BY <1>3, <2>1, <2>2, <2>3, <2>4 DEF FillProgress
<1>4. CASE UNCHANGED fillVars
  BY <1>0, <1>4 DEF fillVars, FillInv
<1> QED
  BY <1>1, <1>2, <1>3, <1>4 DEF FillNext

(* It implies what the runs check of the gate. *)
LEMMA FillInvGate == FillInv => GateIsSound
<1> SUFFICES ASSUME Sound(fill) PROVE GateIsSound
  BY DEF FillInv
<1>0. /\ JobsSound(fill) /\ QueueSound(fill) /\ SlotsSound(fill) /\ Full(fill)
      /\ fill.state \in [Scopes -> States]
  BY DEF Sound, Core, Fill
<1>1. \A j \in Jobs(fill) : Alive(fill, j) <=> Pending(fill, j) \/ j \in Running(fill)
  BY DEF Alive, Pending, Running
<1>2. ASSUME NEW s \in Scopes
      PROVE  /\ Cardinality(AliveOf(fill, s)) <= 1
             /\ fill.state[s] = "loading" <=> \E j \in AliveOf(fill, s) : j \in Running(fill)
             /\ fill.state[s] = "complete" => AliveOf(fill, s) = {}
  <2>1. ASSUME NEW j \in AliveOf(fill, s), NEW k \in AliveOf(fill, s) PROVE j = k
    <3>1. /\ j \in Jobs(fill) /\ Alive(fill, j) /\ fill.jobs[j].scope = s
          /\ k \in Jobs(fill) /\ Alive(fill, k) /\ fill.jobs[k].scope = s
      BY DEF AliveOf
    <3>2. CASE j \in Running(fill) /\ k \in Running(fill)
      BY <1>0, <3>1, <3>2 DEF JobsSound
    <3>3. CASE Pending(fill, j) /\ Pending(fill, k)
      BY <1>0, <3>1, <3>3 DEF JobsSound
    <3>5. (Pending(fill, j) \/ j \in Running(fill)) /\ (Pending(fill, k) \/ k \in Running(fill))
      BY <1>1, <3>1
    <3>6. CASE Pending(fill, j)
      <4>1. CASE Pending(fill, k)
        BY <3>3, <3>6, <4>1
      <4>2. CASE k \in Running(fill)
        BY <1>0, <3>1, <3>6, <4>2 DEF JobsSound
      <4> QED
        BY <3>5, <4>1, <4>2
    <3>7. CASE j \in Running(fill)
      <4>1. CASE Pending(fill, k)
        BY <1>0, <3>1, <3>7, <4>1 DEF JobsSound
      <4>2. CASE k \in Running(fill)
        BY <3>2, <3>7, <4>2
      <4> QED
        BY <3>5, <4>1, <4>2
    <3> QED
      BY <3>5, <3>6, <3>7
  <2>2. Cardinality(AliveOf(fill, s)) <= 1
    <3>1. CASE AliveOf(fill, s) = {}
      <4>1. Cardinality(AliveOf(fill, s)) = 0
        BY <3>1, FS_EmptySet
      <4> QED
        BY <4>1
    <3>2. CASE AliveOf(fill, s) # {}
      <4>1. PICK j \in AliveOf(fill, s) : TRUE
        BY <3>2
      <4>2. AliveOf(fill, s) = {j}
        BY <2>1, <4>1
      <4>3. Cardinality(AliveOf(fill, s)) = 1
        BY <4>2, FS_Singleton
      <4> QED
        BY <4>3
    <3> QED
      BY <3>1, <3>2
  <2>3. fill.state[s] = "loading" <=> \E j \in AliveOf(fill, s) : j \in Running(fill)
    <3>1. ASSUME fill.state[s] = "loading" PROVE \E j \in AliveOf(fill, s) : j \in Running(fill)
      <4>1. PICK j \in Running(fill) : fill.jobs[j].scope = s
        BY <1>0, <3>1 DEF JobsSound
      <4> QED
        BY <1>1, <4>1 DEF AliveOf, Running
    <3>2. ASSUME NEW j \in AliveOf(fill, s), j \in Running(fill) PROVE fill.state[s] = "loading"
      BY <1>0, <3>2 DEF JobsSound, AliveOf
    <3> QED
      BY <3>1, <3>2
  <2>4. ASSUME fill.state[s] = "complete", NEW j \in AliveOf(fill, s) PROVE FALSE
    BY <1>0, <1>1, <2>4 DEF AliveOf, JobsSound
  <2> QED
    BY <2>2, <2>3, <2>4
<1>3. NoIdleSlot
  <2>1. Slots(fill) = {j \in Jobs(fill) : fill.jobs[j].at \in {"running", "settled"}}
    BY DEF Slots
  <2> QED
    BY <1>0, <2>1 DEF NoIdleSlot, SlotsSound, Full
<1> QED
  BY <1>2, <1>3 DEF GateIsSound, OneJobPerScope

(* The inductive invariant holds for all slices, demands, priorities and   *)
(* limits of engine.ts.                                                    *)
THEOREM GateInvariant == FillSpec => []FillInv
<1>1. FillInit => FillInv
  BY FillInitSound
<1>2. FillInv /\ [FillNext]_fillVars => FillInv'
  BY FillStepSound
<1> QED
  BY <1>1, <1>2, PTL DEF FillSpec

(* The gate of engine.ts never runs a slice twice, never loses count of its *)
(* slots, and leaves no slot idle while a live job waits.                  *)
THEOREM GateHolds == FillSpec => []GateIsSound
  BY GateInvariant, FillInvGate, PTL

(* A step of the rows does to the gate what the calls above do. *)
LEMMA RowsStepSound == FillInv /\ [RowsNext]_<<fillVars, rowVars>> => FillInv'
<1> SUFFICES ASSUME FillInv, [RowsNext]_<<fillVars, rowVars>> PROVE FillInv'
  OBVIOUS
<1>0. Sound(fill)
  BY DEF FillInv
<1>1. CASE fill' = fill
  BY <1>0, <1>1 DEF FillInv
<1>2. CASE HostReceives
  <2>1. CASE fill' = fill
    BY <1>1, <2>1
  <2>2. CASE fill' = Ensure(fill, Reads, 0)
    <3>1. Sound(fill')
      BY <1>0, <2>2, EnsureSound, ReadsAssumption
    <3> QED
      BY <3>1 DEF FillInv
  <2> QED
    BY <1>2, <2>1, <2>2 DEF HostReceives, HostSubscribes
<1>3. CASE RowsLoaded
  <2>1. PICK j \in Running(fill) : fill' = Loaded(fill, j)
    BY <1>3 DEF RowsLoaded
  <2>2. Sound(fill')
    BY <1>0, <2>1, LoadedSound
  <2> QED
    BY <2>2 DEF FillInv
<1>4. CASE RowsNotLoaded
  <2>1. PICK j \in Running(fill) : fill' = Failed(fill, j)
    BY <1>4 DEF RowsNotLoaded
  <2>2. Sound(fill')
    BY <1>0, <2>1, FailedSound
  <2> QED
    BY <2>2 DEF FillInv
<1>5. CASE FillTurns
  <2>1. FillNext
    BY <1>5 DEF FillTurns, FillNext, FillProgress
  <2> QED
    BY <2>1, FillStepSound
<1> QED
  BY <1>1, <1>2, <1>3, <1>4, <1>5
     DEF RowsNext, LoadsGoOn, ClientReceives, Redial, Drop, Listen, Unlisten, Evict, Write,
         fillVars, rowVars

(* The same when the demands come from the subscriptions of host.ts. *)
THEOREM GateHoldsInRows == RowsSpec => []GateIsSound
<1>1. RowsInit => FillInv
  BY FillInitSound DEF RowsInit
<1>2. FillInv /\ [RowsNext]_<<fillVars, rowVars>> => FillInv'
  BY RowsStepSound
<1>3. FillInv => GateIsSound
  BY FillInvGate
<1> QED
  BY <1>1, <1>2, <1>3, PTL DEF RowsSpec

-----------------------------------------------------------------------------
(* The live rows *)

(* What the query may have answered, and nothing before it has *)
Answers == Results \cup Stored \cup {<<>>}

(* What a client knows after some of the messages under way: the rows the  *)
(* host takes it to have, whether it has them, and whether as complete     *)
Stage ==
  {c \in [rows : Answers, exact : BOOLEAN, complete : BOOLEAN] :
     (c.exact \/ c.rows = <<>>) /\ (c.complete => c.exact)}

DiffOf(old, new, forced) ==
  [patch |-> Patch(ByKey(old), ByKey(new)),
   remove |-> DOMAIN ByKey(old) \ DOMAIN ByKey(new),
   order |-> IF KeysOf(new) # KeysOf(old) \/ forced THEN {KeysOf(new)} ELSE {}]

(* A rows message takes the client from stage c to stage d. *)
Tells(m, c, d) ==
  /\ d.complete = m.complete /\ m.result \in Answers
  /\ m.complete => m.result = d.rows
  /\ \/ m.diff = NoDiff /\ d.rows = c.rows /\ d.exact = c.exact
     \/ \E forced \in BOOLEAN :
          /\ m.diff = DiffOf(c.rows, d.rows, forced)
          /\ d.exact = (c.exact \/ m.diff.order # {})

(* So does each message of a subscription; those of others tell nothing.   *)
Leads(sub, m, c, d) ==
  IF m.sub # sub \/ m.type = "closed" THEN d = c
  ELSE IF m.type = "rows" THEN Tells(m, c, d)
  ELSE m.type = "retryable" /\ m.complete = FALSE /\ d = [c EXCEPT !.complete = FALSE]

(* What the client keeps agrees with a stage, and the host with the last. *)
ClientAt(e, c) == (c.exact => e.snapshot.rows = c.rows) /\ (c.complete => e.snapshot.complete)
HostAt(h, c) ==
  /\ h.prevByKey = ByKey(c.rows) /\ h.prevOrder = KeysOf(c.rows)
  /\ h.authoritativeSent => c.exact /\ c.complete

(* The messages under way to an active entry lead from what the client     *)
(* keeps to what the host takes it to have.                                *)
Chain(e, h, q, C) ==
  /\ C \in [0..Len(q) -> Stage]
  /\ ClientAt(e, C[0])
  /\ \A i \in 1..Len(q) : Leads(e.sub, q[i], C[i - 1], C[i])
  /\ h.sub = e.sub => HostAt(h, C[Len(q)])
Chained(e, h, q) == e.sub # 0 => \E C : Chain(e, h, q, C)

Host ==
  [sub : Nat, last : Nat, lastComplete : BOOLEAN, lastError : BOOLEAN,
   prevByKey : {ByKey(r) : r \in Answers}, prevOrder : {KeysOf(r) : r \in Answers},
   authoritativeSent : BOOLEAN]
Entry ==
  [sub : Nat, watched : BOOLEAN, rowsByKey : {ByKey(r) : r \in Answers},
   snapshot : [rows : Answers, complete : BOOLEAN, error : BOOLEAN, result : Answers]]
Request == [type : {"subscribe", "unsubscribe"}, sub : Nat]
Queue(q) == \E S : q \in Seq(S)

StoreSound(st) ==
  /\ st.rows \in Results \cup Stored \cup {Fails}
  /\ st.moved \in Nat \ {0} /\ st.version \in Nat /\ st.moved <= st.version
  /\ st = [rows |-> st.rows, version |-> st.version, moved |-> st.moved]

(* The host's subscription has answered for the store and the slices.      *)
HostSound(h, st, f) ==
  h.sub # 0 =>
    /\ h.last = st.moved /\ st.rows # Fails
    /\ h.lastComplete = h.authoritativeSent /\ h.authoritativeSent = Complete(f)
    /\ h.authoritativeSent => h.prevByKey = ByKey(st.rows) /\ h.prevOrder = KeysOf(st.rows)

(* The client shows as complete only what is one answer. *)
EntrySound(e) ==
  /\ e \in Entry /\ e.rowsByKey = ByKey(e.snapshot.rows)
  /\ e.snapshot.complete => e.snapshot.rows = e.snapshot.result

(* The ids of subscriptions grow, and a request under way comes after all  *)
(* that the host has answered.                                             *)
IdsGrow(e, h, hostward, clientward, next) ==
  /\ next \in Nat /\ e.sub \in {0, next} /\ h.sub \in 0..next
  /\ \A i \in DOMAIN clientward : clientward[i].sub \in 1..next
  /\ \A i \in DOMAIN hostward : hostward[i].sub \in 1..next
  /\ \A i \in DOMAIN hostward : hostward[i].type = "unsubscribe" => hostward[i].sub # e.sub
  /\ \A i \in DOMAIN hostward : hostward[i].type = "subscribe" =>
       /\ hostward[i].sub > h.sub
       /\ \A k \in DOMAIN clientward : hostward[i].sub > clientward[k].sub
       /\ \A k \in DOMAIN hostward :
            k < i /\ hostward[k].type = "subscribe" => hostward[i].sub > hostward[k].sub

(* An active entry is served, or a message about it is under way. *)
Served(onLine, e, h, hostward, clientward) ==
  /\ onLine /\ e.sub # 0 =>
       \/ \E i \in DOMAIN hostward : hostward[i] = [type |-> "subscribe", sub |-> e.sub]
       \/ h.sub = e.sub
       \/ \E i \in DOMAIN clientward : clientward[i] = [type |-> "closed", sub |-> e.sub]
  /\ ~onLine => hostward = <<>> /\ clientward = <<>> /\ h = Unsubscribed

(* The inductive invariant of the live rows, beside that of the gate *)
RowsInv ==
  /\ FillInv
  /\ StoreSound(store) /\ EntrySound(entry) /\ hosted \in Host
  /\ toHost \in Seq(Request) /\ Queue(toClient)
  /\ HostSound(hosted, store, fill)
  /\ IdsGrow(entry, hosted, toHost, toClient, nextId)
  /\ Served(linked, entry, hosted, toHost, toClient)
  /\ Chained(entry, hosted, toClient)

(* The columns of an answer are functions, all on the same columns. *)
LEMMA RowsAre ==
  /\ \A row \in AllRows : row = [key |-> row.key, cells |-> row.cells]
  /\ \A row \in AllRows : row.cells = [c \in DOMAIN row.cells |-> row.cells[c]]
  /\ \A row, other \in AllRows : DOMAIN row.cells = DOMAIN other.cells
<1>1. ASSUME NEW row \in AllRows, NEW other \in AllRows
      PROVE  /\ row = [key |-> row.key, cells |-> row.cells]
             /\ row.cells = [c \in DOMAIN other.cells |-> row.cells[c]]
             /\ DOMAIN row.cells = DOMAIN other.cells
  <2>1. row = [key |-> row.key, cells |-> [c \in DOMAIN other.cells |-> row.cells[c]]]
    BY ResultsAssumption
  <2> QED
    BY <2>1
<1>2. ASSUME NEW row \in AllRows
      PROVE  row.cells = [c \in DOMAIN row.cells |-> row.cells[c]]
  BY <1>1, Zenon
<1> QED
  BY <1>1, <1>2

(* An answer is a sequence of rows with keys of their own. *)
LEMMA AnswersAre ==
  ASSUME NEW r \in Answers
  PROVE  /\ r \in Seq(AllRows) /\ Len(r) \in Nat /\ DOMAIN r = 1..Len(r)
         /\ \A i \in DOMAIN r : r[i] \in AllRows
         /\ \A i, k \in DOMAIN r : r[i].key = r[k].key => i = k
<1>1. r \in Seq(AllRows)
  BY ResultsAssumption, EmptySeq DEF Answers
<1>2. Len(r) \in Nat /\ DOMAIN r = 1..Len(r) /\ \A i \in DOMAIN r : r[i] \in AllRows
  BY <1>1, LenProperties, ElementOfSeq
<1>3. \A i, k \in DOMAIN r : r[i].key = r[k].key => i = k
  <2>1. CASE r = <<>>
    BY <2>1
  <2>2. CASE r # <<>>
    BY <2>2, ResultsAssumption DEF Answers
  <2> QED
    BY <2>1, <2>2
<1> QED
  BY <1>1, <1>2, <1>3

Keys(r) == {r[i].key : i \in DOMAIN r}

(* ByKey finds the cells of each row. *)
LEMMA ByKeyIs ==
  ASSUME NEW r \in Answers
  PROVE  /\ DOMAIN ByKey(r) = Keys(r)
         /\ ByKey(r) = [k \in Keys(r) |-> ByKey(r)[k]]
         /\ \A i \in DOMAIN r : r[i].key \in Keys(r) /\ ByKey(r)[r[i].key] = r[i].cells
         /\ \A k \in Keys(r) : \E row \in AllRows : row.key = k /\ ByKey(r)[k] = row.cells
         /\ \A k \in Keys(r) : \E i \in DOMAIN r : r[i].key = k
<1>0. /\ \A i \in DOMAIN r : r[i] \in AllRows
      /\ \A i, k \in DOMAIN r : r[i].key = r[k].key => i = k
  BY AnswersAre
<1>1. ByKey(r) = [k \in Keys(r) |-> (CHOOSE row \in ToSet(r) : row.key = k).cells]
  BY Zenon DEF ByKey, Keys
<1>2. DOMAIN ByKey(r) = Keys(r) /\ ByKey(r) = [k \in Keys(r) |-> ByKey(r)[k]]
  BY <1>1
<1>3. ASSUME NEW i \in DOMAIN r PROVE r[i].key \in Keys(r) /\ ByKey(r)[r[i].key] = r[i].cells
  <2>1. r[i].key \in Keys(r)
    BY DEF Keys
  <2>2. r[i] \in ToSet(r) /\ \A row \in ToSet(r) : row.key = r[i].key => row = r[i]
    BY <1>0 DEF ToSet
  <2>3. (CHOOSE row \in ToSet(r) : row.key = r[i].key) = r[i]
    BY <2>2, Zenon
  <2> QED
    BY <1>1, <2>1, <2>3
<1>4. \A k \in Keys(r) : \E i \in DOMAIN r : r[i].key = k
  BY DEF Keys
<1>5. \A k \in Keys(r) : \E row \in AllRows : row.key = k /\ ByKey(r)[k] = row.cells
  BY <1>0, <1>3, <1>4
<1> QED
  BY <1>2, <1>3, <1>4, <1>5

(* The order of the keys and the cells of each are all there is to an      *)
(* answer.                                                                 *)
LEMMA AnswerDetermined ==
  ASSUME NEW a \in Answers, NEW b \in Answers, KeysOf(a) = KeysOf(b), ByKey(a) = ByKey(b)
  PROVE  a = b
<1>1. DOMAIN a = DOMAIN b /\ \A i \in DOMAIN a : a[i].key = b[i].key
  <2>1. DOMAIN KeysOf(a) = DOMAIN a /\ DOMAIN KeysOf(b) = DOMAIN b
    BY DEF KeysOf
  <2>2. \A i \in DOMAIN a : KeysOf(a)[i] = a[i].key
    BY DEF KeysOf
  <2>3. \A i \in DOMAIN b : KeysOf(b)[i] = b[i].key
    BY DEF KeysOf
  <2> QED
    BY <2>1, <2>2, <2>3
<1>2. ASSUME NEW i \in DOMAIN a PROVE a[i] = b[i]
  <2>1. a[i].cells = b[i].cells
    <3>1. ByKey(a)[a[i].key] = a[i].cells
      BY ByKeyIs
    <3>2. ByKey(b)[b[i].key] = b[i].cells
      BY <1>1, ByKeyIs
    <3> QED
      BY <1>1, <3>1, <3>2
  <2>2. a[i] \in AllRows /\ b[i] \in AllRows
    BY <1>1, AnswersAre
  <2>3. a[i] = [key |-> a[i].key, cells |-> a[i].cells] /\ b[i] = [key |-> b[i].key, cells |-> b[i].cells]
    BY <2>2, RowsAre
  <2> QED
    BY <1>1, <2>1, <2>3
<1>3. /\ a \in Seq(AllRows) /\ b \in Seq(AllRows) /\ DOMAIN a = 1..Len(a) /\ DOMAIN b = 1..Len(b)
      /\ Len(a) \in Nat /\ Len(b) \in Nat
  BY AnswersAre
<1>4. Len(a) = Len(b)
  <2>1. \A m, n \in Nat : 1..m = 1..n => m = n
    OBVIOUS
  <2> QED
    BY <1>1, <1>3, <2>1, Zenon
<1> QED
  BY <1>2, <1>3, <1>4, SeqEqual

(* The empty answer has no keys, and no other has none. *)
LEMMA NothingIs ==
  /\ <<>> \in Answers /\ Keys(<<>>) = {} /\ KeysOf(<<>>) = <<>> /\ ByKey(<<>>) = <<>>
  /\ \A r \in Answers : KeysOf(r) = KeysOf(<<>>) => r = <<>>
<1>1. <<>> \in Answers
  BY DEF Answers
<1>2. Keys(<<>>) = {} /\ KeysOf(<<>>) = <<>>
  BY DEF Keys, KeysOf
<1>3. ByKey(<<>>) = <<>>
  <2>1. DOMAIN ByKey(<<>>) = {} /\ ByKey(<<>>) = [k \in {} |-> ByKey(<<>>)[k]]
    BY <1>1, <1>2, ByKeyIs
  <2> QED
    BY <2>1
<1>4. ASSUME NEW r \in Answers, KeysOf(r) = KeysOf(<<>>) PROVE r = <<>>
  <2>1. DOMAIN r = {}
    BY <1>4 DEF KeysOf
  <2>2. r \in Seq(AllRows) /\ Len(r) \in Nat /\ DOMAIN r = 1..Len(r)
    BY AnswersAre
  <2>3. Len(r) = 0
    BY <2>1, <2>2
  <2> QED
    BY <2>2, <2>3, EmptySeq
<1> QED
  BY <1>1, <1>2, <1>3, <1>4

(* What diffRows() says of a key *)
LEMMA PatchIs ==
  ASSUME NEW c \in Answers, NEW d \in Answers
  PROVE  LET P == Patch(ByKey(c), ByKey(d))
             changed(k) == {x \in DOMAIN ByKey(d)[k] : k \notin Keys(c) \/ ByKey(d)[k][x] # ByKey(c)[k][x]}
         IN  /\ DOMAIN P = {k \in Keys(d) : k \notin Keys(c) \/ changed(k) # {}}
             /\ \A k \in DOMAIN P : P[k] = [x \in changed(k) |-> ByKey(d)[k][x]]
<1>1. DOMAIN ByKey(c) = Keys(c) /\ DOMAIN ByKey(d) = Keys(d)
  BY ByKeyIs
<1> QED
  BY <1>1 DEF Patch

(* Where the client has the rows the host started from, or the host none,  *)
(* the patch gives each row of the answer its cells; and no other row is   *)
(* left where it has them.                                                 *)
LEMMA MergedIs ==
  ASSUME NEW old \in Answers, NEW c \in Answers, NEW d \in Answers, c = old \/ c = <<>>,
         NEW forced
  PROVE  LET M == Merged(ByKey(old), DiffOf(c, d, forced))
         IN  /\ Keys(d) \subseteq DOMAIN M
             /\ \A k \in Keys(d) : M[k] = ByKey(d)[k]
             /\ c = old => M = ByKey(d)
<1> DEFINE P == Patch(ByKey(c), ByKey(d))
           diff == DiffOf(c, d, forced)
           M == Merged(ByKey(old), diff)
           kept == Keys(old) \ (Keys(c) \ Keys(d))
           changed(k) == {x \in DOMAIN ByKey(d)[k] : k \notin Keys(c) \/ ByKey(d)[k][x] # ByKey(c)[k][x]}
<1>1. DOMAIN ByKey(c) = Keys(c) /\ DOMAIN ByKey(d) = Keys(d) /\ DOMAIN ByKey(old) = Keys(old)
  BY ByKeyIs
<1>2. diff.patch = P /\ diff.remove = Keys(c) \ Keys(d)
  BY <1>1 DEF DiffOf
<1>3. /\ DOMAIN M = kept \cup DOMAIN P
      /\ \A k \in DOMAIN M : M[k] = IF k \notin DOMAIN P THEN ByKey(old)[k]
                                   ELSE IF k \in kept THEN Overlaid(P[k], ByKey(old)[k]) ELSE P[k]
      /\ M = [k \in DOMAIN M |-> M[k]]
  <2> DEFINE kk == DOMAIN ByKey(old) \ diff.remove
  <2>1. kk = kept
    BY <1>1, <1>2
  <2>2. M = [k \in kk \cup DOMAIN diff.patch |->
               IF k \notin DOMAIN diff.patch THEN ByKey(old)[k]
               ELSE IF k \in kk THEN Overlaid(diff.patch[k], ByKey(old)[k]) ELSE diff.patch[k]]
    BY Zenon DEF Merged
  <2> HIDE DEF kk, M, kept, diff, P
  <2>3. M = [k \in kept \cup DOMAIN P |->
               IF k \notin DOMAIN P THEN ByKey(old)[k]
               ELSE IF k \in kept THEN Overlaid(P[k], ByKey(old)[k]) ELSE P[k]]
    BY <1>2, <2>1, <2>2
  <2> QED
    BY <2>3
<1>4. /\ DOMAIN P = {k \in Keys(d) : k \notin Keys(c) \/ changed(k) # {}}
      /\ \A k \in DOMAIN P : P[k] = [x \in changed(k) |-> ByKey(d)[k][x]]
  BY PatchIs
<1>5. Keys(<<>>) = {}
  BY NothingIs
<1>6. Keys(d) \subseteq DOMAIN M
  BY <1>3, <1>4, <1>5
<1>7. ASSUME NEW k \in Keys(d) PROVE M[k] = ByKey(d)[k]
  <2> DEFINE now == ByKey(d)[k]
             was == ByKey(old)[k]
  <2>1. now = [x \in DOMAIN now |-> now[x]]
    <3>1. PICK row \in AllRows : ByKey(d)[k] = row.cells
      BY ByKeyIs
    <3> QED
      BY <3>1, RowsAre
  <2>2. ASSUME k \in Keys(old) PROVE was = [x \in DOMAIN now |-> was[x]] /\ DOMAIN was = DOMAIN now
    <3>1. PICK row \in AllRows : ByKey(d)[k] = row.cells
      BY ByKeyIs
    <3>2. PICK other \in AllRows : ByKey(old)[k] = other.cells
      BY <2>2, ByKeyIs
    <3>3. DOMAIN other.cells = DOMAIN row.cells /\ other.cells = [x \in DOMAIN other.cells |-> other.cells[x]]
      BY RowsAre
    <3> QED
      BY <3>1, <3>2, <3>3
  <2>3. k \in Keys(c) => c = old /\ k \in Keys(old)
    BY <1>5
  <2>4. k \in Keys(old) => k \in kept
    OBVIOUS
  <2>5. CASE k \notin DOMAIN P
    <3>1. k \in Keys(c) /\ changed(k) = {}
      BY <1>4, <2>5
    <3>2. c = old /\ k \in Keys(old)
      BY <2>3, <3>1
    <3>3. \A x \in DOMAIN now : now[x] = was[x]
      BY <3>1, <3>2
    <3>4. was = [x \in DOMAIN now |-> was[x]]
      BY <2>2, <3>2
    <3>5. M[k] = was
      BY <1>3, <1>6, <2>5
    <3> HIDE DEF now, was, M
    <3> QED
      BY <2>1, <3>3, <3>4, <3>5 DEF now
  <2>6. CASE k \in DOMAIN P /\ k \in Keys(old)
    <3>1. M[k] = Overlaid(P[k], was)
      BY <1>3, <1>6, <2>4, <2>6
    <3>2. P[k] = [x \in changed(k) |-> now[x]]
      BY <1>4, <2>6
    <3>3. changed(k) \in SUBSET DOMAIN now
      OBVIOUS
    <3>4. \A x \in DOMAIN now : x \notin changed(k) => now[x] = was[x]
      BY <2>3
    <3>5. was = [x \in DOMAIN now |-> was[x]] /\ DOMAIN was = DOMAIN now
      BY <2>2, <2>6
    <3> HIDE DEF now, was, M, P, changed
    <3>6. Overlaid(P[k], was) = [x \in DOMAIN now |-> now[x]]
      BY <3>2, <3>3, <3>4, <3>5 DEF Overlaid
    <3> QED
      BY <2>1, <3>1, <3>6 DEF now
  <2>7. CASE k \in DOMAIN P /\ k \notin Keys(old)
    <3>1. M[k] = P[k]
      BY <1>3, <1>6, <2>7
    <3>2. P[k] = [x \in changed(k) |-> now[x]]
      BY <1>4, <2>7
    <3>3. changed(k) = DOMAIN now
      BY <2>3, <2>7
    <3> HIDE DEF now, M, P, changed
    <3> QED
      BY <2>1, <3>1, <3>2, <3>3 DEF now
  <2> QED
    BY <2>5, <2>6, <2>7
<1>8. ASSUME c = old PROVE M = ByKey(d)
  <2>1. DOMAIN M = Keys(d)
    BY <1>3, <1>4, <1>6, <1>8
  <2>2. ByKey(d) = [k \in Keys(d) |-> ByKey(d)[k]]
    BY ByKeyIs
  <2> HIDE DEF M
  <2> QED
    BY <1>3, <1>7, <2>1, <2>2
<1> QED
  BY <1>6, <1>7, <1>8

(* One more key of the order, and the sequences that it makes *)
Lists(order, byKey, f, n) ==
  IF n = 0 THEN <<>>
  ELSE IF order[n] \in DOMAIN byKey
  THEN Append(f[n - 1], [key |-> order[n], cells |-> byKey[order[n]]])
  ELSE f[n - 1]
Listing(order, byKey, f) == f = [n \in 0..Len(order) |-> Lists(order, byKey, f, n)]

(* So the rows of an order are made. *)
LEMMA ListedIsListing ==
  ASSUME NEW order, NEW byKey
  PROVE  Listed(order, byKey) = (CHOOSE f : Listing(order, byKey, f))[Len(order)]
  BY Zenon DEF Listed, Listing, Lists

(* The keys of an answer, with its cells, are the answer. *)
LEMMA ListedIs ==
  ASSUME NEW d \in Answers, NEW M, Keys(d) \subseteq DOMAIN M, \A k \in Keys(d) : M[k] = ByKey(d)[k]
  PROVE  Listed(KeysOf(d), M) = d
<1> DEFINE order == KeysOf(d)
           len == Len(d)
           pre == [n \in 0..len |-> SubSeq(d, 1, n)]
           F == CHOOSE f : Listing(order, M, f)
<1>1. d \in Seq(AllRows) /\ len \in Nat /\ DOMAIN d = 1..len /\ \A i \in 1..len : d[i] \in AllRows
  BY AnswersAre
<1>2. /\ order = [i \in 1..len |-> d[i].key] /\ Len(order) = len
  <2>1. order = [i \in 1..len |-> d[i].key]
    BY <1>1 DEF KeysOf
  <2>2. order \in Seq({d[i].key : i \in 1..len})
    BY <1>1, <2>1
  <2>3. DOMAIN order = 1..Len(order) /\ Len(order) \in Nat
    BY <2>2, LenProperties
  <2>4. \A m, n \in Nat : 1..m = 1..n => m = n
    OBVIOUS
  <2> QED
    BY <1>1, <2>1, <2>3, <2>4
<1>3. ASSUME NEW i \in 1..len
      PROVE  order[i] \in DOMAIN M /\ [key |-> order[i], cells |-> M[order[i]]] = d[i]
  <2>1. d[i].key \in Keys(d) /\ ByKey(d)[d[i].key] = d[i].cells
    BY <1>1, ByKeyIs
  <2>2. d[i] = [key |-> d[i].key, cells |-> d[i].cells]
    BY <1>1, RowsAre
  <2> QED
    BY <1>2, <2>1, <2>2
<1>4. SubSeq(d, 1, 0) = <<>> /\ SubSeq(d, 1, len) = d
  BY <1>1, SubSeqEmpty, SubSeqFull
<1>5. ASSUME NEW i \in 1..len PROVE SubSeq(d, 1, i) = Append(SubSeq(d, 1, i - 1), d[i])
  <2>1. i - 1 \in 0..len /\ i \in Int /\ i - 1 \in Int
    BY <1>1
  <2>2. /\ SubSeq(d, 1, i) \in Seq(AllRows) /\ Len(SubSeq(d, 1, i)) = i
        /\ \A n \in 1..i : SubSeq(d, 1, i)[n] = d[n]
    BY <1>1, <2>1, SubSeqProperties
  <2>3. /\ SubSeq(d, 1, i - 1) \in Seq(AllRows) /\ Len(SubSeq(d, 1, i - 1)) = i - 1
        /\ \A n \in 1..i - 1 : SubSeq(d, 1, i - 1)[n] = d[n]
    BY <1>1, <2>1, SubSeqProperties
  <2> DEFINE a == SubSeq(d, 1, i)
             b == SubSeq(d, 1, i - 1)
  <2> HIDE DEF a, b
  <2>4. /\ Append(b, d[i]) \in Seq(AllRows) /\ Len(Append(b, d[i])) = i
        /\ \A n \in 1..i : Append(b, d[i])[n] = IF n = i THEN d[i] ELSE b[n]
    BY <1>1, <2>1, <2>3, AppendProperties DEF b
  <2>5. \A n \in 1..i : a[n] = Append(b, d[i])[n]
    BY <2>1, <2>2, <2>3, <2>4 DEF a, b
  <2>6. a = Append(b, d[i])
    BY <2>2, <2>4, <2>5, SeqEqual DEF a
  <2> QED
    BY <2>6 DEF a, b
<1>6. Listing(order, M, pre)
  <2>1. ASSUME NEW n \in 0..len PROVE SubSeq(d, 1, n) = Lists(order, M, pre, n)
    <3>1. CASE n = 0
      BY <1>4, <3>1 DEF Lists
    <3>2. CASE n # 0
      <4>1. n \in 1..len /\ n - 1 \in 0..len
        BY <1>1, <3>2
      <4>2. pre[n - 1] = SubSeq(d, 1, n - 1)
        BY <4>1
      <4> HIDE DEF pre, order
      <4> QED
        BY <1>3, <1>5, <3>2, <4>1, <4>2 DEF Lists
    <3> QED
      BY <3>1, <3>2
  <2>2. pre = [n \in 0..Len(order) |-> Lists(order, M, pre, n)]
    <3>1. pre = [n \in 0..len |-> Lists(order, M, pre, n)]
      BY <2>1
    <3> HIDE DEF pre, order
    <3> QED
      BY <1>2, <3>1
  <2> QED
    BY <2>2 DEF Listing
<1>7. Listing(order, M, F)
  BY <1>6, Zenon
<1> HIDE DEF F
<1>8. \A n \in 0..len : F[n] = Lists(order, M, F, n)
  <2>1. F = [n \in 0..len |-> Lists(order, M, F, n)]
    BY <1>2, <1>7 DEF Listing
  <2> QED
    BY <2>1, Zenon
<1> DEFINE Bad == {n \in 0..len : F[n] # SubSeq(d, 1, n)}
<1>9. Bad = {}
  <2> SUFFICES ASSUME Bad # {} PROVE FALSE
    OBVIOUS
  <2>1. PICK n \in Bad : \A m \in Bad : n <= m
    <3>1. Bad \in SUBSET Nat
      BY <1>1
    <3> HIDE DEF Bad
    <3> QED
      BY <3>1, LeastNumber
  <2>2. CASE n = 0
    BY <1>4, <1>8, <2>1, <2>2 DEF Lists
  <2>3. CASE n # 0
    <3>1. n \in 1..len /\ n - 1 \in 0..len /\ ~(n <= n - 1)
      BY <1>1, <2>1, <2>3
    <3>2. F[n - 1] = SubSeq(d, 1, n - 1)
      BY <2>1, <3>1
    <3>3. F[n] = Append(F[n - 1], d[n])
      BY <1>3, <1>8, <2>3, <3>1 DEF Lists
    <3> QED
      BY <1>5, <2>1, <3>1, <3>2, <3>3
  <2> QED
    BY <2>2, <2>3
<1>10. F[len] = d
  BY <1>1, <1>4, <1>9
<1> QED
  BY <1>2, <1>10, ListedIsListing DEF F

(* Rows with the cells of an answer of the same order are the answer. *)
LEMMA SwappedIs ==
  ASSUME NEW c \in Answers, NEW d \in Answers, KeysOf(c) = KeysOf(d)
  PROVE  Swapped(c, ByKey(d)) = d
<1>1. DOMAIN c = DOMAIN d /\ \A i \in DOMAIN c : c[i].key = d[i].key
  <2>1. DOMAIN KeysOf(c) = DOMAIN c /\ DOMAIN KeysOf(d) = DOMAIN d
    BY DEF KeysOf
  <2>2. \A i \in DOMAIN c : KeysOf(c)[i] = c[i].key
    BY DEF KeysOf
  <2>3. \A i \in DOMAIN d : KeysOf(d)[i] = d[i].key
    BY DEF KeysOf
  <2> QED
    BY <2>1, <2>2, <2>3
<1>2. ASSUME NEW i \in DOMAIN c
      PROVE  c[i].key \in DOMAIN ByKey(d) /\ [key |-> c[i].key, cells |-> ByKey(d)[c[i].key]] = d[i]
  <2>1. d[i].key \in Keys(d) /\ ByKey(d)[d[i].key] = d[i].cells /\ DOMAIN ByKey(d) = Keys(d)
    BY <1>1, ByKeyIs
  <2>2. d[i] = [key |-> d[i].key, cells |-> d[i].cells]
    BY <1>1, AnswersAre, RowsAre
  <2> QED
    BY <1>1, <2>1, <2>2
<1>3. Swapped(c, ByKey(d)) = [i \in DOMAIN d |-> d[i]]
  BY <1>1, <1>2 DEF Swapped
<1>4. d = [i \in DOMAIN d |-> d[i]]
  BY AnswersAre, LenProperties
<1> QED
  BY <1>3, <1>4

(* A diff that says nothing is one of an answer with itself. *)
LEMMA NothingMoved ==
  ASSUME NEW c \in Answers, NEW d \in Answers, NEW forced \in BOOLEAN, DiffOf(c, d, forced) = NoDiff
  PROVE  c = d /\ ~forced
<1> DEFINE P == Patch(ByKey(c), ByKey(d))
           changed(k) == {x \in DOMAIN ByKey(d)[k] : k \notin Keys(c) \/ ByKey(d)[k][x] # ByKey(c)[k][x]}
<1>1. DOMAIN ByKey(c) = Keys(c) /\ DOMAIN ByKey(d) = Keys(d)
  BY ByKeyIs
<1>2. P = <<>> /\ Keys(c) \ Keys(d) = {} /\ KeysOf(d) = KeysOf(c) /\ ~forced
  BY <1>1 DEF DiffOf, NoDiff
<1>3. DOMAIN P = {k \in Keys(d) : k \notin Keys(c) \/ changed(k) # {}}
  BY PatchIs
<1>4. DOMAIN P = {}
  BY <1>2
<1>5. Keys(c) = Keys(d)
  BY <1>2, <1>3, <1>4
<1>6. ASSUME NEW k \in Keys(d) PROVE ByKey(c)[k] = ByKey(d)[k]
  <2>1. changed(k) = {}
    BY <1>3, <1>4
  <2>2. PICK row \in AllRows : ByKey(d)[k] = row.cells
    BY ByKeyIs
  <2>3. PICK other \in AllRows : ByKey(c)[k] = other.cells
    BY <1>5, ByKeyIs
  <2>4. /\ DOMAIN other.cells = DOMAIN row.cells
        /\ row.cells = [x \in DOMAIN row.cells |-> row.cells[x]]
        /\ other.cells = [x \in DOMAIN other.cells |-> other.cells[x]]
    BY RowsAre
  <2>5. \A x \in DOMAIN row.cells : row.cells[x] = other.cells[x]
    BY <2>1, <2>2, <2>3
  <2> QED
    BY <2>2, <2>3, <2>4, <2>5
<1>7. ByKey(c) = ByKey(d)
  BY <1>5, <1>6, ByKeyIs
<1> QED
  BY <1>2, <1>7, AnswerDetermined

(* A rows message that leads from what the client keeps to another stage   *)
(* is applied so that the client keeps that.                               *)
LEMMA ApplySound ==
  ASSUME EntrySound(entry), NEW c \in Stage, NEW d \in Stage, ClientAt(entry, c),
         NEW m, Tells(m, c, d)
  PROVE  /\ EntrySound(ApplyDiff(m)) /\ ClientAt(ApplyDiff(m), d)
         /\ ApplyDiff(m).sub = entry.sub
<1> DEFINE old == entry.snapshot.rows
           merged == Merged(entry.rowsByKey, m.diff)
           ordered == Listed(CHOOSE order \in m.diff.order : TRUE, merged)
           swapped == Swapped(old, merged)
           after(byKey, rows) == [entry EXCEPT !.rowsByKey = byKey, !.snapshot = Shown(rows, m)]
<1>1. /\ entry \in Entry /\ entry.rowsByKey = ByKey(old) /\ old \in Answers
      /\ c.rows \in Answers /\ d.rows \in Answers
      /\ c.exact \in BOOLEAN /\ d.exact \in BOOLEAN /\ d.complete \in BOOLEAN
      /\ c.exact => c.rows = old
      /\ ~c.exact => c.rows = <<>>
      /\ ~d.exact => d.rows = <<>>
      /\ d.complete => d.exact
  BY DEF EntrySound, Entry, Stage, ClientAt
<1>2. /\ d.complete = m.complete /\ m.result \in Answers
      /\ m.complete => m.result = d.rows
  BY DEF Tells
<1>3. ApplyDiff(m) = IF m.diff = NoDiff THEN [entry EXCEPT !.snapshot = Shown(@.rows, m)]
                     ELSE IF m.diff.order # {} THEN after(ByKey(ordered), ordered)
                     ELSE after(merged, swapped)
  BY Zenon DEF ApplyDiff
<1> HIDE DEF merged, ordered, swapped
<1>4. ASSUME NEW rows \in Answers, d.exact => rows = d.rows,
             ApplyDiff(m) = after(ByKey(rows), rows)
      PROVE  /\ EntrySound(ApplyDiff(m)) /\ ClientAt(ApplyDiff(m), d)
             /\ ApplyDiff(m).sub = entry.sub
  <2>1. ByKey(rows) \in {ByKey(r) : r \in Answers}
    OBVIOUS
  <2> DEFINE x == ByKey(rows)
  <2> HIDE DEF x
  <2>2. /\ ApplyDiff(m) \in Entry /\ ApplyDiff(m).sub = entry.sub
        /\ ApplyDiff(m).rowsByKey = x /\ ApplyDiff(m).snapshot.rows = rows
        /\ ApplyDiff(m).snapshot.complete = m.complete /\ ApplyDiff(m).snapshot.result = m.result
    <3> DEFINE shown == [rows |-> rows, complete |-> m.complete, error |-> FALSE, result |-> m.result]
    <3>1. shown \in [rows : Answers, complete : BOOLEAN, error : BOOLEAN, result : Answers]
      BY <1>1, <1>2
    <3>2. ApplyDiff(m) = [entry EXCEPT !.rowsByKey = x, !.snapshot = shown]
      BY <1>4 DEF Shown, x
    <3>3. x \in {ByKey(r) : r \in Answers}
      BY <2>1 DEF x
    <3>4. shown.rows = rows /\ shown.complete = m.complete /\ shown.result = m.result
      OBVIOUS
    <3> HIDE DEF shown
    <3> QED
      BY <1>1, <3>1, <3>2, <3>3, <3>4 DEF Entry
  <2> QED
    BY <1>1, <1>2, <1>4, <2>2 DEF EntrySound, ClientAt, x
<1>5. CASE m.diff = NoDiff
  <2>1. c.rows = d.rows /\ d.exact = c.exact
    <3>1. CASE d.rows = c.rows /\ d.exact = c.exact
      BY <3>1
    <3>2. CASE \E forced \in BOOLEAN :
                 m.diff = DiffOf(c.rows, d.rows, forced) /\ d.exact = (c.exact \/ m.diff.order # {})
      <4>1. c.rows = d.rows
        BY <1>1, <1>5, <3>2, NothingMoved
      <4>2. m.diff.order = {}
        BY <1>5 DEF NoDiff
      <4> QED
        BY <1>1, <3>2, <4>1, <4>2
    <3> QED
      BY <3>1, <3>2 DEF Tells
  <2>2. ApplyDiff(m) = after(ByKey(old), old)
    <3>1. ApplyDiff(m) = [entry EXCEPT !.snapshot = Shown(old, m)]
      BY <1>3, <1>5
    <3>2. [entry EXCEPT !.rowsByKey = entry.rowsByKey] = entry
      BY <1>1 DEF Entry
    <3> QED
      BY <1>1, <3>1, <3>2 DEF Entry
  <2> QED
    BY <1>1, <1>4, <2>1, <2>2
<1>6. CASE m.diff # NoDiff
  <2>1. PICK forced \in BOOLEAN :
          m.diff = DiffOf(c.rows, d.rows, forced) /\ d.exact = (c.exact \/ m.diff.order # {})
    BY <1>6 DEF Tells
  <2>2. m.diff.order = IF KeysOf(d.rows) # KeysOf(c.rows) \/ forced THEN {KeysOf(d.rows)} ELSE {}
    BY <2>1 DEF DiffOf
  <2>3. merged = Merged(ByKey(old), DiffOf(c.rows, d.rows, forced))
    BY <1>1, <2>1 DEF merged
  <2>4. /\ Keys(d.rows) \subseteq DOMAIN merged
        /\ \A k \in Keys(d.rows) : merged[k] = ByKey(d.rows)[k]
        /\ c.rows = old => merged = ByKey(d.rows)
    BY <1>1, <2>3, MergedIs
  <2>5. CASE m.diff.order # {}
    <3>1. m.diff.order = {KeysOf(d.rows)}
      BY <2>2, <2>5
    <3>2. (CHOOSE order \in m.diff.order : TRUE) = KeysOf(d.rows)
      BY <3>1
    <3>3. ordered = d.rows
      BY <1>1, <2>4, <3>2, ListedIs DEF ordered
    <3> QED
      BY <1>1, <1>3, <1>4, <1>6, <2>5, <3>3
  <2>6. CASE m.diff.order = {}
    <3>1. KeysOf(d.rows) = KeysOf(c.rows) /\ ~forced /\ d.exact = c.exact
      BY <1>1, <2>1, <2>2, <2>6
    <3>2. c.exact
      <4> SUFFICES ASSUME ~c.exact PROVE FALSE
        BY <1>1
      <4>1. c.rows = <<>> /\ d.rows = <<>>
        BY <1>1, <3>1
      <4>2. DiffOf(<<>>, <<>>, FALSE) = NoDiff
        <5>1. DOMAIN ByKey(<<>>) = {} /\ <<>> \in Answers /\ Keys(<<>>) = {}
          BY NothingIs, ByKeyIs
        <5>2. DOMAIN Patch(ByKey(<<>>), ByKey(<<>>)) = {}
          BY <5>1, PatchIs
        <5>3. Patch(ByKey(<<>>), ByKey(<<>>)) = <<>>
          <6>1. Patch(ByKey(<<>>), ByKey(<<>>)) =
                  [k \in DOMAIN Patch(ByKey(<<>>), ByKey(<<>>)) |-> Patch(ByKey(<<>>), ByKey(<<>>))[k]]
            BY DEF Patch
          <6> QED
            BY <5>2, <6>1
        <5> QED
          BY <5>1, <5>3 DEF DiffOf, NoDiff
      <4> QED
        BY <1>6, <2>1, <3>1, <4>1, <4>2
    <3>3. c.rows = old /\ merged = ByKey(d.rows)
      BY <1>1, <2>4, <3>2
    <3>4. swapped = d.rows
      BY <1>1, <3>1, <3>3, SwappedIs DEF swapped
    <3> QED
      BY <1>1, <1>3, <1>4, <1>6, <2>6, <3>3, <3>4
  <2> QED
    BY <2>5, <2>6
<1> QED
  BY <1>5, <1>6

(* A message is appended to what is under way. *)
LEMMA QueueAppend ==
  ASSUME NEW q, Queue(q), NEW m
  PROVE  /\ Queue(Append(q, m))
         /\ Len(q) \in Nat /\ DOMAIN q = 1..Len(q)
         /\ Len(Append(q, m)) = Len(q) + 1 /\ DOMAIN Append(q, m) = 1..(Len(q) + 1)
         /\ \A i \in 1..Len(q) : Append(q, m)[i] = q[i]
         /\ Append(q, m)[Len(q) + 1] = m
<1>1. PICK S : q \in Seq(S)
  BY DEF Queue
<1> DEFINE T == S \cup {m}
<1>2. q \in Seq(T) /\ m \in T
  BY <1>1, SeqMonotonic
<1> HIDE DEF T
<1>3. Append(q, m) \in Seq(T)
  BY <1>2, AppendProperties
<1> QED
  BY <1>2, <1>3, AppendProperties, LenProperties DEF Queue

(* The head of what is under way is taken. *)
LEMMA QueueTail ==
  ASSUME NEW q, Queue(q), q # <<>>
  PROVE  /\ Queue(Tail(q))
         /\ Len(q) \in Nat \ {0} /\ DOMAIN q = 1..Len(q) /\ Head(q) = q[1]
         /\ Len(Tail(q)) = Len(q) - 1 /\ DOMAIN Tail(q) = 1..(Len(q) - 1)
         /\ \A i \in 1..(Len(q) - 1) : Tail(q)[i] = q[i + 1]
<1>1. PICK S : q \in Seq(S)
  BY DEF Queue
<1>2. Tail(q) \in Seq(S)
  BY <1>1, HeadTailProperties
<1> QED
  BY <1>1, <1>2, HeadTailProperties, LenProperties, EmptySeq DEF Queue

(* The initial state satisfies the invariant: nobody listens yet. *)
LEMMA RowsInitSound == RowsInit => RowsInv
<1> SUFFICES ASSUME RowsInit PROVE RowsInv
  OBVIOUS
<1> USE DEF RowsInit
<1>1. FillInv
  BY FillInitSound
<1>2. StoreSound(store)
  BY DEF StoreSound
<1>3. <<>> \in {ByKey(r) : r \in Answers} /\ <<>> \in {KeysOf(r) : r \in Answers} /\ <<>> \in Answers
  BY NothingIs
<1>4. EntrySound(entry)
  BY <1>3, NothingIs DEF EntrySound, Entry, NoEntry
<1>5. hosted \in Host
  BY <1>3 DEF Host, Unsubscribed
<1>6. toHost \in Seq(Request) /\ Queue(toClient)
  BY EmptySeq DEF Queue
<1>7. HostSound(hosted, store, fill) /\ Chained(entry, hosted, toClient)
  BY DEF HostSound, Unsubscribed, Chained, NoEntry
<1>8. IdsGrow(entry, hosted, toHost, toClient, nextId)
  BY DEF IdsGrow, NoEntry, Unsubscribed
<1>9. Served(linked, entry, hosted, toHost, toClient)
  BY DEF Served, NoEntry
<1> QED
  BY <1>1, <1>2, <1>4, <1>5, <1>6, <1>7, <1>8, <1>9 DEF RowsInv

(* A message that leads on from wherever the host takes the client to be *)
(* keeps the chain.                                                      *)
LEMMA ChainAppend ==
  ASSUME NEW e, NEW h, NEW g, NEW q, NEW m, Queue(q), Chained(e, h, q),
         e.sub # 0 =>
           \A c \in Stage : (h.sub = e.sub => HostAt(h, c)) =>
             \E d \in Stage : Leads(e.sub, m, c, d) /\ (g.sub = e.sub => HostAt(g, d))
  PROVE  Chained(e, g, Append(q, m))
<1> SUFFICES ASSUME e.sub # 0 PROVE \E D : Chain(e, g, Append(q, m), D)
  BY DEF Chained
<1> DEFINE r == Append(q, m)
           n == Len(q)
<1>1. PICK C : Chain(e, h, q, C)
  BY DEF Chained
<1>2. /\ n \in Nat /\ Len(r) = n + 1
      /\ \A i \in 1..n : r[i] = q[i]
      /\ r[n + 1] = m
  BY QueueAppend
<1>3. /\ C \in [0..n -> Stage] /\ ClientAt(e, C[0])
      /\ \A i \in 1..n : Leads(e.sub, q[i], C[i - 1], C[i])
      /\ h.sub = e.sub => HostAt(h, C[n])
  BY <1>1 DEF Chain
<1>4. C[n] \in Stage
  BY <1>2, <1>3
<1>5. PICK d \in Stage : Leads(e.sub, m, C[n], d) /\ (g.sub = e.sub => HostAt(g, d))
  BY <1>3, <1>4
<1> HIDE DEF r, n
<1> DEFINE D == [i \in 0..(n + 1) |-> IF i <= n THEN C[i] ELSE d]
<1>6. /\ D \in [0..(n + 1) -> Stage] /\ D[0] = C[0] /\ D[n + 1] = d /\ D[n] = C[n]
      /\ \A i \in 1..n : D[i] = C[i] /\ D[i - 1] = C[i - 1]
  BY <1>2, <1>3, <1>5
<1> HIDE DEF D
<1>7. ASSUME NEW i \in 1..(n + 1) PROVE Leads(e.sub, r[i], D[i - 1], D[i])
  <2>1. CASE i \in 1..n
    BY <1>2, <1>3, <1>6, <2>1
  <2>2. CASE i = n + 1
    <3>1. i - 1 = n
      BY <1>2, <2>2
    <3> QED
      BY <1>2, <1>5, <1>6, <2>2, <3>1
  <2> QED
    BY <1>2, <2>1, <2>2
<1>8. Chain(e, g, r, D)
  BY <1>2, <1>3, <1>5, <1>6, <1>7 DEF Chain
<1> QED
  BY <1>8 DEF r

(* The first message leads from what the client keeps; once it is applied, *)
(* the others do.                                                          *)
LEMMA ChainTail ==
  ASSUME NEW e, NEW h, NEW q, Queue(q), q # <<>>, Chained(e, h, q), e.sub # 0
  PROVE  \E c, d \in Stage :
           /\ ClientAt(e, c) /\ Leads(e.sub, Head(q), c, d)
           /\ \A g : (g.sub = e.sub /\ ClientAt(g, d)) => Chained(g, h, Tail(q))
<1> DEFINE n == Len(q)
           r == Tail(q)
<1>1. PICK C : Chain(e, h, q, C)
  BY DEF Chained
<1>2. /\ n \in Nat \ {0} /\ Head(q) = q[1] /\ Len(r) = n - 1
      /\ \A i \in 1..(n - 1) : r[i] = q[i + 1]
  BY QueueTail
<1>3. /\ C \in [0..n -> Stage] /\ ClientAt(e, C[0])
      /\ \A i \in 1..n : Leads(e.sub, q[i], C[i - 1], C[i])
      /\ h.sub = e.sub => HostAt(h, C[n])
  BY <1>1 DEF Chain
<1> HIDE DEF r, n
<1> DEFINE D == [i \in 0..(n - 1) |-> C[i + 1]]
<1>4. /\ D \in [0..(n - 1) -> Stage] /\ D[0] = C[1] /\ D[n - 1] = C[n]
      /\ \A i \in 1..(n - 1) : D[i] = C[i + 1] /\ D[i - 1] = C[i]
  BY <1>2, <1>3
<1> HIDE DEF D
<1>5. C[0] \in Stage /\ C[1] \in Stage /\ Leads(e.sub, Head(q), C[0], C[1])
  BY <1>2, <1>3
<1>6. ASSUME NEW i \in 1..(n - 1) PROVE Leads(e.sub, r[i], D[i - 1], D[i])
  <2>1. i + 1 \in 1..n /\ (i + 1) - 1 = i
    BY <1>2
  <2> QED
    BY <1>2, <1>3, <1>4, <2>1
<1>7. ASSUME NEW g, g.sub = e.sub, ClientAt(g, C[1]) PROVE Chained(g, h, r)
  <2>1. Chain(g, h, r, D)
    BY <1>2, <1>3, <1>4, <1>6, <1>7 DEF Chain
  <2> QED
    BY <2>1 DEF Chained
<1> QED
  BY <1>3, <1>5, <1>7 DEF r

(* An entry of which no message is under way, and of which the host has *)
(* told nothing, keeps any rows.                                        *)
LEMMA ChainFresh ==
  ASSUME NEW e, NEW h, NEW q, Queue(q), \A i \in DOMAIN q : q[i].sub # e.sub,
         h.sub = e.sub => h.prevByKey = <<>> /\ h.prevOrder = <<>> /\ h.authoritativeSent = FALSE
  PROVE  Chained(e, h, q)
<1> DEFINE start == [rows |-> <<>>, exact |-> FALSE, complete |-> FALSE]
           n == Len(q)
           C == [i \in 0..n |-> start]
<1>1. start \in Stage /\ start.rows = <<>> /\ start.exact = FALSE /\ start.complete = FALSE
  BY NothingIs DEF Stage
<1>2. n \in Nat /\ DOMAIN q = 1..n
  BY QueueAppend
<1> HIDE DEF start, n
<1>3. /\ C \in [0..n -> Stage] /\ C[0] = start /\ C[n] = start
      /\ \A i \in 1..n : C[i] = start /\ C[i - 1] = start
  BY <1>1, <1>2
<1> HIDE DEF C
<1>4. ClientAt(e, start)
  BY <1>1 DEF ClientAt
<1>5. h.sub = e.sub => HostAt(h, start)
  BY <1>1, NothingIs DEF HostAt
<1>6. \A i \in 1..n : Leads(e.sub, q[i], C[i - 1], C[i])
  BY <1>2, <1>3 DEF Leads
<1>7. Chain(e, h, q, C)
  BY <1>3, <1>4, <1>5, <1>6 DEF Chain, n
<1> QED
  BY <1>7 DEF Chained

(* A push leaves a subscription, or none, and appends messages of the one   *)
(* it found; a subscription that it ends, it tells the client of.           *)
PushedOn(h, q, g, r) ==
  /\ g \in Host /\ g.sub \in {0, h.sub} /\ (h.sub = 0 => g = h)
  /\ Queue(r) /\ Len(q) <= Len(r)
  /\ \A i \in 1..Len(q) : r[i] = q[i]
  /\ \A i \in 1..Len(r) : i > Len(q) => h.sub # 0 /\ r[i].sub = h.sub
  /\ g.sub # h.sub => \E i \in 1..Len(r) : r[i] = Closing(h)
  /\ \A e : Chained(e, h, q) => Chained(e, g, r)

(* What a subscription has answered, the slices complete as before or more. *)
PushReady(h, st, f) ==
  h.sub # 0 =>
    /\ h.authoritativeSent => Complete(f)
    /\ st.moved = h.last /\ h.authoritativeSent =>
         h.prevByKey = ByKey(st.rows) /\ h.prevOrder = KeysOf(st.rows)
    /\ st.moved = h.last /\ Complete(f) = h.lastComplete => h.authoritativeSent = h.lastComplete

(* Two pushes in a row *)
LEMMA PushedOnTwice ==
  ASSUME NEW h, NEW q, NEW g, NEW r, NEW gg, NEW rr, Queue(q),
         PushedOn(h, q, g, r), PushedOn(g, r, gg, rr)
  PROVE  PushedOn(h, q, gg, rr)
<1> USE DEF PushedOn
<1>1. Len(q) \in Nat /\ Len(r) \in Nat /\ Len(rr) \in Nat
  BY QueueAppend
<1>2. gg \in Host /\ gg.sub \in {0, h.sub} /\ (h.sub = 0 => gg = h)
  OBVIOUS
<1>3. Queue(rr) /\ Len(q) <= Len(rr)
  BY <1>1
<1>4. \A i \in 1..Len(q) : rr[i] = q[i]
  BY <1>1
<1>5. ASSUME NEW i \in 1..Len(rr), i > Len(q) PROVE h.sub # 0 /\ rr[i].sub = h.sub
  <2>1. CASE i \in 1..Len(r)
    BY <1>5, <2>1
  <2>2. CASE i > Len(r)
    BY <1>5, <2>2
  <2> QED
    BY <1>1, <2>1, <2>2
<1>6. ASSUME gg.sub # h.sub PROVE \E i \in 1..Len(rr) : rr[i] = Closing(h)
  <2>1. CASE g.sub = h.sub
    BY <1>6, <2>1 DEF Closing
  <2>2. CASE g.sub # h.sub
    <3>1. PICK i \in 1..Len(r) : r[i] = Closing(h)
      BY <2>2
    <3> QED
      BY <1>1, <3>1
  <2> QED
    BY <2>1, <2>2
<1> QED
  BY <1>2, <1>3, <1>4, <1>5, <1>6

(* Nothing is pushed. *)
LEMMA PushedNothing ==
  ASSUME NEW h \in Host, NEW q, Queue(q)
  PROVE  PushedOn(h, q, h, q)
<1>1. Len(q) \in Nat
  BY QueueAppend
<1> QED
  BY <1>1 DEF PushedOn

(* One message is appended that leads on from wherever the host takes the *)
(* client to be.                                                          *)
LEMMA PushedOnce ==
  ASSUME NEW h \in Host, h.sub # 0, NEW q, Queue(q), NEW g \in Host, g.sub \in {0, h.sub},
         NEW m, m.sub = h.sub, g.sub # h.sub => m = Closing(h),
         \A c \in Stage : HostAt(h, c) =>
           \E d \in Stage : Leads(h.sub, m, c, d) /\ (g.sub = h.sub => HostAt(g, d))
  PROVE  PushedOn(h, q, g, Append(q, m))
<1> DEFINE r == Append(q, m)
<1>1. /\ Queue(r) /\ Len(q) \in Nat /\ Len(r) = Len(q) + 1
      /\ \A i \in 1..Len(q) : r[i] = q[i]
      /\ r[Len(q) + 1] = m
  BY QueueAppend
<1>2. ASSUME NEW e, Chained(e, h, q) PROVE Chained(e, g, r)
  <2>1. ASSUME e.sub # 0, NEW c \in Stage, h.sub = e.sub => HostAt(h, c)
        PROVE  \E d \in Stage : Leads(e.sub, m, c, d) /\ (g.sub = e.sub => HostAt(g, d))
    <3>1. CASE h.sub = e.sub
      BY <2>1, <3>1
    <3>2. CASE h.sub # e.sub
      <4>1. Leads(e.sub, m, c, c) /\ g.sub # e.sub
        BY <2>1, <3>2 DEF Leads
      <4> QED
        BY <4>1
    <3> QED
      BY <3>1, <3>2
  <2> QED
    BY <1>2, <2>1, ChainAppend
<1> HIDE DEF r
<1>3. \A i \in 1..Len(r) : i > Len(q) => h.sub # 0 /\ r[i].sub = h.sub
  BY <1>1
<1>4. g.sub # h.sub => \E i \in 1..Len(r) : r[i] = Closing(h)
  BY <1>1
<1>5. PushedOn(h, q, g, r)
  BY <1>1, <1>2, <1>3, <1>4 DEF PushedOn
<1> QED
  BY <1>5 DEF r

(* push(): the subscription has answered for the store and the slices, and *)
(* the client, when it has read all of that, shows what they are.          *)
LEMMA PushSound ==
  ASSUME NEW h \in Host, NEW q, Queue(q), NEW st, StoreSound(st), NEW f, PushReady(h, st, f)
  PROVE  \E g, r :
           /\ Push([hosted |-> h, out |-> q], st, f) = [hosted |-> g, out |-> r]
           /\ PushedOn(h, q, g, r) /\ HostSound(g, st, f)
<1> DEFINE w == [hosted |-> h, out |-> q]
           complete == Complete(f)
           err == LoadError(f)
           first == ~h.authoritativeSent /\ complete
           seen == [h EXCEPT !.last = st.moved, !.lastComplete = complete, !.lastError = err]
           sent == [seen EXCEPT !.authoritativeSent = h.authoritativeSent \/ complete]
           told == [sent EXCEPT !.prevByKey = ByKey(st.rows), !.prevOrder = KeysOf(st.rows)]
           diffed == Rows(h, DiffRows(h, st.rows, first), complete, st.rows)
           flagged == Rows(h, NoDiff, complete, st.rows)
<1>1. Push(w, st, f) =
        IF h.sub = 0 THEN w
        ELSE IF st.rows = Fails THEN [hosted |-> Unsubscribed, out |-> Append(q, Closing(h))]
        ELSE IF Unmoved(h, st, complete, err) THEN w
        ELSE IF err THEN [hosted |-> seen, out |-> Append(q, Retryable(h, complete))]
        ELSE IF st.moved # h.last \/ first THEN [hosted |-> told, out |-> Append(q, diffed)]
        ELSE [hosted |-> sent, out |-> Append(q, flagged)]
  BY DEF Push
<1>2. /\ complete \in BOOLEAN /\ err \in BOOLEAN /\ first \in BOOLEAN
      /\ err => ~complete
      /\ h.authoritativeSent \in BOOLEAN /\ h.lastComplete \in BOOLEAN /\ h.sub \in Nat
      /\ st.moved \in Nat
  BY DEF Complete, LoadError, Host, StoreSound
<1>3. h.sub # 0 =>
        /\ h.authoritativeSent => complete
        /\ st.moved = h.last /\ h.authoritativeSent =>
             h.prevByKey = ByKey(st.rows) /\ h.prevOrder = KeysOf(st.rows)
        /\ st.moved = h.last /\ complete = h.lastComplete => h.authoritativeSent = h.lastComplete
  BY DEF PushReady
<1>4. first <=> (~h.authoritativeSent /\ complete)
  OBVIOUS
<1>5. complete = Complete(f) /\ err = LoadError(f)
  OBVIOUS
<1> HIDE DEF complete, err
<1>6. /\ seen \in Host /\ seen.sub = h.sub /\ seen.last = st.moved /\ seen.lastComplete = complete
      /\ seen.authoritativeSent = h.authoritativeSent
      /\ seen.prevByKey = h.prevByKey /\ seen.prevOrder = h.prevOrder
  BY <1>2 DEF Host
<1> HIDE DEF seen
<1>7. /\ sent \in Host /\ sent.sub = h.sub /\ sent.last = st.moved /\ sent.lastComplete = complete
      /\ sent.authoritativeSent = (h.authoritativeSent \/ complete)
      /\ sent.prevByKey = h.prevByKey /\ sent.prevOrder = h.prevOrder
  BY <1>2, <1>6 DEF Host
<1> HIDE DEF sent
<1>8. st.rows # Fails => st.rows \in Answers
  BY DEF StoreSound, Answers
<1>9. ASSUME st.rows # Fails
      PROVE  /\ told \in Host /\ told.sub = h.sub /\ told.last = st.moved /\ told.lastComplete = complete
             /\ told.authoritativeSent = (h.authoritativeSent \/ complete)
             /\ told.prevByKey = ByKey(st.rows) /\ told.prevOrder = KeysOf(st.rows)
  <2> DEFINE x == ByKey(st.rows)
             y == KeysOf(st.rows)
  <2>1. x \in {ByKey(a) : a \in Answers} /\ y \in {KeysOf(a) : a \in Answers}
    BY <1>8, <1>9
  <2> HIDE DEF x, y
  <2>2. /\ [sent EXCEPT !.prevByKey = x, !.prevOrder = y] \in Host
        /\ [sent EXCEPT !.prevByKey = x, !.prevOrder = y].sub = h.sub
        /\ [sent EXCEPT !.prevByKey = x, !.prevOrder = y].last = st.moved
        /\ [sent EXCEPT !.prevByKey = x, !.prevOrder = y].lastComplete = complete
        /\ [sent EXCEPT !.prevByKey = x, !.prevOrder = y].authoritativeSent =
             (h.authoritativeSent \/ complete)
        /\ [sent EXCEPT !.prevByKey = x, !.prevOrder = y].prevByKey = x
        /\ [sent EXCEPT !.prevByKey = x, !.prevOrder = y].prevOrder = y
    BY <1>7, <2>1 DEF Host
  <2> QED
    BY <2>2 DEF x, y
<1> HIDE DEF told
<1>10. CASE h.sub = 0
  <2>1. HostSound(h, st, f)
    BY <1>10 DEF HostSound
  <2> QED
    BY <1>1, <1>10, <2>1, PushedNothing
<1>11. CASE h.sub # 0 /\ st.rows = Fails
  <2>1. Unsubscribed \in Host /\ Unsubscribed.sub = 0
    BY NothingIs DEF Host, Unsubscribed
  <2>2. Closing(h).sub = h.sub /\ \A c : Leads(h.sub, Closing(h), c, c)
    BY DEF Closing, Leads
  <2>3. PushedOn(h, q, Unsubscribed, Append(q, Closing(h)))
    BY <1>11, <2>1, <2>2, PushedOnce
  <2>4. HostSound(Unsubscribed, st, f)
    BY <2>1 DEF HostSound
  <2> QED
    BY <1>1, <1>11, <2>3, <2>4
<1>12. CASE h.sub # 0 /\ st.rows # Fails /\ Unmoved(h, st, complete, err)
  <2>1. HostSound(h, st, f)
    BY <1>2, <1>3, <1>5, <1>12 DEF HostSound, Unmoved
  <2> QED
    BY <1>1, <1>12, <2>1, PushedNothing
<1>13. CASE h.sub # 0 /\ st.rows # Fails /\ ~Unmoved(h, st, complete, err) /\ err
  <2> DEFINE m == Retryable(h, complete)
  <2>1. m.type = "retryable" /\ m.sub = h.sub /\ m.complete = FALSE
    BY <1>2, <1>13 DEF Retryable
  <2> HIDE DEF m
  <2>2. h.authoritativeSent = FALSE
    BY <1>2, <1>3, <1>13
  <2>3. ASSUME NEW c \in Stage, HostAt(h, c)
        PROVE  \E d \in Stage : Leads(h.sub, m, c, d) /\ HostAt(seen, d)
    <3> DEFINE d == [c EXCEPT !.complete = FALSE]
    <3>1. d \in Stage /\ d.rows = c.rows
      BY DEF Stage
    <3>2. Leads(h.sub, m, c, d)
      BY <2>1 DEF Leads
    <3>3. HostAt(seen, d)
      BY <1>6, <2>2, <2>3, <3>1 DEF HostAt
    <3> QED
      BY <3>1, <3>2, <3>3
  <2>4. PushedOn(h, q, seen, Append(q, m))
    BY <1>6, <1>13, <2>1, <2>3, PushedOnce
  <2>5. HostSound(seen, st, f)
    BY <1>2, <1>5, <1>6, <1>13, <2>2 DEF HostSound
  <2> QED
    BY <1>1, <1>13, <2>4, <2>5 DEF m
<1>14. CASE /\ h.sub # 0 /\ st.rows # Fails /\ ~Unmoved(h, st, complete, err) /\ ~err
            /\ st.moved # h.last \/ first
  <2> DEFINE diff == DiffRows(h, st.rows, first)
             m == diffed
  <2>1. m.type = "rows" /\ m.sub = h.sub /\ m.complete = complete /\ m.result = st.rows /\ m.diff = diff
    BY DEF Rows
  <2>2. diff.order = IF KeysOf(st.rows) # h.prevOrder \/ first THEN {KeysOf(st.rows)} ELSE {}
    BY DEF DiffRows
  <2>3. ASSUME NEW c \in Stage, HostAt(h, c) PROVE diff = DiffOf(c.rows, st.rows, first)
    BY <2>3, Zenon DEF HostAt, DiffOf, DiffRows
  <2> HIDE DEF diffed, diff, first
  <2>4. ASSUME NEW c \in Stage, HostAt(h, c)
        PROVE  \E d \in Stage : Leads(h.sub, m, c, d) /\ HostAt(told, d)
    <3> DEFINE d == [rows |-> st.rows, exact |-> (c.exact \/ diff.order # {}), complete |-> complete]
    <3>0. d.rows = st.rows /\ d.exact = (c.exact \/ diff.order # {}) /\ d.complete = complete
      OBVIOUS
    <3>1. c.rows \in Answers /\ c.exact \in BOOLEAN /\ (c.exact \/ c.rows = <<>>)
      BY DEF Stage
    <3>2. h.prevOrder = KeysOf(c.rows) /\ (h.authoritativeSent => c.exact)
      BY <2>4 DEF HostAt
    <3>3. d.exact \/ d.rows = <<>>
      <4> SUFFICES ASSUME ~d.exact PROVE d.rows = <<>>
        OBVIOUS
      <4>1. c.rows = <<>> /\ diff.order = {}
        BY <3>0, <3>1
      <4>2. KeysOf(st.rows) = KeysOf(<<>>)
        BY <2>2, <3>2, <4>1
      <4> QED
        BY <1>8, <1>14, <3>0, <4>2, NothingIs
    <3>4. complete => d.exact
      BY <1>4, <2>2, <3>0, <3>2
    <3>5. d \in Stage
      <4>1. d \in [rows : Answers, exact : BOOLEAN, complete : BOOLEAN]
        BY <1>2, <1>8, <1>14, <3>1
      <4> QED
        BY <3>0, <3>3, <3>4, <4>1 DEF Stage
    <3> HIDE DEF d
    <3>6. diff = DiffOf(c.rows, d.rows, first)
      BY <2>3, <2>4, <3>0
    <3>7. Tells(m, c, d)
      BY <1>2, <1>8, <1>14, <2>1, <3>0, <3>6 DEF Tells
    <3>8. Leads(h.sub, m, c, d)
      BY <2>1, <3>7 DEF Leads
    <3>9. HostAt(told, d)
      <4>1. told.authoritativeSent => d.exact /\ d.complete
        BY <1>3, <1>9, <1>14, <3>0, <3>4
      <4> QED
        BY <1>9, <1>14, <3>0, <4>1 DEF HostAt
    <3> QED
      BY <3>5, <3>8, <3>9
  <2>5. PushedOn(h, q, told, Append(q, m))
    BY <1>9, <1>14, <2>1, <2>4, PushedOnce
  <2>6. HostSound(told, st, f)
    BY <1>2, <1>3, <1>5, <1>9, <1>14 DEF HostSound
  <2> QED
    BY <1>1, <1>14, <2>5, <2>6
<1>15. CASE /\ h.sub # 0 /\ st.rows # Fails /\ ~Unmoved(h, st, complete, err) /\ ~err
            /\ ~(st.moved # h.last \/ first)
  <2> DEFINE m == flagged
  <2>1. m.type = "rows" /\ m.sub = h.sub /\ m.complete = complete /\ m.result = st.rows /\ m.diff = NoDiff
    BY DEF Rows
  <2> HIDE DEF flagged
  <2>2. st.moved = h.last /\ (complete => h.authoritativeSent)
    BY <1>2, <1>15
  <2>3. ASSUME NEW c \in Stage, HostAt(h, c)
        PROVE  \E d \in Stage : Leads(h.sub, m, c, d) /\ HostAt(sent, d)
    <3> DEFINE d == [c EXCEPT !.complete = complete]
    <3>1. /\ h.prevByKey = ByKey(c.rows) /\ h.prevOrder = KeysOf(c.rows)
          /\ h.authoritativeSent => c.exact
      BY <2>3 DEF HostAt
    <3>2. c.rows \in Answers
      BY DEF Stage
    <3>3. d \in Stage /\ d.rows = c.rows /\ d.exact = c.exact /\ d.complete = complete
      BY <1>2, <2>2, <3>1 DEF Stage
    <3> HIDE DEF d
    <3>4. complete => c.rows = st.rows
      BY <1>3, <1>8, <1>15, <2>2, <3>1, <3>2, AnswerDetermined
    <3>5. Tells(m, c, d)
      BY <1>8, <1>15, <2>1, <3>3, <3>4 DEF Tells
    <3>6. Leads(h.sub, m, c, d)
      BY <2>1, <3>5 DEF Leads
    <3>7. HostAt(sent, d)
      <4>1. sent.authoritativeSent => d.exact /\ d.complete
        BY <1>2, <1>3, <1>7, <1>15, <2>2, <3>1, <3>3
      <4> QED
        BY <1>7, <3>1, <3>3, <4>1 DEF HostAt
    <3> QED
      BY <3>3, <3>6, <3>7
  <2>4. PushedOn(h, q, sent, Append(q, m))
    BY <1>7, <1>15, <2>1, <2>3, PushedOnce
  <2>5. HostSound(sent, st, f)
    BY <1>2, <1>3, <1>5, <1>7, <1>15, <2>2 DEF HostSound
  <2> QED
    BY <1>1, <1>15, <2>4, <2>5
<1> QED
  BY <1>10, <1>11, <1>12, <1>13, <1>14, <1>15

(* The connection's part of the invariant *)
Connection(e, h, hw, q, n, onLine) ==
  /\ h \in Host /\ hw \in Seq(Request) /\ Queue(q)
  /\ IdsGrow(e, h, hw, q, n) /\ Served(onLine, e, h, hw, q) /\ Chained(e, h, q)

(* A push keeps it. *)
LEMMA PushKeeps ==
  ASSUME NEW e, NEW h, NEW hw, NEW q, NEW n, NEW onLine, Connection(e, h, hw, q, n, onLine),
         NEW g, NEW r, PushedOn(h, q, g, r)
  PROVE  Connection(e, g, hw, r, n, onLine)
<1>1. /\ Queue(q) /\ IdsGrow(e, h, hw, q, n) /\ Served(onLine, e, h, hw, q) /\ Chained(e, h, q)
      /\ hw \in Seq(Request)
  BY DEF Connection
<1>2. /\ g \in Host /\ g.sub \in {0, h.sub} /\ (h.sub = 0 => g = h)
      /\ Queue(r) /\ Len(q) <= Len(r)
      /\ \A i \in 1..Len(q) : r[i] = q[i]
      /\ \A i \in 1..Len(r) : i > Len(q) => h.sub # 0 /\ r[i].sub = h.sub
      /\ g.sub # h.sub => \E i \in 1..Len(r) : r[i] = Closing(h)
      /\ Chained(e, g, r)
  BY <1>1 DEF PushedOn
<1>3. /\ Len(q) \in Nat /\ DOMAIN q = 1..Len(q) /\ Len(r) \in Nat /\ DOMAIN r = 1..Len(r)
  BY <1>1, <1>2, QueueAppend
<1>4. IdsGrow(e, g, hw, r, n)
  <2>1. ASSUME NEW i \in DOMAIN r
        PROVE  (i \in DOMAIN q /\ r[i].sub = q[i].sub) \/ (h.sub # 0 /\ r[i].sub = h.sub)
    BY <1>2, <1>3
  <2>2. n \in Nat /\ g.sub \in 0..n /\ \A i \in DOMAIN r : r[i].sub \in 1..n
    BY <1>1, <1>2, <2>1 DEF IdsGrow
  <2>3. \A i \in DOMAIN hw : hw[i].sub \in 1..n
    BY <1>1 DEF IdsGrow
  <2>4. ASSUME NEW i \in DOMAIN hw, hw[i].type = "subscribe"
        PROVE  hw[i].sub > g.sub /\ \A k \in DOMAIN r : hw[i].sub > r[k].sub
    <3>1. hw[i].sub > h.sub /\ \A k \in DOMAIN q : hw[i].sub > q[k].sub
      BY <1>1, <2>4 DEF IdsGrow
    <3> QED
      BY <1>2, <2>1, <2>2, <2>3, <3>1
  <2> QED
    BY <1>1, <2>2, <2>3, <2>4 DEF IdsGrow
<1>5. Served(onLine, e, g, hw, r)
  <2>1. CASE onLine
    <3> SUFFICES ASSUME e.sub # 0
                 PROVE  \/ \E i \in DOMAIN hw : hw[i] = [type |-> "subscribe", sub |-> e.sub]
                        \/ g.sub = e.sub
                        \/ \E i \in DOMAIN r : r[i] = [type |-> "closed", sub |-> e.sub]
      BY <2>1 DEF Served
    <3>1. CASE \E i \in DOMAIN q : q[i] = [type |-> "closed", sub |-> e.sub]
      BY <1>2, <1>3, <3>1
    <3>2. CASE h.sub = e.sub /\ g.sub # h.sub
      BY <1>2, <1>3, <3>2 DEF Closing
    <3> QED
      BY <1>1, <2>1, <3>1, <3>2 DEF Served
  <2>2. CASE ~onLine
    <3>1. hw = <<>> /\ q = <<>> /\ h = Unsubscribed /\ h.sub = 0
      BY <1>1, <2>2 DEF Served, Unsubscribed
    <3>2. g = Unsubscribed
      BY <1>2, <3>1
    <3>3. Len(q) = 0
      BY <3>1
    <3>4. Len(r) = 0
      BY <1>2, <1>3, <3>1, <3>3
    <3>5. r = <<>>
      BY <1>2, <3>4, EmptySeq DEF Queue
    <3> QED
      BY <2>2, <3>1, <3>2, <3>5 DEF Served
  <2> QED
    BY <2>1, <2>2
<1> QED
  BY <1>1, <1>2, <1>4, <1>5 DEF Connection

(* What is not moved is the same answer. *)
Follows(st, before) == st.moved # before.moved \/ st.rows = before.rows

(* A subscription that has answered is ready for what follows. *)
LEMMA ReadyAgain ==
  ASSUME NEW h, NEW before, NEW f, HostSound(h, before, f), NEW st, Follows(st, before),
         NEW g, KeepsComplete(f, g)
  PROVE  PushReady(h, st, g)
<1>1. Complete(f) => Complete(g)
  BY ReadsAssumption DEF Complete, KeepsComplete
<1> QED
  BY <1>1 DEF HostSound, PushReady, Follows

(* What a write makes of the store *)
LEMMA WroteSound ==
  ASSUME StoreSound(store), NEW r \in Results \cup {Fails}, NEW st \in Wrote(r)
  PROVE  StoreSound(st) /\ Follows(st, store)
<1>1. CASE st = [rows |-> r, version |-> store.version + 1, moved |-> store.version + 1]
  BY <1>1 DEF StoreSound, Follows
<1>2. CASE r = store.rows /\ st = [store EXCEPT !.version = @ + 1]
  BY <1>2 DEF StoreSound, Follows
<1> QED
  BY <1>1, <1>2 DEF Wrote

(* The invariant, by its parts *)
LEMMA RowsInvIs ==
  RowsInv <=> /\ FillInv /\ StoreSound(store) /\ EntrySound(entry) /\ HostSound(hosted, store, fill)
              /\ Connection(entry, hosted, toHost, toClient, nextId, linked)
  BY DEF RowsInv, Connection

(* A handler of the host that ends with a push keeps the invariant. *)
LEMMA HostStep ==
  ASSUME RowsInv, FillInv', StoreSound(store'), UNCHANGED <<linked, toHost, entry, nextId>>,
         PushedOn(hosted, toClient, hosted', toClient'), HostSound(hosted', store', fill')
  PROVE  RowsInv'
<1>1. EntrySound(entry) /\ Connection(entry, hosted, toHost, toClient, nextId, linked)
  BY RowsInvIs
<1>2. Connection(entry, hosted', toHost, toClient', nextId, linked)
  BY <1>1, PushKeeps
<1>3. EntrySound(entry') /\ Connection(entry', hosted', toHost', toClient', nextId', linked')
  BY <1>1, <1>2
<1> QED
  BY <1>3 DEF RowsInv, Connection

(* One push of the subscription there is *)
LEMMA PushStep ==
  ASSUME RowsInv, FillInv', UNCHANGED <<linked, toHost, entry, nextId>>,
         StoreSound(store'), Follows(store', store), KeepsComplete(fill, fill'),
         Pushed(Push(Now, store', fill'))
  PROVE  RowsInv'
<1>1. hosted \in Host /\ Queue(toClient) /\ HostSound(hosted, store, fill)
  BY DEF RowsInv
<1>2. PushReady(hosted, store', fill')
  BY <1>1, ReadyAgain
<1>3. PICK g, r : /\ Push([hosted |-> hosted, out |-> toClient], store', fill') = [hosted |-> g, out |-> r]
                  /\ PushedOn(hosted, toClient, g, r) /\ HostSound(g, store', fill')
  BY <1>1, <1>2, PushSound
<1>4. hosted' = g /\ toClient' = r
  BY <1>3 DEF Pushed, Now
<1> QED
  BY <1>3, <1>4, HostStep

(* Write keeps the invariant. *)
LEMMA WriteSound == ASSUME RowsInv, FillInv', Write PROVE RowsInv'
<1>1. PICK r \in Results \cup {Fails} : \E st \in Wrote(r) : store' = st /\ Pushed(Push(Now, st, fill))
  BY DEF Write
<1>2. fill' = fill /\ UNCHANGED <<linked, toHost, entry, nextId>>
  BY DEF Write, fillVars
<1>3. StoreSound(store') /\ Follows(store', store)
  BY <1>1, WroteSound DEF RowsInv
<1>4. KeepsComplete(fill, fill')
  BY <1>2 DEF KeepsComplete
<1> QED
  BY <1>1, <1>2, <1>3, <1>4, PushStep

(* RowsNotLoaded keeps the invariant. *)
LEMMA RowsNotLoadedSound == ASSUME RowsInv, FillInv', RowsNotLoaded PROVE RowsInv'
<1>0. PICK j \in Running(fill), r \in Results :
      \E st \in {store} \cup IF store.version < MaxVersion THEN Wrote(r) ELSE {} :
        /\ store' = st /\ fill' = Failed(fill, j) /\ Pushed(Push(Now, st, fill'))
        /\ UNCHANGED <<demands, linked, drops, toHost, entry, nextId>>
  BY DEF RowsNotLoaded
<1>1. PICK st \in {store} \cup IF store.version < MaxVersion THEN Wrote(r) ELSE {} :
        /\ store' = st /\ fill' = Failed(fill, j) /\ Pushed(Push(Now, st, fill'))
        /\ UNCHANGED <<demands, linked, drops, toHost, entry, nextId>>
  BY <1>0
<1>2. StoreSound(store) /\ Sound(fill)
  BY DEF RowsInv, FillInv
<1>3. StoreSound(store') /\ Follows(store', store)
  <2>1. CASE st = store
    BY <1>1, <1>2, <2>1 DEF Follows
  <2>2. CASE st \in Wrote(r)
    BY <1>1, <1>2, <2>2, WroteSound
  <2> QED
    BY <1>1, <2>1, <2>2
<1>4. KeepsComplete(fill, fill')
  BY <1>1, <1>2, FailedSound
<1> QED
  BY <1>1, <1>3, <1>4, PushStep

(* RowsLoaded keeps the invariant: it pushes the rows, then the flip. *)
LEMMA RowsLoadedSound == ASSUME RowsInv, FillInv', RowsLoaded PROVE RowsInv'
<1>0. PICK j \in Running(fill), r \in Results :
      \E st \in {store} \cup IF store.version < MaxVersion THEN Wrote(r) ELSE {} :
        /\ store' = st /\ fill' = Loaded(fill, j)
        /\ Pushed(Push(IF st = store THEN Now ELSE Push(Now, st, fill), st, fill'))
        /\ UNCHANGED <<demands, linked, drops, toHost, entry, nextId>>
  BY DEF RowsLoaded
<1>1. PICK st \in {store} \cup IF store.version < MaxVersion THEN Wrote(r) ELSE {} :
        /\ store' = st /\ fill' = Loaded(fill, j)
        /\ Pushed(Push(IF st = store THEN Now ELSE Push(Now, st, fill), st, fill'))
        /\ UNCHANGED <<demands, linked, drops, toHost, entry, nextId>>
  BY <1>0
<1>2. /\ StoreSound(store) /\ Sound(fill)
      /\ hosted \in Host /\ Queue(toClient) /\ HostSound(hosted, store, fill)
  BY DEF RowsInv, FillInv
<1>3. KeepsComplete(fill, fill')
  BY <1>1, <1>2, LoadedSound
<1>4. CASE st = store
  <2>1. Follows(store', store) /\ StoreSound(store')
    BY <1>1, <1>2, <1>4 DEF Follows
  <2>2. Pushed(Push(Now, store', fill'))
    BY <1>1, <1>4
  <2> QED
    BY <1>1, <1>3, <2>1, <2>2, PushStep
<1>5. CASE st # store
  <2>1. st \in Wrote(r)
    BY <1>1, <1>5
  <2>2. StoreSound(st) /\ Follows(st, store)
    BY <1>2, <2>1, WroteSound
  <2>3. KeepsComplete(fill, fill) /\ Follows(st, st)
    BY DEF KeepsComplete, Follows
  <2>4. PushReady(hosted, st, fill)
    BY <1>2, <2>2, <2>3, ReadyAgain
  <2>5. PICK g, q : /\ Push([hosted |-> hosted, out |-> toClient], st, fill) = [hosted |-> g, out |-> q]
                    /\ PushedOn(hosted, toClient, g, q) /\ HostSound(g, st, fill)
    BY <1>2, <2>2, <2>4, PushSound
  <2>6. g \in Host /\ Queue(q)
    BY <2>5 DEF PushedOn
  <2>7. PushReady(g, st, fill')
    BY <1>3, <2>3, <2>5, ReadyAgain
  <2>8. PICK gg, qq : /\ Push([hosted |-> g, out |-> q], st, fill') = [hosted |-> gg, out |-> qq]
                      /\ PushedOn(g, q, gg, qq) /\ HostSound(gg, st, fill')
    BY <2>2, <2>6, <2>7, PushSound
  <2>9. hosted' = gg /\ toClient' = qq
    BY <1>1, <1>5, <2>5, <2>8 DEF Pushed, Now
  <2>10. PushedOn(hosted, toClient, gg, qq)
    BY <1>2, <2>5, <2>8, PushedOnTwice
  <2> QED
    BY <1>1, <2>2, <2>8, <2>9, <2>10, HostStep
<1> QED
  BY <1>4, <1>5

(* A turn of the gate completes no slice, so nothing is to be told. *)
LEMMA FillTurnsSound == ASSUME RowsInv, FillInv', FillTurns PROVE RowsInv'
<1>0. Sound(fill) /\ UNCHANGED rowVars
  BY DEF RowsInv, FillInv, FillTurns
<1>1. SameComplete(fill, fill')
  <2>1. CASE SlotFreed
    <3>1. PICK j \in Jobs(fill) : fill.jobs[j].at = "settled" /\ fill' = Released(fill, j)
      BY <2>1 DEF SlotFreed
    <3> QED
      BY <1>0, <3>1, ReleasedSound
  <2>2. CASE TimerFires
    <3>1. PICK j \in Jobs(fill) : fill.jobs[j].at = "timer" /\ fill' = Enqueue(fill, j)
      BY <2>2 DEF TimerFires
    <3> QED
      BY <1>0, <3>1, FiredSound
  <2> QED
    BY <2>1, <2>2 DEF FillTurns
<1>2. Complete(fill') = Complete(fill)
  BY <1>1, ReadsAssumption DEF Complete, SameComplete
<1>3. HostSound(hosted, store, fill')
  BY <1>2 DEF RowsInv, HostSound
<1> QED
  BY <1>0, <1>3 DEF RowsInv, rowVars

(* A host that has told the entry nothing that is under way *)
LEMMA ChainOther ==
  ASSUME NEW e, NEW h, NEW g, NEW q, Chained(e, h, q), e.sub # 0 => g.sub # e.sub
  PROVE  Chained(e, g, q)
  BY DEF Chained, Chain

(* The first of the requests under way is taken. *)
LEMMA RequestTaken ==
  ASSUME NEW hw \in Seq(Request), hw # <<>>
  PROVE  /\ Tail(hw) \in Seq(Request) /\ Head(hw) = hw[1] /\ hw[1] \in Request /\ 1 \in DOMAIN hw
         /\ \A i \in DOMAIN Tail(hw) : i + 1 \in DOMAIN hw /\ i + 1 # 1 /\ Tail(hw)[i] = hw[i + 1]
         /\ \A i, k \in DOMAIN Tail(hw) : k < i => k + 1 < i + 1
         /\ \A i \in DOMAIN Tail(hw) : 1 < i + 1
         /\ \A i \in DOMAIN hw : i # 1 => i - 1 \in DOMAIN Tail(hw) /\ hw[i] = Tail(hw)[i - 1]
<1>1. Queue(hw)
  BY DEF Queue
<1>2. Tail(hw) \in Seq(Request)
  BY HeadTailProperties
<1>3. hw[1] \in Request
  BY <1>1, QueueTail, ElementOfSeq
<1>4. /\ Len(hw) \in Nat \ {0} /\ DOMAIN hw = 1..Len(hw) /\ Head(hw) = hw[1]
      /\ DOMAIN Tail(hw) = 1..(Len(hw) - 1)
      /\ \A i \in 1..(Len(hw) - 1) : Tail(hw)[i] = hw[i + 1]
  BY <1>1, QueueTail
<1>5. ASSUME NEW i \in DOMAIN hw, i # 1 PROVE i - 1 \in DOMAIN Tail(hw) /\ hw[i] = Tail(hw)[i - 1]
  <2>1. i - 1 \in 1..(Len(hw) - 1) /\ (i - 1) + 1 = i
    BY <1>4, <1>5
  <2>2. Tail(hw)[i - 1] = hw[(i - 1) + 1]
    BY <1>4, <2>1
  <2> QED
    BY <1>4, <2>1, <2>2
<1>6. ASSUME NEW i \in DOMAIN Tail(hw)
      PROVE  i \in Int /\ i + 1 \in DOMAIN hw /\ i + 1 # 1 /\ Tail(hw)[i] = hw[i + 1] /\ 1 < i + 1
  BY <1>4
<1>7. 1 \in DOMAIN hw
  BY <1>4
<1>8. \A i, k \in DOMAIN Tail(hw) : k < i => k + 1 < i + 1
  BY <1>6
<1> QED
  BY <1>2, <1>3, <1>4, <1>5, <1>6, <1>7, <1>8

(* A subscribe is taken: the new subscription has told nothing, and nothing *)
(* of the entry it is for is under way.                                     *)
LEMMA SubscribeTaken ==
  ASSUME NEW e, NEW h, NEW hw, NEW q, NEW n, NEW onLine, Connection(e, h, hw, q, n, onLine),
         hw # <<>>, Head(hw).type = "subscribe"
  PROVE  Connection(e, [Unsubscribed EXCEPT !.sub = Head(hw).sub], Tail(hw), q, n, onLine)
<1> DEFINE m == Head(hw)
           g == [Unsubscribed EXCEPT !.sub = m.sub]
           t == Tail(hw)
<1>1. /\ hw \in Seq(Request) /\ Queue(q)
      /\ IdsGrow(e, h, hw, q, n) /\ Served(onLine, e, h, hw, q)
  BY DEF Connection
<1>2. /\ t \in Seq(Request) /\ m = hw[1] /\ m \in Request /\ 1 \in DOMAIN hw
      /\ \A i \in DOMAIN t : i + 1 \in DOMAIN hw /\ i + 1 # 1 /\ t[i] = hw[i + 1]
      /\ \A i, k \in DOMAIN t : k < i => k + 1 < i + 1
      /\ \A i \in DOMAIN t : 1 < i + 1
      /\ \A i \in DOMAIN hw : i # 1 => i - 1 \in DOMAIN t /\ hw[i] = t[i - 1]
  BY <1>1, RequestTaken
<1> HIDE DEF m, t
<1>3. m.type = "subscribe"
  BY DEF m
<1>4. /\ n \in Nat /\ e.sub \in {0, n} /\ h.sub \in 0..n /\ m.sub \in 1..n /\ m.sub > h.sub
      /\ \A k \in DOMAIN q : q[k].sub \in 1..n /\ m.sub > q[k].sub
      /\ \A i \in DOMAIN t : t[i].sub \in 1..n
      /\ \A i \in DOMAIN t : t[i].type = "subscribe" =>
           /\ t[i].sub > m.sub /\ \A k \in DOMAIN q : t[i].sub > q[k].sub
           /\ \A k \in DOMAIN t : k < i /\ t[k].type = "subscribe" => t[i].sub > t[k].sub
      /\ \A i \in DOMAIN t : t[i].type = "unsubscribe" => t[i].sub # e.sub
  <2>1. /\ n \in Nat /\ e.sub \in {0, n} /\ h.sub \in 0..n
        /\ \A i \in DOMAIN q : q[i].sub \in 1..n
        /\ \A i \in DOMAIN hw : hw[i].sub \in 1..n
        /\ \A i \in DOMAIN hw : hw[i].type = "unsubscribe" => hw[i].sub # e.sub
        /\ \A i \in DOMAIN hw : hw[i].type = "subscribe" =>
             /\ hw[i].sub > h.sub
             /\ \A k \in DOMAIN q : hw[i].sub > q[k].sub
             /\ \A k \in DOMAIN hw : k < i /\ hw[k].type = "subscribe" => hw[i].sub > hw[k].sub
    BY <1>1 DEF IdsGrow
  <2>2. /\ m.sub \in 1..n /\ m.sub > h.sub
        /\ \A k \in DOMAIN q : m.sub > q[k].sub
    BY <1>2, <1>3, <2>1
  <2>3. ASSUME NEW i \in DOMAIN t
        PROVE  /\ t[i].sub \in 1..n
               /\ t[i].type = "unsubscribe" => t[i].sub # e.sub
               /\ t[i].type = "subscribe" =>
                    /\ t[i].sub > m.sub /\ \A k \in DOMAIN q : t[i].sub > q[k].sub
                    /\ \A k \in DOMAIN t : k < i /\ t[k].type = "subscribe" => t[i].sub > t[k].sub
    <3>1. i + 1 \in DOMAIN hw /\ t[i] = hw[i + 1] /\ 1 < i + 1
      BY <1>2
    <3>2. t[i].type = "subscribe" => t[i].sub > m.sub
      BY <1>2, <1>3, <2>1, <3>1
    <3>3. ASSUME t[i].type = "subscribe", NEW k \in DOMAIN t, k < i, t[k].type = "subscribe"
          PROVE  t[i].sub > t[k].sub
      <4>1. k + 1 \in DOMAIN hw /\ t[k] = hw[k + 1] /\ k + 1 < i + 1
        BY <1>2, <3>3
      <4> QED
        BY <2>1, <3>1, <3>3, <4>1
    <3> QED
      BY <2>1, <3>1, <3>2, <3>3
  <2> QED
    BY <2>1, <2>2, <2>3
<1>5. /\ g \in Host /\ g.sub = m.sub /\ g.prevByKey = <<>> /\ g.prevOrder = <<>>
      /\ g.authoritativeSent = FALSE
  <2>1. <<>> \in {ByKey(r) : r \in Answers} /\ <<>> \in {KeysOf(r) : r \in Answers}
    BY NothingIs
  <2>2. m.sub \in Nat
    BY <1>4
  <2> QED
    BY <2>1, <2>2 DEF Host, Unsubscribed
<1> HIDE DEF g
<1>6. IdsGrow(e, g, t, q, n)
  BY <1>4, <1>5 DEF IdsGrow
<1>7. Served(onLine, e, g, t, q)
  <2>1. onLine
    BY <1>1 DEF Served
  <2> SUFFICES ASSUME e.sub # 0
               PROVE  \/ \E i \in DOMAIN t : t[i] = [type |-> "subscribe", sub |-> e.sub]
                      \/ g.sub = e.sub
      BY <2>1 DEF Served
  <2>2. e.sub = n
    BY <1>4
  <2>3. PICK i \in DOMAIN hw : hw[i] = [type |-> "subscribe", sub |-> e.sub]
    <3>1. h.sub # e.sub /\ \A k \in DOMAIN q : q[k].sub # e.sub
      BY <1>4, <2>2
    <3> QED
      BY <1>1, <2>1, <3>1 DEF Served
  <2>4. CASE i = 1
    BY <1>2, <1>5, <2>3, <2>4
  <2>5. CASE i # 1
    BY <1>2, <2>3, <2>5
  <2> QED
    BY <2>4, <2>5
<1>8. Chained(e, g, q)
  <2>1. CASE e.sub = 0
    BY <2>1 DEF Chained
  <2>2. CASE e.sub = n
    <3>1. \A k \in DOMAIN q : q[k].sub # e.sub
      BY <1>4, <2>2
    <3> QED
      BY <1>1, <1>5, <3>1, ChainFresh
  <2> QED
    BY <1>4, <2>1, <2>2
<1>9. Connection(e, g, t, q, n, onLine)
  BY <1>1, <1>2, <1>5, <1>6, <1>7, <1>8 DEF Connection
<1> QED
  BY <1>9 DEF g, m, t

(* An unsubscribe is taken: it is not for the entry as it is now. *)
LEMMA UnsubscribeTaken ==
  ASSUME NEW e, NEW h, NEW hw, NEW q, NEW n, NEW onLine, Connection(e, h, hw, q, n, onLine),
         hw # <<>>, Head(hw).type = "unsubscribe",
         NEW g, g = IF h.sub = Head(hw).sub THEN Unsubscribed ELSE h
  PROVE  Connection(e, g, Tail(hw), q, n, onLine)
<1> DEFINE m == Head(hw)
           t == Tail(hw)
<1>1. /\ hw \in Seq(Request) /\ Queue(q) /\ h \in Host
      /\ IdsGrow(e, h, hw, q, n) /\ Served(onLine, e, h, hw, q) /\ Chained(e, h, q)
  BY DEF Connection
<1>2. /\ t \in Seq(Request) /\ m = hw[1] /\ 1 \in DOMAIN hw
      /\ \A i \in DOMAIN t : i + 1 \in DOMAIN hw /\ t[i] = hw[i + 1]
      /\ \A i, k \in DOMAIN t : k < i => k + 1 < i + 1
      /\ \A i \in DOMAIN hw : i # 1 => i - 1 \in DOMAIN t /\ hw[i] = t[i - 1]
  BY <1>1, RequestTaken
<1> HIDE DEF t
<1>3. m.type = "unsubscribe" /\ m.sub # e.sub
  BY <1>1, <1>2 DEF IdsGrow
<1>4. g \in Host /\ g.sub \in {0, h.sub} /\ (g.sub = e.sub /\ e.sub # 0 => g = h)
      /\ (h.sub = e.sub => g = h)
  BY <1>1, <1>3, NothingIs DEF Host, Unsubscribed
<1>5. IdsGrow(e, g, t, q, n)
  <2>1. /\ n \in Nat /\ e.sub \in {0, n} /\ h.sub \in 0..n
        /\ \A i \in DOMAIN q : q[i].sub \in 1..n
        /\ \A i \in DOMAIN hw : hw[i].sub \in 1..n
        /\ \A i \in DOMAIN hw : hw[i].type = "unsubscribe" => hw[i].sub # e.sub
        /\ \A i \in DOMAIN hw : hw[i].type = "subscribe" =>
             /\ hw[i].sub > h.sub
             /\ \A k \in DOMAIN q : hw[i].sub > q[k].sub
             /\ \A k \in DOMAIN hw : k < i /\ hw[k].type = "subscribe" => hw[i].sub > hw[k].sub
    BY <1>1 DEF IdsGrow
  <2>2. ASSUME NEW i \in DOMAIN t
        PROVE  /\ t[i].sub \in 1..n
               /\ t[i].type = "unsubscribe" => t[i].sub # e.sub
               /\ t[i].type = "subscribe" =>
                    /\ t[i].sub > g.sub /\ \A k \in DOMAIN q : t[i].sub > q[k].sub
                    /\ \A k \in DOMAIN t : k < i /\ t[k].type = "subscribe" => t[i].sub > t[k].sub
    <3>1. i + 1 \in DOMAIN hw /\ t[i] = hw[i + 1]
      BY <1>2
    <3>2. t[i].type = "subscribe" => t[i].sub > g.sub
      BY <1>4, <2>1, <3>1
    <3>3. ASSUME t[i].type = "subscribe", NEW k \in DOMAIN t, k < i, t[k].type = "subscribe"
          PROVE  t[i].sub > t[k].sub
      <4>1. k + 1 \in DOMAIN hw /\ t[k] = hw[k + 1] /\ k + 1 < i + 1
        BY <1>2, <3>3
      <4> QED
        BY <2>1, <3>1, <3>3, <4>1
    <3> QED
      BY <2>1, <3>1, <3>2, <3>3
  <2>3. g.sub \in 0..n
    BY <1>4, <2>1
  <2> QED
    BY <2>1, <2>2, <2>3 DEF IdsGrow
<1>6. Served(onLine, e, g, t, q)
  <2>1. onLine
    BY <1>1 DEF Served
  <2> SUFFICES ASSUME e.sub # 0
               PROVE  \/ \E i \in DOMAIN t : t[i] = [type |-> "subscribe", sub |-> e.sub]
                      \/ g.sub = e.sub
                      \/ \E i \in DOMAIN q : q[i] = [type |-> "closed", sub |-> e.sub]
      BY <2>1 DEF Served
  <2>2. CASE h.sub = e.sub
    BY <1>4, <2>2
  <2>3. CASE \E i \in DOMAIN hw : hw[i] = [type |-> "subscribe", sub |-> e.sub]
    <3>1. PICK i \in DOMAIN hw : hw[i] = [type |-> "subscribe", sub |-> e.sub]
      BY <2>3
    <3>2. i # 1
      BY <1>2, <1>3, <3>1
    <3> QED
      BY <1>2, <3>1, <3>2
  <2> QED
    BY <1>1, <2>1, <2>2, <2>3 DEF Served
<1>7. Chained(e, g, q)
  <2>1. CASE g = h
    BY <1>1, <2>1
  <2>2. CASE g # h
    BY <1>1, <1>4, <2>2, ChainOther
  <2> QED
    BY <2>1, <2>2
<1> QED
  BY <1>1, <1>2, <1>4, <1>5, <1>6, <1>7 DEF Connection, t

(* HostReceives keeps the invariant. *)
LEMMA HostReceivesSound == ASSUME RowsInv, FillInv', HostReceives PROVE RowsInv'
<1>1. /\ StoreSound(store) /\ EntrySound(entry) /\ HostSound(hosted, store, fill)
      /\ Connection(entry, hosted, toHost, toClient, nextId, linked)
  BY RowsInvIs
<1>2. /\ toHost # <<>> /\ toHost' = Tail(toHost)
      /\ UNCHANGED <<demands, store, linked, drops, entry, nextId>>
  BY DEF HostReceives
<1>3. CASE Head(toHost).type = "subscribe" /\ HostSubscribes(Head(toHost).sub)
  <2> DEFINE h == [Unsubscribed EXCEPT !.sub = Head(toHost).sub]
  <2>1. Connection(entry, h, Tail(toHost), toClient, nextId, linked)
    BY <1>1, <1>2, <1>3, SubscribeTaken
  <2>2. h \in Host /\ Queue(toClient)
    BY <2>1 DEF Connection
  <2>3. h.last = 0 /\ h.authoritativeSent = FALSE
    BY DEF Unsubscribed
  <2>4. Pushed(Push([hosted |-> h, out |-> toClient], store, fill'))
    BY <1>3 DEF HostSubscribes
  <2> HIDE DEF h
  <2>5. PushReady(h, store, fill')
    BY <1>1, <2>3 DEF PushReady, StoreSound
  <2>6. PICK g, r : /\ Push([hosted |-> h, out |-> toClient], store, fill') = [hosted |-> g, out |-> r]
                    /\ PushedOn(h, toClient, g, r) /\ HostSound(g, store, fill')
    BY <1>1, <2>2, <2>5, PushSound
  <2>7. hosted' = g /\ toClient' = r
    BY <2>4, <2>6 DEF Pushed
  <2>8. Connection(entry, g, Tail(toHost), r, nextId, linked)
    BY <2>1, <2>6, PushKeeps
  <2>9. /\ StoreSound(store') /\ EntrySound(entry') /\ HostSound(hosted', store', fill')
        /\ Connection(entry', hosted', toHost', toClient', nextId', linked')
    BY <1>1, <1>2, <2>6, <2>7, <2>8
  <2> QED
    BY <2>9 DEF RowsInv, Connection
<1>4. CASE /\ Head(toHost).type = "unsubscribe"
           /\ hosted' = IF hosted.sub = Head(toHost).sub THEN Unsubscribed ELSE hosted
           /\ UNCHANGED <<fill, toClient>>
  <2>1. Connection(entry, hosted', Tail(toHost), toClient, nextId, linked)
    BY <1>1, <1>2, <1>4, UnsubscribeTaken
  <2>2. HostSound(hosted', store, fill)
    BY <1>1, <1>4 DEF HostSound, Unsubscribed
  <2>3. /\ StoreSound(store') /\ EntrySound(entry') /\ HostSound(hosted', store', fill')
        /\ Connection(entry', hosted', toHost', toClient', nextId', linked')
    BY <1>1, <1>2, <1>4, <2>1, <2>2
  <2> QED
    BY <2>3 DEF RowsInv, Connection
<1> QED
  BY <1>3, <1>4 DEF HostReceives

(* Nothing moves at the host. *)
LEMMA ClientStep ==
  ASSUME RowsInv, FillInv', UNCHANGED <<fillVars, store, hosted>>, EntrySound(entry'),
         Connection(entry', hosted, toHost', toClient', nextId', linked')
  PROVE  RowsInv'
<1>1. StoreSound(store) /\ HostSound(hosted, store, fill) /\ fill' = fill
  BY DEF RowsInv, fillVars
<1>2. /\ StoreSound(store') /\ HostSound(hosted', store', fill')
      /\ Connection(entry', hosted', toHost', toClient', nextId', linked')
  BY <1>1
<1> QED
  BY <1>2 DEF RowsInv, Connection

(* A message is taken: the entry stays the one it was, or stops. *)
LEMMA MessageTaken ==
  ASSUME NEW e, NEW h, NEW hw, NEW q, NEW n, NEW onLine, Connection(e, h, hw, q, n, onLine),
         q # <<>>, NEW g, Chained(g, h, Tail(q)),
         \/ g.sub = e.sub /\ (e.sub # 0 => Head(q) # [type |-> "closed", sub |-> e.sub])
         \/ g.sub = 0
  PROVE  Connection(g, h, hw, Tail(q), n, onLine)
<1> DEFINE t == Tail(q)
<1>1. /\ hw \in Seq(Request) /\ Queue(q) /\ h \in Host
      /\ IdsGrow(e, h, hw, q, n) /\ Served(onLine, e, h, hw, q)
  BY DEF Connection
<1>2. /\ Queue(t) /\ Len(q) \in Nat \ {0} /\ DOMAIN q = 1..Len(q) /\ Head(q) = q[1]
      /\ DOMAIN t = 1..(Len(q) - 1)
      /\ \A i \in 1..(Len(q) - 1) : t[i] = q[i + 1]
  BY <1>1, QueueTail
<1> HIDE DEF t
<1>3. \A i \in DOMAIN t : i + 1 \in DOMAIN q /\ t[i] = q[i + 1]
  BY <1>2
<1>4. IdsGrow(g, h, hw, t, n)
  <2>1. /\ n \in Nat /\ e.sub \in {0, n} /\ h.sub \in 0..n
        /\ \A i \in DOMAIN q : q[i].sub \in 1..n
        /\ \A i \in DOMAIN hw : hw[i].sub \in 1..n
        /\ \A i \in DOMAIN hw : hw[i].type = "unsubscribe" => hw[i].sub # e.sub
        /\ \A i \in DOMAIN hw : hw[i].type = "subscribe" =>
             /\ hw[i].sub > h.sub
             /\ \A k \in DOMAIN q : hw[i].sub > q[k].sub
             /\ \A k \in DOMAIN hw : k < i /\ hw[k].type = "subscribe" => hw[i].sub > hw[k].sub
    BY <1>1 DEF IdsGrow
  <2>2. g.sub \in {0, n}
    BY <2>1
  <2>3. \A i \in DOMAIN hw : hw[i].type = "unsubscribe" => hw[i].sub # g.sub
    BY <2>1
  <2>4. \A i \in DOMAIN t : t[i].sub \in 1..n
    BY <1>3, <2>1
  <2>5. \A i \in DOMAIN hw : hw[i].type = "subscribe" => \A k \in DOMAIN t : hw[i].sub > t[k].sub
    BY <1>3, <2>1
  <2> QED
    BY <2>1, <2>2, <2>3, <2>4, <2>5 DEF IdsGrow
<1>5. Served(onLine, g, h, hw, t)
  <2>1. onLine
    BY <1>1 DEF Served
  <2> SUFFICES ASSUME g.sub # 0
               PROVE  \/ \E i \in DOMAIN hw : hw[i] = [type |-> "subscribe", sub |-> g.sub]
                      \/ h.sub = g.sub
                      \/ \E i \in DOMAIN t : t[i] = [type |-> "closed", sub |-> g.sub]
      BY <2>1 DEF Served
  <2>2. g.sub = e.sub /\ q[1] # [type |-> "closed", sub |-> e.sub]
    BY <1>2
  <2>3. CASE \E i \in DOMAIN q : q[i] = [type |-> "closed", sub |-> e.sub]
    <3>1. PICK i \in DOMAIN q : q[i] = [type |-> "closed", sub |-> e.sub]
      BY <2>3
    <3>2. i # 1
      BY <2>2, <3>1
    <3>3. i - 1 \in 1..(Len(q) - 1) /\ (i - 1) + 1 = i
      BY <1>2, <3>2
    <3>4. t[i - 1] = q[(i - 1) + 1]
      BY <1>2, <3>3
    <3> QED
      BY <1>2, <2>2, <3>1, <3>3, <3>4
  <2> QED
    BY <1>1, <2>1, <2>2, <2>3 DEF Served
<1> QED
  BY <1>1, <1>2, <1>4, <1>5 DEF Connection, t

(* ClientReceives keeps the invariant. *)
LEMMA ClientReceivesSound == ASSUME RowsInv, FillInv', ClientReceives PROVE RowsInv'
<1> DEFINE m == Head(toClient)
<1>1. /\ EntrySound(entry) /\ Connection(entry, hosted, toHost, toClient, nextId, linked)
  BY RowsInvIs
<1>2. /\ toClient # <<>> /\ toClient' = Tail(toClient)
      /\ entry' = IF m.sub = entry.sub THEN Received(m) ELSE entry
      /\ UNCHANGED <<fillVars, store, linked, drops, toHost, hosted, nextId>>
  BY DEF ClientReceives
<1>3. Queue(toClient) /\ Chained(entry, hosted, toClient)
  BY <1>1 DEF Connection
<1> HIDE DEF m
<1>4. ASSUME /\ EntrySound(entry') /\ Chained(entry', hosted, Tail(toClient))
             /\ \/ entry'.sub = entry.sub /\ (entry.sub # 0 => m # [type |-> "closed", sub |-> entry.sub])
                \/ entry'.sub = 0
      PROVE  RowsInv'
  <2>1. Connection(entry', hosted, toHost, Tail(toClient), nextId, linked)
    BY <1>1, <1>2, <1>4, MessageTaken DEF m
  <2>2. Connection(entry', hosted, toHost', toClient', nextId', linked')
    BY <1>2, <2>1
  <2> QED
    BY <1>2, <1>4, <2>2, ClientStep
<1>5. CASE entry.sub = 0
  <2>1. m.sub # 0
    <3>1. 1 \in DOMAIN toClient /\ m = toClient[1]
      BY <1>2, <1>3, QueueTail DEF m
    <3> QED
      BY <1>1, <3>1 DEF Connection, IdsGrow
  <2>2. entry' = entry
    BY <1>2, <1>5, <2>1
  <2>3. Chained(entry', hosted, Tail(toClient))
    BY <1>5, <2>2 DEF Chained
  <2> QED
    BY <1>1, <1>4, <1>5, <2>2, <2>3
<1>6. CASE entry.sub # 0
  <2>1. PICK c \in Stage, d \in Stage :
          /\ ClientAt(entry, c) /\ Leads(entry.sub, m, c, d)
          /\ \A g : (g.sub = entry.sub /\ ClientAt(g, d)) => Chained(g, hosted, Tail(toClient))
    <3>1. \E c, d \in Stage :
            /\ ClientAt(entry, c) /\ Leads(entry.sub, m, c, d)
            /\ \A g : (g.sub = entry.sub /\ ClientAt(g, d)) => Chained(g, hosted, Tail(toClient))
      BY <1>2, <1>3, <1>6, ChainTail, Zenon DEF m
    <3> QED
      BY <3>1
  <2>2. CASE m.sub # entry.sub
    <3>1. entry' = entry /\ d = c
      BY <1>2, <2>1, <2>2 DEF Leads
    <3>2. m # [type |-> "closed", sub |-> entry.sub]
      BY <2>2
    <3>3. Chained(entry', hosted, Tail(toClient))
      BY <2>1, <3>1
    <3> QED
      BY <1>1, <1>4, <3>1, <3>2, <3>3
  <2>3. CASE m.sub = entry.sub /\ m.type = "closed"
    <3>1. entry' = [entry EXCEPT !.sub = 0, !.rowsByKey = <<>>,
                       !.snapshot = [rows |-> <<>>, complete |-> FALSE, error |-> TRUE, result |-> <<>>]]
      BY <1>2, <2>3 DEF Received
    <3>2. entry \in Entry
      BY <1>1 DEF EntrySound
    <3>3. <<>> \in Answers /\ <<>> \in {ByKey(r) : r \in Answers} /\ ByKey(<<>>) = <<>>
      BY NothingIs
    <3>4. EntrySound(entry') /\ entry'.sub = 0
      BY <3>1, <3>2, <3>3 DEF EntrySound, Entry
    <3>5. Chained(entry', hosted, Tail(toClient))
      BY <3>4 DEF Chained
    <3> QED
      BY <1>4, <3>4, <3>5
  <2>4. CASE m.sub = entry.sub /\ m.type = "rows"
    <3>1. entry' = ApplyDiff(m)
      BY <1>2, <2>4 DEF Received
    <3>2. Tells(m, c, d)
      BY <2>1, <2>4 DEF Leads
    <3>3. EntrySound(entry') /\ ClientAt(entry', d) /\ entry'.sub = entry.sub
      BY <1>1, <2>1, <3>1, <3>2, ApplySound
    <3>4. Chained(entry', hosted, Tail(toClient))
      BY <2>1, <3>3
    <3>5. m # [type |-> "closed", sub |-> entry.sub]
      BY <2>4
    <3> QED
      BY <1>4, <3>3, <3>4, <3>5
  <2>5. CASE m.sub = entry.sub /\ m.type # "closed" /\ m.type # "rows"
    <3>1. m.type = "retryable" /\ m.complete = FALSE /\ d = [c EXCEPT !.complete = FALSE]
      BY <2>1, <2>5 DEF Leads
    <3>2. entry' = [entry EXCEPT !.snapshot.complete = FALSE, !.snapshot.error = TRUE]
      BY <1>2, <2>5, <3>1 DEF Received
    <3>3. entry \in Entry /\ entry.rowsByKey = ByKey(entry.snapshot.rows)
      BY <1>1 DEF EntrySound
    <3>4. /\ entry' \in Entry /\ entry'.sub = entry.sub
          /\ entry'.snapshot.rows = entry.snapshot.rows /\ entry'.snapshot.complete = FALSE
          /\ entry'.rowsByKey = entry.rowsByKey
      BY <3>2, <3>3 DEF Entry
    <3>5. EntrySound(entry')
      BY <3>3, <3>4 DEF EntrySound
    <3>6. ClientAt(entry', d)
      BY <2>1, <3>1, <3>4 DEF ClientAt, Stage
    <3>7. Chained(entry', hosted, Tail(toClient))
      BY <2>1, <3>4, <3>6
    <3>8. m # [type |-> "closed", sub |-> entry.sub]
      BY <3>1
    <3> QED
      BY <1>4, <3>4, <3>5, <3>7, <3>8
  <2> QED
    BY <2>2, <2>3, <2>4, <2>5
<1> QED
  BY <1>5, <1>6

(* A request is sent, when there is a connection. *)
LEMMA RequestSent ==
  ASSUME NEW hw \in Seq(Request), NEW m \in Request
  PROVE  /\ Append(hw, m) \in Seq(Request)
         /\ DOMAIN hw \subseteq DOMAIN Append(hw, m)
         /\ \A i \in DOMAIN hw : Append(hw, m)[i] = hw[i]
         /\ \E last \in DOMAIN Append(hw, m) :
              /\ Append(hw, m)[last] = m /\ last \notin DOMAIN hw
              /\ \A i \in DOMAIN Append(hw, m) : i = last \/ i \in DOMAIN hw
              /\ \A i \in DOMAIN hw : ~(last < i)
<1>1. /\ Append(hw, m) \in Seq(Request)
      /\ Len(hw) \in Nat /\ DOMAIN hw = 1..Len(hw)
      /\ Len(Append(hw, m)) = Len(hw) + 1
      /\ \A i \in 1..Len(hw) : Append(hw, m)[i] = hw[i]
      /\ Append(hw, m)[Len(hw) + 1] = m
  BY AppendProperties, LenProperties
<1>2. DOMAIN Append(hw, m) = 1..(Len(hw) + 1)
  BY <1>1, LenProperties
<1> QED
  BY <1>1, <1>2

(* Listen keeps the invariant: the id is new. *)
LEMMA ListenSound == ASSUME RowsInv, FillInv', Listen PROVE RowsInv'
<1> DEFINE id == nextId + 1
           m == [type |-> "subscribe", sub |-> id]
<1>1. /\ EntrySound(entry) /\ Connection(entry, hosted, toHost, toClient, nextId, linked)
  BY RowsInvIs
<1>2. /\ hosted \in Host /\ toHost \in Seq(Request) /\ Queue(toClient)
      /\ IdsGrow(entry, hosted, toHost, toClient, nextId) /\ Served(linked, entry, hosted, toHost, toClient)
  BY <1>1 DEF Connection
<1>3. /\ entry.sub = 0 /\ nextId' = id
      /\ entry' = [entry EXCEPT !.sub = id, !.watched = TRUE]
      /\ toHost' = IF linked THEN Append(toHost, m) ELSE toHost
      /\ UNCHANGED <<fillVars, store, linked, drops, toClient, hosted>>
  BY DEF Listen, Send
<1>4. /\ nextId \in Nat /\ hosted.sub \in 0..nextId
      /\ \A i \in DOMAIN toClient : toClient[i].sub \in 1..nextId
      /\ \A i \in DOMAIN toHost : toHost[i].sub \in 1..nextId
      /\ \A i \in DOMAIN toHost : toHost[i].type = "subscribe" =>
           /\ toHost[i].sub > hosted.sub
           /\ \A k \in DOMAIN toClient : toHost[i].sub > toClient[k].sub
           /\ \A k \in DOMAIN toHost :
                k < i /\ toHost[k].type = "subscribe" => toHost[i].sub > toHost[k].sub
  BY <1>2 DEF IdsGrow
<1>5. id \in Nat \ {0} /\ m \in Request /\ m.type = "subscribe" /\ m.sub = id
  BY <1>4 DEF Request
<1>6. /\ \A i \in DOMAIN toClient : toClient[i].sub # id /\ toClient[i].sub \in 1..id /\ id > toClient[i].sub
      /\ \A i \in DOMAIN toHost : toHost[i].sub # id /\ toHost[i].sub \in 1..id /\ id > toHost[i].sub
      /\ hosted.sub # id /\ hosted.sub \in 0..id /\ id > hosted.sub /\ id \in 1..id
  BY <1>4
<1>7. EntrySound(entry') /\ entry'.sub = id
  BY <1>1, <1>3, <1>5 DEF EntrySound, Entry
<1> HIDE DEF id, m
<1>8. Chained(entry', hosted, toClient)
  BY <1>2, <1>6, <1>7, ChainFresh
<1>9. CASE ~linked
  <2>1. toHost = <<>> /\ toClient = <<>> /\ hosted = Unsubscribed /\ toHost' = toHost
    BY <1>2, <1>3, <1>9 DEF Served
  <2>2. IdsGrow(entry', hosted, toHost, toClient, id)
    BY <1>5, <1>6, <1>7, <2>1 DEF IdsGrow
  <2>3. Served(linked, entry', hosted, toHost, toClient)
    BY <1>9, <2>1 DEF Served
  <2>4. Connection(entry', hosted, toHost, toClient, id, linked)
    BY <1>2, <1>8, <2>2, <2>3 DEF Connection
  <2>5. Connection(entry', hosted, toHost', toClient', nextId', linked')
    BY <1>3, <2>1, <2>4
  <2> QED
    BY <1>3, <1>7, <2>5, ClientStep
<1>10. CASE linked
  <2> DEFINE t == Append(toHost, m)
  <2>1. /\ t \in Seq(Request) /\ DOMAIN toHost \subseteq DOMAIN t
        /\ \A i \in DOMAIN toHost : t[i] = toHost[i]
        /\ \E last \in DOMAIN t :
              /\ t[last] = m /\ last \notin DOMAIN toHost
              /\ \A i \in DOMAIN t : i = last \/ i \in DOMAIN toHost
              /\ \A i \in DOMAIN toHost : ~(last < i)
    BY <1>2, <1>5, RequestSent
  <2> HIDE DEF t
  <2>2. PICK last \in DOMAIN t :
              /\ t[last] = m /\ last \notin DOMAIN toHost
              /\ \A i \in DOMAIN t : i = last \/ i \in DOMAIN toHost
              /\ \A i \in DOMAIN toHost : ~(last < i)
    BY <2>1
  <2>3. ASSUME NEW i \in DOMAIN t
        PROVE  /\ t[i].sub \in 1..id
               /\ t[i].type = "unsubscribe" => t[i].sub # id
               /\ t[i].type = "subscribe" =>
                    /\ t[i].sub > hosted.sub /\ \A k \in DOMAIN toClient : t[i].sub > toClient[k].sub
                    /\ \A k \in DOMAIN t : k < i /\ t[k].type = "subscribe" => t[i].sub > t[k].sub
    <3>1. CASE i = last
      <4>1. \A k \in DOMAIN t : k < i => k \in DOMAIN toHost
        <5>1. ASSUME NEW k \in DOMAIN t, k < i PROVE k # last
          <6>1. t \in Seq(Request) /\ DOMAIN t = 1..Len(t) /\ Len(t) \in Nat
            BY <2>1, LenProperties
          <6> QED
            BY <3>1, <5>1, <6>1
        <5> QED
          BY <2>2, <5>1
      <4>2. t[i] = m
        BY <2>2, <3>1
      <4> QED
        BY <1>5, <1>6, <2>1, <4>1, <4>2
    <3>2. CASE i \in DOMAIN toHost
      <4>1. \A k \in DOMAIN t : k < i => k \in DOMAIN toHost
        BY <2>2, <3>2
      <4> QED
        BY <1>4, <1>6, <2>1, <3>2, <4>1
    <3> QED
      BY <2>2, <3>1, <3>2
  <2>4. IdsGrow(entry', hosted, t, toClient, id)
    BY <1>5, <1>6, <1>7, <2>3 DEF IdsGrow
  <2>5. Served(linked, entry', hosted, t, toClient)
    BY <1>7, <1>10, <2>2 DEF Served, m
  <2>6. Connection(entry', hosted, t, toClient, id, linked)
    BY <1>2, <1>8, <2>1, <2>4, <2>5 DEF Connection
  <2>7. Connection(entry', hosted, toHost', toClient', nextId', linked')
    BY <1>3, <1>10, <2>6 DEF t
  <2> QED
    BY <1>3, <1>7, <2>7, ClientStep
<1> QED
  BY <1>9, <1>10

(* Unlisten keeps the invariant: what is under way is for nobody. *)
LEMMA UnlistenSound == ASSUME RowsInv, FillInv', Unlisten PROVE RowsInv'
<1> DEFINE m == [type |-> "unsubscribe", sub |-> entry.sub]
<1>1. /\ EntrySound(entry) /\ Connection(entry, hosted, toHost, toClient, nextId, linked)
  BY RowsInvIs
<1>2. /\ hosted \in Host /\ toHost \in Seq(Request) /\ Queue(toClient)
      /\ IdsGrow(entry, hosted, toHost, toClient, nextId) /\ Served(linked, entry, hosted, toHost, toClient)
  BY <1>1 DEF Connection
<1>3. /\ entry' = [entry EXCEPT !.sub = 0, !.watched = FALSE]
      /\ toHost' = IF entry.sub # 0 /\ linked THEN Append(toHost, m) ELSE toHost
      /\ UNCHANGED <<fillVars, store, linked, drops, toClient, hosted, nextId>>
  BY DEF Unlisten, Send
<1>4. /\ nextId \in Nat /\ entry.sub \in {0, nextId} /\ hosted.sub \in 0..nextId
      /\ \A i \in DOMAIN toClient : toClient[i].sub \in 1..nextId
      /\ \A i \in DOMAIN toHost : toHost[i].sub \in 1..nextId
      /\ \A i \in DOMAIN toHost : toHost[i].type = "subscribe" =>
           /\ toHost[i].sub > hosted.sub
           /\ \A k \in DOMAIN toClient : toHost[i].sub > toClient[k].sub
           /\ \A k \in DOMAIN toHost :
                k < i /\ toHost[k].type = "subscribe" => toHost[i].sub > toHost[k].sub
  BY <1>2 DEF IdsGrow
<1>5. EntrySound(entry') /\ entry'.sub = 0
  BY <1>1, <1>3 DEF EntrySound, Entry
<1>6. Chained(entry', hosted, toClient)
  BY <1>5 DEF Chained
<1>7. CASE toHost' = toHost
  <2>1. \A i \in DOMAIN toHost : toHost[i].sub # 0
    BY <1>4
  <2>2. IdsGrow(entry', hosted, toHost, toClient, nextId)
    BY <1>4, <1>5, <2>1 DEF IdsGrow
  <2>3. Served(linked, entry', hosted, toHost, toClient)
    BY <1>2, <1>5 DEF Served
  <2>4. Connection(entry', hosted, toHost, toClient, nextId, linked)
    BY <1>2, <1>6, <2>2, <2>3 DEF Connection
  <2>5. Connection(entry', hosted, toHost', toClient', nextId', linked')
    BY <1>3, <1>7, <2>4
  <2> QED
    BY <1>3, <1>5, <2>5, ClientStep
<1>8. CASE entry.sub # 0 /\ linked
  <2>1. m \in Request /\ m.type = "unsubscribe" /\ m.sub = entry.sub
    BY <1>4 DEF Request
  <2> HIDE DEF m
  <2> DEFINE t == Append(toHost, m)
  <2>2. /\ t \in Seq(Request) /\ DOMAIN toHost \subseteq DOMAIN t
        /\ \A i \in DOMAIN toHost : t[i] = toHost[i]
        /\ \E last \in DOMAIN t :
              /\ t[last] = m /\ last \notin DOMAIN toHost
              /\ \A i \in DOMAIN t : i = last \/ i \in DOMAIN toHost
              /\ \A i \in DOMAIN toHost : ~(last < i)
    BY <1>2, <2>1, RequestSent
  <2> HIDE DEF t
  <2>3. PICK last \in DOMAIN t :
              /\ t[last] = m /\ last \notin DOMAIN toHost
              /\ \A i \in DOMAIN t : i = last \/ i \in DOMAIN toHost
              /\ \A i \in DOMAIN toHost : ~(last < i)
    BY <2>2
  <2>4. ASSUME NEW i \in DOMAIN t
        PROVE  /\ t[i].sub \in 1..nextId
               /\ t[i].type = "subscribe" =>
                    /\ t[i].sub > hosted.sub /\ \A k \in DOMAIN toClient : t[i].sub > toClient[k].sub
                    /\ \A k \in DOMAIN t : k < i /\ t[k].type = "subscribe" => t[i].sub > t[k].sub
    <3>1. CASE i = last
      BY <1>4, <1>8, <2>1, <2>3, <3>1
    <3>2. CASE i \in DOMAIN toHost
      <4>1. \A k \in DOMAIN t : k < i => k \in DOMAIN toHost
        BY <2>3, <3>2
      <4> QED
        BY <1>4, <2>2, <3>2, <4>1
    <3> QED
      BY <2>3, <3>1, <3>2
  <2>5. \A i \in DOMAIN t : t[i].sub # 0
    BY <1>4, <2>4
  <2>6. IdsGrow(entry', hosted, t, toClient, nextId)
    BY <1>4, <1>5, <2>4, <2>5 DEF IdsGrow
  <2>7. Served(linked, entry', hosted, t, toClient)
    BY <1>5, <1>8 DEF Served
  <2>8. Connection(entry', hosted, t, toClient, nextId, linked)
    BY <1>2, <1>6, <2>2, <2>6, <2>7 DEF Connection
  <2>9. Connection(entry', hosted, toHost', toClient', nextId', linked')
    BY <1>3, <1>8, <2>8 DEF t
  <2> QED
    BY <1>3, <1>5, <2>9, ClientStep
<1> QED
  BY <1>3, <1>7, <1>8

(* Evict keeps the invariant. *)
LEMMA EvictSound == ASSUME RowsInv, FillInv', Evict PROVE RowsInv'
<1>1. Connection(entry, hosted, toHost, toClient, nextId, linked)
  BY RowsInvIs
<1>2. entry' = NoEntry /\ UNCHANGED <<fillVars, store, linked, drops, toHost, toClient, hosted, nextId>>
  BY DEF Evict
<1>3. <<>> \in Answers /\ <<>> \in {ByKey(r) : r \in Answers} /\ ByKey(<<>>) = <<>>
  BY NothingIs
<1>4. EntrySound(NoEntry) /\ NoEntry.sub = 0
  BY <1>3 DEF EntrySound, Entry, NoEntry
<1>5. Chained(NoEntry, hosted, toClient)
  BY <1>4 DEF Chained
<1>6. \A i \in DOMAIN toHost : toHost[i].sub # 0
  BY <1>1 DEF Connection, IdsGrow
<1>7. IdsGrow(NoEntry, hosted, toHost, toClient, nextId)
  BY <1>1, <1>4, <1>6 DEF Connection, IdsGrow
<1>8. Served(linked, NoEntry, hosted, toHost, toClient)
  BY <1>1, <1>4 DEF Connection, Served
<1>9. Connection(NoEntry, hosted, toHost, toClient, nextId, linked)
  BY <1>1, <1>5, <1>7, <1>8 DEF Connection
<1>10. Connection(entry', hosted, toHost', toClient', nextId', linked') /\ EntrySound(entry')
  BY <1>2, <1>4, <1>9
<1> QED
  BY <1>2, <1>10, ClientStep

(* Drop keeps the invariant: nothing is under way, and no host knows the   *)
(* client.                                                                 *)
LEMMA DropSound == ASSUME RowsInv, FillInv', Drop PROVE RowsInv'
<1>1. /\ StoreSound(store) /\ EntrySound(entry)
      /\ IdsGrow(entry, hosted, toHost, toClient, nextId)
  BY DEF RowsInv
<1>2. /\ linked' = FALSE /\ toHost' = <<>> /\ toClient' = <<>> /\ hosted' = Unsubscribed
      /\ UNCHANGED <<fillVars, store, entry, nextId>>
  BY DEF Drop
<1>3. /\ Unsubscribed \in Host /\ Unsubscribed.sub = 0 /\ Unsubscribed.prevByKey = <<>>
      /\ Unsubscribed.prevOrder = <<>> /\ Unsubscribed.authoritativeSent = FALSE
  <2>1. <<>> \in {ByKey(r) : r \in Answers} /\ <<>> \in {KeysOf(r) : r \in Answers}
    BY NothingIs
  <2> QED
    BY <2>1 DEF Host, Unsubscribed
<1>4. <<>> \in Seq(Request) /\ Queue(<<>>) /\ DOMAIN <<>> = {}
  BY EmptySeq DEF Queue
<1>5. Chained(entry, Unsubscribed, <<>>)
  BY <1>3, <1>4, ChainFresh
<1>6. IdsGrow(entry, Unsubscribed, <<>>, <<>>, nextId)
  BY <1>1, <1>3 DEF IdsGrow
<1>7. Served(FALSE, entry, Unsubscribed, <<>>, <<>>)
  BY DEF Served
<1>8. HostSound(Unsubscribed, store, fill)
  BY <1>3 DEF HostSound
<1>9. Connection(entry, Unsubscribed, <<>>, <<>>, nextId, FALSE)
  BY <1>3, <1>4, <1>5, <1>6, <1>7 DEF Connection
<1>10. /\ StoreSound(store') /\ EntrySound(entry') /\ HostSound(hosted', store', fill')
       /\ Connection(entry', hosted', toHost', toClient', nextId', linked')
  BY <1>1, <1>2, <1>8, <1>9 DEF fillVars
<1> QED
  BY <1>10 DEF RowsInv, Connection

(* Redial keeps the invariant: an active entry is asked for again. *)
LEMMA RedialSound == ASSUME RowsInv, FillInv', Redial PROVE RowsInv'
<1> DEFINE m == [type |-> "subscribe", sub |-> entry.sub]
           asked == IF entry.sub = 0 THEN <<>> ELSE <<m>>
<1>1. /\ EntrySound(entry) /\ Connection(entry, hosted, toHost, toClient, nextId, linked)
  BY RowsInvIs
<1>2. /\ ~linked /\ linked' = TRUE /\ toHost' = asked
      /\ UNCHANGED <<fillVars, store, drops, toClient, hosted, entry, nextId>>
  BY DEF Redial
<1>3. /\ toClient = <<>> /\ hosted = Unsubscribed /\ hosted.sub = 0
      /\ nextId \in Nat /\ entry.sub \in {0, nextId}
  BY <1>1, <1>2 DEF Connection, Served, IdsGrow, Unsubscribed
<1>4. asked \in Seq(Request) /\ (entry.sub # 0 => DOMAIN asked = {1} /\ asked[1] = m)
      /\ (entry.sub = 0 => DOMAIN asked = {})
  <2>1. CASE entry.sub = 0
    BY <2>1, EmptySeq
  <2>2. CASE entry.sub # 0
    BY <1>3, <2>2 DEF Request
  <2> QED
    BY <2>1, <2>2
<1>5. m.type = "subscribe" /\ m.sub = entry.sub
  OBVIOUS
<1> HIDE DEF asked
<1>6. IdsGrow(entry, hosted, asked, toClient, nextId)
  <2>1. CASE entry.sub = 0
    BY <1>3, <1>4, <2>1 DEF IdsGrow
  <2>2. CASE entry.sub # 0
    <3>1. \A i \in DOMAIN asked : i = 1 /\ asked[i].type = "subscribe" /\ asked[i].sub = entry.sub
      BY <1>4, <2>2
    <3> HIDE DEF m
    <3> QED
      BY <1>3, <2>2, <3>1 DEF IdsGrow
  <2> QED
    BY <2>1, <2>2
<1>7. Served(TRUE, entry, hosted, asked, toClient)
  BY <1>4 DEF Served
<1>8. Connection(entry, hosted, asked, toClient, nextId, TRUE)
  BY <1>1, <1>4, <1>6, <1>7 DEF Connection
<1>9. Connection(entry', hosted, toHost', toClient', nextId', linked') /\ EntrySound(entry')
  BY <1>1, <1>2, <1>8
<1> QED
  BY <1>2, <1>9, ClientStep

(* Every step keeps the invariant. *)
LEMMA RowsInvStep == RowsInv /\ [RowsNext]_<<fillVars, rowVars>> => RowsInv'
<1> SUFFICES ASSUME RowsInv, [RowsNext]_<<fillVars, rowVars>> PROVE RowsInv'
  OBVIOUS
<1>1. FillInv'
  BY RowsStepSound DEF RowsInv
<1>2. CASE RowsNext
  BY <1>1, <1>2, HostReceivesSound, ClientReceivesSound, RedialSound, DropSound, ListenSound,
     UnlistenSound, EvictSound, WriteSound, RowsLoadedSound, RowsNotLoadedSound, FillTurnsSound
     DEF RowsNext, LoadsGoOn
<1>3. CASE UNCHANGED <<fillVars, rowVars>>
  BY <1>1, <1>3 DEF RowsInv, fillVars, rowVars
<1> QED
  BY <1>2, <1>3

(* It implies that a client with nothing under way shows the store's rows. *)
LEMMA RowsInvQuiet == RowsInv => QuietClientIsCurrent
<1> SUFFICES ASSUME RowsInv, linked, toHost = <<>>, toClient = <<>>, entry.sub # 0, Complete(fill)
             PROVE  entry.snapshot.complete /\ entry.snapshot.rows = store.rows
  BY DEF QuietClientIsCurrent
<1>1. /\ StoreSound(store) /\ HostSound(hosted, store, fill)
      /\ Served(linked, entry, hosted, toHost, toClient) /\ Chained(entry, hosted, toClient)
  BY DEF RowsInv
<1>2. hosted.sub = entry.sub
  BY <1>1 DEF Served
<1>3. /\ store.rows # Fails /\ hosted.authoritativeSent
      /\ hosted.prevByKey = ByKey(store.rows) /\ hosted.prevOrder = KeysOf(store.rows)
  BY <1>1, <1>2 DEF HostSound
<1>4. PICK C : Chain(entry, hosted, toClient, C)
  BY <1>1 DEF Chained
<1>5. C[0] \in Stage /\ ClientAt(entry, C[0]) /\ HostAt(hosted, C[0])
  BY <1>2, <1>4 DEF Chain
<1>6. /\ C[0].exact /\ C[0].complete
      /\ KeysOf(C[0].rows) = KeysOf(store.rows) /\ ByKey(C[0].rows) = ByKey(store.rows)
  BY <1>3, <1>5 DEF HostAt
<1>7. C[0].rows \in Answers /\ store.rows \in Answers
  BY <1>1, <1>3, <1>5 DEF Stage, StoreSound, Answers
<1>8. C[0].rows = store.rows
  BY <1>6, <1>7, AnswerDetermined
<1> QED
  BY <1>5, <1>6, <1>8 DEF ClientAt

(* The invariant of the live rows holds for all queries, answers, writes,  *)
(* loads, lost connections and renewed subscriptions of host.ts and        *)
(* client.ts.                                                              *)
THEOREM RowsInvariant == RowsSpec => []RowsInv
<1>1. RowsInit => RowsInv
  BY RowsInitSound
<1>2. RowsInv /\ [RowsNext]_<<fillVars, rowVars>> => RowsInv'
  BY RowsInvStep
<1> QED
  BY <1>1, <1>2, PTL DEF RowsSpec

(* What a client of client.ts shows as complete is one answer of the query, *)
(* never a mix of two.                                                      *)
THEOREM CompleteRowsHold == RowsSpec => []CompleteRowsAreOneVersion
<1>1. RowsInv => CompleteRowsAreOneVersion
  BY DEF RowsInv, EntrySound, CompleteRowsAreOneVersion
<1> QED
  BY <1>1, RowsInvariant, PTL

(* A subscribed client of client.ts that has read all there is shows, as   *)
(* complete, the rows of the store as soon as its slices are loaded.       *)
THEOREM QuietClientHolds == RowsSpec => []QuietClientIsCurrent
  BY RowsInvariant, RowsInvQuiet, PTL
=============================================================================
