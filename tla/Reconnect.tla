----------------------------- MODULE Reconnect -----------------------------
(***************************************************************************)
(* The connection manager of reconnect.ts: it dials one transport after    *)
(* another around one long-lived client.  What flows over the transport is *)
(* the subject of ExactlyOnce and WriteStream, whose Redial and Drop stand *)
(* for GoLive and Closed here.                                             *)
(*                                                                         *)
(* A transport is external.  It may report open and closed while connect() *)
(* is still running or later, it may report closed more than once (error,  *)
(* then close), and it does not report open after closed.                  *)
(***************************************************************************)
EXTENDS Naturals, FiniteSets

CONSTANTS
  MaxAttempt,  \* min(maxMs, baseMs * 2 ** attempt) is constant from here on
  MaxDials     \* bound: transports dialed

ASSUME MaxAttemptAssumption == MaxAttempt \in Nat
ASSUME BoundAssumption == MaxDials \in Nat

VARIABLES
  \* The manager.
  started,  \* createReconnectingClient() has returned
  stopped,  \* close() was called
  up,       \* what connected() and the connectivity listeners are told
  conn,     \* the dial whose transport is in use, 0 for null
  redial,   \* the retry timer is armed
  attempt,
  dials,    \* dials made
  held,     \* the state each dial closes over
  \* The transports.
  wire,     \* what each of them is doing
  released  \* those whose close() the manager called

vars == <<started, stopped, up, conn, redial, attempt, dials, held, wire, released>>

Dials == 1..MaxDials
Held == [c : BOOLEAN, opened : BOOLEAN, settled : BOOLEAN]
NoDial == [c |-> FALSE, opened |-> FALSE, settled |-> FALSE]

TypeOK ==
  /\ started \in BOOLEAN /\ stopped \in BOOLEAN /\ up \in BOOLEAN /\ redial \in BOOLEAN
  /\ conn \in 0..MaxDials
  /\ attempt \in 0..MaxAttempt
  /\ dials \in 0..MaxDials
  /\ held \in [Dials -> Held]
  /\ wire \in [Dials -> {"none", "connecting", "open", "failed", "gone"}]
  /\ released \subseteq Dials

Init ==
  /\ started = FALSE /\ stopped = FALSE /\ up = FALSE /\ redial = FALSE
  /\ conn = 0
  /\ attempt = 0
  /\ dials = 0
  /\ held = [d \in Dials |-> NoDial]
  /\ wire = [d \in Dials |-> "none"]
  /\ released = {}

\* goLive(): once the dial has its transport and the transport is open.  The
\* replay it ends with is the subject of the other modules.
GoLive(d) ==
  /\ conn' = d
  /\ attempt' = 0
  /\ up' = TRUE

\* Arms the timer of the next dial, later each time up to maxMs.
BackOff ==
  /\ redial' = TRUE
  /\ attempt' = IF attempt < MaxAttempt THEN attempt + 1 ELSE attempt

----------------------------------------------------------------------------
(* dial(), by what the transport reports before connect() returns *)

NextDial(h, w) ==
  /\ dials' = dials + 1
  /\ held' = [held EXCEPT ![dials + 1] = h]
  /\ wire' = [wire EXCEPT ![dials + 1] = w]

ConnectsLater ==
  /\ NextDial([c |-> TRUE, opened |-> FALSE, settled |-> FALSE], "connecting")
  /\ redial' = FALSE
  /\ UNCHANGED <<conn, up, attempt, released>>

OpensAtOnce ==
  /\ NextDial([c |-> TRUE, opened |-> TRUE, settled |-> FALSE], "open")
  /\ redial' = FALSE
  /\ GoLive(dials + 1)
  /\ UNCHANGED released

\* Closed, with or without having opened first: closed() has armed the timer,
\* and the transport is released.  The bound leaves a dial for the one that
\* will hold.
ClosesAtOnce ==
  /\ dials + 1 < MaxDials
  /\ \E opened \in BOOLEAN :
       NextDial([c |-> FALSE, opened |-> opened, settled |-> TRUE], "failed")
  /\ up' = FALSE
  /\ BackOff
  /\ released' = released \cup {dials + 1}
  /\ UNCHANGED conn

Connect ==
  /\ dials < MaxDials
  /\ ConnectsLater \/ OpensAtOnce \/ ClosesAtOnce

Start ==
  /\ ~started
  /\ started' = TRUE
  /\ Connect
  /\ UNCHANGED stopped

\* The timer fires.
Dial ==
  /\ redial /\ ~stopped
  /\ Connect
  /\ UNCHANGED <<started, stopped>>

----------------------------------------------------------------------------
(* What a transport reports later *)

\* opened()
Opened(d) ==
  /\ wire[d] = "connecting"
  /\ wire' = [wire EXCEPT ![d] = "open"]
  /\ held' = [held EXCEPT ![d].opened = TRUE]
  /\ IF held[d].c THEN GoLive(d) ELSE UNCHANGED <<conn, up, attempt>>
  /\ UNCHANGED <<started, stopped, redial, dials, released>>

\* Mutants: a second report is handled like the first; the dead connection
\* stays current; only a connection that was up is dialed again.
OnClosedEveryTime(d) ==
  /\ held' = [held EXCEPT ![d].settled = TRUE]
  /\ conn' = IF conn = d THEN 0 ELSE conn
  /\ up' = FALSE
  /\ IF stopped THEN UNCHANGED <<redial, attempt>> ELSE BackOff

OnClosedKeepsConn(d) ==
  /\ ~held[d].settled
  /\ held' = [held EXCEPT ![d].settled = TRUE]
  /\ up' = FALSE
  /\ IF stopped THEN UNCHANGED <<redial, attempt>> ELSE BackOff
  /\ UNCHANGED conn

OnClosedWhenUp(d) ==
  /\ ~held[d].settled
  /\ held' = [held EXCEPT ![d].settled = TRUE]
  /\ conn' = IF conn = d THEN 0 ELSE conn
  /\ up' = FALSE
  /\ IF stopped \/ ~up THEN UNCHANGED <<redial, attempt>> ELSE BackOff

\* closed(), the first time a dial hears it.
OnClosed(d) ==
  /\ ~held[d].settled
  /\ held' = [held EXCEPT ![d].settled = TRUE]
  /\ conn' = IF conn = d THEN 0 ELSE conn
  /\ up' = FALSE
  /\ IF stopped THEN UNCHANGED <<redial, attempt>> ELSE BackOff

OnClosedAgain(d) ==
  /\ held[d].settled
  /\ UNCHANGED <<held, conn, up, redial, attempt>>

\* Here, too, the bound leaves a dial.
Closed(d) ==
  /\ wire[d] \in {"connecting", "open", "failed"}
  /\ wire[d] = "failed" \/ stopped \/ dials < MaxDials
  /\ wire' = [wire EXCEPT ![d] = IF @ = "failed" THEN "gone" ELSE "failed"]
  /\ OnClosed(d) \/ OnClosedAgain(d)
  /\ UNCHANGED <<started, stopped, dials, released>>

----------------------------------------------------------------------------
\* close(): a transport that is still connecting is nobody's conn.
Close ==
  /\ started
  /\ stopped' = TRUE
  /\ redial' = FALSE
  /\ released' = IF conn # 0 THEN released \cup {conn} ELSE released
  /\ conn' = 0
  /\ up' = FALSE
  /\ UNCHANGED <<started, attempt, dials, held, wire>>

Next ==
  \/ Start \/ Dial \/ Close
  \/ \E d \in Dials : Opened(d) \/ Closed(d)

Spec == Init /\ [][Next]_vars

\* The timer fires, and a transport that does not fail opens.
Fairness == WF_vars(Start) /\ WF_vars(Dial) /\ \A d \in Dials : WF_vars(Opened(d))
FairSpec == Spec /\ Fairness

----------------------------------------------------------------------------
(* Properties *)

\* The dials that may still report.
Open == {d \in 1..dials : ~held[d].settled}

\* There is one chain of dials: at most one transport may still report, and
\* until close() the manager either waits for it or for its timer, however
\* often and whenever the transports report.
OneChain ==
  /\ \A d, e \in Open : d = e
  /\ started /\ ~stopped => (redial <=> Open = {})

\* connected() tells the truth: there is a transport to send over, it is
\* open as far as anyone was told, and the manager did not close it.
UpIsLive ==
  /\ up <=> conn # 0
  /\ up => conn \in Open /\ held[conn].opened /\ conn \notin released

\* The inductive invariant behind both.  Its other parts:
\* what a dial was told agrees with what its transport did, and a transport
\* the manager closed is past connecting;
HeldIsCurrent ==
  \A d \in Dials :
    /\ d > dials => held[d] = NoDial /\ wire[d] = "none" /\ d \notin released
    /\ d <= dials => wire[d] # "none"
    /\ held[d].settled <=> wire[d] \in {"failed", "gone"}
    /\ held[d].opened => wire[d] # "connecting"
    /\ d \in released => wire[d] # "connecting"
    /\ wire[d] \in {"connecting", "open"} => held[d].c

\* before the first dial, and after close(), no timer is armed.
TimerOnlyWhileRunning ==
  /\ redial => started /\ ~stopped
  /\ ~started => dials = 0 /\ ~stopped
  /\ started => dials # 0

Inv == TypeOK /\ HeldIsCurrent /\ TimerOnlyWhileRunning /\ OneChain /\ UpIsLive

\* A client that is not closed is connected again, after any number of
\* failures, synchronous ones included.
Reconnects == started ~> up \/ stopped

\* The tests' "stops re-dialing on close": "After close, a cut must not
\* resurrect the connection."
ClosedStaysDown == stopped => ~up
=============================================================================
