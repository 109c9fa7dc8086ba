----------------------------- MODULE DemandFill -----------------------------
(***************************************************************************)
(* The demand-fill of engine.ts: which slices of the data are loaded, and  *)
(* the default gate through which their loads run.  A subscription asks    *)
(* for the scopes it reads; every scope has at most one load job, which    *)
(* waits on its backoff timer or in the queue of the gate, or runs.  The   *)
(* loader of the application is external: it ends some time, well or not.  *)
(*                                                                         *)
(* The calls of one handler chain run in one step.  A load's answer and    *)
(* the .finally() that gives its slot back are two steps: they are two     *)
(* microtasks.  loadErrors has an entry for the slices in error and for no *)
(* other, so it is not a variable.                                         *)
(***************************************************************************)
EXTENDS Integers, FiniteSets, Sequences, SequencesExt, FiniteSetsExt, Folds

CONSTANTS
  Scopes,        \* the (collection, scope) slices, in the order of declaration
  Wants,         \* the sets of slices a subscription may match
  Priorities,
  LoadAttempts,  \* loadRetry.attempts
  MaxConcurrent, \* maxConcurrentLoads
  MaxDemands     \* bound: demands and calls of retryAll()

ASSUME ScopesAssumption ==
  Scopes \subseteq Nat \ {0} /\ IsFiniteSet(Scopes) /\ Wants \subseteq SUBSET Scopes
ASSUME GateAssumption ==
  MaxConcurrent \in Nat \ {0} /\ LoadAttempts \in Nat /\ Priorities \subseteq Int

VARIABLES
  fill,    \* states, attemptOf, priorityOf, cancelPending, and the gate's jobs, waiting, inFlight
  demands

fillVars == <<fill, demands>>

NoJob == 0
\* a job that is over, and of which no detail is kept
Spent == [scope |-> 0, attempt |-> 0, priority |-> 0, live |-> FALSE, at |-> "done"]
Jobs(f) == DOMAIN f.jobs
Alive(f, j) == f.jobs[j].at = "running" \/ (f.jobs[j].at \in {"timer", "waiting"} /\ f.jobs[j].live)
AliveOf(f, s) == {j \in Jobs(f) : f.jobs[j].scope = s /\ Alive(f, j)}
Running(f) == {j \in Jobs(f) : f.jobs[j].at = "running"}

FillInit ==
  /\ fill \in {[state |-> state, attemptOf |-> [s \in Scopes |-> 0],
                priorityOf |-> [s \in Scopes |-> 0], cancelPending |-> [s \in Scopes |-> NoJob],
                jobs |-> <<>>, waiting |-> <<>>, inFlight |-> 0, baseMs |-> base] :
                  state \in [Scopes -> {"empty", "complete"}], base \in {0, 1}}
  /\ demands = 0

----------------------------------------------------------------------------
(* The gate *)

\* Takes live jobs from the head of the queue while there is a slot; what runs
\* is loading, and no longer pending.
Pump(f) ==
  LET room == MaxConcurrent - f.inFlight
      LiveUpTo(n) == {i \in 1..n : f.jobs[f.waiting[i]].live}
      last == Min({n \in 0..Len(f.waiting) :
                     n = Len(f.waiting) \/ Cardinality(LiveUpTo(n)) = room})
      begun == {f.waiting[i] : i \in LiveUpTo(last)}
      scopes == {f.jobs[j].scope : j \in begun}
  IN  [f EXCEPT !.waiting = SubSeq(@, last + 1, Len(@)),
                !.inFlight = @ + Cardinality(begun),
                !.jobs = [j \in DOMAIN @ |-> IF j \in begun THEN [f.jobs[j] EXCEPT !.at = "running"]
                                                           ELSE f.jobs[j]],
                !.state = [s \in Scopes |-> IF s \in scopes THEN "loading" ELSE @[s]],
                !.cancelPending = [s \in Scopes |-> IF s \in scopes THEN NoJob ELSE @[s]]]

\* Behind the jobs of its priority, before those of a lower one.
Enqueue(f, j) ==
  LET ahead == {i \in DOMAIN f.waiting : f.jobs[f.waiting[i]].priority >= f.jobs[j].priority}
  IN  Pump([f EXCEPT !.waiting = InsertAt(@, Cardinality(ahead) + 1, j),
                     !.jobs[j].at = "waiting"])

\* Mutant of Cancel: schedule() does not supersede the pending job.
CancelsNothing(f, s) == f

\* A job is superseded on its timer or in the queue; one that runs is not.
Cancel(f, s) ==
  IF f.cancelPending[s] = NoJob THEN f
  ELSE LET j == f.cancelPending[s]
       IN  [f EXCEPT !.jobs[j] =
               IF @.at = "timer" THEN Spent ELSE [@ EXCEPT !.live = FALSE]]

\* The new job supersedes the pending one, and is pending itself even when the
\* gate has started it at once.
Schedule(f, s, attempt, priority) ==
  LET j == Len(f.jobs) + 1
      job == [scope |-> s, attempt |-> attempt, priority |-> priority, live |-> TRUE, at |-> "timer"]
      alone == Cancel([f EXCEPT !.attemptOf[s] = attempt, !.priorityOf[s] = priority,
                                !.jobs = Append(@, job)], s)
      given == IF attempt = 0 \/ f.baseMs = 0 THEN Enqueue(alone, j) ELSE alone
  IN  [given EXCEPT !.cancelPending[s] = j]

----------------------------------------------------------------------------
(* The engine *)

\* The orders in which slices may be asked for: the last one of each set of them
Orders ==
  {last \in [(SUBSET Scopes) \ {{}} -> Scopes] : \A asked \in DOMAIN last : last[asked] \in asked}

\* Each of a set of slices that is in none of the states spared gets a fresh job.
AskFor(f, scopes, spared, priority, last) ==
  MapThenFoldSet(LAMBDA s, g : IF g.state[s] \in spared THEN g ELSE Schedule(g, s, 0, priority[s]),
                 f, LAMBDA s : s, LAMBDA asked : last[asked], scopes)

\* A slice that loads or is complete needs no job; a fresh job replaces the
\* retry of one in error.  The slices come in the order of declaration.
Ensure(f, wanted, priority) ==
  AskFor(f, wanted, {"loading", "complete"}, [s \in Scopes |-> priority],
         [asked \in (SUBSET Scopes) \ {{}} |-> Max(asked)])

\* In the order in which the slices first had a state
AllRetried(f, last) == AskFor(f, Scopes, {"empty", "loading", "complete"}, f.priorityOf, last)

Loaded(f, j) ==
  [f EXCEPT !.jobs[j].at = "settled",
            !.state[f.jobs[j].scope] = "complete",
            !.attemptOf[f.jobs[j].scope] = 0]

\* load() was rejected, or its writes could not be applied.
Failed(f, j) ==
  LET s == f.jobs[j].scope
      wrong == [f EXCEPT !.jobs[j].at = "settled", !.state[s] = "error"]
      next == f.attemptOf[s] + 1
  IN  \* the budget spent, the next demand starts afresh
      IF next < LoadAttempts THEN Schedule(wrong, s, next, f.priorityOf[s])
      ELSE [wrong EXCEPT !.attemptOf[s] = 0]

\* Mutant of Released: the queue is not pumped when a slot is freed.
ReleasedOnly(f, j) == [f EXCEPT !.jobs[j] = Spent, !.inFlight = @ - 1]

Released(f, j) == Pump([f EXCEPT !.jobs[j] = Spent, !.inFlight = @ - 1])

----------------------------------------------------------------------------

Demand ==
  /\ demands < MaxDemands
  /\ demands' = demands + 1
  /\ \E wanted \in Wants, priority \in Priorities : fill' = Ensure(fill, wanted, priority)

RetryAll ==
  /\ demands < MaxDemands
  /\ demands' = demands + 1
  /\ \E last \in Orders : fill' = AllRetried(fill, last)

LoadSucceeds ==
  \E j \in Running(fill) : fill' = Loaded(fill, j) /\ UNCHANGED demands

LoadFails ==
  \E j \in Running(fill) : fill' = Failed(fill, j) /\ UNCHANGED demands

\* .finally(), in a microtask of its own
SlotFreed ==
  \E j \in Jobs(fill) :
    /\ fill.jobs[j].at = "settled"
    /\ fill' = Released(fill, j)
    /\ UNCHANGED demands

TimerFires ==
  \E j \in Jobs(fill) :
    /\ fill.jobs[j].at = "timer"
    /\ fill' = Enqueue(fill, j)
    /\ UNCHANGED demands

FillProgress == LoadSucceeds \/ LoadFails \/ SlotFreed \/ TimerFires
FillNext == Demand \/ RetryAll \/ FillProgress
FillSpec == FillInit /\ [][FillNext]_fillVars /\ WF_fillVars(FillProgress)

----------------------------------------------------------------------------
(* Properties *)

\* A slice has one job that may still run, and it is loading while that job
\* runs and at no other time: what a fresh demand or retryAll() supersedes never
\* comes back as a ghost (engine.ts:501, the promise of LoadScheduler).
OneJobPerScope ==
  \A s \in Scopes :
    /\ Cardinality(AliveOf(fill, s)) <= 1
    /\ fill.state[s] = "loading" <=> \E j \in AliveOf(fill, s) : j \in Running(fill)
    /\ fill.state[s] = "complete" => AliveOf(fill, s) = {}

\* The cap is never exceeded, a slot is held by a load or by its .finally(), and
\* no live job waits while a slot is free.
NoIdleSlot ==
  /\ fill.inFlight = Cardinality({j \in Jobs(fill) : fill.jobs[j].at \in {"running", "settled"}})
  /\ fill.inFlight <= MaxConcurrent
  /\ (\E i \in DOMAIN fill.waiting : fill.jobs[fill.waiting[i]].live) => fill.inFlight = MaxConcurrent

GateIsSound == OneJobPerScope /\ NoIdleSlot

\* Every demand ends: the slice is complete, or in error with no try left.
EveryDemandEnds ==
  \A s \in Scopes :
    (AliveOf(fill, s) # {}) ~>
      \/ fill.state[s] = "complete"
      \/ fill.state[s] = "error" /\ AliveOf(fill, s) = {}
=============================================================================
