------------------------------ MODULE WriteBack ------------------------------
(***************************************************************************)
(* The write-back path of engine.ts: mutate() applies a write to the local *)
(* graph at once and queues it; pump() pushes the queue upstream, one      *)
(* write at a time, with retries.  A snapshot (snapshot.ts) saves graph    *)
(* and queue together, and an engine built after a crash starts from the   *)
(* last one that was written.                                              *)
(*                                                                         *)
(* A write is its number in the order of the calls of mutate(); writes     *)
(* that change nothing are not queued and are left out.  Upstream and the  *)
(* storage are external: a push may reach upstream and fail nonetheless,   *)
(* but not after it settled or after the crash of its engine; a save       *)
(* replaces the last one at once, and two saves may end in either order.   *)
(***************************************************************************)
EXTENDS Naturals, Sequences, Functions

CONSTANTS
  MaxPending,  \* maxPendingWrites
  Attempts,    \* retry.attempts
  MaxWrites,   \* bound: calls of mutate() that are not refused outright
  MaxSaves,    \* bound: snapshots taken
  MaxCrashes   \* bound: crashes

ASSUME RetryAssumption == MaxPending \in Nat \ {0} /\ Attempts \in Nat \ {0}
ASSUME BoundAssumption == MaxWrites \in Nat /\ MaxSaves \in Nat /\ MaxCrashes \in Nat

VARIABLES
  \* The engine.
  graph,     \* own writes in the local graph
  queue,
  phase,     \* pump(): idle, or pushing the head, or sleeping before a retry
  attempt,
  \* Outside.
  arrived,   \* the push in flight has reached upstream
  upstream,  \* what reached upstream, in order
  saving,    \* snapshots on their way to the storage
  disk,      \* the snapshot in the storage
  \* What only the properties read, and bounds.
  reported,  \* writes dropped with a call of onWriteError
  refused,   \* writes whose mutate() threw
  written, saves, crashes

pumpVars == <<phase, attempt, arrived>>
diskVars == <<saving, disk, saves>>
vars == <<graph, queue, pumpVars, upstream, diskVars, reported, refused, written, crashes>>

Writes == 1..MaxWrites
Snapshot == [graph : SUBSET Writes, pending : Seq(Writes)]

\* The queue, restored or not, never exceeds its cap.
TypeOK ==
  /\ graph \subseteq 1..written
  /\ queue \in Seq(1..written) /\ Len(queue) <= MaxPending
  /\ phase \in {"idle", "pushing", "sleeping"}
  /\ attempt \in 0..Attempts - 1
  /\ phase = "sleeping" => attempt + 1 < Attempts
  /\ arrived \in BOOLEAN
  /\ upstream \in Seq(1..written)
  /\ saving \subseteq Snapshot
  /\ disk \in Snapshot
  /\ reported \subseteq 1..written /\ refused \subseteq 1..written
  /\ written \in 0..MaxWrites /\ saves \in 0..MaxSaves /\ crashes \in 0..MaxCrashes

Init ==
  /\ graph = {}
  /\ queue = <<>>
  /\ phase = "idle"
  /\ attempt = 0
  /\ arrived = FALSE
  /\ upstream = <<>>
  /\ saving = {}
  /\ disk = [graph |-> {}, pending |-> <<>>]
  /\ reported = {}
  /\ refused = {}
  /\ written = 0 /\ saves = 0 /\ crashes = 0

----------------------------------------------------------------------------
(* pump() *)

\* The first attempt at the head of a queue, or nothing to do.
PumpOrStop(q) ==
  /\ phase' = IF q = <<>> THEN "idle" ELSE "pushing"
  /\ attempt' = 0
  /\ arrived' = FALSE

\* External: the push in flight reaches upstream.
Arrive ==
  /\ phase = "pushing" /\ ~arrived
  /\ arrived' = TRUE
  /\ upstream' = Append(upstream, Head(queue))
  /\ UNCHANGED <<graph, queue, phase, attempt, diskVars, reported, refused, written, crashes>>

\* Mutant: the pump ends with the first write it settled.
ShiftAndStop == queue' = Tail(queue) /\ PumpOrStop(<<>>)

\* The head is settled: on to the next.
Shift == queue' = Tail(queue) /\ PumpOrStop(Tail(queue))

PushOk ==
  /\ phase = "pushing" /\ arrived
  /\ Shift
  /\ UNCHANGED <<graph, upstream, diskVars, reported, refused, written, crashes>>

\* Mutant: a write that failed lets the others pass.
PushFailsToTheBack ==
  /\ phase = "pushing" /\ attempt + 1 < Attempts
  /\ phase' = "sleeping"
  /\ queue' = Append(Tail(queue), Head(queue))
  /\ UNCHANGED <<graph, attempt, arrived, upstream, diskVars, reported, refused,
                 written, crashes>>

PushFails ==
  /\ phase = "pushing" /\ attempt + 1 < Attempts
  /\ phase' = "sleeping"
  /\ UNCHANGED <<graph, queue, attempt, arrived, upstream, diskVars, reported, refused,
                 written, crashes>>

\* The backoff timer fires.
Retry ==
  /\ phase = "sleeping"
  /\ phase' = "pushing"
  /\ attempt' = attempt + 1
  /\ arrived' = FALSE
  /\ UNCHANGED <<graph, queue, upstream, diskVars, reported, refused, written, crashes>>

\* The last attempt fails: drop and report.
GiveUp ==
  /\ phase = "pushing" /\ attempt + 1 = Attempts
  /\ reported' = reported \cup {Head(queue)}
  /\ Shift
  /\ UNCHANGED <<graph, upstream, diskVars, refused, written, crashes>>

----------------------------------------------------------------------------
(* mutate() *)

\* Backpressure; a call without room throws and changes nothing.
HasRoom == Len(queue) < MaxPending

Apply ==
  /\ written < MaxWrites
  /\ HasRoom
  /\ written' = written + 1
  /\ graph' = graph \cup {written + 1}

Mutate ==
  /\ Apply
  /\ queue' = Append(queue, written + 1)
  /\ IF phase = "idle" THEN PumpOrStop(queue') ELSE UNCHANGED pumpVars
  /\ UNCHANGED <<upstream, diskVars, reported, refused, crashes>>

\* A store listener throws out of store.mutate(): applied, not queued.
MutateListenerThrows ==
  /\ Apply
  /\ refused' = refused \cup {written + 1}
  /\ UNCHANGED <<queue, pumpVars, upstream, diskVars, reported, crashes>>

\* notifyChange() throws: queued, but pump() is not called.
MutateNotifyThrows ==
  /\ Apply
  /\ queue' = Append(queue, written + 1)
  /\ refused' = refused \cup {written + 1}
  /\ UNCHANGED <<pumpVars, upstream, diskVars, reported, crashes>>

----------------------------------------------------------------------------
(* Snapshots *)

\* Graph and queue are read in one go, before the first await of the save.
Save ==
  /\ saves < MaxSaves
  /\ saves' = saves + 1
  /\ saving' = saving \cup {[graph |-> graph, pending |-> queue]}
  /\ UNCHANGED <<graph, queue, pumpVars, upstream, disk, reported, refused, written, crashes>>

Saved ==
  \E s \in saving :
    /\ saving' = saving \ {s}
    /\ disk' = s
    /\ UNCHANGED <<graph, queue, pumpVars, upstream, saves, reported, refused,
                   written, crashes>>

\* Mutants: the pending writes are not restored; they wait for a mutate().
RestartWithoutWrites ==
  /\ crashes < MaxCrashes
  /\ crashes' = crashes + 1
  /\ graph' = disk.graph
  /\ queue' = <<>>
  /\ PumpOrStop(<<>>)
  /\ saving' = {}
  /\ UNCHANGED <<upstream, disk, saves, reported, refused, written>>

RestartNoPump ==
  /\ crashes < MaxCrashes
  /\ crashes' = crashes + 1
  /\ graph' = disk.graph
  /\ queue' = disk.pending
  /\ PumpOrStop(<<>>)
  /\ saving' = {}
  /\ UNCHANGED <<upstream, disk, saves, reported, refused, written>>

\* The engine is gone with its saves; the next one starts from the snapshot
\* and pushes what was pending at once.
Restart ==
  /\ crashes < MaxCrashes
  /\ crashes' = crashes + 1
  /\ graph' = disk.graph
  /\ queue' = disk.pending
  /\ PumpOrStop(disk.pending)
  /\ saving' = {}
  /\ UNCHANGED <<upstream, disk, saves, reported, refused, written>>

----------------------------------------------------------------------------
Next ==
  \/ Mutate \/ MutateListenerThrows \/ MutateNotifyThrows
  \/ Arrive \/ PushOk \/ PushFails \/ Retry \/ GiveUp
  \/ Save \/ Saved \/ Restart

Spec == Init /\ [][Next]_vars

\* A push settles in the end, and timers fire.
Fairness == WF_vars(PushOk \/ PushFails \/ GiveUp) /\ WF_vars(Retry)
FairSpec == Spec /\ Fairness

----------------------------------------------------------------------------
(* Properties *)

Upstreamed == Range(upstream)

\* A write in the local graph whose mutate() did not throw is on its way
\* upstream, arrived there or was reported, whatever snapshot the graph was
\* restored from.
NoSilentLoss == graph \ refused \subseteq Range(queue) \cup Upstreamed \cup reported

\* A queued write, restored or not, is in the local graph: "their effects
\* are already in the snapshot's graph".
QueuedIsApplied == Range(queue) \subseteq graph

\* Nothing waits for a pump that does not run, but for writes whose mutate()
\* threw before it started one.
NothingIsStranded ==
  /\ phase = "idle" => Range(queue) \subseteq refused
  /\ phase # "idle" => queue # <<>>

\* The inductive invariant behind these.  Its other parts: the push that
\* arrived is the one of the head,
ArrivedIsUpstream == arrived => phase # "idle" /\ Head(queue) \in Upstreamed

\* and what holds of the engine holds of every snapshot it could be restored
\* from.
SnapshotsAreSafe ==
  \A s \in saving \cup {disk} :
    /\ s.graph \subseteq 1..written
    /\ s.pending \in Seq(1..written) /\ Len(s.pending) <= MaxPending
    /\ s.graph \ refused \subseteq Range(s.pending) \cup Upstreamed \cup reported
    /\ Range(s.pending) \subseteq s.graph

Inv ==
  /\ TypeOK
  /\ NoSilentLoss
  /\ QueuedIsApplied
  /\ NothingIsStranded
  /\ ArrivedIsUpstream
  /\ SnapshotsAreSafe

\* Upstream first sees the writes that were not dropped in the order they
\* were made, across failures, retries, crashes and restored queues.
UpstreamInOrder ==
  \A i, j \in 1..Len(upstream) :
    i < j /\ upstream[j] < upstream[i] =>
      \/ upstream[j] \in reported
      \/ \E k \in 1..(i - 1) : upstream[k] = upstream[j]

\* An accepted write leaves the queue: it arrives, is reported, or a crash
\* takes it from the local graph too.
EveryWriteLeaves ==
  \A n \in Writes :
    n \in graph \ refused ~> n \in Upstreamed \cup reported \/ n \notin graph

\* engine.ts: "a refused write must not diverge the local graph from what
\* will ever reach upstream".
RefusedDoesNotDiverge ==
  graph \cap refused \subseteq Range(queue) \cup Upstreamed \cup reported
=============================================================================
