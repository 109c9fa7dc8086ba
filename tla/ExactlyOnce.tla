---------------------------- MODULE ExactlyOnce ----------------------------
(***************************************************************************)
(* The write path of the sync packages, from a client's mutate() to its    *)
(* settled promise: client.ts keeps a write pending until it is acked and  *)
(* re-sends every pending write when reconnect.ts has a new transport;     *)
(* host.ts applies a write at most once, with the help of the registry of  *)
(* dedup.ts that all hosts of a server share.                              *)
(*                                                                         *)
(* A session is one client instance, the principal::clientId::epoch of     *)
(* host.ts.  A write is its per-session sequence number; what the write    *)
(* says is irrelevant, how often it reached the graph is not.  Each dial   *)
(* gives a session a new connection, FIFO in both directions.  A dropped   *)
(* connection loses its acks and a suffix of the requests on it; the       *)
(* requests it does not lose may still reach their old host later, even    *)
(* after the session's next connection is up.                              *)
(***************************************************************************)
EXTENDS Naturals, Sequences, FiniteSets

CONSTANTS
  Sessions,      \* client instances
  Legacy,        \* the sessions of old clients, that send no dedup block
  Capacity,      \* DedupOptions.capacity: retained ids of one session
  MaxSessions,   \* DedupOptions.maxSessions
  SendMayThrow,  \* may notifying or fanning out an applied write throw?
  MaxSeq,        \* bound: writes per session
  MaxConns,      \* bound: connections per session
  MaxRestarts    \* bound: server restarts

ASSUME SessionAssumption == IsFiniteSet(Sessions) /\ Legacy \subseteq Sessions
ASSUME CapacityAssumption == Capacity \in Nat \ {0} /\ MaxSessions \in Nat \ {0}
ASSUME FaultAssumption == SendMayThrow \in BOOLEAN
ASSUME BoundAssumption == MaxSeq \in Nat /\ MaxConns \in Nat /\ MaxRestarts \in Nat

VARIABLES
  \* The client (client.ts, reconnect.ts).
  writeSeq,      \* last sequence number issued
  pending,       \* unanswered writes, replayed on reconnect
  ackedThrough,  \* every write up to here is resolved
  resolvedAhead, \* resolved writes beyond a gap
  outcome,       \* what became of the promise of each mutate()
  conn,          \* the current connection, 0 when offline
  dials,         \* connections opened so far
  closed,        \* close() was called
  \* The transports.
  requests,      \* per session and connection, client to host
  acks,          \* on the current connection, host to client
  \* The registry (dedup.ts), shared by the hosts.
  windows,       \* the window of each session
  known,         \* the sessions that have a window
  older,         \* <<x, y>>: x was touched less recently than y
  \* The graph, and what only the properties read.
  applied,       \* how often each write reached the graph
  refused,       \* the writes some host answered with ok: false
  forgotten,     \* the sessions the registry lost ids of
  restarts

clientVars == <<writeSeq, pending, ackedThrough, resolvedAhead, outcome, closed>>
wireVars == <<conn, dials, requests, acks>>
registryVars == <<windows, known, older, forgotten>>
vars == <<clientVars, wireVars, registryVars, applied, refused, restarts>>

Seqs == 1..MaxSeq
Conns == 1..MaxConns

\* MutateMessage, as far as the dedup block goes, and AckMessage.
Request == [seq : Seqs, ackedThrough : 0..MaxSeq]
Ack == [seq : Seqs, ok : BOOLEAN]

\* Window: seqs above lowWater for a modern session; for a legacy one a set
\* of ids and the order to evict them in.
Window == [seqs : SUBSET Seqs, lowWater : 0..MaxSeq,
           legacy : SUBSET Seqs, legacyOrder : Seq(Seqs)]
NewWindow == [seqs |-> {}, lowWater |-> 0, legacy |-> {}, legacyOrder |-> <<>>]

TypeOK ==
  /\ writeSeq \in [Sessions -> 0..MaxSeq]
  /\ pending \in [Sessions -> SUBSET Seqs]
  /\ ackedThrough \in [Sessions -> 0..MaxSeq]
  /\ resolvedAhead \in [Sessions -> SUBSET Seqs]
  /\ outcome \in [Sessions -> [Seqs -> {"none", "ok", "rejected", "closed"}]]
  /\ conn \in [Sessions -> 0..MaxConns]
  /\ dials \in [Sessions -> 0..MaxConns]
  /\ closed \in [Sessions -> BOOLEAN]
  /\ requests \in [Sessions -> [Conns -> Seq(Request)]]
  /\ acks \in [Sessions -> Seq(Ack)]
  /\ windows \in [Sessions -> Window]
  /\ known \subseteq Sessions
  /\ older \subseteq Sessions \X Sessions
  /\ applied \in [Sessions -> [Seqs -> Nat]]
  /\ refused \in [Sessions -> SUBSET Seqs]
  /\ forgotten \subseteq Sessions
  /\ restarts \in 0..MaxRestarts

Init ==
  /\ writeSeq = [s \in Sessions |-> 0]
  /\ pending = [s \in Sessions |-> {}]
  /\ ackedThrough = [s \in Sessions |-> 0]
  /\ resolvedAhead = [s \in Sessions |-> {}]
  /\ outcome = [s \in Sessions |-> [n \in Seqs |-> "none"]]
  /\ conn = [s \in Sessions |-> 0]
  /\ dials = [s \in Sessions |-> 0]
  /\ closed = [s \in Sessions |-> FALSE]
  /\ requests = [s \in Sessions |-> [c \in Conns |-> <<>>]]
  /\ acks = [s \in Sessions |-> <<>>]
  /\ windows = [s \in Sessions |-> NewWindow]
  /\ known = {}
  /\ older = {}
  /\ applied = [s \in Sessions |-> [n \in Seqs |-> 0]]
  /\ refused = [s \in Sessions |-> {}]
  /\ forgotten = {}
  /\ restarts = 0

----------------------------------------------------------------------------
(* dedup.ts *)

\* Mutant: the low-water mark is not consulted.
SeenRetainedOnly(w, s, n) ==
  IF s \in Legacy THEN n \in w.legacy ELSE n \in w.seqs

\* seen(): at or below the low-water mark, or still retained.
Seen(w, s, n) ==
  IF s \in Legacy THEN n \in w.legacy ELSE n <= w.lowWater \/ n \in w.seqs

Retained(w) == Cardinality(w.seqs) + Cardinality(w.legacy)

\* Mutants: the acked ids are never released; the whole window is.
DrainNothing(w, s, mark) == w

DrainEverything(w, s, mark) ==
  IF s \in known /\ s \notin Legacy /\ mark > w.lowWater
  THEN [w EXCEPT !.seqs = {}, !.lowWater = mark]
  ELSE w

\* drain(): nothing to do for a session without a window or a stale mark.
Drain(w, s, mark) ==
  IF s \in known /\ s \notin Legacy /\ mark > w.lowWater
  THEN [w EXCEPT !.seqs = @ \ (w.lowWater + 1 .. mark), !.lowWater = mark]
  ELSE w

\* mark(): a legacy id past the capacity pushes the oldest one out.
Evicts(w, s, n) ==
  s \in Legacy /\ n \notin w.legacy /\ Len(w.legacyOrder) >= Capacity

Mark(w, s, n) ==
  CASE s \notin Legacy /\ n > w.lowWater -> [w EXCEPT !.seqs = @ \cup {n}]
    [] Evicts(w, s, n) ->
         [w EXCEPT !.legacy = (@ \cup {n}) \ {Head(w.legacyOrder)},
                   !.legacyOrder = Append(Tail(@), n)]
    [] s \in Legacy /\ n \notin w.legacy /\ ~Evicts(w, s, n) ->
         [w EXCEPT !.legacy = @ \cup {n}, !.legacyOrder = Append(@, n)]
    [] OTHER -> w

\* touch(): s becomes the most recent session; a new one past maxSessions
\* costs the least recent one its window.
Oldest(s) ==
  {x \in known : /\ s \notin known
                 /\ Cardinality(known) >= MaxSessions
                 /\ \A y \in known \ {x} : <<x, y>> \in older}

Touch(s, w, lost) ==
  LET evicted == Oldest(s)
      kept == known \ evicted
  IN  /\ known' = kept \cup {s}
      /\ older' = {p \in older : p[1] \in kept \ {s} /\ p[2] \in kept \ {s}}
                    \cup ((kept \ {s}) \X {s})
      /\ windows' = [x \in Sessions |-> CASE x = s -> w
                                          [] x \in evicted -> NewWindow
                                          [] OTHER -> windows[x]]
      /\ forgotten' = forgotten \cup evicted \cup lost

----------------------------------------------------------------------------
(* The host: one disjunct per way through mutate() of host.ts.  A message  *)
(* is handled to its end before the next one.                              *)

Incoming(s, c) == requests[s][c] # <<>>
Message(s, c) == Head(requests[s][c])
Drained(s, c) == Drain(windows[s], s, Message(s, c).ackedThrough)

\* Takes the message and answers it; the answer to a connection the client
\* has already lost goes nowhere.
Answer(s, c, ok) ==
  /\ requests' = [requests EXCEPT ![s][c] = Tail(@)]
  /\ acks' = IF c = conn[s]
             THEN [acks EXCEPT ![s] = Append(@, [seq |-> Message(s, c).seq, ok |-> ok])]
             ELSE acks
  /\ UNCHANGED <<clientVars, conn, dials, restarts>>

Refuse(s, n) == refused' = [refused EXCEPT ![s] = @ \cup {n}]
Apply(s, n) == applied' = [applied EXCEPT ![s][n] = @ + 1]

\* A duplicate is acked again and not run.
ReAck(s, c) ==
  /\ Incoming(s, c)
  /\ Seen(Drained(s, c), s, Message(s, c).seq)
  /\ windows' = [windows EXCEPT ![s] = Drained(s, c)]
  /\ Answer(s, c, TRUE)
  /\ UNCHANGED <<known, older, forgotten, applied, refused>>

Fresh(s, c) == Incoming(s, c) /\ ~Seen(Drained(s, c), s, Message(s, c).seq)

\* Mutant: room for one too many.
HasRoomForOneMore(s, c) == s \in Legacy \/ Retained(Drained(s, c)) <= Capacity

HasRoom(s, c) == s \in Legacy \/ Retained(Drained(s, c)) < Capacity

\* admit() throws: the session's window is full.
RefuseFull(s, c) ==
  /\ Fresh(s, c)
  /\ ~HasRoom(s, c)
  /\ Touch(s, Drained(s, c), {})
  /\ Refuse(s, Message(s, c).seq)
  /\ Answer(s, c, FALSE)
  /\ UNCHANGED applied

\* Mutant: the ticket is marked before the write is applied.
ApplyFailsMarked(s, c) ==
  /\ Fresh(s, c)
  /\ HasRoom(s, c)
  /\ Touch(s, Mark(Drained(s, c), s, Message(s, c).seq), {})
  /\ Refuse(s, Message(s, c).seq)
  /\ Answer(s, c, FALSE)
  /\ UNCHANGED applied

\* applyMutation() throws before it changed anything.
ApplyFails(s, c) ==
  /\ Fresh(s, c)
  /\ HasRoom(s, c)
  /\ Touch(s, Drained(s, c), {})
  /\ Refuse(s, Message(s, c).seq)
  /\ Answer(s, c, FALSE)
  /\ UNCHANGED applied

\* The write is applied, published, marked and acked.
ApplyWrite(s, c) ==
  LET n == Message(s, c).seq
      w == Drained(s, c)
  IN  /\ Fresh(s, c)
      /\ HasRoom(s, c)
      /\ Apply(s, n)
      /\ Touch(s, Mark(w, s, n), IF Evicts(w, s, n) THEN {s} ELSE {})
      /\ Answer(s, c, TRUE)
      /\ UNCHANGED refused

\* A store listener or a fan-out send throws once the write is in the graph:
\* the catch clause answers ok: false and mark() is never reached.
ApplyTorn(s, c) ==
  /\ SendMayThrow
  /\ Fresh(s, c)
  /\ HasRoom(s, c)
  /\ Apply(s, Message(s, c).seq)
  /\ Touch(s, Drained(s, c), {})
  /\ Refuse(s, Message(s, c).seq)
  /\ Answer(s, c, FALSE)

HostMutate(s, c) ==
  \/ ReAck(s, c)
  \/ RefuseFull(s, c)
  \/ ApplyFails(s, c)
  \/ ApplyWrite(s, c)
  \/ ApplyTorn(s, c)

\* The registry lives in memory: a restarted server starts with an empty one,
\* and every connection is gone.  The graph is taken to be durable.
Restart ==
  /\ restarts < MaxRestarts
  /\ \A s \in Sessions : conn[s] # 0 => dials[s] < MaxConns
  /\ restarts' = restarts + 1
  /\ windows' = [s \in Sessions |-> NewWindow]
  /\ known' = {}
  /\ older' = {}
  /\ forgotten' = forgotten \cup known
  /\ conn' = [s \in Sessions |-> 0]
  /\ requests' = [s \in Sessions |-> [c \in Conns |-> <<>>]]
  /\ acks' = [s \in Sessions |-> <<>>]
  /\ UNCHANGED <<clientVars, dials, applied, refused>>

----------------------------------------------------------------------------
(* The client *)

RequestFor(s, n) == [seq |-> n, ackedThrough |-> ackedThrough[s]]

\* mutate(): pending before it is sent; send() drops it when offline.
Mutate(s) ==
  LET n == writeSeq[s] + 1
  IN  /\ writeSeq[s] < MaxSeq
      /\ writeSeq' = [writeSeq EXCEPT ![s] = n]
      /\ pending' = [pending EXCEPT ![s] = @ \cup {n}]
      /\ requests' = IF conn[s] # 0
                     THEN [requests EXCEPT ![s][conn[s]] = Append(@, RequestFor(s, n))]
                     ELSE requests
      /\ UNCHANGED <<ackedThrough, resolvedAhead, outcome, closed, conn, dials, acks,
                     registryVars, applied, refused, restarts>>

\* resolveSeq(): the mark moves over every resolved write it is adjacent to.
ResolveSeq(s, n) ==
  LET ahead == resolvedAhead[s] \cup {n}
  IN  \E k \in ackedThrough[s]..MaxSeq :
        /\ (ackedThrough[s] + 1 .. k) \subseteq ahead
        /\ k + 1 \notin ahead
        /\ ackedThrough' = [ackedThrough EXCEPT ![s] = k]
        /\ resolvedAhead' = [resolvedAhead EXCEPT ![s] = ahead \ (ackedThrough[s] + 1 .. k)]

\* receive() of an ack: the first answer settles the promise, a later one
\* finds nothing pending.
ReceiveAck(s) ==
  LET ack == Head(acks[s])
  IN  /\ acks[s] # <<>>
      /\ acks' = [acks EXCEPT ![s] = Tail(@)]
      /\ \/ /\ ack.seq \in pending[s]
            /\ pending' = [pending EXCEPT ![s] = @ \ {ack.seq}]
            /\ outcome' = [outcome EXCEPT ![s][ack.seq] = IF ack.ok THEN "ok" ELSE "rejected"]
            /\ ResolveSeq(s, ack.seq)
         \/ /\ ack.seq \notin pending[s]
            /\ UNCHANGED <<pending, outcome, ackedThrough, resolvedAhead>>
      /\ UNCHANGED <<writeSeq, closed, conn, dials, requests,
                     registryVars, applied, refused, restarts>>

\* The connection is lost with its acks and with all but some first requests.
Disconnect(s) ==
  /\ conn' = [conn EXCEPT ![s] = 0]
  /\ acks' = [acks EXCEPT ![s] = <<>>]
  /\ \E k \in 0..Len(requests[s][conn[s]]) :
       requests' = [requests EXCEPT ![s][conn[s]] = SubSeq(@, 1, k)]

Drop(s) ==
  /\ conn[s] # 0
  /\ dials[s] < MaxConns
  /\ Disconnect(s)
  /\ UNCHANGED <<clientVars, dials, registryVars, applied, refused, restarts>>

\* Mutant: pending kept in no particular order.
AnyOrder(S) ==
  {f \in [1..Cardinality(S) -> S] :
     \A i, j \in 1..Cardinality(S) : i # j => f[i] # f[j]}

\* The pending writes in the order they were issued: the one ascending
\* enumeration of the set.
Ascending(S) ==
  {f \in [1..Cardinality(S) -> S] : \A i, j \in 1..Cardinality(S) : i < j => f[i] < f[j]}

\* Mutant: the fresh connection is not told of the pending writes.
RedialNoReplay(s) ==
  /\ conn[s] = 0
  /\ ~closed[s]
  /\ dials[s] < MaxConns
  /\ dials' = [dials EXCEPT ![s] = @ + 1]
  /\ conn' = [conn EXCEPT ![s] = dials[s] + 1]
  /\ UNCHANGED <<clientVars, requests, acks, registryVars, applied, refused, restarts>>

\* dial() and, once the transport is open, replay(): every pending write
\* again, under its own number, with a fresh ackedThrough.
Redial(s) ==
  /\ conn[s] = 0
  /\ ~closed[s]
  /\ dials[s] < MaxConns
  /\ dials' = [dials EXCEPT ![s] = @ + 1]
  /\ conn' = [conn EXCEPT ![s] = dials[s] + 1]
  /\ \E order \in Ascending(pending[s]) :
       requests' = [requests EXCEPT ![s][dials[s] + 1] =
                      [i \in 1..Cardinality(pending[s]) |-> RequestFor(s, order[i])]]
  /\ UNCHANGED <<clientVars, acks, registryVars, applied, refused, restarts>>

\* close(): every pending promise rejects and nothing is replayed any more.
Close(s) ==
  /\ ~closed[s]
  /\ closed' = [closed EXCEPT ![s] = TRUE]
  /\ outcome' = [outcome EXCEPT ![s] = [n \in Seqs |-> IF n \in pending[s] THEN "closed" ELSE @[n]]]
  /\ pending' = [pending EXCEPT ![s] = {}]
  /\ IF conn[s] # 0 THEN Disconnect(s) ELSE UNCHANGED <<conn, requests, acks>>
  /\ UNCHANGED <<writeSeq, ackedThrough, resolvedAhead, dials,
                 registryVars, applied, refused, restarts>>

----------------------------------------------------------------------------
Next ==
  \/ \E s \in Sessions : Mutate(s) \/ ReceiveAck(s) \/ Drop(s) \/ Redial(s) \/ Close(s)
  \/ \E s \in Sessions, c \in Conns : HostMutate(s, c)
  \/ Restart

Spec == Init /\ [][Next]_vars

\* A live transport delivers what was sent, and the retry timer of
\* reconnect.ts dials again as long as the client is not closed.
Fairness ==
  \A s \in Sessions :
    /\ WF_vars(Redial(s))
    /\ WF_vars(ReceiveAck(s))
    /\ \A c \in Conns : WF_vars(HostMutate(s, c))

FairSpec == Spec /\ Fairness

----------------------------------------------------------------------------
(* Properties *)

\* Replays, late copies on old connections and lost acks never apply a write
\* twice, unless the registry lost ids of its session: by the LRU bound on
\* sessions, the FIFO of a legacy window, or a server restart.
AppliedAtMostOnce ==
  \A s \in Sessions \ forgotten, n \in Seqs : applied[s][n] <= 1

\* A mutate() that resolved was applied, whatever the registry forgot: a
\* duplicate is only acked for a write that ran.
AckedIsApplied ==
  \A s \in Sessions, n \in Seqs : outcome[s][n] = "ok" => applied[s][n] >= 1

\* Across reconnects the writes of a session first reach the graph in the
\* order they were issued, but for those a host refused.
AppliedInOrder ==
  [][\A s \in Sessions, n \in Seqs :
       applied[s][n] = 0 /\ applied'[s][n] = 1 =>
         \A m \in 1..(n - 1) : applied[s][m] >= 1 \/ m \in refused[s]]_vars

\* The window refuses a write only of a client that, when it sent it, had at
\* least Capacity other writes beyond its own acked-through mark: a client
\* that keeps up never trips the capacity check.
KeepingUpIsNeverRefused ==
  [][\A s \in Sessions, c \in Conns :
       RefuseFull(s, c) =>
         writeSeq[s] - Message(s, c).ackedThrough > Capacity]_vars

\* The ids a session retains never exceed the capacity.
WindowIsBounded == \A s \in Sessions : Retained(windows[s]) <= Capacity

\* The inductive invariant behind AppliedAtMostOnce, AckedIsApplied and the
\* implementation of the promise.  Its parts:
\* a promise is open exactly while its write is pending;
PendingIsOpen ==
  \A s \in Sessions, n \in Seqs :
    n \in pending[s] <=> n <= writeSeq[s] /\ outcome[s][n] = "none"

\* every mark the client sent, and the one the host keeps, is one the client
\* reached, and the client is done with everything up to its mark;
MarksAreResolved ==
  \A s \in Sessions :
    /\ \A n \in pending[s] : n > ackedThrough[s] /\ n \notin resolvedAhead[s]
    /\ windows[s].lowWater <= ackedThrough[s]
    /\ \A c \in Conns : \A i \in 1..Len(requests[s][c]) :
         requests[s][c][i].ackedThrough <= ackedThrough[s]

\* nothing was sent, answered, resolved or recorded before it was issued;
NothingUnissued ==
  \A s \in Sessions :
    /\ ackedThrough[s] <= writeSeq[s]
    /\ \A n \in Seqs : n > writeSeq[s] =>
         /\ outcome[s][n] = "none"
         /\ n \notin resolvedAhead[s]
         /\ ~Seen(windows[s], s, n)
    /\ \A c \in Conns : \A i \in 1..Len(requests[s][c]) :
         requests[s][c][i].seq <= writeSeq[s]
    /\ \A i \in 1..Len(acks[s]) : acks[s][i].seq <= writeSeq[s]

\* the registry remembers every write of a session it did not forget;
AppliedIsRemembered ==
  /\ \A s \in Sessions \ known : windows[s] = NewWindow
  /\ \A s \in Sessions \ forgotten, n \in Seqs :
       applied[s][n] >= 1 => Seen(windows[s], s, n)

\* and what it remembers, or acked, ran, or is resolved at the client.
SeenIsDone ==
  \A s \in Sessions, n \in Seqs :
    /\ Seen(windows[s], s, n) => applied[s][n] >= 1 \/ n \notin pending[s]
    /\ \A i \in 1..Len(acks[s]) :
         acks[s][i].ok /\ acks[s][i].seq = n => applied[s][n] >= 1 \/ n \notin pending[s]

Inv ==
  /\ TypeOK
  /\ PendingIsOpen
  /\ MarksAreResolved
  /\ NothingUnissued
  /\ AppliedIsRemembered
  /\ SeenIsDone
  /\ AppliedAtMostOnce
  /\ AckedIsApplied

\* Every mutate() settles once the transport stays up, however many drops its
\* write, its replays and their acks went through before.
EveryWriteSettles ==
  \A s \in Sessions, n \in Seqs :
    n \in pending[s] ~> (n \notin pending[s] \/ closed[s])

\* The whole path implements its promise.
Promise == INSTANCE AtMostOnce
ImplementsAtMostOnce == Promise!Spec
=============================================================================
