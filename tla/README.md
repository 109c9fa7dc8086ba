# Lenke: a TLA+ model of the engine and the sync packages

Lenke is a graph database: a native engine in Rust (`crates/lenke-engine`), and packages in TypeScript that keep graphs in
browsers, workers and servers in step over connections that come and go (`packages/sync`). This directory models the
parts of both whose correctness hangs on the order of things - transactions and their undo, caches and handles, searches
that stop early, retries, replays and crashes - with TLA+ modules that TLC checks and proofs that TLAPS checks.

## Inventory

`PROJECT.json` lists every component, modelled or not, and the hazards of the code at their lines.

The engine (`crates/lenke-engine/src`). One thread executes statements on one store; what is hard here is not
interleaving but derived state, partial failure and the shortcuts of the executor.

| Component | State | Operations | Hard behaviour | Correct when |
|---|---|---|---|---|
| Store (`store.rs`) | nodes, edges, labels, columns, property indexes, adjacency in both directions, edge counts, the packed read overlay, external ids | add, set, label, delete, create and drop index | a delete touches the lists of all neighbours; an overlay outlives a write | what is derived agrees with the graph |
| Transactions (`store.rs`, `exec.rs`) | undo log, change list, schema snapshot, statement mark | begin, commit, rollback, savepoint, rollback_to, deferred checks | a statement fails inside a transaction; undo runs through the code that logs | rolled back means as before; committed means checked |
| Prepared statements (`prepared.rs`) | slab of slots, generations, free list | insert, get_clone, remove | a slot is reused while an old handle lives | a handle means its own plan or nothing |
| Parse caches (`parse_cache.rs`) | sighting ring, entries with stamps | note, admit, look_up, evict | a plan folded at first sight is bound again later | an answer is that of a fresh parse |
| Algorithms (`algo.rs`) | heap, distances, union-find, Tarjan frames | Dijkstra, A*, components | stale heap entries, unrolled recursion | equal to the definition |
| Variable-length paths (`exec/varlen.rs`) | path stacks, marks, frames, budgets | the walk with its consumers, shortest paths | marks taken back from three exits; a search that stops early | exactly the paths of the mode |
| Counting shortcuts (`exec/fastpath.rs`) | ways per node, frontiers | walk and trail totals, distinct endpoints | inclusion and exclusion, declines on width | the count of the enumeration |
| Ordered windows (`exec/order.rs`) | bounded buffer, count at the best rank | streaming top-K, weighted top-K over a hop | early exit, nulls, ties | the page of the full sort |
| Parsers, planner, executor, codecs | plans, columns | pure functions | size | tested differentially by the repository |

The sync packages (`packages/sync/src`).

| Component | State | Operations | Hard behaviour | Correct when |
|---|---|---|---|---|
| Sync client (`client.ts`) | pending requests, `writeSeq`, `ackedThrough`, `resolvedAhead`, `writeCursor`, handlers, live queries with an LRU of inactive ones | `mutate`, `query`, `liveQuery`, `subscribeWrites`, `receive`, `replay`, `close` | acks with gaps, replay after a drop, batches from before a re-subscribe | promises settle once and truthfully, the cursor passes no missing write |
| Connection manager (`reconnect.ts`) | `conn`, `up`, `stopped`, `attempt`, redial timer, state of each dial | `dial`, `opened`, `closed`, `close` | reports during `connect()`, double reports, close while connecting | one chain of dials, truthful connectivity, connected again in the end |
| Sync host (`host.ts`) | subscriptions with what was pushed, forwarder of the write stream, cleanup writes | `mutate`, `subscribe`, `query`, `subscribeWrites`, `onDisconnect`, `refresh`, `close` | throws between two effects, re-subscribe on a live connection | a write runs once, the stream is contiguous, rows converge |
| Dedupe registry (`dedup.ts`) | a window per session, LRU order | `seen`, `admit`, `mark`, `drain` | full windows, evictions, restarts | remembers every applied write that may come again |
| Write log (`writelog.ts`) | ring of entries, `seq`, subscribers | `append`, `since`, `subscribe` | falling off the tail, fan-out that throws, log that regressed | a resume gets all or is told to cold-boot |
| Sync engine (`engine.ts`) | write-back queue and pump; load state, error, attempt and pending job of each scope | `mutate`, `ingest`, `pump`, `ensure`, `runLoad`, `retryAll` | retries, drops, listeners that throw, superseded jobs | no write is lost silently, no scope hangs |
| Snapshots (`snapshot.ts`) | storage | `save`, `load` | crash between push and save, overlapping saves | graph and pending writes agree |
| Store (`native/src/store.ts`) | live query cells with epochs, listeners | `mutate`, `liveQuery` | re-entrant and throwing listeners | snapshots are never stale |
| Port lifecycle (`port.ts`) | host of each port | `servePort`, bye, revival | revival from bfcache | one host per live tab |

How the sync parts interact: the client posts messages through the manager's current transport. The server has one host
per connection; all hosts share one store, one registry and one write log. A host applies a `mutate` through the engine
or the store, appends it to the log, whose fan-out calls every host's forwarder synchronously, marks it in the registry
and acks. An engine in a browser worker pushes its local writes upstream, and its snapshot holds graph and queue. All
code is single-threaded per process: interleavings are those of messages, timers, promises and crashes, and a
synchronous handler is one atomic step, which is how the modules cut their actions. What breaks the atomicity from
inside is an exception in the middle of a handler; where listeners or sends can throw, the throwing path is an action of
its own.

How the engine's parts interact: a statement's text goes through a parse cache or a prepared handle to a plan; the
executor brackets it with a savepoint (`stmt_begin` to `stmt_commit` or `rollback_to`), inside the transaction the
caller opened or one of its own. Reads go through the packed overlay when it is fresh, and through the fast paths when
a plan has their shape: each fast path answers or declines, and what it declines is enumerated.

## Modules

| Module | Models | Correspondence |
|---|---|---|
| `GraphTx` | the promise of transactions | abstract: a graph, a schema, what they were at begin and at the savepoint |
| `Store` | `store.rs` and the statement brackets of `exec.rs` | `g` is the store, a record with a field per structure; the primitives (`PushNode`, `CutEdge`, `BuryNode`, ...) are its methods as functions of `g`; `ApplyUndo` is `apply_undo` with an arm for each kind of entry; the actions add what each operation logs and reports |
| `PreparedSlab` | `prepared.rs` | a handle is slot and generation, the generation modulo `GenSize` |
| `ParseCache` | `parse_cache.rs`, with what `gql.rs` and `bind.rs` do for it | a text is a record of what the gate tells apart: well-formed, depth, reads a clock, has a parameter and where; an action per way through `parse_for_run` |
| `GraphSearch` | `dijkstra_dist`, `astar_search` | an action per popped entry |
| `Components` | union-find and the unrolled Tarjan search | `frames` is the explicit stack of the code |
| `VarLength` | the walk of `exec/varlen.rs` | `stack`, `nodeStack`, `edgeStack`, `used` are the code's; an action per way through the loop body |
| `TrailCount` | `try_degree_algebra` and `walk_levels_total` | an action per level; `Reused3`, `Trails4` are the corrections for trails |
| `Reachability` | `varlen_distinct_endpoint_count` and its gate | an action per level of each of its two regimes |
| `ShortestPaths` | `shortest_path` and `try_shortest_early_stop` | an action per edge looked at; rows and chains are functions of the predecessors |
| `TopK` | the windows of `exec/order.rs` | an action per node read or candidate taken |
| `AtMostOnce` | the promise of the write path | abstract: issue, apply, settle; no connections |
| `ExactlyOnce` | `client.ts` mutate/ack/replay/close, `host.ts` mutate, `dedup.ts` | an action per way through a handler; `Touch`, `Mark`, `Drain`, `Seen` are the registry's functions on a window |
| `WriteStream` | `writelog.ts`, `subscribeWrites` in `host.ts` and `client.ts`, `handleWrites` | one client; an action per branch of `handleWrites` |
| `Reconnect` | `reconnect.ts` | `Connect` is `dial` by what the transport reports before `connect()` returns; `held` is the per-dial record of the code |
| `DemandFill` | `ensure`, `schedule`, `runLoad`, `retryAll` and the default gate of `engine.ts` | `fill` is a record with a field per map of the engine and per variable of the gate; `Pump`, `Enqueue`, `Cancel`, `Schedule` are its functions; an action per end of a load, freed slot, timer and demand |
| `LiveRows` | one keyed standing query: `push`, `diffRows`, `subscribe`, `close` in `host.ts`; the entry, `applyDiff`, `receive`, `replay`, the LRU in `client.ts`; `mutate` and the gate on deps in `native/src/store.ts` | `hosted` is the host's subscription, `entry` the client's; a store write and the pushes it causes are one step |
| `WriteBack` | write-back of `engine.ts`, save and restore of `snapshot.ts` | `phase` says where `pump` is suspended; a mutate that throws is an action per place of the throw |
| `*_proofs` | theorems about the module of that name; `Queries_proofs` about `PreparedSlab`, `ParseCache`, `TopK` and `TrailCount`, `Searches_proofs` about `GraphSearch`, `Components` and `ShortestPaths`, `VarLength_proofs` about `VarLength` and `Reachability` | |
| `MC*` | roots for TLC | small instances and history-free views |

`Store` refines `GraphTx` (the property `ImplementsGraphTx`, an `INSTANCE` with the visible part of `g` for the graph),
`ExactlyOnce` refines `AtMostOnce` (`ImplementsAtMostOnce`). `MCEngine` puts the self-contained parts of the engine in
one run: the initial state picks a part, the others stay idle. The parts share no state in the code either.

`Redial` and `Drop` of `ExactlyOnce` and `WriteStream` are what `GoLive` and the first `Closed` of `Reconnect` are to
the layer above; a dropped connection there may keep delivering requests to its old host after the next one is up.
`LiveRows` extends `DemandFill`, since a subscription starts loads and a load ends in a push; it has a link of its own,
`Drop` and `Redial`, at the same level as that of `ExactlyOnce`. `MCSync` puts the connection manager, the demand-fill
alone and the standing query in one run, as `MCEngine` does.
Definitions marked "Mutant" belong to no specification: each is a plausible bug put in the place of the definition that
follows it, to see that a property notices.

Abstractions, engine. Ids count from 1. A property key stands for all of them, and a value is a model value. Adjacency
lists of `Store` are sets of edges: what the order of a list decides is left to `VarLength` and `ShortestPaths`, which
keep it. Edge predicates and types are the set of edges they let through. A key of `TopK` is its rank. The searches are
those of one input row in `ShortestPaths`, where rows share nothing, and of all rows in the others. Weights are whole
numbers.

Abstractions, sync. A write is a number; texts, parameters, rows and errors are left out. The ticket
`principal::clientId::epoch` is a session; two sessions never share a window, so the legacy clients without an id, which
share one, are one session. `WriteStream` follows one client without live queries and scopes, to whom the host forwards
every foreign write; a write is committed there when it is appended to the log. An application is taken to cold-boot
when it is told to, and a cold boot to load the whole graph. In `WriteBack` a push does not arrive after it settled or
after its engine crashed, and storage replaces a snapshot at once.
In `DemandFill` the slices of a subscription are given as a set where the code matches labels and keys; a backoff delay
is over at any time, and is either nothing (`loadRetry.baseMs = 0`) or something. `ensure` goes through the slices in the
order of declaration; `retryAll`, whose order is that of the map of states, in any (`Orders`). In `LiveRows` a result is a sequence of rows
with the columns of the query, two in the runs, and a key that no other row of the result has (`ResultsAssumption`: that
is what a key column is for; results with two rows under one key are left out); what the query answers after a write or a load is any of the results, or an exception. The
store's version and the last version that moved a dep stand for versions and epochs. `snapshot.result` is what the
server's rows were when the shown push was made: no action reads it.

## Runs

| Run | Question | Bounds |
|---|---|---|
| `store_transactions` | does a transaction keep what it promises (`GraphTx`), with all derived state in step and nothing left unchecked? | a load of two elements, one transaction of three logged writes, two node and two edge ids, one label that requires a value |
| `engine_parts` | does each self-contained part give what its definition says? | see below |
| `store_unchecked` | finding 1 | two nodes, one edge, two logged writes |
| `store_selfloop` | finding 2 | one node with one loop |
| `reach_undirected` | finding 3 | two nodes, one edge |
| `topk_nullsfirst` | finding 4 | columns of four cells, a window of one |
| `exactly_once_promise` | does the path implement `AtMostOnce`, in order, refusing no client that keeps up, and does every `mutate()` settle? | one session, 3 writes, capacity 2, two connections, a restart |
| `exactly_once_torn` | what is left when the registry evicts and sends throw after the apply? | a modern and a legacy session, room for one window with one id |
| `write_stream_tail` | is the cursor complete, is a cold boot never spurious, does every write arrive? | log of 1 entry, 4 writes, a drop, two subscriptions |
| `write_stream_faults` | is nothing missing but what a fault excuses, and nothing out of order? | all faults at once, log of 2, 4 writes, three connections |
| `sync_parts` | one chain of dials, truthful connectivity, reconnection? one job per slice, no idle slot, an end to every demand? are rows shown as complete a result the store had, and is a quiet client up to date? | dials: 4, backoff with 3 levels; demand-fill: 2 slices, 2 priorities, 2 tries, one slot, 2 demands; rows: 3 results, one write or writing load, 2 subscriptions or drops, one slice, 2 tries |
| `write_back_queue` | is a write lost, stranded or passed by another? does each leave? | 3 writes, 2 tries, queue of 2, one snapshot, one crash |

Bounds of the sync runs. Capacity 1 or 2 with more writes than that makes windows fill, drain and evict, and the log
lose its tail; two connections give a late copy and a replay of one write, three give two late copies; one restart makes
registry and log forget. A dial that fails while a replacement is up needs two dials; four leave room for chains of
failures. One slot and two slices make a load wait for another; two demands make one supersede a backoff or a waiting
job, and a third job of the slice would supersede in the same way. The three results of the query differ by a key that
appears, one that goes, the order, and one cell of a row that stays; one more version, or a second slice that the query
reads, was tried on the safety properties without a difference. Two turns are a subscription and a lost connection, or
a subscription, its end and another. One crash between save and settle already restores writes that arrived. Overlapping saves need two; they are
outside the bounds of the run and inside the proof, which has no bounds on them. `FewWrites` cuts what the two sessions
of `exactly_once_torn` write together.

Bounds of the store. Three entries in the undo log let a statement fail in the middle of a transaction and another
follow it, a delete cascade over an edge and be undone, and an index come and go in between. `NotStrayed` stops
behaviours at the first change that an undo reports (finding 1): after it the lists differ for a known reason, and the
run would show nothing else. The view leaves out the published change list, which no action reads. One label that
requires a value makes the deferred checks matter; that two nodes must differ is the matter of `store_unchecked`.

Bounds of `engine_parts`, by part. Slab: two slots, three lives, generations modulo two, so that they wrap. Caches:
capacity two, one text of every kind the gate can tell apart, two texts of one hash; the view keeps the order of stamps
and forgets their values. Searches: four vertices, six links, every assignment of the weights 0, 1, 3 and none, a zero
and a positive heuristic. Components: every graph over nine of the arcs of four nodes, every order of the edges. Paths:
a graph of six edges with a loop, a pair of parallel edges, a cycle of two
and one of three, every subset of its edges, every mode, and groups, filters and limits that bite. Counts, reachability: every graph of up to four edges on three nodes, up to renaming, and
of five edges on two nodes; the width is 60, so that sums leave it. Shortest paths: every subset of eight edges with
diamonds, a chord, a way back, parallel edges and a loop. Windows: every column of four or five cells over two keys and
holes, every order and placement of nulls, multiplicities up to two over a hop; `TrimFactor` is 2 where the code has 4
with a floor of 1024, so that the buffer is trimmed within four rows. Each of these is past the point where the hard
cases occur: loops, parallel edges and cycles meet in one path, a stale heap entry is overtaken twice, a slot is reused
at a generation that comes round, a buffer is trimmed and goes on.

Two cases are cut out of the instances of `engine_parts`, because the code fails there: undirected trails with an open
bound that must take a hop (finding 3, `MCReach`) and dictionary scans with nulls first whose column does not begin with
a null (finding 4, `MCTopK`). A third has no run of its own: see "Without a run". SHORTEST is
checked with `*` and `+` (lower bounds 0 and 1).

Deadlock checking is off: the systems have no duty to go on once writes, connections or rows are used up. The constants
named `Max...` and marked "bound" only cut behaviours; guards that would exhaust a bound with a disconnected client leave
one connection or dial over, so that liveness is not decided by the bound.

### What the runs show

A transaction of the store keeps its promise: after any rollback graph, schema and everything derived from them are as
they were - but for a loop whose node was deleted - and the deferred checks look at all that changed - but after a
failed statement that had added an edge. Handles never run another statement's plan until a generation wraps. A cached
plan answers what a fresh parse answers, but for a parameter in the place of a condition, where the two refuse
differently. The searches, components, path walks and counts equal their definitions on every small instance.

The registry with its acked-through marks gives exactly-once across lost acks, late copies and replays, as long as
nothing throws after the apply and the registry does not forget; with either, an ack still implies that the write was
applied. The write stream passes no write on a transport that delivers, and its duplicate and contiguity checks cover
lost messages. The manager keeps one chain of dials. Whatever is superseded, a slice has one job, and its demand ends complete or in
error. The rows a client shows as complete were a result of the query, across diffs, lost connections, warm rows kept,
loads that failed half applied and pushes that carried flags only; the forced order of the first complete push and the
comparison of the flags beside the rows are both needed for it, as their mutants show. Write-back loses and strands nothing that `mutate()` accepted.

### Findings

`PROJECT.json` quotes both sides of each.

1. `store.rs:6260`: undoing an added edge reports its deletion while the change list is still open; the list outgrows
   the undo log, the next failed statement drops a change that stands, and a commit passes a graph that violates a
   constraint.
2. `store.rs:5861`: deleting a node with a loop takes the loop off the in list before that list is saved; after a
   rollback the loop is in `out` and not in `inc`.
3. `exec/fastpath.rs:4281`: the breadth-first count takes walks for trails when the bound is open, which is right
   directed and wrong undirected: the way back over the edge just used counts the source.
4. `exec/order.rs:710`: with nulls first the scan of a dictionary or boolean column stops at the best keys without
   having looked for a null behind them.

Without a run - a specification here states the claim, and the recipe shows it false:

* `host.ts:616`: an exception after the apply skips `mark()`, and a late copy runs the write again, against
  `dedup.ts:7-9`. `ExactlyOnce_promise.cfg` with `SPECIFICATION Spec`, `SendMayThrow = TRUE` and only `INVARIANT AppliedAtMostOnce`.
* `reconnect.ts:260`: `close()` does not abandon a transport that is still connecting. `Sync_parts.cfg` with
  `INVARIANT ClosedStaysDown` and no other property.
* `engine.ts:638`: a store listener that throws leaves a write in the local graph that never goes upstream.
  `WriteBack_queue.cfg` with `INVARIANT RefusedDoesNotDiverge`.
* `writelog.ts:92` and `client.ts:858`: a fan-out that throws, or an application without a handler, and the cursor passes
  writes nobody took. `WriteStream_tail.cfg` with `SPECIFICATION Spec`, `INVARIANT CursorIsComplete` only, and `SendMayThrow = TRUE`, or
  `MayUnsubscribe = TRUE`.
* `algo.rs:1522`: A* closes vertices for good, so a heuristic that is admissible but not consistent gives a distance that
  is not the shortest, against its comment. `Engine_parts.cfg` with `INVARIANT AdmissibleIsEnough` and the hint
  `<<0, 2, 0, 0>>`, which holds vertex 2 back while 3 is closed at a distance that 2 would lower.
* `exec/varlen.rs:1566`: ALL SHORTEST undirected with at least one hop answers the path over a loop at the source twice:
  the loop is in both lists and nothing drops one copy, as the walk of `VarLength` does. `MCErrands` with the loop,
  `<<1, 1>>`, among the edges of its undirected errands, under `ShortestPathsAreExact`.

Reading the code also showed two places where documents disagree with each other or with the code: `protocol.ts` says
`since` omitted starts "from the current head", while `since(0)` replays the tail (README.md:282 of the package says so
too), and README.md:280 says the tail does not check contiguity, while `client.ts:842-852` does.

### Fairness

Weak fairness, in the sync modules, of these only: a redial timer fires and `dial` runs (`setTimeout` in
`reconnect.ts:212`); a live transport delivers what was sent and the receiver handles it; a transport that does not fail
opens; a push settles and a sleeping pump wakes (`engine.ts:595`); a load settles, its `.finally()` runs and a backoff timer
fires (`engine.ts:245`, `engine.ts:272`). Of the loads it is one condition for all of them: with one in the cap it is
fair to each, and no property needs more. Nothing is assumed about drops, failures, calls of
the application, crashes or the arrival of pushes. "Settles" and "arrives" are therefore about connections that stay up
in the end, which the bounds on connections provide.

The engine's modules have no liveness: an operation of the engine is a call that returns, its loops are bounded by what
they consume, and no party waits on another.

## Proofs

All theorems are for arbitrary constants, within the named assumptions.

* `ExactlyOnce_proofs`. `Inv` is inductive if sends do not throw (`~SendMayThrow`). At-most-once is not inductive: that a
  write runs once rests on the registry remembering each applied write (`AppliedIsRemembered`), which rests on a
  client's mark never passing an open write (`MarksAreResolved`), so that draining forgets only what will not be sent
  again; that an ack is true rests on what the registry answers for being applied or resolved (`SeenIsDone`), and both
  on nothing existing before it was issued (`NothingUnissued`). From `Inv` follow `AppliedAtMostOnce`, `AckedIsApplied`
  and `Refinement`: each step is a step of `AtMostOnce` or a stutter, the step invariant doing the work for acks (a
  settled write was applied) and applies (not before, or the session is forgotten). A second invariant, `Ledger`, holds
  whatever throws: the windows fit what was issued (`WindowInv`), whatever a client or the registry takes for done was
  applied or refused (`MarksReached`, `ResolvedIsAccounted`, `AcksAreAccounted`), and the requests on every connection are in
  order behind that (`QueuesInOrder`). From it follow `TypeOK`, `WindowIsBounded`, `KeepingUpIsNeverRefused` and
  `AppliedInOrder`, with no assumption about sends.
* `WriteStream_proofs`. `NothingElseIsMissing` and `DeliveredInOrder` in every configuration: a batch under way carries all
  of the log between its cursors that is not known to the client (`GoodBatch`), the batches climb, and the live tail goes
  on where the last one ended (`TailCovers`). `CursorIsComplete` follows where no send throws, no handler leaves and no
  server restarts, since then nothing is excused (`NoExcuse`), and `FifoNeverGaps` on a connection that loses nothing, from
  the batches under way being a chain whose end is the head of the log (`Chained`, `ChainEnds`).
* `Sync_proofs`, the connection manager. `OneChain` and `UpIsLive` for any number of dials. The strengthening `HeldIsCurrent`
  says the per-dial record agrees with the transport, `TimerOnlyWhileRunning` that a timer implies a running manager.
* `Sync_proofs`, the demand-fill. `GateIsSound` for any slices, demands, priorities, slots and retries, also when the
  demands come from the subscriptions of `LiveRows`. The invariant says that the queue holds every live job that waits,
  once (`QueueSound`); that a slice has at most one job to come, and then is not loading, or one that runs, and then is
  (`JobsSound`); that the pending job is the one a new demand will supersede (`Linked`); and that `inFlight` counts the
  taken slots (`SlotsSound`). `Linked` and `Full`, that no slot is idle, are broken inside a call: `Core` is what
  holds at every point of one, and `PumpSound`, `EnqueueSound` and `ScheduleSound` say what each call restores. That
  `pump` ends where it should is an argument about the least place it may end (`WherePumpEnds`); a demand for several
  slices is a fold in any order, by the least set of slices for which it would fail (`AskForSound`).
* `Sync_proofs`, the live rows. `CompleteRowsAreOneVersion` and `QuietClientIsCurrent` for any query, results, writes, loads,
  lost connections and renewed subscriptions, from `RowsInv`. A stage (`Stage`) is what a client knows at some point of the
  stream: the rows its host takes it to have, whether it has them or is only told changes to rows it may not have, and
  whether it shows them as complete. The messages under way to an active entry are a chain of stages (`Chained`) from what
  the client keeps to what the host last sent, so that the first message of a new host, a patch over the rows of the old
  one, is sound as soon as it brings an order (`ApplySound`), and a push leads on from wherever the host is (`PushSound`).
  That no message of an older subscription joins the chain is that ids grow (`IdsGrow`). A subscription that is there has
  answered for the store and the slices of now (`HostSound`), and an active entry is served, asked for or about to hear
  that it is not (`Served`); both with the chain give the second property. That a completed slice stays complete
  (`KeepsComplete`) is used where a push finds the reference unmoved.
* `WriteBack_proofs`. `NoSilentLoss`, `NothingIsStranded` and `QueuedIsApplied` (a pending write, queued or saved, is in the
  graph that is kept beside it) for any cap, number of attempts, order of
  saves and crashes. `SnapshotsAreSafe` carries the first and the last over to every snapshot on its way or stored,
  which is what makes a crash preserve them; `ArrivedIsUpstream` ties an acknowledged push to the head of the queue.
  `UpstreamInOrder` needs more (`OrderInv`): queues climb, in the engine and in every snapshot; what a snapshot would put
  back is queued, upstream or reported (`RememberedIsSettled`); and a write that may still be sent, and that a later one
  overtook, was reported or is only sent again (`OvertakenIsExcused`).
* `Queries_proofs`, the slab. `LiveHandlesResolve` and `FreedHandlesAreRefused` for any number of slots and generations.
  The strengthening says that the free list holds exactly the empty slots, each once (`FreeListIsExact`), and that a
  slot's generation is the number of its lives, modulo `GenSize` (`ErasAgree`, `EmptySlotsAreNewer`); a freed handle is
  refused as long as its era is within one turn of the modulus (`NotWrapped`), which is as much as the code can promise.
* `Queries_proofs`, the caches. `AnswersDifferOnlyInConditions` and `CachesAreBounded` for any texts, values, clocks and
  hashes. Both rest on `PlansArePrepared`: what a cache holds is the prepared parse of a text its gate let through,
  whatever was evicted, overwritten or sighted in between.
* `Searches_proofs`, Dijkstra and A\*. `DistancesAreShortest` for any finite graph with natural costs, of A\* where its hint
  is consistent (`algo.rs:1522` is the hazard that it is not). A link that would still lower a distance has its start in
  Dijkstra's heap under its current distance (`LinksAreRelaxed`), so with an empty heap there is none (`NothingToLower`).
  The reference, a fold that goes through one more vertex at a time, has no shortcuts, and it lies above every slope:
  numbers on the vertices that no link climbs faster than its cost. Distances stay above the reference; at the end they
  are a slope themselves, so they are equal to it. In A\* the closed distances, with the priority that came up for the
  open vertices, are one.
* `VarLength_proofs`. For any graph, call and path mode the marks are exactly the edges or nodes of the path on the
  stacks, each once, after every descent, turn, abort and backtrack (`StacksAgree`), and every emitted row is a path of
  the graph from its source that keeps the mode (`RowsAreLegal`). That no path is missing, and none is emitted twice, is
  `PathsAreExact`: the walk meets the paths in an order that their edges' places in the adjacency lists define, and the
  invariant says that the rows are the wanted paths behind the one on the stacks (`Behind`), as many as were counted
  against a limit. It assumes that an adjacency list has an edge once (`ListedOnceAssumption`).
* `VarLength_proofs`, the distinct ends. `EndpointsAreExact` for any graph, sources, bounds and mode, but for the case the
  code gets wrong, an undirected open trail (finding 3). The nodes found at a level are the ends of the walks of that
  length, though a node is not expanded twice: what it would bring was brought before. After as many levels as there are
  nodes none brings anything new (`NothingBeyond`, by cardinalities), which is where the search of an open bound stops. A
  nearest walk goes straight (`GoesStraight`), so that trails, simple and acyclic paths end where walks do.
* `Searches_proofs`, SHORTEST. For any finite graph, bounds and targets: when the search is over, the predecessors of a
  node a row may end at are exactly the edges onto it from one hop nearer (`PredecessorsAreExact`). The invariant says
  that predecessors are tight, that the queue is sorted and spans two levels (`LevelByLevel`), so that what a stop leaves
  in it is no nearer than the deepest target (`TargetsAreCounted`), and that no edge of a node taken from it is forgotten
  (`NothingIsOverlooked`).
* `Searches_proofs`, the rows of SHORTEST. `ShortestPathsAreExact` for any finite graph, source, direction, upper bound and
  filter, with `*` or `+` for the lower bound. Cut out is what the code answers twice (ALL over an undirected loop at the
  source, `LoopTwice`), and lower bounds above one: the code takes the distance first and compares it with the bound
  after, where the reference takes the shortest walk within the bounds. `ListInv` says that each list has a thing once:
  `order`, the queue, the predecessors of a node, the edges in the fan, the ways back. The recursions of the model (over
  predecessors, lengths, the parts of a flattened sequence, the terms of a sum) have one solution, since they look only
  at arguments of lower rank (`RankedRecursion`). From there the proof goes by distance: `first_pred_chain` reads back one
  of the shortest walks to a node, `enumerate_shortest_paths` each of them once, and `pcount` is their number
  (`FirstChainWalks`, `AllChainsOnce`, `PathCountExact`); a way back of least length ends the shortest walks to the source
  (`ShortestBackIs`); and the rows to a node are one block of the answer (`RowsTogether`). `ErrandAssumption` says of the
  lists that each has an edge once and both lists of a node have the same edge only if it is a loop.
* `Searches_proofs`, the components. `ComponentsAreExact` for any finite graph and order of its edges. The reference, a
  fold over the edges, is unfolded to least sets that are closed under them. Of the union-find the invariant says that
  parents lead to a root, that compression moves no root, and that any function constant along parents is constant along
  what was united; of Tarjan's search, that indices, low links, stack and frames are those of the recursion that the code
  has unrolled, and that no edge of a node that was left is forgotten (`EdgesAreSeen`). `ComponentsAssumption` says that
  the graph is finite.
* `Queries_proofs`, the ordered windows. `PagesAreExact` for any column, order, filter, window and trim, but for the case
  the code gets wrong (finding 4: nulls first, asked of a scan that may stop, with a null there). The order of rows is
  total, so that every row has a rank and the sort has it at that place; rows that are kept are enough if the foremost of
  all are among them (`HeadIsEnough`), and that is what a scan keeps of what it has read (`ScanInv`). Over a hop the
  reference leaves the order within a tie open: proved is the key at each place (`Placed`), which the copies ahead of it
  determine in any such order. Assumed is that a hop has a multiplicity for each of its nodes (`PleaAssumption`).
* `Queries_proofs`, the counts. `TotalsAreExact` for any graph, input rows, bounds, predicates and width: the total of the
  degree algebra is the number of paths, and it gives up only where the walks of the graph, or of all the rows, leave the
  width. The invariant says that the total so far is what the reference counts up to this level, that `ways` is the number
  of walks of this length from each node, and that the two tables kept for the fourth level are the walks of two hops
  and the trails of three (`CountInv`). All counting is by what a path begins with: the paths that begin with an edge are the
  shorter ones that may follow it (`Prefixed`). A walk may follow any edge, which is the recurrence. For a trail the
  corrections are proved one by one: `Trails2`, `Trails3`, and `UsedFirst`, `UsedSecond` and `UsedThird` for the places a
  given edge can take among three hops, from which it follows that no term is clamped (`UsedIs`) and that `Trails4` is
  exact (`Trails4AreExact`). `CountAssumption` is the gate of `try_degree_algebra`, and that the lower bound is not above
  the upper one, which `gql.rs:5243` refuses and `gremlin.rs:7643` answers with nothing.
* `Store_proofs`. `StoreTypeOK`, `NothingDerivedIsStale`, `ChangesCoverTheTransaction`, `ChecksCoverTheTransaction` and the
  refinement of `GraphTx`, for any labels, types, values and constraints and histories of any length. The invariant,
  `StoreInv`, has three parts. `Sound` says that each derived structure of `g` is what the others say, and every
  primitive is shown to keep it. `Past` says of an open transaction that there is a history of cores (what queries see
  of a store), from the graph it found to the graph of now and one longer than the log, such that each log record undoes
  the step it was logged for and, unless an undo had reported a change (`strayed`), each change names the node its step
  touched. The last part is `ChecksCoverTheTransaction` itself, with what a transaction found when it began. A write adds
  one core; `ReplayGoesBack` shows that replaying the log from its end walks the history backwards, one core a record,
  so a rollback ends at the core it began with and a failed statement at its mark, in a store that is sound again, index
  and counts included. That a changed node is named by a change follows from the history step by step, and that a
  constraint which held at the beginning holds at a commit from the nodes named. The theorems assume of the constants
  that ids are numbers and that the names for nothing (`Absent`, `None`, `NoIndex`) are not something
  (`StoreAssumption`).

Replays, walks and queues are data of any length, and the library's induction theorems take an operator the provers
cannot instantiate. Where a proof needs induction it takes the least counterexample instead: that the natural numbers
have no descending chain is a fact without operator parameters.

Only model-checked: all liveness, since fairness and ENABLED are out of the prover's reach. Every safety invariant of a
passing run is stated by a theorem; where the code is wrong in one case (findings 3 and 4, `LoopTwice`), or the reference
asks for more than the code promises (lower bounds of SHORTEST above one, a hint of A\* that is not consistent), the
theorem names the case it leaves out.

## Plan

Done: the parts above, in this order: the write path, stream, connections and write-back of `packages/sync`; the store
and its transactions; slab and caches; the searches and walks; the counting and ordering shortcuts; demand-fill and live
rows. What is left:

1. `Store`: cardinality and end point constraints in the deferred checks, interval indexes, the epochs of reactive
   readers.
2. `StorePool`: pooled cells, epochs, listeners that mutate or throw.
3. `WriteStream` with interest: live queries that come and go, value scopes, presence cleanup, and `port.ts`.
4. `LiveRows` with full pushes: keyless, windowed and Gremlin queries; several subscriptions of one client.
5. More shortcuts of `exec/fastpath.rs` and `exec/reverse.rs` against their enumeration: join counts over two hops,
   reverse seeds, SHORTEST k.

## Not modelled

Most of the engine's lines are parsers (`gql.rs`, `gremlin.rs`), plan rewriting (`opt.rs`, `cost.rs`), vectorized
operators (`exec.rs`, most of `exec/fastpath.rs`) and codecs: pure functions of a query, a plan or bytes over a space no
small instance covers, with no state that survives a call. The repository tests them by differential fuzzing between its
two engines, which is the better tool. Of the shortcuts, those were chosen that argue for an equality which is not
obvious - cycles, trails, early exits - and not those that only avoid a copy.

Within modelled components: in the store, interval indexes, bulk loading, value interning, reactive epochs, and the
constraints on types, end points and cardinality; in variable-length paths, SHORTEST k (an enumeration with a budget), the streaming
consumer and the lineage of several rows; of the algorithms, the numeric ones (PageRank, centralities) and those of one
pass. A null source node of a path is left out (`exec/fastpath.rs:3094` is a hazard without a property). The access mode
of a transaction is, too: `ffi.rs:787` is listed as a hazard.

In the sync packages the pool of cells, full pushes, ports, presence and interest routing are planned and not modelled.
Left out of `DemandFill`: a scheduler of the application's own, and a `load()` that throws where it should reject, which
escapes from `ensure()`, or from the gate, with the slot still counted. Left out of `LiveRows`: a `send()` that throws
out of `push()`, which ends the notification of the listeners behind it and, when a load's writes caused it, turns a
load that was applied into a failed one (`engine.ts:449` is a hazard without a property); listeners that subscribe or
write while they are notified; one-shot queries; and a cell that cannot be compared, which the host takes for a push to
skip and the client for the end of the subscription (`host.ts:424` and `client.ts:902`): cells of a query do not raise
there. React bindings, command line, MCP server and utilities hold no protocol state of their own. Snapshot bytes,
compression and encryption are abstracted to "graph and pending writes, read and replaced together".

## Running

    tlc -workers 2 -config Store_transactions.cfg MCStore
    tlc -workers 2 -config Engine_parts.cfg MCEngine
    tlc -workers 2 -config Sync_parts.cfg MCSync
    tlapm VarLength_proofs.tla
