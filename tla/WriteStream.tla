---------------------------- MODULE WriteStream ----------------------------
(***************************************************************************)
(* The write stream (CDC) of the sync packages: every write the server     *)
(* commits goes to the bounded log of writelog.ts, the host of each        *)
(* subscribed client forwards it over that client's connection (host.ts),  *)
(* and the client hands it to its local engine and keeps a cursor to       *)
(* resume from after a reconnect (client.ts).                              *)
(*                                                                         *)
(* The module follows one client; subscribers share nothing but the log.   *)
(* It holds no wire live query and declares no scopes, so that the host    *)
(* forwards every write that is not the client's own.  Writes are numbered *)
(* in commit order over the life of the graph; their position in the log   *)
(* is their seq, which restarts with the server.                           *)
(*                                                                         *)
(* The application's part is external: on onResync and onIngestError it    *)
(* cold-boots, which is taken to replace its replica by the whole graph.   *)
(***************************************************************************)
EXTENDS Naturals, Sequences

CONSTANTS
  Capacity,        \* WriteLogOptions.capacity
  MayUnsubscribe,  \* may the application drop its handler for a while?
  SendMayThrow,    \* may a send of the fan-out throw?
  Lossy,           \* may the transport lose single messages?
  MaxWrites,       \* bound: writes committed
  MaxConns,        \* bound: connections
  MaxSubscribes,   \* bound: calls of subscribeWrites()
  MaxRestarts      \* bound: server restarts

ASSUME CapacityAssumption == Capacity \in Nat \ {0}
ASSUME FaultAssumption ==
  MayUnsubscribe \in BOOLEAN /\ SendMayThrow \in BOOLEAN /\ Lossy \in BOOLEAN
ASSUME BoundAssumption ==
  MaxWrites \in Nat /\ MaxConns \in Nat /\ MaxSubscribes \in Nat /\ MaxRestarts \in Nat

VARIABLES
  \* The server.
  commits,           \* writes in the graph
  foreign,           \* those another client committed
  log,               \* the writes appended since the server started
  tail,              \* the host forwards the live tail (writeStreamStop)
  lastSent,          \* lastSentCursor of the host
  \* The transport.
  connected, dials,
  requests,          \* subscribeWrites messages: their since
  batches,           \* writes messages
  \* The client.
  writeCursor,
  writesSubscribed,  \* it has a handler
  subscribes,
  delivered,         \* the batches the handler was given
  base,              \* what the last cold boot loaded
  restarts,
  excused            \* writes known to be lost on this client, see below

serverVars == <<commits, foreign, log>>
hostVars == <<tail, lastSent>>
wireVars == <<connected, dials, requests, batches>>
appVars == <<delivered, base, excused>>
clientVars == <<writeCursor, writesSubscribed, subscribes>>
vars == <<serverVars, hostVars, wireVars, appVars, clientVars, restarts>>

Writes == 1..MaxWrites
Cursors == 0..MaxWrites

\* WritesMessage.
Batch == [writes : SUBSET Writes, cursor : Cursors, from : Cursors, resync : BOOLEAN]

TypeOK ==
  /\ commits \in Cursors
  /\ foreign \subseteq 1..commits
  /\ log \in Seq(1..commits) /\ Len(log) <= commits
  /\ tail \in BOOLEAN
  /\ lastSent \in Cursors
  /\ connected \in BOOLEAN
  /\ dials \in 0..MaxConns
  /\ requests \in Seq(Cursors)
  /\ batches \in Seq(Batch)
  /\ writeCursor \in Cursors
  /\ writesSubscribed \in BOOLEAN
  /\ subscribes \in 0..MaxSubscribes
  /\ delivered \in Seq(SUBSET Writes)
  /\ base \subseteq 1..commits
  /\ restarts \in 0..MaxRestarts
  /\ excused \subseteq Writes

Init ==
  /\ commits = 0
  /\ foreign = {}
  /\ log = <<>>
  /\ tail = FALSE
  /\ lastSent = 0
  /\ connected = FALSE
  /\ dials = 0
  /\ requests = <<>>
  /\ batches = <<>>
  /\ writeCursor = 0
  /\ writesSubscribed = FALSE
  /\ subscribes = 0
  /\ delivered = <<>>
  /\ base = {}
  /\ restarts = 0
  /\ excused = {}

----------------------------------------------------------------------------
(* writelog.ts *)

\* The oldest retained seq; past the head while nothing is retained.
Oldest == IF Len(log) > Capacity THEN Len(log) - Capacity + 1 ELSE 1

\* Mutant: one missing write goes unnoticed.
FellOffLate(since) == since > Len(log) \/ since + 2 < Oldest

\* since() answers null: a gap, or a caller ahead of a log that regressed.
FellOff(since) == since > Len(log) \/ since + 1 < Oldest

\* Mutant: the write at the cursor again.
BacklogInclusive(since) ==
  {log[i] : i \in {j \in 1..Len(log) : j >= since /\ j >= Oldest}} \cap foreign

\* since(), but for the client's own writes.
Backlog(since) ==
  {log[i] : i \in {j \in 1..Len(log) : j > since /\ j >= Oldest}} \cap foreign

----------------------------------------------------------------------------
(* The host *)

\* sendWrites()
SendWrites(writes, cursor, from) ==
  /\ batches' = Append(batches, [writes |-> writes, cursor |-> cursor,
                                 from |-> from, resync |-> FALSE])
  /\ lastSent' = cursor

\* A client commits: append() and its fan-out.  The client's own write, and
\* any other it does not get, still ticks its cursor.
Commit(own) ==
  LET write == commits + 1
  IN  /\ commits < MaxWrites
      /\ commits' = write
      /\ log' = Append(log, write)
      /\ foreign' = IF own THEN foreign ELSE foreign \cup {write}
      /\ \/ /\ tail
            /\ SendWrites(IF own THEN {} ELSE {write}, Len(log) + 1, lastSent)
            /\ UNCHANGED excused
         \/ /\ ~tail
            /\ UNCHANGED <<batches, lastSent, excused>>
         \/ \* a send throws, to this client or to a subscriber before it
            /\ tail /\ SendMayThrow
            /\ excused' = excused \cup {write}
            /\ UNCHANGED <<batches, lastSent>>
      /\ UNCHANGED <<tail, connected, dials, requests, delivered, base, clientVars, restarts>>

\* Mutant: the chain of cursors does not restart at the head.
SubscribeWritesKeepsChain ==
  LET since == Head(requests)
  IN  /\ requests # <<>>
      /\ requests' = Tail(requests)
      /\ tail' = TRUE
      /\ \/ /\ FellOff(since)
            /\ batches' = Append(batches, [writes |-> {}, cursor |-> Len(log),
                                           from |-> 0, resync |-> TRUE])
            /\ lastSent' = since
         \/ /\ ~FellOff(since) /\ since < Len(log)
            /\ SendWrites(Backlog(since), Len(log), since)
         \/ /\ since = Len(log)
            /\ lastSent' = since
            /\ UNCHANGED batches
      /\ UNCHANGED <<serverVars, connected, dials, appVars, clientVars, restarts>>

\* subscribeWrites() of host.ts: resync or backlog, then the live tail in
\* place of the one a former subscribeWrites message started.
SubscribeWrites ==
  LET since == Head(requests)
  IN  /\ requests # <<>>
      /\ requests' = Tail(requests)
      /\ tail' = TRUE
      /\ \/ /\ FellOff(since)
            /\ batches' = Append(batches, [writes |-> {}, cursor |-> Len(log),
                                           from |-> 0, resync |-> TRUE])
            /\ lastSent' = Len(log)
         \/ /\ ~FellOff(since) /\ since < Len(log)
            /\ SendWrites(Backlog(since), Len(log), since)
         \/ /\ since = Len(log)
            /\ lastSent' = since
            /\ UNCHANGED batches
      /\ UNCHANGED <<serverVars, connected, dials, appVars, clientVars, restarts>>

\* Sending the backlog throws: the old tail is stopped and no new one starts.
SubscribeWritesThrows ==
  /\ SendMayThrow
  /\ requests # <<>>
  /\ Head(requests) # Len(log)
  /\ requests' = Tail(requests)
  /\ tail' = FALSE
  /\ UNCHANGED <<serverVars, lastSent, connected, dials, batches, appVars, clientVars, restarts>>

----------------------------------------------------------------------------
(* The client *)

\* External: the application loads a snapshot of the graph.
ColdBoot == base' = 1..commits /\ excused' = {}

\* Without a handler there is nobody to tell.
Resync ==
  /\ IF writesSubscribed
     THEN ColdBoot
     ELSE excused' = Writes /\ UNCHANGED base
  /\ UNCHANGED delivered

Take ==
  /\ batches # <<>>
  /\ batches' = Tail(batches)
  /\ UNCHANGED <<serverVars, hostVars, connected, dials, requests,
                 writesSubscribed, subscribes, restarts>>

\* handleWrites(), one action per way through it.
ReceiveResync ==
  /\ Take
  /\ Head(batches).resync
  /\ writeCursor' = Head(batches).cursor
  /\ Resync

ReceiveDuplicate ==
  /\ Take
  /\ ~Head(batches).resync
  /\ Head(batches).cursor <= writeCursor
  /\ UNCHANGED <<writeCursor, appVars>>

ReceiveGap ==
  /\ Take
  /\ ~Head(batches).resync
  /\ Head(batches).cursor > writeCursor
  /\ Head(batches).from # writeCursor
  /\ writeCursor' = Head(batches).cursor
  /\ Resync

InSequence ==
  LET batch == Head(batches)
  IN  ~batch.resync /\ batch.cursor > writeCursor /\ batch.from = writeCursor

\* The cursor moves whether or not there is a handler to take the writes.
ReceiveBatch ==
  LET batch == Head(batches)
  IN  /\ Take
      /\ InSequence
      /\ writeCursor' = batch.cursor
      /\ IF writesSubscribed
         THEN /\ delivered' = IF batch.writes = {} THEN delivered
                              ELSE Append(delivered, batch.writes)
              /\ UNCHANGED excused
         ELSE /\ excused' = excused \cup batch.writes
              /\ UNCHANGED delivered
      /\ UNCHANGED base

\* The handler throws on a write, after some or none of the others.
IngestFails ==
  LET batch == Head(batches)
  IN  /\ Take
      /\ InSequence
      /\ writesSubscribed /\ batch.writes # {}
      /\ writeCursor' = batch.cursor
      /\ delivered' = Append(delivered, batch.writes)
      /\ ColdBoot

Receive ==
  ReceiveResync \/ ReceiveDuplicate \/ ReceiveGap \/ ReceiveBatch \/ IngestFails

\* subscribeWrites() of client.ts; a message sent while offline is dropped.
Subscribe ==
  /\ subscribes < MaxSubscribes
  /\ subscribes' = subscribes + 1
  /\ writesSubscribed' = TRUE
  /\ requests' = IF connected THEN Append(requests, writeCursor) ELSE requests
  /\ UNCHANGED <<serverVars, hostVars, connected, dials, batches, appVars, writeCursor, restarts>>

\* The function subscribeWrites() returned: the host is not told.
Unsubscribe ==
  /\ MayUnsubscribe
  /\ writesSubscribed
  /\ writesSubscribed' = FALSE
  /\ UNCHANGED <<serverVars, hostVars, wireVars, appVars, writeCursor, subscribes, restarts>>

----------------------------------------------------------------------------
(* The transport *)

\* The connection and its host are gone, with all that was in flight.
Disconnect ==
  /\ connected' = FALSE
  /\ requests' = <<>>
  /\ batches' = <<>>
  /\ tail' = FALSE
  /\ lastSent' = 0

Drop ==
  /\ connected
  /\ dials < MaxConns
  /\ Disconnect
  /\ UNCHANGED <<serverVars, dials, appVars, clientVars, restarts>>

\* Mutant: the stream is not resumed.
RedialNoResume ==
  /\ ~connected
  /\ dials < MaxConns
  /\ dials' = dials + 1
  /\ connected' = TRUE
  /\ UNCHANGED <<serverVars, hostVars, requests, batches, appVars, clientVars, restarts>>

\* A new connection to a new host; replay() resumes the stream on it.
Redial ==
  /\ ~connected
  /\ dials < MaxConns
  /\ dials' = dials + 1
  /\ connected' = TRUE
  /\ requests' = IF writesSubscribed THEN <<writeCursor>> ELSE <<>>
  /\ UNCHANGED <<serverVars, hostVars, batches, appVars, clientVars, restarts>>

Lose ==
  /\ Lossy
  /\ \E i \in 1..Len(batches) :
       batches' = SubSeq(batches, 1, i - 1) \o SubSeq(batches, i + 1, Len(batches))
  /\ UNCHANGED <<serverVars, hostVars, connected, dials, requests,
                 appVars, clientVars, restarts>>

\* The log is in memory; the graph is taken to be durable.
Restart ==
  /\ restarts < MaxRestarts
  /\ dials < MaxConns
  /\ restarts' = restarts + 1
  /\ log' = <<>>
  /\ Disconnect
  /\ excused' = Writes
  /\ UNCHANGED <<commits, foreign, dials, delivered, base, clientVars>>

----------------------------------------------------------------------------
Next ==
  \/ \E own \in BOOLEAN : Commit(own)
  \/ SubscribeWrites \/ SubscribeWritesThrows
  \/ Receive \/ Subscribe \/ Unsubscribe
  \/ Drop \/ Redial \/ Lose \/ Restart

Spec == Init /\ [][Next]_vars

\* A live connection delivers, and the reconnect timer dials again.
Fairness == WF_vars(Redial) /\ WF_vars(SubscribeWrites) /\ WF_vars(Receive)
FairSpec == Spec /\ Fairness

----------------------------------------------------------------------------
(* Properties *)

\* What the local replica has of the stream.
Replica == base \cup UNION {delivered[i] : i \in 1..Len(delivered)}

\* The writes of others that the log holds up to the client's cursor, and
\* that the host will therefore never send again.
Passed == {log[i] : i \in {j \in 1..Len(log) : j <= writeCursor}} \cap foreign

\* Drops, resumes, re-subscriptions on a live connection, lost messages and
\* failed ingests never make the cursor pass a write the replica misses.
\* Excused are the writes of a fan-out that threw, those that came while the
\* application had no handler, and all of them after a server restart, each
\* until the next cold boot.
NothingElseIsMissing == Passed \ Replica \subseteq excused

\* The same with no excuse: onWrites receives every other client's write.
CursorIsComplete == Passed \subseteq Replica

\* The handler gets the writes of others in commit order and each at most
\* once, whatever is lost, dropped, re-subscribed or restarted.
DeliveredInOrder ==
  \A i, j \in 1..Len(delivered) :
    i < j => \A m \in delivered[i], n \in delivered[j] : m < n

\* On a connection that loses nothing the contiguity check never sends the
\* client to a cold boot.
FifoNeverGaps == [][~ReceiveGap]_vars

\* Every write another client commits reaches the replica of a subscribed
\* client, by the tail, the backlog or a cold boot, once the connection stays.
EveryWriteArrives ==
  \A n \in Writes : (n \in foreign /\ writesSubscribed) ~> n \in Replica
=============================================================================
