-------------------------- MODULE WriteStream_proofs --------------------------
(***************************************************************************)
(* Proofs about WriteStream, for logs of any capacity and any number of    *)
(* writes, connections, subscriptions and restarts.                        *)
(***************************************************************************)
EXTENDS WriteStream, SequenceTheorems, TLAPS

----------------------------------------------------------------------------
(* The inductive invariant *)

\* The log holds writes in the order they were committed.
Increasing == \A i, j \in 1..Len(log) : i < j => log[i] < log[j]

\* The writes of others at the positions after s, up to t.
Logged(s, t) == {log[i] : i \in {j \in 1..Len(log) : j > s /\ j <= t}} \cap foreign

Known == Replica \cup excused

\* Every write handed over so far is older than what the log holds after s.
DeliveredBefore(s) ==
  \A i \in 1..Len(delivered) : \A m \in delivered[i] :
    \A k \in 1..Len(log) : k > s => m < log[k]

\* A batch under way carries only what the log has between its cursors, and
\* what it leaves out there is known; one that asks for a cold boot leaves
\* nothing behind that was handed over.
GoodBatch(b) ==
  /\ b.cursor <= Len(log)
  /\ b.writes \subseteq Logged(b.from, b.cursor)
  /\ ~b.resync => Logged(b.from, b.cursor) \subseteq b.writes \cup Known
  /\ b.resync => DeliveredBefore(b.cursor)

InFlight(b) == \E p \in 1..Len(batches) : batches[p] = b

BatchesAreGood == \A b \in Batch : InFlight(b) => GoodBatch(b)

\* The connection keeps the order of what the host sent.
CursorsClimb ==
  \A p, q \in 1..Len(batches) : p < q => batches[p].cursor <= batches[q].cursor

\* The live tail goes on where the last batch ended.
TailCovers == tail => lastSent <= Len(log) /\ Logged(lastSent, Len(log)) \subseteq Known

\* A client that is ahead of a log which started anew has everything excused.
RegressedIsExcused == writeCursor > Len(log) => excused = Writes

DeliveredIsPast ==
  /\ \A i \in 1..Len(delivered) : delivered[i] \subseteq 1..commits
  /\ DeliveredBefore(writeCursor)

Inv ==
  /\ TypeOK
  /\ Increasing
  /\ BatchesAreGood
  /\ CursorsClimb
  /\ TailCovers
  /\ RegressedIsExcused
  /\ NothingElseIsMissing
  /\ DeliveredIsPast
  /\ DeliveredInOrder

----------------------------------------------------------------------------
(* Sequences *)

\* What Append does to the elements.
LEMMA AppendElements ==
  ASSUME NEW S, NEW s \in Seq(S), NEW e \in S
  PROVE  /\ Append(s, e) \in Seq(S)
         /\ Len(Append(s, e)) = Len(s) + 1 /\ Len(s) \in Nat
         /\ \A i \in 1..Len(s) : i \in 1..(Len(s) + 1) /\ Append(s, e)[i] = s[i]
         /\ Append(s, e)[Len(s) + 1] = e
  OBVIOUS

\* What Tail does to them.
LEMMA TailElements ==
  ASSUME NEW S, NEW s \in Seq(S), s # <<>>
  PROVE  /\ Tail(s) \in Seq(S) /\ Head(s) \in S /\ Head(s) = s[1]
         /\ Len(s) \in Nat /\ 1 \in 1..Len(s)
         /\ Len(Tail(s)) = Len(s) - 1
         /\ \A i \in 1..Len(Tail(s)) : i + 1 \in 1..Len(s) /\ Tail(s)[i] = s[i + 1]
  OBVIOUS

\* Numbers only grow, and a sequence of old ones is one of the new ones.
LEMMA SeqGrows ==
  ASSUME NEW m \in Nat, NEW n \in Nat, m <= n, NEW s \in Seq(1..m)
  PROVE  s \in Seq(1..n)
  <1>1. \A i \in 1..Len(s) : s[i] \in 1..n
    <2> TAKE i \in 1..Len(s)
    <2>1. s[i] \in 1..m
      OBVIOUS
    <2> QED
      BY <2>1
  <1> QED
    BY <1>1

\* A sequence without its i-th element.
Without(s, i) == SubSeq(s, 1, i - 1) \o SubSeq(s, i + 1, Len(s))

\* The other elements keep their order.
LEMMA WithoutElement ==
  ASSUME NEW S, NEW s \in Seq(S), NEW i \in 1..Len(s)
  PROVE  /\ Without(s, i) \in Seq(S) /\ Len(s) \in Nat
         /\ Len(Without(s, i)) = Len(s) - 1
         /\ \A p \in 1..(Len(s) - 1) :
              /\ p < i => p \in 1..Len(s) /\ Without(s, i)[p] = s[p]
              /\ p >= i => p + 1 \in 1..Len(s) /\ Without(s, i)[p] = s[p + 1]
  <1> DEFINE a == SubSeq(s, 1, i - 1)
             b == SubSeq(s, i + 1, Len(s))
  <1>1. Len(s) \in Nat /\ i \in Nat /\ 1 <= i /\ i <= Len(s)
    OBVIOUS
  <1>2. a \in Seq(S) /\ Len(a) = i - 1 /\ \A p \in 1..(i - 1) : a[p] = s[p]
    BY <1>1
  <1>3. b \in Seq(S) /\ Len(b) = Len(s) - i /\ \A p \in 1..(Len(s) - i) : b[p] = s[i + p]
    BY <1>1
  <1> HIDE DEF a, b
  <1>4. /\ a \o b \in Seq(S) /\ Len(a \o b) = Len(s) - 1
        /\ \A p \in 1..(Len(s) - 1) : (a \o b)[p] = IF p <= i - 1 THEN a[p] ELSE b[p - (i - 1)]
    <2>1. Len(a) \in Nat /\ Len(b) \in Nat /\ Len(a) + Len(b) = Len(s) - 1
      BY <1>1, <1>2, <1>3
    <2>2. /\ a \o b \in Seq(S) /\ Len(a \o b) = Len(a) + Len(b)
          /\ \A p \in 1..(Len(a) + Len(b)) :
               (a \o b)[p] = IF p <= Len(a) THEN a[p] ELSE b[p - Len(a)]
      BY <1>2, <1>3, ConcatProperties
    <2> QED
      BY <1>2, <2>1, <2>2
  <1>5. ASSUME NEW p \in 1..(Len(s) - 1), p < i
        PROVE  p \in 1..Len(s) /\ (a \o b)[p] = s[p]
    BY <1>1, <1>2, <1>4, <1>5
  <1>6. ASSUME NEW p \in 1..(Len(s) - 1), p >= i
        PROVE  p + 1 \in 1..Len(s) /\ (a \o b)[p] = s[p + 1]
    <2>1. p - (i - 1) \in 1..(Len(s) - i) /\ i + (p - (i - 1)) = p + 1
      BY <1>1, <1>6
    <2> QED
      BY <1>1, <1>3, <1>4, <1>6, <2>1
  <1> QED
    BY <1>1, <1>4, <1>5, <1>6 DEF a, b, Without

----------------------------------------------------------------------------
(* The operators *)

\* Being logged between two positions, without the set notation.
LEMMA LoggedIff ==
  ASSUME NEW s, NEW t, NEW n
  PROVE  n \in Logged(s, t) <=>
           n \in foreign /\ \E i \in 1..Len(log) : i > s /\ i <= t /\ log[i] = n
  BY DEF Logged

----------------------------------------------------------------------------
(* Types *)

\* Every step keeps the types.
LEMMA TypeStep ==
  TypeOK /\ [Next]_vars => TypeOK'
  <1> SUFFICES ASSUME TypeOK, [Next]_vars PROVE TypeOK'
    OBVIOUS
  <1> USE BoundAssumption, FaultAssumption, CapacityAssumption
  <1>1. /\ Len(log) \in Nat /\ Len(log) \in Cursors /\ commits \in Nat /\ commits <= MaxWrites
        /\ foreign \subseteq Writes /\ MaxWrites \in Nat
    BY DEF TypeOK, Cursors, Writes
  <1>2. ASSUME NEW own \in BOOLEAN, Commit(own) PROVE TypeOK'
    <2>1. commits' = commits + 1 /\ commits + 1 \in Writes /\ commits + 1 \in Cursors /\ Len(log) + 1 \in Cursors
      BY <1>1, <1>2 DEF TypeOK, Cursors, Writes, Commit
    <2>2. log' \in Seq(1..commits') /\ Len(log') <= commits'
      <3>1. log \in Seq(1..(commits + 1))
        BY <1>1, SeqGrows DEF TypeOK
      <3> QED
        BY <1>1, <1>2, <2>1, <3>1, AppendElements DEF TypeOK, Commit
    <2>3. foreign' \subseteq 1..commits' /\ base' \subseteq 1..commits'
      BY <1>1, <1>2, <2>1 DEF TypeOK, Commit
    <2>4. batches' \in Seq(Batch) /\ lastSent' \in Cursors
      <3> DEFINE sent == [writes |-> IF own THEN {} ELSE {commits + 1}, cursor |-> Len(log) + 1,
                          from |-> lastSent, resync |-> FALSE]
      <3>1. sent \in Batch
        BY <2>1 DEF TypeOK, Batch
      <3>2. /\ batches' = batches \/ batches' = Append(batches, sent)
            /\ lastSent' = lastSent \/ lastSent' = Len(log) + 1
        BY <1>2 DEF Commit, SendWrites
      <3> HIDE DEF sent
      <3>3. batches \in Seq(Batch) /\ Append(batches, sent) \in Seq(Batch)
        BY <3>1, AppendElements DEF TypeOK
      <3> QED
        BY <2>1, <3>2, <3>3 DEF TypeOK
    <2>5. excused' \subseteq Writes
      BY <1>2, <2>1 DEF TypeOK, Commit
    <2> QED
      BY <1>2, <2>1, <2>2, <2>3, <2>4, <2>5 DEF TypeOK, Commit, clientVars
  <1>3. CASE SubscribeWrites
    <2>1. requests' \in Seq(Cursors) /\ Head(requests) \in Cursors
      BY <1>3 DEF TypeOK, SubscribeWrites
    <2>2. Backlog(Head(requests)) \subseteq Writes
      BY <1>1 DEF Backlog
    <2>3. batches' \in Seq(Batch) /\ lastSent' \in Cursors
      <3> DEFINE resync  == [writes |-> {}, cursor |-> Len(log), from |-> 0, resync |-> TRUE]
                 backlog == [writes |-> Backlog(Head(requests)), cursor |-> Len(log),
                             from |-> Head(requests), resync |-> FALSE]
      <3>1. resync \in Batch /\ backlog \in Batch
        BY <1>1, <2>1, <2>2 DEF Batch, Cursors
      <3>2. /\ \/ batches' = batches
               \/ batches' = Append(batches, resync)
               \/ batches' = Append(batches, backlog)
            /\ lastSent' = Len(log) \/ lastSent' = Head(requests)
        BY <1>3 DEF SubscribeWrites, SendWrites
      <3> HIDE DEF resync, backlog
      <3>3. /\ batches \in Seq(Batch)
            /\ Append(batches, resync) \in Seq(Batch) /\ Append(batches, backlog) \in Seq(Batch)
        BY <3>1, AppendElements DEF TypeOK
      <3> QED
        BY <1>1, <2>1, <3>2, <3>3
    <2> QED
      BY <1>3, <2>1, <2>3 DEF TypeOK, SubscribeWrites, serverVars, clientVars, appVars
  <1>4. CASE SubscribeWritesThrows
    <2>1. requests' \in Seq(Cursors)
      BY <1>4 DEF TypeOK, SubscribeWritesThrows
    <2> QED
      BY <1>4, <2>1 DEF TypeOK, SubscribeWritesThrows, serverVars, clientVars, appVars
  <1>5. CASE Receive
    <2>1. /\ Head(batches) \in Batch /\ Head(batches).cursor \in Cursors
          /\ Head(batches).writes \in SUBSET Writes
          /\ batches' \in Seq(Batch)
          /\ UNCHANGED <<serverVars, hostVars, connected, dials, requests,
                         writesSubscribed, subscribes, restarts>>
      <3>1. batches # <<>> /\ Take
        BY <1>5 DEF Receive, ReceiveResync, ReceiveDuplicate, ReceiveGap, ReceiveBatch, IngestFails, Take
      <3>2. Head(batches) \in Batch
        BY <3>1 DEF TypeOK
      <3> QED
        BY <3>1, <3>2 DEF TypeOK, Batch, Take
    <2>2. writeCursor' \in Cursors
      BY <1>5, <2>1 DEF TypeOK, Receive, ReceiveResync, ReceiveDuplicate, ReceiveGap,
                       ReceiveBatch, IngestFails, appVars
    <2>3. /\ base' = base \/ base' = 1..commits
          /\ excused' \subseteq Writes
      BY <1>5, <2>1 DEF TypeOK, Receive, ReceiveResync, ReceiveDuplicate, ReceiveGap,
                       ReceiveBatch, IngestFails, Resync, ColdBoot, appVars
    <2>4. delivered' \in Seq(SUBSET Writes)
      <3>1. delivered' = delivered \/ delivered' = Append(delivered, Head(batches).writes)
        BY <1>5 DEF Receive, ReceiveResync, ReceiveDuplicate, ReceiveGap,
                    ReceiveBatch, IngestFails, Resync, appVars
      <3>2. delivered \in Seq(SUBSET Writes)
        BY DEF TypeOK
      <3>3. Append(delivered, Head(batches).writes) \in Seq(SUBSET Writes)
        BY <2>1, <3>2, AppendElements, Zenon
      <3> QED
        BY <3>1, <3>2, <3>3
    <2> QED
      BY <2>1, <2>2, <2>3, <2>4 DEF TypeOK, serverVars, hostVars
  <1>6. CASE Subscribe
    <2>1. requests' \in Seq(Cursors) /\ subscribes' \in 0..MaxSubscribes
      BY <1>6 DEF TypeOK, Subscribe
    <2> QED
      BY <1>6, <2>1 DEF TypeOK, Subscribe, serverVars, hostVars, appVars
  <1>7. CASE Unsubscribe
    BY <1>7 DEF TypeOK, Unsubscribe, serverVars, hostVars, wireVars, appVars
  <1>8. CASE Drop
    <2>1. requests' \in Seq(Cursors) /\ batches' \in Seq(Batch) /\ lastSent' \in Cursors
      BY <1>1, <1>8 DEF Drop, Disconnect, Cursors
    <2> QED
      BY <1>8, <2>1 DEF TypeOK, Drop, Disconnect, serverVars, appVars, clientVars
  <1>9. CASE Redial
    BY <1>9 DEF TypeOK, Redial, serverVars, hostVars, appVars, clientVars
  <1>10. CASE Lose
    <2>1. PICK i \in 1..Len(batches) : batches' = Without(batches, i)
      BY <1>10 DEF Lose, Without
    <2>2. batches' \in Seq(Batch)
      BY <2>1, WithoutElement DEF TypeOK
    <2> QED
      BY <1>10, <2>2 DEF TypeOK, Lose, serverVars, hostVars, appVars, clientVars
  <1>11. CASE Restart
    <2>1. log' \in Seq(1..commits) /\ Len(log') = 0 /\ restarts' \in 0..MaxRestarts
      BY <1>11 DEF TypeOK, Restart
    <2>2. requests' \in Seq(Cursors) /\ batches' \in Seq(Batch) /\ lastSent' \in Cursors
      BY <1>1, <1>11 DEF Restart, Disconnect, Cursors
    <2>3. /\ UNCHANGED <<commits, foreign, dials, delivered, base, clientVars>>
          /\ excused' = Writes /\ connected' = FALSE /\ tail' = FALSE
      BY <1>11 DEF Restart, Disconnect
    <2>4. Len(log') <= commits'
      BY <1>1, <2>1, <2>3
    <2>5. log' \in Seq(1..commits')
      BY <2>1, <2>3
    <2> QED
      BY <2>1, <2>2, <2>3, <2>4, <2>5 DEF TypeOK, clientVars
  <1>12. CASE UNCHANGED vars
    BY <1>12 DEF TypeOK, vars, serverVars, hostVars, wireVars, appVars, clientVars
  <1> QED
    BY <1>2, <1>3, <1>4, <1>5, <1>6, <1>7, <1>8, <1>9, <1>10, <1>11, <1>12 DEF Next

----------------------------------------------------------------------------
(* Steps that leave the log alone *)

\* What was known stays known, of the writes that exist.
KnownGrows == \A n \in 1..commits : n \in Known => n \in Known'

\* A batch stays good as long as the log does and nothing later is handed over.
LEMMA GoodBatchStays ==
  ASSUME TypeOK, NEW b, GoodBatch(b), UNCHANGED <<log, foreign>>, KnownGrows,
         b.resync => DeliveredBefore(b.cursor)'
  PROVE  GoodBatch(b)'
  <1>1. Logged(b.from, b.cursor)' = Logged(b.from, b.cursor)
    BY DEF Logged
  <1>2. Logged(b.from, b.cursor) \subseteq 1..commits
    BY DEF Logged, TypeOK
  <1> QED
    BY <1>1, <1>2 DEF GoodBatch, KnownGrows

\* What the client takes from the queue leaves the rest as it was.
LEMMA TakenBatch ==
  ASSUME TypeOK, BatchesAreGood, CursorsClimb, Take
  PROVE  /\ Head(batches) \in Batch /\ InFlight(Head(batches)) /\ GoodBatch(Head(batches))
         /\ \A b \in Batch : InFlight(b)' => InFlight(b) /\ Head(batches).cursor <= b.cursor
         /\ CursorsClimb'
  <1>1. batches # <<>> /\ batches' = Tail(batches) /\ batches \in Seq(Batch)
    BY DEF Take, TypeOK
  <1>2. /\ Head(batches) \in Batch /\ Head(batches) = batches[1]
        /\ Len(batches) \in Nat /\ 1 \in 1..Len(batches)
        /\ Len(batches') = Len(batches) - 1
        /\ \A i \in 1..Len(batches') : i + 1 \in 1..Len(batches) /\ batches'[i] = batches[i + 1]
    BY <1>1, TailElements
  <1>3. InFlight(Head(batches)) /\ GoodBatch(Head(batches))
    <2>1. PICK b \in Batch : b = Head(batches)
      BY <1>2
    <2>2. InFlight(b)
      BY <1>2, <2>1 DEF InFlight
    <2> QED
      BY <2>1, <2>2 DEF BatchesAreGood
  <1>4. ASSUME NEW b \in Batch, InFlight(b)'
        PROVE  InFlight(b) /\ Head(batches).cursor <= b.cursor
    <2>1. PICK p \in 1..Len(batches') : batches'[p] = b
      BY <1>4 DEF InFlight
    <2>2. p + 1 \in 1..Len(batches) /\ batches[p + 1] = b /\ 1 < p + 1
      BY <1>2, <2>1
    <2> QED
      BY <1>2, <2>2 DEF InFlight, CursorsClimb
  <1>5. CursorsClimb'
    <2> SUFFICES ASSUME NEW p \in 1..Len(batches'), NEW q \in 1..Len(batches'), p < q
                 PROVE  batches'[p].cursor <= batches'[q].cursor
      BY DEF CursorsClimb
    <2>1. /\ p + 1 \in 1..Len(batches) /\ q + 1 \in 1..Len(batches) /\ p + 1 < q + 1
          /\ batches'[p] = batches[p + 1] /\ batches'[q] = batches[q + 1]
      BY <1>2
    <2> QED
      BY <2>1 DEF CursorsClimb
  <1> QED
    BY <1>2, <1>3, <1>4, <1>5

\* What the host sends goes behind everything under way.
LEMMA SentBatch ==
  ASSUME TypeOK, BatchesAreGood, CursorsClimb, NEW b \in Batch, batches' = Append(batches, b),
         Len(log) <= b.cursor
  PROVE  /\ \A c \in Batch : InFlight(c)' => InFlight(c) \/ c = b
         /\ CursorsClimb'
  <1>1. batches \in Seq(Batch) /\ Len(log) \in Nat /\ b.cursor \in Nat
    BY DEF TypeOK, Batch, Cursors
  <1>2. /\ Len(batches') = Len(batches) + 1 /\ Len(batches) \in Nat
        /\ \A i \in 1..Len(batches) : batches'[i] = batches[i]
        /\ batches'[Len(batches) + 1] = b
    BY <1>1, AppendElements
  <1>3. ASSUME NEW c \in Batch, InFlight(c)'
        PROVE  InFlight(c) \/ c = b
    <2>1. PICK p \in 1..Len(batches') : batches'[p] = c
      BY <1>3 DEF InFlight
    <2>2. CASE p = Len(batches) + 1
      BY <1>2, <2>1, <2>2
    <2>3. CASE p # Len(batches) + 1
      <3>1. p \in 1..Len(batches)
        BY <1>2, <2>3
      <3> QED
        BY <1>2, <2>1, <3>1 DEF InFlight
    <2> QED
      BY <2>2, <2>3
  <1>4. ASSUME NEW p \in 1..Len(batches)
        PROVE  batches[p].cursor <= b.cursor
    <2>1. batches[p] \in Batch /\ batches[p].cursor \in Nat
      <3>1. batches[p] \in Batch
        BY <1>1
      <3> QED
        BY <3>1, BoundAssumption DEF Batch, Cursors
    <2>2. batches[p].cursor <= Len(log)
      <3>1. PICK c \in Batch : c = batches[p]
        BY <2>1
      <3>2. GoodBatch(c)
        BY <3>1 DEF BatchesAreGood, InFlight
      <3> QED
        BY <3>1, <3>2 DEF GoodBatch
    <2> QED
      BY <1>1, <2>1, <2>2
  <1>5. CursorsClimb'
    <2> SUFFICES ASSUME NEW p \in 1..Len(batches'), NEW q \in 1..Len(batches'), p < q
                 PROVE  batches'[p].cursor <= batches'[q].cursor
      BY DEF CursorsClimb
    <2>1. p \in 1..Len(batches) /\ (q \in 1..Len(batches) \/ q = Len(batches) + 1)
      BY <1>2
    <2> QED
      BY <1>2, <1>4, <2>1 DEF CursorsClimb
  <1> QED
    BY <1>3, <1>5

\* What the transport loses leaves the others in their order.
LEMMA LostBatch ==
  ASSUME TypeOK, CursorsClimb, Lose
  PROVE  /\ \A b \in Batch : InFlight(b)' => InFlight(b)
         /\ CursorsClimb'
  <1>1. PICK i \in 1..Len(batches) : batches' = Without(batches, i)
    BY DEF Lose, Without
  <1>2. /\ Len(batches) \in Nat /\ i \in Nat /\ Len(batches') = Len(batches) - 1
        /\ \A p \in 1..Len(batches') :
             /\ p < i => p \in 1..Len(batches) /\ batches'[p] = batches[p]
             /\ p >= i => p + 1 \in 1..Len(batches) /\ batches'[p] = batches[p + 1]
    <2>1. batches \in Seq(Batch)
      BY DEF TypeOK
    <2>2. /\ Len(batches) \in Nat /\ Len(batches') = Len(batches) - 1
          /\ \A p \in 1..Len(batches') :
               /\ p < i => p \in 1..Len(batches) /\ batches'[p] = batches[p]
               /\ p >= i => p + 1 \in 1..Len(batches) /\ batches'[p] = batches[p + 1]
      BY <1>1, <2>1, WithoutElement
    <2> QED
      BY <2>2
  <1>3. ASSUME NEW b \in Batch, InFlight(b)'
        PROVE  InFlight(b)
    <2>1. PICK p \in 1..Len(batches') : batches'[p] = b
      BY <1>3 DEF InFlight
    <2> QED
      BY <1>2, <2>1 DEF InFlight
  <1>4. CursorsClimb'
    <2> SUFFICES ASSUME NEW p \in 1..Len(batches'), NEW q \in 1..Len(batches'), p < q
                 PROVE  batches'[p].cursor <= batches'[q].cursor
      BY DEF CursorsClimb
    <2> DEFINE u == IF p < i THEN p ELSE p + 1
               v == IF q < i THEN q ELSE q + 1
    <2>1. p \in Nat /\ q \in Nat /\ i \in Nat
      BY <1>2
    <2>2. u \in 1..Len(batches) /\ batches'[p] = batches[u]
      <3>1. CASE p < i
        BY <3>1, <1>2
      <3>2. CASE p >= i
        BY <3>2, <2>1, <1>2
      <3> QED
        BY <2>1, <3>1, <3>2
    <2>3. v \in 1..Len(batches) /\ batches'[q] = batches[v]
      <3>1. CASE q < i
        BY <3>1, <1>2
      <3>2. CASE q >= i
        BY <3>2, <2>1, <1>2
      <3> QED
        BY <2>1, <3>1, <3>2
    <2>4. u < v
      BY <2>1
    <2> HIDE DEF u, v
    <2> QED
      BY <2>2, <2>3, <2>4 DEF CursorsClimb
  <1> QED
    BY <1>3, <1>4

----------------------------------------------------------------------------
(* The server *)

\* A commit puts one write behind everything in the log.
LEMMA CommitLog ==
  ASSUME TypeOK, NEW own \in BOOLEAN, Commit(own)
  PROVE  /\ Len(log) \in Nat /\ Len(log') = Len(log) + 1 /\ commits \in Nat
         /\ \A i \in 1..Len(log) : log[i] \in 1..commits /\ log'[i] = log[i]
         /\ log'[Len(log) + 1] = commits + 1
         /\ foreign \subseteq foreign' /\ foreign' \subseteq foreign \cup {commits + 1}
         /\ foreign \subseteq 1..commits
         /\ own => foreign' = foreign
         /\ UNCHANGED <<delivered, base, writeCursor>> /\ excused \subseteq excused'
         /\ excused \subseteq Writes /\ commits + 1 \in Writes
  <1>1. log \in Seq(1..commits) /\ commits \in Nat /\ log' = Append(log, commits + 1)
    BY BoundAssumption DEF TypeOK, Commit, Cursors
  <1>2. log \in Seq(Nat) /\ commits + 1 \in Nat /\ Len(log) \in Nat
    BY <1>1
  <1>3. /\ Len(log') = Len(log) + 1
        /\ \A i \in 1..Len(log) : log'[i] = log[i]
        /\ log'[Len(log) + 1] = commits + 1
    BY <1>1, <1>2, AppendElements
  <1>4. \A i \in 1..Len(log) : log[i] \in 1..commits
    BY <1>1
  <1>5. commits + 1 \in Writes /\ excused \subseteq Writes /\ foreign \subseteq 1..commits
    BY <1>1, BoundAssumption DEF TypeOK, Commit, Writes
  <1>6. /\ foreign \subseteq foreign' /\ foreign' \subseteq foreign \cup {commits + 1}
        /\ own => foreign' = foreign
        /\ UNCHANGED <<delivered, base, writeCursor>> /\ excused \subseteq excused'
    BY DEF Commit, clientVars
  <1> QED
    BY <1>2, <1>1, <1>3, <1>4, <1>5, <1>6

\* What it changes of the log's sections: those that reach to its end.
LEMMA CommitLogged ==
  ASSUME TypeOK, NEW own \in BOOLEAN, Commit(own), NEW s \in Nat, NEW t \in Nat,
         NEW end, end = Len(log) + 1
  PROVE  /\ t <= Len(log) => Logged(s, t)' = Logged(s, t)
         /\ Logged(s, end)' \subseteq Logged(s, Len(log)) \cup ({commits + 1} \cap foreign')
         /\ s <= Len(log) /\ commits + 1 \in foreign' => commits + 1 \in Logged(s, end)'
         /\ DeliveredIsPast /\ DeliveredBefore(s) => DeliveredBefore(s)'
  <1>1. /\ Len(log) \in Nat /\ Len(log') = Len(log) + 1 /\ commits \in Nat
        /\ \A i \in 1..Len(log) : log[i] \in 1..commits /\ log'[i] = log[i]
        /\ log'[Len(log) + 1] = commits + 1
        /\ foreign \subseteq foreign' /\ foreign' \subseteq foreign \cup {commits + 1}
    BY CommitLog
  <1>2. 1..Len(log') = 1..Len(log) \cup {Len(log) + 1}
    BY <1>1
  <1>3. ASSUME t <= Len(log) PROVE Logged(s, t)' = Logged(s, t)
    <2>1. \A n : n \in Logged(s, t)' <=> n \in foreign' /\ \E i \in 1..Len(log) : i > s /\ i <= t /\ log[i] = n
      <3>1. \A i \in 1..Len(log') : i <= t => i \in 1..Len(log)
        BY <1>1, <1>3
      <3>2. \A n : n \in Logged(s, t)' <=>
                    n \in foreign' /\ \E i \in 1..Len(log') : i > s /\ i <= t /\ log'[i] = n
        BY DEF Logged
      <3> QED
        BY <1>1, <1>2, <3>1, <3>2
    <2>2. \A i \in 1..Len(log) : log[i] \in foreign' <=> log[i] \in foreign
      BY <1>1
    <2>3. \A n : n \in Logged(s, t) <=> n \in foreign /\ \E i \in 1..Len(log) : i > s /\ i <= t /\ log[i] = n
      BY LoggedIff
    <2> QED
      BY <2>1, <2>2, <2>3
  <1>4. ASSUME NEW n \in Logged(s, end)'
        PROVE  n \in Logged(s, Len(log)) \cup ({commits + 1} \cap foreign')
    <2>1. PICK i \in 1..Len(log') : i > s /\ log'[i] = n
      BY <1>4, LoggedIff DEF Logged
    <2>2. n \in foreign'
      BY <1>4 DEF Logged
    <2>3. CASE i = Len(log) + 1
      BY <1>1, <2>1, <2>2, <2>3
    <2>4. CASE i \in 1..Len(log)
      <3>1. n = log[i] /\ n \in 1..commits /\ i <= Len(log)
        BY <1>1, <2>1, <2>4
      <3>2. n \in foreign
        BY <1>1, <2>2, <3>1
      <3> QED
        BY <2>1, <2>4, <3>1, <3>2, LoggedIff
    <2> QED
      BY <1>2, <2>3, <2>4
  <1>5. ASSUME s <= Len(log), commits + 1 \in foreign'
        PROVE  commits + 1 \in Logged(s, end)'
    BY <1>1, <1>2, <1>5 DEF Logged
  <1>6. ASSUME DeliveredIsPast, DeliveredBefore(s)
        PROVE  DeliveredBefore(s)'
    <2> SUFFICES ASSUME NEW i \in 1..Len(delivered), NEW m \in delivered[i],
                        NEW k \in 1..Len(log'), k > s
                 PROVE  m < log'[k]
      BY CommitLog DEF DeliveredBefore
    <2>1. m \in 1..commits
      BY <1>6 DEF DeliveredIsPast
    <2>2. CASE k \in 1..Len(log)
      BY <1>1, <1>6, <2>2 DEF DeliveredBefore
    <2>3. CASE k = Len(log) + 1
      BY <1>1, <2>1, <2>3
    <2> QED
      BY <1>2, <2>2, <2>3
  <1> QED
    BY <1>3, <1>4, <1>5, <1>6

\* A commit, and the batch it sends or fails to send.
LEMMA CommitStep ==
  ASSUME Inv, TypeOK', NEW own \in BOOLEAN, Commit(own)
  PROVE  Inv'
  <1> USE DEF Inv
  <1> DEFINE write == commits + 1
             sent == [writes |-> IF own THEN {} ELSE {write}, cursor |-> Len(log) + 1,
                      from |-> lastSent, resync |-> FALSE]
  <1>1. /\ Len(log) \in Nat /\ Len(log') = Len(log) + 1 /\ commits \in Nat
        /\ \A i \in 1..Len(log) : log[i] \in 1..commits /\ log'[i] = log[i]
        /\ log'[Len(log) + 1] = write
        /\ foreign \subseteq foreign' /\ foreign' \subseteq foreign \cup {write}
        /\ foreign \subseteq 1..commits
        /\ own => foreign' = foreign
        /\ UNCHANGED <<delivered, base, writeCursor>> /\ excused \subseteq excused'
        /\ excused \subseteq Writes /\ write \in Writes
    BY CommitLog
  <1>2. 1..Len(log') = 1..Len(log) \cup {Len(log) + 1}
    BY <1>1
  <1>3. Known \subseteq Known'
    BY <1>1 DEF Known, Replica
  <1>4. lastSent \in Nat /\ writeCursor \in Nat
    BY BoundAssumption DEF TypeOK, Cursors
  <1>5. ASSUME NEW b \in Batch, GoodBatch(b)
        PROVE  GoodBatch(b)'
    <2>1. b.cursor \in Nat /\ b.from \in Nat
      BY BoundAssumption DEF Batch, Cursors
    <2>2. Logged(b.from, b.cursor)' = Logged(b.from, b.cursor)
      BY <1>5, <2>1, CommitLogged DEF GoodBatch
    <2>3. DeliveredBefore(b.cursor) => DeliveredBefore(b.cursor)'
      BY <2>1, CommitLogged
    <2> QED
      BY <1>1, <1>3, <1>5, <2>1, <2>2, <2>3 DEF GoodBatch
  <1>6. /\ tail' = tail
        /\ \/ /\ tail /\ batches' = Append(batches, sent) /\ lastSent' = Len(log) + 1
           \/ /\ ~tail /\ batches' = batches /\ lastSent' = lastSent
           \/ /\ tail /\ excused' = excused \cup {write} /\ batches' = batches /\ lastSent' = lastSent
    BY DEF Commit, SendWrites
  <1>7. Increasing'
    <2> SUFFICES ASSUME NEW i \in 1..Len(log'), NEW j \in 1..Len(log'), i < j
                 PROVE  log'[i] < log'[j]
      BY DEF Increasing
    <2>1. i \in 1..Len(log)
      BY <1>1
    <2>2. CASE j \in 1..Len(log)
      BY <1>1, <2>1, <2>2 DEF Increasing
    <2>3. CASE j = Len(log) + 1
      BY <1>1, <2>1, <2>3
    <2> QED
      BY <1>2, <2>2, <2>3
  <1>8. BatchesAreGood' /\ CursorsClimb' /\ TailCovers'
    <2>1. CASE tail /\ batches' = Append(batches, sent) /\ lastSent' = Len(log) + 1
      <3>1. sent \in Batch
        <4>1. Len(log) + 1 \in Cursors /\ lastSent \in Cursors
          BY <1>1, BoundAssumption DEF TypeOK, Cursors, Commit
        <4> QED
          BY <1>1, <4>1 DEF Batch
      <3>2. PICK c \in Batch : c = sent
        BY <3>1
      <3>3. /\ c.writes = IF own THEN {} ELSE {write}
            /\ c.cursor = Len(log) + 1 /\ c.from = lastSent /\ ~c.resync
        BY <3>2
      <3>4. \A b \in Batch : InFlight(b)' => InFlight(b) \/ b = c
        BY <1>1, <2>1, <3>2, <3>3, SentBatch
      <3>5. CursorsClimb'
        BY <1>1, <2>1, <3>2, <3>3, SentBatch
      <3>6. GoodBatch(c)'
        <4>1. /\ Logged(c.from, c.cursor)' \subseteq Logged(lastSent, Len(log)) \cup ({write} \cap foreign')
              /\ lastSent <= Len(log) /\ write \in foreign' => write \in Logged(c.from, c.cursor)'
          <5>1. c.cursor = Len(log) + 1 /\ c.from \in Nat /\ c.from = lastSent
            BY <1>4, <3>3
          <5> QED
            BY <5>1, CommitLogged
        <4>2. lastSent <= Len(log) /\ Logged(lastSent, Len(log)) \subseteq Known
          BY <2>1 DEF TailCovers
        <4>3. ~own => write \in foreign'
          BY DEF Commit
        <4>4. own => ~(write \in foreign')
          BY <1>1
        <4> HIDE DEF write
        <4>5. c.cursor = Len(log')
          BY <1>1, <3>3
        <4> QED
          BY <1>3, <3>3, <4>1, <4>2, <4>3, <4>4, <4>5, <1>1 DEF GoodBatch
      <3>7. BatchesAreGood'
        BY <1>5, <3>4, <3>6 DEF BatchesAreGood
      <3>8. TailCovers'
        BY <1>1, <2>1 DEF TailCovers, Logged
      <3> QED
        BY <3>5, <3>7, <3>8
    <2>2. CASE /\ batches' = batches /\ lastSent' = lastSent
               /\ tail => excused' = excused \cup {write}
      <3>1. BatchesAreGood'
        BY <1>5, <2>2 DEF BatchesAreGood, InFlight
      <3>2. CursorsClimb'
        BY <2>2 DEF CursorsClimb
      <3>3. TailCovers'
        <4>1. PICK s \in Nat, end \in Nat : s = lastSent /\ end = Len(log) + 1
          BY <1>1, <1>4
        <4> SUFFICES ASSUME tail PROVE lastSent <= Len(log') /\ Logged(s, end)' \subseteq Known'
          BY <1>1, <1>6, <2>2, <4>1 DEF TailCovers, Logged
        <4>2. Logged(s, end)' \subseteq Logged(lastSent, Len(log)) \cup {write}
          BY <4>1, CommitLogged
        <4>3. lastSent <= Len(log) /\ Logged(lastSent, Len(log)) \subseteq Known
          BY DEF TailCovers
        <4>4. write \in Known'
          BY <2>2 DEF Known
        <4> HIDE DEF write
        <4> QED
          BY <1>1, <1>3, <1>4, <4>2, <4>3, <4>4
      <3> QED
        BY <3>1, <3>2, <3>3
    <2> QED
      BY <1>6, <2>1, <2>2
  <1>9. RegressedIsExcused'
    <2>1. writeCursor' > Len(log') => writeCursor > Len(log)
      BY <1>1, <1>4
    <2>2. excused' \subseteq Writes
      BY DEF TypeOK
    <2> QED
      BY <1>1, <2>1, <2>2 DEF RegressedIsExcused
  <1>10. NothingElseIsMissing'
    <2> SUFFICES ASSUME NEW n \in Passed' PROVE n \in Known'
      BY DEF NothingElseIsMissing, Known
    <2>1. PICK i \in 1..Len(log') : i <= writeCursor /\ log'[i] = n
      BY <1>1 DEF Passed
    <2>2. CASE writeCursor > Len(log)
      <3>1. excused' = Writes
        BY <1>1, <2>2 DEF RegressedIsExcused, TypeOK
      <3>2. n \in Writes
        <4>1. n \in foreign' /\ foreign \subseteq Writes
          BY BoundAssumption DEF TypeOK, Passed, Writes, Cursors
        <4> HIDE DEF write
        <4> QED
          BY <1>1, <4>1
      <3> QED
        BY <3>1, <3>2 DEF Known
    <2>3. CASE writeCursor <= Len(log)
      <3>1. i \in 1..Len(log) /\ n = log[i] /\ n \in 1..commits
        BY <1>1, <1>4, <2>1, <2>3
      <3>2. n \in foreign
        BY <1>1, <3>1 DEF Passed
      <3>3. n \in Passed
        BY <2>1, <3>1, <3>2 DEF Passed
      <3> QED
        BY <1>3, <3>3 DEF NothingElseIsMissing, Known
    <2> QED
      BY <1>1, <1>4, <2>2, <2>3
  <1>11. DeliveredIsPast'
    <2>1. DeliveredBefore(writeCursor)'
      <3>1. PICK w \in Nat : w = writeCursor
        BY <1>4
      <3>2. DeliveredBefore(w)'
        BY <3>1, CommitLogged DEF DeliveredIsPast
      <3> QED
        BY <1>1, <3>1, <3>2 DEF DeliveredBefore
    <2>2. commits' = commits + 1
      BY DEF Commit
    <2> QED
      BY <1>1, <2>1, <2>2 DEF DeliveredIsPast
  <1>12. DeliveredInOrder'
    BY <1>1 DEF DeliveredInOrder
  <1> QED
    BY <1>7, <1>8, <1>9, <1>10, <1>11, <1>12

\* Steps that neither commit nor hand over keep what is said of the client.
LEMMA ClientStands ==
  ASSUME Inv, UNCHANGED <<serverVars, appVars, writeCursor>>
  PROVE  /\ Increasing' /\ RegressedIsExcused' /\ NothingElseIsMissing'
         /\ DeliveredIsPast' /\ DeliveredInOrder'
         /\ \A b \in Batch : GoodBatch(b) => GoodBatch(b)'
         /\ UNCHANGED <<tail, lastSent>> => TailCovers'
  <1> USE DEF Inv, serverVars, appVars
  <1>1. Known' = Known /\ Passed' = Passed /\ Replica' = Replica
    BY DEF Known, Replica, Passed
  <1>2. Increasing' /\ RegressedIsExcused' /\ DeliveredIsPast' /\ DeliveredInOrder'
    BY DEF Increasing, RegressedIsExcused, DeliveredIsPast, DeliveredBefore, DeliveredInOrder
  <1>3. NothingElseIsMissing'
    BY <1>1 DEF NothingElseIsMissing
  <1>4. ASSUME NEW b \in Batch, GoodBatch(b)
        PROVE  GoodBatch(b)'
    BY <1>1, <1>4 DEF GoodBatch, Logged, DeliveredBefore
  <1>5. ASSUME UNCHANGED <<tail, lastSent>>
        PROVE  TailCovers'
    BY <1>1, <1>5 DEF TailCovers, Logged
  <1> QED
    BY <1>2, <1>3, <1>4, <1>5

\* subscribeWrites() of the host: the backlog is what the log has after since.
LEMMA SubscribeWritesStep ==
  ASSUME Inv, TypeOK', SubscribeWrites
  PROVE  Inv'
  <1> USE DEF Inv
  <1>1. /\ UNCHANGED <<serverVars, appVars, writeCursor>> /\ tail' = TRUE
        /\ Head(requests) \in Cursors
    BY DEF SubscribeWrites, clientVars, TypeOK
  <1>2. PICK since \in Nat : since = Head(requests) /\ since \in Cursors
    BY <1>1, BoundAssumption DEF Cursors
  <1>3. /\ Increasing' /\ RegressedIsExcused' /\ NothingElseIsMissing'
        /\ DeliveredIsPast' /\ DeliveredInOrder'
        /\ \A b \in Batch : GoodBatch(b) => GoodBatch(b)'
    BY <1>1, ClientStands
  <1>4. /\ Len(log) \in Nat /\ Len(log) \in Cursors /\ foreign \subseteq Writes
        /\ UNCHANGED <<log, foreign, delivered, base, excused>>
    BY <1>1, BoundAssumption DEF TypeOK, Cursors, Writes, serverVars, appVars
  <1>5. \A b \in Batch : b.cursor = Len(log) /\ GoodBatch(b) /\ batches' = Append(batches, b) =>
                          BatchesAreGood' /\ CursorsClimb'
    <2> SUFFICES ASSUME NEW b \in Batch, b.cursor = Len(log), GoodBatch(b),
                        batches' = Append(batches, b)
                 PROVE  BatchesAreGood' /\ CursorsClimb'
      OBVIOUS
    <2>1. (\A c \in Batch : InFlight(c)' => InFlight(c) \/ c = b) /\ CursorsClimb'
      BY <1>4, SentBatch
    <2> QED
      BY <1>3, <2>1 DEF BatchesAreGood
  <1>6. CASE FellOff(since) /\ lastSent' = Len(log)
             /\ batches' = Append(batches, [writes |-> {}, cursor |-> Len(log),
                                            from |-> 0, resync |-> TRUE])
    <2>1. [writes |-> {}, cursor |-> Len(log), from |-> 0, resync |-> TRUE] \in Batch
      BY <1>4, BoundAssumption DEF Batch, Cursors
    <2>2. PICK b \in Batch : b = [writes |-> {}, cursor |-> Len(log), from |-> 0, resync |-> TRUE]
      BY <2>1
    <2>3. GoodBatch(b)
      BY <1>4, <2>2 DEF GoodBatch, DeliveredBefore
    <2>4. TailCovers'
      BY <1>4, <1>6 DEF TailCovers, Logged
    <2> QED
      BY <1>3, <1>5, <1>6, <2>2, <2>3, <2>4
  <1>7. CASE ~FellOff(since) /\ since < Len(log) /\ lastSent' = Len(log)
             /\ batches' = Append(batches, [writes |-> Backlog(since), cursor |-> Len(log),
                                            from |-> since, resync |-> FALSE])
    <2>1. [writes |-> Backlog(since), cursor |-> Len(log), from |-> since, resync |-> FALSE] \in Batch
      <3>1. Backlog(since) \subseteq Writes
        BY <1>4 DEF Backlog
      <3> QED
        BY <1>2, <1>4, <3>1 DEF Batch
    <2>2. PICK b \in Batch : b = [writes |-> Backlog(since), cursor |-> Len(log),
                                  from |-> since, resync |-> FALSE]
      BY <2>1
    <2>3. Backlog(since) = Logged(since, Len(log))
      <3>1. Oldest \in Nat /\ since + 1 >= Oldest
        BY <1>4, <1>7, CapacityAssumption DEF FellOff, Oldest
      <3>2. {j \in 1..Len(log) : j > since /\ j >= Oldest} = {j \in 1..Len(log) : j > since /\ j <= Len(log)}
        BY <1>4, <3>1
      <3> QED
        BY <3>2 DEF Backlog, Logged
    <2>4. GoodBatch(b)
      BY <1>4, <2>2, <2>3 DEF GoodBatch
    <2>5. TailCovers'
      BY <1>4, <1>7 DEF TailCovers, Logged
    <2> QED
      BY <1>3, <1>5, <1>7, <2>2, <2>4, <2>5
  <1>8. CASE since = Len(log) /\ lastSent' = since /\ batches' = batches
    <2>1. BatchesAreGood' /\ CursorsClimb'
      BY <1>3, <1>8 DEF BatchesAreGood, CursorsClimb, InFlight
    <2>2. TailCovers'
      BY <1>4, <1>8 DEF TailCovers, Logged
    <2> QED
      BY <1>3, <2>1, <2>2
  <1> QED
    BY <1>2, <1>6, <1>7, <1>8 DEF SubscribeWrites, SendWrites

\* Steps of the connection and of the application that hand over nothing: the
\* queue at most shrinks and the tail at most stops.
LEMMA QuietStep ==
  ASSUME Inv, TypeOK',
         \/ SubscribeWritesThrows \/ Subscribe \/ Unsubscribe \/ Drop \/ Redial \/ Lose
         \/ UNCHANGED vars
  PROVE  Inv'
  <1> USE DEF Inv
  <1>1. UNCHANGED <<serverVars, appVars, writeCursor>>
    BY DEF SubscribeWritesThrows, Subscribe, Unsubscribe, Drop, Redial, Lose, vars, clientVars,
           serverVars, appVars
  <1>2. /\ Increasing' /\ RegressedIsExcused' /\ NothingElseIsMissing'
        /\ DeliveredIsPast' /\ DeliveredInOrder'
        /\ \A b \in Batch : GoodBatch(b) => GoodBatch(b)'
        /\ UNCHANGED <<tail, lastSent>> => TailCovers'
    BY <1>1, ClientStands
  <1>3. tail' = FALSE \/ UNCHANGED <<tail, lastSent>>
    BY DEF SubscribeWritesThrows, Subscribe, Unsubscribe, Drop, Redial, Lose, vars, Disconnect, hostVars
  <1>4. TailCovers'
    BY <1>2, <1>3 DEF TailCovers
  <1>5. CursorsClimb' /\ \A b \in Batch : InFlight(b)' => InFlight(b)
    <2>1. CASE Lose
      BY <2>1, LostBatch
    <2>2. CASE batches' = batches
      BY <2>2 DEF CursorsClimb, InFlight
    <2>3. CASE batches' = <<>>
      BY <2>3 DEF CursorsClimb, InFlight
    <2> QED
      BY <2>1, <2>2, <2>3 DEF SubscribeWritesThrows, Subscribe, Unsubscribe, Drop, Redial, vars,
                              Disconnect, wireVars
  <1>6. BatchesAreGood'
    BY <1>2, <1>5 DEF BatchesAreGood
  <1> QED
    BY <1>2, <1>4, <1>5, <1>6

\* A restart empties the log and excuses everything.
LEMMA RestartStep ==
  ASSUME Inv, TypeOK', Restart
  PROVE  Inv'
  <1> USE DEF Inv
  <1>1. /\ log' = <<>> /\ batches' = <<>> /\ tail' = FALSE /\ excused' = Writes
        /\ UNCHANGED <<commits, foreign, delivered, base, writeCursor>>
    BY DEF Restart, Disconnect, clientVars
  <1>2. Increasing' /\ RegressedIsExcused' /\ TailCovers' /\ CursorsClimb' /\ BatchesAreGood'
    BY <1>1 DEF Increasing, RegressedIsExcused, TailCovers, CursorsClimb, BatchesAreGood, InFlight
  <1>3. NothingElseIsMissing'
    BY <1>1 DEF NothingElseIsMissing, Passed
  <1>4. DeliveredIsPast' /\ DeliveredInOrder'
    BY <1>1 DEF DeliveredIsPast, DeliveredBefore, DeliveredInOrder
  <1> QED
    BY <1>2, <1>3, <1>4

----------------------------------------------------------------------------
(* The client *)

\* Taking a batch off the queue leaves the server, the host and the rest of
\* the queue as they were.
LEMMA TakeStep ==
  ASSUME Inv, TypeOK', Take, KnownGrows,
         \A b \in Batch : InFlight(b) /\ b.resync /\ Head(batches).cursor <= b.cursor =>
                          DeliveredBefore(b.cursor)'
  PROVE  Increasing' /\ BatchesAreGood' /\ CursorsClimb' /\ TailCovers'
  <1> USE DEF Inv
  <1>1. UNCHANGED <<commits, foreign, log, tail, lastSent>>
    BY DEF Take, serverVars, hostVars
  <1>2. CursorsClimb' /\ \A b \in Batch : InFlight(b)' => InFlight(b) /\ Head(batches).cursor <= b.cursor
    BY TakenBatch
  <1>3. BatchesAreGood'
    <2> SUFFICES ASSUME NEW b \in Batch, InFlight(b)' PROVE GoodBatch(b)'
      BY DEF BatchesAreGood
    <2>1. InFlight(b) /\ Head(batches).cursor <= b.cursor /\ GoodBatch(b)
      BY <1>2 DEF BatchesAreGood
    <2> QED
      BY <1>1, <2>1, GoodBatchStays
  <1>4. TailCovers'
    <2> SUFFICES ASSUME tail PROVE lastSent <= Len(log) /\ Logged(lastSent, Len(log)) \subseteq Known'
      BY <1>1 DEF TailCovers, Logged
    <2>1. Logged(lastSent, Len(log)) \subseteq 1..commits
      BY DEF TypeOK, Logged
    <2> QED
      BY <2>1 DEF TailCovers, KnownGrows
  <1>5. Increasing'
    BY <1>1 DEF Increasing
  <1> QED
    BY <1>2, <1>3, <1>4, <1>5

\* A cold boot loads all there is, and without one everything is excused.
LEMMA ResyncKnowsAll ==
  ASSUME TypeOK, TypeOK', Resync \/ ColdBoot, commits' = commits
  PROVE  /\ base' = 1..commits \/ excused' = Writes
         /\ \A n \in 1..commits : n \in Known'
         /\ KnownGrows
  <1>1. base' = 1..commits \/ excused' = Writes
    BY DEF Resync, ColdBoot
  <1>2. 1..commits \subseteq Writes
    BY BoundAssumption DEF TypeOK, Cursors, Writes
  <1>3. \A n \in 1..commits : n \in Known'
    BY <1>1, <1>2 DEF Known, Replica
  <1> QED
    BY <1>1, <1>3 DEF KnownGrows

\* handleWrites() with a message that asks for a cold boot, or shows a gap.
LEMMA ResyncStep ==
  ASSUME Inv, TypeOK', ReceiveResync \/ ReceiveGap
  PROVE  Inv'
  <1> USE DEF Inv
  <1>1. Take
    BY DEF ReceiveResync, ReceiveGap
  <1>2. PICK b \in Batch : b = Head(batches)
    BY <1>1, TakenBatch
  <1>3. /\ Take /\ Resync /\ writeCursor' = b.cursor
        /\ ~b.resync => b.cursor > writeCursor
        /\ UNCHANGED <<commits, foreign, log, delivered>>
    BY <1>2 DEF ReceiveResync, ReceiveGap, Take, Resync, serverVars
  <1>4. /\ InFlight(b) /\ GoodBatch(b)
        /\ b.cursor \in Nat /\ writeCursor \in Nat /\ Len(log) \in Nat
    <2>1. InFlight(b) /\ GoodBatch(b)
      BY <1>1, <1>2, TakenBatch
    <2>2. b.cursor \in Nat /\ writeCursor \in Nat /\ Len(log) \in Nat
      BY BoundAssumption DEF Batch, Cursors, TypeOK
    <2> QED
      BY <2>1, <2>2
  <1>5. KnownGrows /\ \A n \in 1..commits : n \in Known'
    BY <1>3, ResyncKnowsAll
  <1>6. Increasing' /\ BatchesAreGood' /\ CursorsClimb' /\ TailCovers'
    <2>1. ASSUME NEW c \in Batch, InFlight(c), c.resync
          PROVE  DeliveredBefore(c.cursor)'
      <3>1. DeliveredBefore(c.cursor)
        BY <2>1 DEF BatchesAreGood, GoodBatch
      <3> QED
        BY <1>3, <3>1 DEF DeliveredBefore
    <2> QED
      BY <1>3, <1>5, <2>1, TakeStep
  <1>7. RegressedIsExcused'
    <2>1. ~(writeCursor' > Len(log'))
      BY <1>3, <1>4 DEF GoodBatch
    <2> QED
      BY <2>1 DEF RegressedIsExcused
  <1>8. NothingElseIsMissing'
    BY <1>3, <1>5 DEF NothingElseIsMissing, Passed, TypeOK, Known
  <1>9. DeliveredBefore(b.cursor)
    <2>1. CASE b.resync
      BY <1>4, <2>1 DEF GoodBatch
    <2>2. CASE b.cursor > writeCursor
      BY <1>4, <2>2 DEF DeliveredIsPast, DeliveredBefore
    <2> QED
      BY <1>3, <2>1, <2>2
  <1>10. DeliveredIsPast' /\ DeliveredInOrder'
    BY <1>3, <1>9 DEF DeliveredIsPast, DeliveredBefore, DeliveredInOrder
  <1> QED
    BY <1>6, <1>7, <1>8, <1>10

\* A batch the client has already changes nothing but the queue.
LEMMA DuplicateStep ==
  ASSUME Inv, TypeOK', ReceiveDuplicate
  PROVE  Inv'
  <1> USE DEF Inv
  <1>1. Take /\ UNCHANGED <<serverVars, appVars, writeCursor>>
    BY DEF ReceiveDuplicate, Take
  <1>2. /\ RegressedIsExcused' /\ NothingElseIsMissing' /\ DeliveredIsPast' /\ DeliveredInOrder'
        /\ Increasing' /\ \A b \in Batch : GoodBatch(b) => GoodBatch(b)'
    BY <1>1, ClientStands
  <1>3. TailCovers'
    BY <1>1, ClientStands DEF Take, hostVars
  <1>4. CursorsClimb' /\ \A b \in Batch : InFlight(b)' => InFlight(b)
    BY <1>1, TakenBatch
  <1>5. BatchesAreGood'
    BY <1>2, <1>4 DEF BatchesAreGood
  <1> QED
    BY <1>2, <1>3, <1>4, <1>5

\* What a batch in sequence leaves behind when it is handed over.
LEMMA HandedOver ==
  ASSUME Inv, TypeOK', Take, InSequence, writeCursor' = Head(batches).cursor,
         \/ delivered' = delivered
         \/ delivered' = Append(delivered, Head(batches).writes)
  PROVE  /\ DeliveredIsPast' /\ DeliveredInOrder' /\ RegressedIsExcused'
         /\ \A c \in Batch : InFlight(c) /\ c.resync /\ Head(batches).cursor <= c.cursor =>
                            DeliveredBefore(c.cursor)'
         /\ \A i \in 1..Len(delivered) : i \in 1..Len(delivered') /\ delivered'[i] = delivered[i]
  <1> USE DEF Inv
  <1>1. UNCHANGED <<commits, foreign, log>>
    BY DEF Take, serverVars
  <1>2. PICK b \in Batch : b = Head(batches)
    BY TakenBatch
  <1>3. /\ InFlight(b) /\ GoodBatch(b) /\ b.cursor \in Nat /\ writeCursor \in Nat
        /\ b.writes \subseteq Writes /\ delivered \in Seq(SUBSET Writes)
    <2>1. InFlight(b) /\ GoodBatch(b)
      BY <1>2, TakenBatch
    <2>2. b.cursor \in Nat /\ writeCursor \in Nat /\ b.writes \subseteq Writes
      BY BoundAssumption DEF Batch, Cursors, TypeOK
    <2>3. delivered \in Seq(SUBSET Writes)
      BY DEF TypeOK
    <2> QED
      BY <2>1, <2>2, <2>3
  <1>4. ~b.resync /\ b.cursor > writeCursor /\ b.from = writeCursor /\ b.cursor <= Len(log)
    BY <1>2, <1>3 DEF InSequence, GoodBatch
  <1>5. /\ commits \in Nat /\ Len(log) \in Nat
        /\ \A k \in 1..Len(log) : log[k] \in 1..commits
    <2>1. log \in Seq(1..commits) /\ commits \in Nat
      BY BoundAssumption DEF TypeOK, Cursors
    <2> QED
      BY <2>1
  \* Every write of the batch sits in the log between its cursors.
  <1>6. \A m \in b.writes : \E j \in 1..Len(log) : j > writeCursor /\ j <= b.cursor /\ log[j] = m
    BY <1>3, <1>4 DEF GoodBatch, Logged
  <1>7. /\ Len(delivered) \in Nat
        /\ \/ Len(delivered') = Len(delivered)
           \/ /\ Len(delivered') = Len(delivered) + 1
              /\ delivered'[Len(delivered) + 1] = b.writes
        /\ \A i \in 1..Len(delivered) : i \in 1..Len(delivered') /\ delivered'[i] = delivered[i]
    BY <1>2, <1>3, AppendElements
  <1>8. \A i \in 1..Len(delivered') : i \in 1..Len(delivered) \/ delivered'[i] = b.writes
    BY <1>7
  <1>9. ASSUME NEW c \in Nat, b.cursor <= c, DeliveredBefore(c)
        PROVE  DeliveredBefore(c)'
    <2> SUFFICES ASSUME NEW i \in 1..Len(delivered'), NEW m \in delivered'[i],
                        NEW k \in 1..Len(log), k > c
                 PROVE  m < log[k]
      BY <1>1 DEF DeliveredBefore
    <2>1. CASE i \in 1..Len(delivered)
      BY <1>7, <1>9, <2>1 DEF DeliveredBefore
    <2>2. CASE delivered'[i] = b.writes
      <3>1. PICK j \in 1..Len(log) : j <= b.cursor /\ log[j] = m
        BY <1>6, <2>2
      <3>2. j < k
        BY <1>3, <1>9, <3>1
      <3> QED
        BY <3>1, <3>2 DEF Increasing
    <2> QED
      BY <1>8, <2>1, <2>2
  <1>10. DeliveredBefore(b.cursor)
    BY <1>3, <1>4 DEF DeliveredIsPast, DeliveredBefore
  <1>11. DeliveredIsPast'
    <2>1. DeliveredBefore(writeCursor)'
      <3>1. DeliveredBefore(b.cursor)'
        BY <1>3, <1>9, <1>10
      <3> QED
        BY <1>2, <3>1 DEF DeliveredBefore
    <2>2. ASSUME NEW i \in 1..Len(delivered'), NEW m \in delivered'[i]
          PROVE  m \in 1..commits
      <3>1. CASE i \in 1..Len(delivered)
        BY <1>7, <2>2, <3>1 DEF DeliveredIsPast
      <3>2. CASE delivered'[i] = b.writes
        BY <1>5, <1>6, <2>2, <3>2
      <3> QED
        BY <1>8, <3>1, <3>2
    <2> QED
      BY <1>1, <2>1, <2>2 DEF DeliveredIsPast
  <1>12. DeliveredInOrder'
    <2> SUFFICES ASSUME NEW i \in 1..Len(delivered'), NEW j \in 1..Len(delivered'), i < j,
                        NEW m \in delivered'[i], NEW n \in delivered'[j]
                 PROVE  m < n
      BY DEF DeliveredInOrder
    <2>1. i \in 1..Len(delivered) /\ m \in delivered[i]
      BY <1>7, <1>8
    <2>2. CASE j \in 1..Len(delivered)
      BY <1>7, <2>1, <2>2 DEF DeliveredInOrder
    <2>3. CASE delivered'[j] = b.writes
      <3>1. PICK k \in 1..Len(log) : k > writeCursor /\ log[k] = n
        BY <1>6, <2>3
      <3> QED
        BY <2>1, <3>1 DEF DeliveredIsPast, DeliveredBefore
    <2> QED
      BY <1>8, <2>2, <2>3
  <1>13. RegressedIsExcused'
    BY <1>1, <1>2, <1>3, <1>4, <1>5 DEF RegressedIsExcused
  <1>14. ASSUME NEW c \in Batch, InFlight(c), c.resync, Head(batches).cursor <= c.cursor
         PROVE  DeliveredBefore(c.cursor)'
    <2>1. c.cursor \in Nat /\ DeliveredBefore(c.cursor)
      BY <1>14, BoundAssumption DEF BatchesAreGood, GoodBatch, Batch, Cursors
    <2> QED
      BY <1>2, <1>9, <1>14, <2>1
  <1> QED
    BY <1>7, <1>11, <1>12, <1>13, <1>14

\* handleWrites() with a batch in sequence, handed over or not.
LEMMA ReceiveBatchStep ==
  ASSUME Inv, TypeOK', ReceiveBatch
  PROVE  Inv'
  <1> USE DEF Inv
  <1>1. /\ Take /\ InSequence /\ writeCursor' = Head(batches).cursor /\ base' = base
        /\ UNCHANGED <<commits, foreign, log>>
    BY DEF ReceiveBatch, Take, serverVars
  <1>2. PICK b \in Batch : b = Head(batches)
    BY <1>1, TakenBatch
  <1>3. /\ \/ delivered' = delivered /\ b.writes = {}
           \/ delivered' = Append(delivered, b.writes)
           \/ delivered' = delivered /\ excused' = excused \cup b.writes
        /\ excused \subseteq excused'
    BY <1>2 DEF ReceiveBatch
  <1>4. /\ DeliveredIsPast' /\ DeliveredInOrder' /\ RegressedIsExcused'
        /\ \A c \in Batch : InFlight(c) /\ c.resync /\ Head(batches).cursor <= c.cursor =>
                           DeliveredBefore(c.cursor)'
        /\ \A i \in 1..Len(delivered) : i \in 1..Len(delivered') /\ delivered'[i] = delivered[i]
    BY <1>1, <1>2, <1>3, HandedOver
  <1>5. Known \subseteq Known'
    BY <1>1, <1>3, <1>4 DEF Known, Replica
  <1>6. b.writes \subseteq Known'
    <2>1. CASE delivered' = Append(delivered, b.writes)
      <3>1. /\ b.writes \in SUBSET Writes /\ delivered \in Seq(SUBSET Writes)
        BY DEF Batch, TypeOK
      <3>2. Len(delivered) + 1 \in 1..Len(delivered') /\ delivered'[Len(delivered) + 1] = b.writes
        BY <2>1, <3>1, AppendElements
      <3> QED
        BY <3>2 DEF Known, Replica
    <2> QED
      BY <1>3, <2>1 DEF Known
  <1>7. Increasing' /\ BatchesAreGood' /\ CursorsClimb' /\ TailCovers'
    BY <1>1, <1>4, <1>5, TakeStep DEF KnownGrows
  <1>8. NothingElseIsMissing'
    <2> SUFFICES ASSUME NEW n \in Passed' PROVE n \in Known'
      BY DEF NothingElseIsMissing, Known
    <2>1. PICK i \in 1..Len(log) : i <= b.cursor /\ log[i] = n /\ n \in foreign
      BY <1>1, <1>2 DEF Passed
    <2>2. CASE i <= writeCursor
      BY <1>5, <2>1, <2>2 DEF NothingElseIsMissing, Passed, Known
    <2>3. CASE i > writeCursor
      <3>1. ~b.resync /\ b.from = writeCursor /\ GoodBatch(b)
        BY <1>1, <1>2, TakenBatch DEF InSequence
      <3>2. n \in Logged(b.from, b.cursor)
        BY <2>1, <2>3, <3>1 DEF Logged
      <3> QED
        BY <1>5, <1>6, <3>1, <3>2 DEF GoodBatch
    <2>4. writeCursor \in Nat /\ i \in Nat
      BY BoundAssumption DEF TypeOK, Cursors
    <2> QED
      BY <2>2, <2>3, <2>4
  <1> QED
    BY <1>4, <1>7, <1>8

\* The application cold-boots when the handler throws.
LEMMA IngestFailsStep ==
  ASSUME Inv, TypeOK', IngestFails
  PROVE  Inv'
  <1> USE DEF Inv
  <1>1. /\ Take /\ InSequence /\ writeCursor' = Head(batches).cursor /\ ColdBoot
        /\ delivered' = Append(delivered, Head(batches).writes)
        /\ UNCHANGED <<commits, foreign, log>>
    BY DEF IngestFails, Take, serverVars
  <1>2. KnownGrows /\ \A n \in 1..commits : n \in Known'
    BY <1>1, ResyncKnowsAll
  <1>3. /\ DeliveredIsPast' /\ DeliveredInOrder' /\ RegressedIsExcused'
        /\ \A c \in Batch : InFlight(c) /\ c.resync /\ Head(batches).cursor <= c.cursor =>
                           DeliveredBefore(c.cursor)'
    BY <1>1, HandedOver
  <1>4. Increasing' /\ BatchesAreGood' /\ CursorsClimb' /\ TailCovers'
    BY <1>1, <1>2, <1>3, TakeStep
  <1>5. NothingElseIsMissing'
    BY <1>1, <1>2 DEF NothingElseIsMissing, Passed, TypeOK, Known
  <1> QED
    BY <1>3, <1>4, <1>5

----------------------------------------------------------------------------
(* The theorems *)

\* The invariant holds of an empty log.
LEMMA InvInit ==
  Init => Inv
  <1> SUFFICES ASSUME Init PROVE Inv
    OBVIOUS
  <1>1. TypeOK
    <2>1. 0 \in Cursors /\ 0 \in 0..MaxConns /\ 0 \in 0..MaxSubscribes /\ 0 \in 0..MaxRestarts
      BY BoundAssumption DEF Cursors
    <2>2. /\ log \in Seq(1..commits) /\ Len(log) <= commits
          /\ requests \in Seq(Cursors) /\ batches \in Seq(Batch) /\ delivered \in Seq(SUBSET Writes)
      BY DEF Init
    <2> QED
      BY <2>1, <2>2 DEF Init, TypeOK
  <1>2. Increasing /\ BatchesAreGood /\ CursorsClimb /\ TailCovers /\ RegressedIsExcused
    BY DEF Init, Increasing, BatchesAreGood, InFlight, CursorsClimb, TailCovers, RegressedIsExcused
  <1>3. NothingElseIsMissing
    BY DEF Init, NothingElseIsMissing, Passed
  <1>4. DeliveredIsPast /\ DeliveredInOrder
    BY DEF Init, DeliveredIsPast, DeliveredBefore, DeliveredInOrder
  <1> QED
    BY <1>1, <1>2, <1>3, <1>4 DEF Inv

\* Every step keeps it.
LEMMA InvStep ==
  Inv /\ [Next]_vars => Inv'
  <1> SUFFICES ASSUME Inv, [Next]_vars PROVE Inv'
    OBVIOUS
  <1>1. TypeOK'
    BY TypeStep DEF Inv
  <1>2. ASSUME NEW own \in BOOLEAN, Commit(own) PROVE Inv'
    BY <1>1, <1>2, CommitStep
  <1>3. CASE SubscribeWrites
    BY <1>1, <1>3, SubscribeWritesStep
  <1>4. CASE Receive
    BY <1>1, <1>4, ResyncStep, DuplicateStep, ReceiveBatchStep, IngestFailsStep DEF Receive
  <1>5. CASE \/ SubscribeWritesThrows \/ Subscribe \/ Unsubscribe \/ Drop \/ Redial \/ Lose
             \/ UNCHANGED vars
    BY <1>1, <1>5, QuietStep
  <1>6. CASE Restart
    BY <1>1, <1>6, RestartStep
  <1> QED
    BY <1>2, <1>3, <1>4, <1>5, <1>6 DEF Next

\* The write stream is well typed, in every configuration.
THEOREM TypeCorrect ==
  Spec => []TypeOK
  <1>1. Init => TypeOK
    BY InvInit DEF Inv
  <1> QED
    BY <1>1, TypeStep, PTL DEF Spec

\* Whatever is dropped, lost, re-subscribed, refused by an ingest or thrown by
\* a send: the cursor passes no write of another client that the replica
\* misses, but for those the model excuses (NothingElseIsMissing); the log may
\* keep any number of writes.
THEOREM NothingIsLostSilently ==
  Spec => []NothingElseIsMissing
  <1>1. Inv => NothingElseIsMissing
    BY DEF Inv
  <1> QED
    BY <1>1, InvInit, InvStep, PTL DEF Spec

\* The handler is given the writes of others in commit order, each at most
\* once (DeliveredInOrder), whatever the transport and the server do.
THEOREM HandlerSeesCommitOrder ==
  Spec => []DeliveredInOrder
  <1>1. Inv => DeliveredInOrder
    BY DEF Inv
  <1> QED
    BY <1>1, InvInit, InvStep, PTL DEF Spec

----------------------------------------------------------------------------
(* No excuse *)

\* Where no send throws, no handler is removed and no server restarts, nothing
\* is excused: before the first subscribeWrites() nothing is on its way.
NoExcuse ==
  /\ excused = {} /\ restarts = 0
  /\ ~writesSubscribed => requests = <<>> /\ batches = <<>> /\ ~tail

\* Every step keeps it.
LEMMA NoExcuseStep ==
  ASSUME ~SendMayThrow, ~MayUnsubscribe, MaxRestarts = 0, TypeOK, NoExcuse, [Next]_vars
  PROVE  NoExcuse'
  <1> USE DEF NoExcuse
  <1>1. ASSUME NEW own \in BOOLEAN, Commit(own) PROVE NoExcuse'
    BY <1>1 DEF Commit, clientVars
  <1>2. CASE SubscribeWrites
    BY <1>2 DEF SubscribeWrites, appVars, clientVars
  <1>3. CASE Receive
    <2>1. /\ batches # <<>> /\ writesSubscribed
          /\ UNCHANGED <<writesSubscribed, restarts>>
      BY <1>3 DEF Receive, ReceiveResync, ReceiveDuplicate, ReceiveGap, ReceiveBatch, IngestFails, Take
    <2>2. excused' = {}
      BY <1>3, <2>1 DEF Receive, ReceiveResync, ReceiveDuplicate, ReceiveGap, ReceiveBatch, IngestFails,
                        Resync, ColdBoot, appVars
    <2> QED
      BY <2>1, <2>2
  <1>4. CASE Subscribe
    BY <1>4 DEF Subscribe, appVars
  <1>5. CASE Drop
    BY <1>5 DEF Drop, Disconnect, appVars, clientVars
  <1>6. CASE Redial
    BY <1>6 DEF Redial, appVars, clientVars, hostVars
  <1>7. CASE Lose
    <2>1. batches # <<>>
      BY <1>7 DEF Lose
    <2> QED
      BY <1>7, <2>1 DEF Lose, appVars, clientVars, hostVars
  <1>8. CASE Restart \/ Unsubscribe \/ SubscribeWritesThrows
    BY <1>8 DEF TypeOK, Restart, Unsubscribe, SubscribeWritesThrows
  <1>9. CASE UNCHANGED vars
    BY <1>9 DEF vars, appVars, clientVars, hostVars, wireVars
  <1> QED
    BY <1>1, <1>2, <1>3, <1>4, <1>5, <1>6, <1>7, <1>8, <1>9 DEF Next

\* With the faults out of the way the client misses nothing that its cursor has
\* passed (CursorIsComplete), whatever the transport drops or loses, whenever
\* the log falls behind, and however often an ingest fails.
THEOREM NothingIsMissing ==
  ASSUME ~SendMayThrow, ~MayUnsubscribe, MaxRestarts = 0
  PROVE  Spec => []CursorIsComplete
  <1>1. Init => NoExcuse
    BY DEF Init, NoExcuse
  <1>2. Inv /\ NoExcuse /\ [Next]_vars => NoExcuse'
    BY NoExcuseStep DEF Inv
  <1>3. Inv /\ NoExcuse => CursorIsComplete
    BY DEF Inv, NoExcuse, NothingElseIsMissing, CursorIsComplete
  <1> QED
    BY <1>1, <1>2, <1>3, InvInit, InvStep, PTL DEF Spec

----------------------------------------------------------------------------
(* The contiguity check *)

\* The cursor the client will have when it has taken the first p batches.
CursorAfter(p) == IF p = 0 THEN writeCursor ELSE batches[p].cursor

\* Each batch goes on where the one before it ends, or ends there itself: the
\* answer to a second subscribeWrites() repeats what is already on its way.
Chained ==
  \A p \in 1..Len(batches) :
    ~batches[p].resync => /\ batches[p].from < batches[p].cursor
                          /\ \/ batches[p].from = CursorAfter(p - 1)
                             \/ batches[p].cursor = CursorAfter(p - 1)

\* With the tail on, the client will have caught up when all is taken; with it
\* off, nothing is on its way and every request names the client's cursor.
ChainEnds ==
  /\ tail => lastSent = Len(log) /\ CursorAfter(Len(batches)) = Len(log)
  /\ ~tail => batches = <<>> /\ \A i \in 1..Len(requests) : requests[i] = writeCursor

ChainInv == TypeOK /\ Chained /\ ChainEnds

\* A batch behind the others keeps the chain if it starts, or ends, at its end.
LEMMA ChainGrows ==
  ASSUME ChainInv, NEW b \in Batch, batches' = Append(batches, b), writeCursor' = writeCursor,
         ~b.resync => /\ b.from < b.cursor
                      /\ b.from = CursorAfter(Len(batches)) \/ b.cursor = CursorAfter(Len(batches))
  PROVE  Chained' /\ Len(batches') \in Nat /\ batches'[Len(batches')] = b /\ Len(batches') # 0
  <1>1. batches \in Seq(Batch)
    BY DEF ChainInv, TypeOK
  <1>2. /\ Len(batches') = Len(batches) + 1 /\ Len(batches) \in Nat
        /\ \A i \in 1..Len(batches) : batches'[i] = batches[i]
        /\ batches'[Len(batches) + 1] = b
    BY <1>1, AppendElements
  <1>3. ASSUME NEW p \in 1..Len(batches'), ~batches'[p].resync
        PROVE  /\ batches'[p].from < batches'[p].cursor
               /\ \/ batches'[p].from = IF p - 1 = 0 THEN writeCursor ELSE batches'[p - 1].cursor
                  \/ batches'[p].cursor = IF p - 1 = 0 THEN writeCursor ELSE batches'[p - 1].cursor
    <2>1. CASE p \in 1..Len(batches)
      <3>1. p - 1 # 0 => batches'[p - 1] = batches[p - 1]
        BY <1>2, <2>1
      <3> QED
        BY <1>2, <1>3, <2>1, <3>1 DEF ChainInv, Chained, CursorAfter
    <2>2. CASE p = Len(batches) + 1
      <3>1. p - 1 = Len(batches) /\ batches'[p] = b
        BY <1>2, <2>2
      <3>2. p - 1 # 0 => batches'[p - 1] = batches[p - 1]
        BY <1>2, <2>2
      <3> QED
        BY <1>3, <3>1, <3>2 DEF CursorAfter
    <2> QED
      BY <1>2, <2>1, <2>2
  <1> QED
    BY <1>2, <1>3 DEF Chained, CursorAfter

\* The client takes the batches one by one and its cursor follows each.
LEMMA ChainTaken ==
  ASSUME ChainInv, Take
  PROVE  /\ Head(batches) \in Batch /\ tail
         /\ ~Head(batches).resync =>
              /\ Head(batches).from < Head(batches).cursor
              /\ Head(batches).from = writeCursor \/ Head(batches).cursor = writeCursor
         /\ writeCursor' = Head(batches).cursor => Chained' /\ ChainEnds'
  <1>1. batches # <<>> /\ batches' = Tail(batches) /\ batches \in Seq(Batch)
    BY DEF Take, ChainInv, TypeOK
  <1>2. /\ Head(batches) \in Batch /\ Head(batches) = batches[1]
        /\ Len(batches) \in Nat /\ 1 \in 1..Len(batches)
        /\ Len(batches') = Len(batches) - 1
        /\ \A i \in 1..Len(batches') : i + 1 \in 1..Len(batches) /\ batches'[i] = batches[i + 1]
    BY <1>1, TailElements
  <1>3. tail /\ UNCHANGED <<log, tail, lastSent>>
    BY <1>1 DEF Take, ChainInv, ChainEnds, serverVars, hostVars
  <1>4. ~Head(batches).resync =>
          /\ Head(batches).from < Head(batches).cursor
          /\ Head(batches).from = writeCursor \/ Head(batches).cursor = writeCursor
    BY <1>2 DEF ChainInv, Chained, CursorAfter
  <1>5. ASSUME writeCursor' = batches[1].cursor
        PROVE  Chained' /\ ChainEnds'
    <2>1. ASSUME NEW p \in 0..Len(batches')
          PROVE  (IF p = 0 THEN writeCursor' ELSE batches'[p].cursor) = batches[p + 1].cursor
      BY <1>2, <1>5
    <2>2. Chained'
      <3> SUFFICES ASSUME NEW p \in 1..Len(batches'), ~batches'[p].resync
                   PROVE  /\ batches'[p].from < batches'[p].cursor
                          /\ \/ batches'[p].from = (IF p - 1 = 0 THEN writeCursor' ELSE batches'[p - 1].cursor)
                             \/ batches'[p].cursor = (IF p - 1 = 0 THEN writeCursor' ELSE batches'[p - 1].cursor)
        BY DEF Chained, CursorAfter
      <3>1. /\ p + 1 \in 1..Len(batches) /\ batches'[p] = batches[p + 1] /\ p + 1 - 1 = p /\ p # 0
            /\ p - 1 \in 0..Len(batches') /\ p - 1 + 1 = p
        BY <1>2
      <3>2. (IF p - 1 = 0 THEN writeCursor' ELSE batches'[p - 1].cursor) = batches[p].cursor
        BY <2>1, <3>1
      <3>3. CursorAfter(p + 1 - 1) = batches[p].cursor
        BY <3>1 DEF CursorAfter
      <3> QED
        BY <3>1, <3>2, <3>3 DEF ChainInv, Chained
    <2>3. ChainEnds'
      <3>1. Len(batches') \in 0..Len(batches') /\ Len(batches') + 1 = Len(batches) /\ Len(batches) # 0
        BY <1>2
      <3>2. (IF Len(batches') = 0 THEN writeCursor' ELSE batches'[Len(batches')].cursor) = batches[Len(batches)].cursor
        BY <2>1, <3>1
      <3> QED
        BY <1>3, <3>1, <3>2 DEF ChainInv, ChainEnds, CursorAfter
    <2> QED
      BY <2>2, <2>3
  <1> QED
    BY <1>2, <1>3, <1>4, <1>5

\* Every step keeps the chain of a connection that loses nothing.
LEMMA ChainStep ==
  ASSUME ~Lossy, ~SendMayThrow, ChainInv, TypeOK', [Next]_vars
  PROVE  ChainInv'
  <1>1. /\ Len(log) \in Nat /\ lastSent \in Nat /\ writeCursor \in Nat
        /\ Len(log) \in Cursors
    <2>1. /\ log \in Seq(1..commits) /\ Len(log) <= commits /\ commits \in Cursors
          /\ lastSent \in Cursors /\ writeCursor \in Cursors
      BY DEF ChainInv, TypeOK
    <2>2. Len(log) \in Nat
      BY <2>1
    <2> QED
      BY <2>1, <2>2, BoundAssumption DEF Cursors
  <1>2. ASSUME NEW own \in BOOLEAN, Commit(own) PROVE ChainInv'
    <2>1. Len(log') = Len(log) + 1 /\ commits + 1 \in Writes /\ Len(log) + 1 \in Cursors
      <3>1. /\ log \in Seq(1..commits) /\ Len(log) <= commits /\ commits < MaxWrites
            /\ commits \in Nat /\ log' = Append(log, commits + 1)
        BY <1>2, BoundAssumption DEF Commit, ChainInv, TypeOK, Cursors
      <3>2. log \in Seq(Nat)
        BY <3>1
      <3>3. Len(log') = Len(log) + 1
        BY <3>1, <3>2, AppendElements
      <3> QED
        BY <1>1, <3>1, <3>3, BoundAssumption DEF Writes, Cursors
    <2>2. CASE tail
      <3> DEFINE sent == [writes |-> IF own THEN {} ELSE {commits + 1}, cursor |-> Len(log) + 1,
                          from |-> lastSent, resync |-> FALSE]
      <3>1. /\ batches' = Append(batches, sent) /\ lastSent' = Len(log) + 1 /\ tail' = tail
            /\ UNCHANGED <<writeCursor, requests>>
        BY <1>2, <2>2 DEF Commit, SendWrites, clientVars
      <3>2. sent \in Batch
        BY <2>1 DEF Batch, ChainInv, TypeOK
      <3>3. PICK b \in Batch : b = sent
        BY <3>2
      <3>4. b.cursor = Len(log) + 1 /\ b.from = lastSent /\ ~b.resync
        BY <3>3
      <3>5. lastSent = Len(log) /\ CursorAfter(Len(batches)) = Len(log)
        BY <2>2 DEF ChainInv, ChainEnds
      <3>6. Chained' /\ Len(batches') \in Nat /\ batches'[Len(batches')] = b /\ Len(batches') # 0
        BY <1>1, <3>1, <3>3, <3>4, <3>5, ChainGrows
      <3>7. ChainEnds'
        BY <2>1, <2>2, <3>1, <3>4, <3>6 DEF ChainEnds, CursorAfter
      <3> QED
        BY <3>6, <3>7 DEF ChainInv
    <2>3. CASE ~tail
      <3>1. UNCHANGED <<batches, requests, writeCursor, tail>>
        BY <1>2, <2>3 DEF Commit, clientVars
      <3> QED
        BY <2>3, <3>1 DEF ChainInv, Chained, ChainEnds, CursorAfter
    <2> QED
      BY <2>2, <2>3
  <1>3. CASE SubscribeWrites
    <2>1. /\ requests # <<>> /\ requests \in Seq(Cursors) /\ tail' = TRUE
          /\ UNCHANGED <<log, writeCursor>>
      BY <1>3 DEF SubscribeWrites, ChainInv, TypeOK, serverVars, clientVars
    <2>2. PICK since \in Nat : since = Head(requests) /\ since \in Cursors /\ since = requests[1] /\ 1 \in 1..Len(requests)
      BY <2>1, TailElements, BoundAssumption DEF Cursors
    <2>3. tail => CursorAfter(Len(batches)) = Len(log)
      BY DEF ChainInv, ChainEnds
    <2>4. ~tail => batches = <<>> /\ CursorAfter(Len(batches)) = since
      BY <2>2 DEF ChainInv, ChainEnds, CursorAfter
    <2>5. CASE since = Len(log) /\ lastSent' = since /\ batches' = batches
      BY <1>1, <2>1, <2>3, <2>4, <2>5 DEF ChainInv, Chained, ChainEnds, CursorAfter
    <2>6. ASSUME NEW b \in Batch, batches' = Append(batches, b), b.cursor = Len(log),
                 lastSent' = Len(log), ~b.resync => b.from = since /\ since < Len(log)
          PROVE  ChainInv'
      <3>1. Chained' /\ Len(batches') \in Nat /\ batches'[Len(batches')] = b /\ Len(batches') # 0
        BY <1>1, <2>1, <2>3, <2>4, <2>6, ChainGrows
      <3>2. ChainEnds'
        BY <1>1, <2>1, <2>6, <3>1 DEF ChainEnds, CursorAfter
      <3> QED
        BY <3>1, <3>2 DEF ChainInv
    <2>7. CASE batches' # batches
      <3> DEFINE resync  == [writes |-> {}, cursor |-> Len(log), from |-> 0, resync |-> TRUE]
                 backlog == [writes |-> Backlog(since), cursor |-> Len(log),
                             from |-> since, resync |-> FALSE]
      <3>1. resync \in Batch /\ backlog \in Batch
        <4>1. foreign \subseteq Writes
          BY BoundAssumption DEF ChainInv, TypeOK, Writes, Cursors
        <4>2. Backlog(since) \subseteq Writes
          BY <4>1 DEF Backlog
        <4> QED
          BY <1>1, <2>2, <4>2, BoundAssumption DEF Batch, Cursors
      <3>2. /\ resync.cursor = Len(log) /\ resync.resync
            /\ backlog.cursor = Len(log) /\ backlog.from = since
        OBVIOUS
      <3>3. \/ batches' = Append(batches, resync) /\ lastSent' = Len(log)
            \/ batches' = Append(batches, backlog) /\ lastSent' = Len(log) /\ since < Len(log)
        BY <1>3, <2>2, <2>7 DEF SubscribeWrites, SendWrites
      <3> HIDE DEF resync, backlog
      <3> QED
        BY <2>6, <3>1, <3>2, <3>3
    <2>8. CASE batches' = batches
      <3>1. \/ since = Len(log) /\ lastSent' = since
            \/ \E b : batches' = Append(batches, b)
        BY <1>3, <2>2 DEF SubscribeWrites, SendWrites
      <3>2. \A b : batches # Append(batches, b)
        BY DEF ChainInv, TypeOK
      <3> QED
        BY <2>5, <2>8, <3>1, <3>2
    <2> QED
      BY <2>7, <2>8
  <1>4. CASE Receive
    <2>1. Take
      BY <1>4 DEF Receive, ReceiveResync, ReceiveDuplicate, ReceiveGap, ReceiveBatch, IngestFails
    <2>2. PICK b \in Batch : b = Head(batches)
      BY <2>1, ChainTaken
    <2>3. /\ ~b.resync => b.from < b.cursor /\ (b.from = writeCursor \/ b.cursor = writeCursor)
          /\ b.cursor \in Nat /\ b.from \in Nat
      BY <2>1, <2>2, ChainTaken, BoundAssumption DEF Batch, Cursors
    <2>4. writeCursor' = b.cursor
      <3>1. CASE ReceiveDuplicate
        BY <1>1, <2>2, <2>3, <3>1 DEF ReceiveDuplicate
      <3> QED
        BY <1>4, <2>2, <3>1 DEF Receive, ReceiveResync, ReceiveGap, ReceiveBatch, IngestFails
    <2> QED
      BY <2>1, <2>2, <2>4, ChainTaken DEF ChainInv
  <1>5. CASE Subscribe
    <2>1. /\ UNCHANGED <<log, batches, tail, lastSent, writeCursor>> /\ requests \in Seq(Cursors)
          /\ requests' = requests \/ requests' = Append(requests, writeCursor)
          /\ writeCursor \in Cursors
      BY <1>5 DEF Subscribe, serverVars, hostVars, ChainInv, TypeOK
    <2>2. (\A i \in 1..Len(requests) : requests[i] = writeCursor) =>
            \A i \in 1..Len(requests') : requests'[i] = writeCursor
      <3>1. CASE requests' = Append(requests, writeCursor)
        <4>1. /\ Len(requests') = Len(requests) + 1 /\ Len(requests) \in Nat
              /\ \A i \in 1..Len(requests) : requests'[i] = requests[i]
              /\ requests'[Len(requests) + 1] = writeCursor
          BY <2>1, <3>1, AppendElements
        <4>2. \A i \in 1..Len(requests') : i \in 1..Len(requests) \/ i = Len(requests) + 1
          BY <4>1
        <4> QED
          BY <4>1, <4>2
      <3> QED
        BY <2>1, <3>1
    <2> QED
      BY <2>1, <2>2 DEF ChainInv, Chained, ChainEnds, CursorAfter
  <1>6. CASE Drop \/ Restart
    <2>1. batches' = <<>> /\ requests' = <<>> /\ tail' = FALSE
      BY <1>6 DEF Drop, Restart, Disconnect
    <2> QED
      BY <2>1 DEF ChainInv, Chained, ChainEnds
  <1>7. CASE Redial
    BY <1>7 DEF Redial, serverVars, hostVars, clientVars, ChainInv, Chained, ChainEnds, CursorAfter
  <1>8. CASE Unsubscribe \/ UNCHANGED vars
    BY <1>8 DEF Unsubscribe, vars, serverVars, hostVars, wireVars, clientVars,
                ChainInv, Chained, ChainEnds, CursorAfter
  <1>9. CASE Lose \/ SubscribeWritesThrows
    BY <1>9 DEF Lose, SubscribeWritesThrows
  <1> QED
    BY <1>2, <1>3, <1>4, <1>5, <1>6, <1>7, <1>8, <1>9 DEF Next

\* A client whose connection loses nothing never takes a batch for a gap
\* (FifoNeverGaps): not after a reconnect, not after a second subscribeWrites()
\* on the same connection, and not after a restart that put it ahead of the log.
THEOREM NoFalseGap ==
  ASSUME ~Lossy, ~SendMayThrow
  PROVE  Spec => FifoNeverGaps
  <1>1. Init => ChainInv
    BY InvInit DEF Init, Inv, ChainInv, Chained, ChainEnds, CursorAfter
  <1>2. ChainInv /\ [Next]_vars => ChainInv'
    BY TypeStep, ChainStep DEF ChainInv
  <1>3. ChainInv => [~ReceiveGap]_vars
    <2> SUFFICES ASSUME ChainInv, ReceiveGap PROVE FALSE
      OBVIOUS
    <2>1. Take /\ ~Head(batches).resync /\ Head(batches).cursor > writeCursor
          /\ Head(batches).from # writeCursor
      BY DEF ReceiveGap
    <2>2. Head(batches).from = writeCursor \/ Head(batches).cursor = writeCursor
      BY <2>1, ChainTaken
    <2>3. writeCursor \in Nat
      BY BoundAssumption DEF ChainInv, TypeOK, Cursors
    <2> QED
      BY <2>1, <2>2, <2>3
  <1> QED
    BY <1>1, <1>2, <1>3, PTL DEF Spec, FifoNeverGaps
=============================================================================
