------------------------------ MODULE LiveRows ------------------------------
(***************************************************************************)
(* One keyed standing query over the wire: the client's entry (client.ts), *)
(* the subscription of the host that serves its connection (host.ts), the  *)
(* store behind it (store.ts) and the demand-fill that its subscription    *)
(* starts.  The host sends what moved since its last push; the client      *)
(* applies that to the rows it keeps, which outlive the connection, the    *)
(* subscription and the host.                                              *)
(*                                                                         *)
(* The link is FIFO and loses what is under way when it drops; the host of *)
(* a dropped connection is closed, and the new connection has a fresh one. *)
(* send() does not throw, and the deps cover what the query reads.         *)
(***************************************************************************)
EXTENDS DemandFill

CONSTANTS
  Results,    \* what the query may answer: sequences of rows [key, cells]
  Fails,      \* what it answers when it raises
  Stored,     \* what it may answer at first
  Reads,      \* the slices that the query's deps and params match
  MaxVersion, \* bound: the version of the store
  MaxTurns    \* bound: subscriptions and lost connections

ASSUME ReadsAssumption == Reads \subseteq Scopes

\* An answer is a list of rows, each with a key of its own, which is what the
\* key column is for (host.ts:303), and the query's columns.
AllRows == UNION {ToSet(rows) : rows \in Results \cup Stored}
ASSUME ResultsAssumption ==
  /\ Fails \notin Results \cup Stored
  /\ Results \cup Stored \subseteq Seq(AllRows)
  /\ \A rows \in Results \cup Stored : \A i, k \in DOMAIN rows : rows[i].key = rows[k].key => i = k
  /\ \A row, other \in AllRows :
       row = [key |-> row.key, cells |-> [c \in DOMAIN other.cells |-> row.cells[c]]]

VARIABLES
  store,    \* the rows of the query, the version, and that of the last write that moved a dep
  linked,   \* the connection is up
  drops,
  toHost, toClient,
  hosted,   \* the host's subscription
  entry,    \* the client's entry: the wire id, listeners, rowsByKey, snapshot
  nextId

rowVars == <<store, linked, drops, toHost, toClient, hosted, entry, nextId>>

Unsubscribed ==
  [sub |-> 0, last |-> 0, lastComplete |-> FALSE, lastError |-> FALSE,
   prevByKey |-> <<>>, prevOrder |-> <<>>, authoritativeSent |-> FALSE]
NoEntry ==
  [sub |-> 0, watched |-> FALSE, rowsByKey |-> <<>>,
   snapshot |-> [rows |-> <<>>, complete |-> FALSE, error |-> FALSE, result |-> <<>>]]

Complete(f) == \A s \in Reads : f.state[s] = "complete"
LoadError(f) == \E s \in Reads : f.state[s] = "error"

RowsInit ==
  /\ FillInit
  /\ store \in {[rows |-> r, version |-> 1, moved |-> 1] : r \in Stored}
  /\ linked = TRUE /\ drops = 0 /\ toHost = <<>> /\ toClient = <<>>
  /\ hosted = Unsubscribed /\ entry = NoEntry /\ nextId = 0

----------------------------------------------------------------------------
(* The host *)

KeysOf(rows) == [i \in DOMAIN rows |-> rows[i].key]
ByKey(rows) == [k \in {rows[i].key : i \in DOMAIN rows} |-> (CHOOSE row \in ToSet(rows) : row.key = k).cells]

\* diffRows(): all the cells of a row that is new, those that changed of one that
\* is not, the keys that are gone, and the order when it moved or is asked for.
Patch(prev, now) ==
  LET changed(k) == {c \in DOMAIN now[k] : k \notin DOMAIN prev \/ now[k][c] # prev[k][c]}
  IN  [k \in {k \in DOMAIN now : k \notin DOMAIN prev \/ changed(k) # {}} |-> [c \in changed(k) |-> now[k][c]]]

\* Mutant of DiffRows: the first complete push is not authoritative.
DiffUnforced(h, rows, forceOrder) ==
  [patch |-> Patch(h.prevByKey, ByKey(rows)),
   remove |-> DOMAIN h.prevByKey \ DOMAIN ByKey(rows),
   order |-> IF KeysOf(rows) # h.prevOrder THEN {KeysOf(rows)} ELSE {}]

DiffRows(h, rows, forceOrder) ==
  [patch |-> Patch(h.prevByKey, ByKey(rows)),
   remove |-> DOMAIN h.prevByKey \ DOMAIN ByKey(rows),
   order |-> IF KeysOf(rows) # h.prevOrder \/ forceOrder THEN {KeysOf(rows)} ELSE {}]
NoDiff == [patch |-> <<>>, remove |-> {}, order |-> {}]

\* result: what the message stands for; only the property looks at it
Rows(h, diff, complete, rows) ==
  [type |-> "rows", sub |-> h.sub, diff |-> diff, complete |-> complete, result |-> rows]
Retryable(h, complete) == [type |-> "retryable", sub |-> h.sub, complete |-> complete]
Closing(h) == [type |-> "closed", sub |-> h.sub]

\* Mutant of Unmoved: a flip of the completeness alone is not pushed.
SameRows(h, st, complete, err) == st.moved = h.last

Unmoved(h, st, complete, err) ==
  st.moved = h.last /\ complete = h.lastComplete /\ err = h.lastError

\* push(): w is [hosted, out], the subscription and what is sent so far.
Push(w, st, f) ==
  LET h == w.hosted
      complete == Complete(f)
      err == LoadError(f)
      rowsChanged == st.moved # h.last
      first == ~h.authoritativeSent /\ complete
      seen == [h EXCEPT !.last = st.moved, !.lastComplete = complete, !.lastError = err]
      sent == [seen EXCEPT !.authoritativeSent = @ \/ complete]
  IN  IF h.sub = 0 THEN w
      ELSE IF st.rows = Fails THEN [hosted |-> Unsubscribed, out |-> Append(w.out, Closing(h))]
      ELSE IF Unmoved(h, st, complete, err) THEN w
      ELSE IF err THEN [hosted |-> seen, out |-> Append(w.out, Retryable(h, complete))]
      ELSE IF rowsChanged \/ first
      THEN [hosted |-> [sent EXCEPT !.prevByKey = ByKey(st.rows), !.prevOrder = KeysOf(st.rows)],
            out |-> Append(w.out, Rows(h, DiffRows(h, st.rows, first), complete, st.rows))]
      ELSE [hosted |-> sent, out |-> Append(w.out, Rows(h, NoDiff, complete, st.rows))]

Now == [hosted |-> hosted, out |-> toClient]
Pushed(w) == hosted' = w.hosted /\ toClient' = w.out

\* A re-subscription replaces the one before; the demand comes before the push.
HostSubscribes(sub) ==
  /\ fill' = Ensure(fill, Reads, 0)
  /\ Pushed(Push([hosted |-> [Unsubscribed EXCEPT !.sub = sub], out |-> toClient], store, fill'))

HostReceives ==
  /\ toHost # <<>>
  /\ toHost' = Tail(toHost)
  /\ \/ Head(toHost).type = "subscribe" /\ HostSubscribes(Head(toHost).sub)
     \/ /\ Head(toHost).type = "unsubscribe"
        /\ hosted' = IF hosted.sub = Head(toHost).sub THEN Unsubscribed ELSE hosted
        /\ UNCHANGED <<fill, toClient>>
  /\ UNCHANGED <<demands, store, linked, drops, entry, nextId>>

----------------------------------------------------------------------------
(* The store and the loads *)

\* A write that moves a dep of the query, or one that moves none.
Wrote(r) ==
  {[rows |-> r, version |-> store.version + 1, moved |-> store.version + 1]}
    \cup IF r = store.rows THEN {[store EXCEPT !.version = @ + 1]} ELSE {}

\* Another connection's write, the application's, or a batch of the write stream.
Write ==
  /\ store.version < MaxVersion
  /\ \E r \in Results \cup {Fails} : \E st \in Wrote(r) :
       /\ store' = st
       /\ Pushed(Push(Now, st, fill))
  /\ UNCHANGED <<fillVars, linked, drops, toHost, entry, nextId>>

\* The writes are applied, and pushed, before the slice is complete; its flip is
\* pushed after.  An empty load applies nothing.
RowsLoaded ==
  \E j \in Running(fill), r \in Results :
    \E st \in {store} \cup IF store.version < MaxVersion THEN Wrote(r) ELSE {} :
      /\ store' = st
      /\ fill' = Loaded(fill, j)
      /\ Pushed(Push(IF st = store THEN Now ELSE Push(Now, st, fill), st, fill'))
      /\ UNCHANGED <<demands, linked, drops, toHost, entry, nextId>>

\* A load that fails half applied has moved the store and told nobody.
RowsNotLoaded ==
  \E j \in Running(fill), r \in Results :
    \E st \in {store} \cup IF store.version < MaxVersion THEN Wrote(r) ELSE {} :
      /\ store' = st
      /\ fill' = Failed(fill, j)
      /\ Pushed(Push(Now, st, fill'))
      /\ UNCHANGED <<demands, linked, drops, toHost, entry, nextId>>

FillTurns == (SlotFreed \/ TimerFires) /\ UNCHANGED rowVars

----------------------------------------------------------------------------
(* The client *)

Send(m) == toHost' = IF linked THEN Append(toHost, m) ELSE toHost

\* subscribe() of the handle, when there is no wire subscription
Listen ==
  /\ entry.sub = 0
  /\ nextId + drops < MaxTurns
  /\ nextId' = nextId + 1
  /\ entry' = [entry EXCEPT !.sub = nextId', !.watched = TRUE]
  /\ Send([type |-> "subscribe", sub |-> nextId'])
  /\ UNCHANGED <<fillVars, store, linked, drops, toClient, hosted>>

\* The last listener leaves; the rows are kept for the next one.
Unlisten ==
  /\ entry.watched
  /\ entry' = [entry EXCEPT !.sub = 0, !.watched = FALSE]
  /\ IF entry.sub # 0 THEN Send([type |-> "unsubscribe", sub |-> entry.sub]) ELSE UNCHANGED toHost
  /\ UNCHANGED <<fillVars, store, linked, drops, toClient, hosted, nextId>>

\* The bounded LRU of the entries that nobody listens to drops it; the next
\* liveQuery() makes a new one.
Evict ==
  /\ ~entry.watched /\ entry # NoEntry
  /\ entry' = NoEntry
  /\ UNCHANGED <<fillVars, store, linked, drops, toHost, toClient, hosted, nextId>>

Shown(rows, m) == [rows |-> rows, complete |-> m.complete, error |-> FALSE, result |-> m.result]

Overlaid(set, cells) ==
  [c \in DOMAIN set \cup DOMAIN cells |-> IF c \in DOMAIN set THEN set[c] ELSE cells[c]]

\* applyDiff(): what is removed goes, then what is patched comes.
Merged(byKey, diff) ==
  LET kept == DOMAIN byKey \ diff.remove
  IN  [k \in kept \cup DOMAIN diff.patch |->
         IF k \notin DOMAIN diff.patch THEN byKey[k]
         ELSE IF k \in kept THEN Overlaid(diff.patch[k], byKey[k]) ELSE diff.patch[k]]

\* The rows of an order, without those that are not there
Listed(order, byKey) ==
  LET rows[n \in 0..Len(order)] ==
        IF n = 0 THEN <<>>
        ELSE IF order[n] \in DOMAIN byKey
        THEN Append(rows[n - 1], [key |-> order[n], cells |-> byKey[order[n]]])
        ELSE rows[n - 1]
  IN  rows[Len(order)]

Swapped(rows, byKey) ==
  [i \in DOMAIN rows |-> IF rows[i].key \in DOMAIN byKey
                         THEN [key |-> rows[i].key, cells |-> byKey[rows[i].key]] ELSE rows[i]]

ApplyDiff(m) ==
  LET merged == Merged(entry.rowsByKey, m.diff)
      ordered == Listed(CHOOSE order \in m.diff.order : TRUE, merged)
  IN  IF m.diff = NoDiff THEN [entry EXCEPT !.snapshot = Shown(@.rows, m)]
      ELSE IF m.diff.order # {}
      THEN [entry EXCEPT !.rowsByKey = ByKey(ordered), !.snapshot = Shown(ordered, m)]
      ELSE [entry EXCEPT !.rowsByKey = merged, !.snapshot = Shown(Swapped(entry.snapshot.rows, merged), m)]

\* An error that the host can recover from keeps the rows; the other closes the
\* subscription.
Received(m) ==
  CASE m.type = "rows" -> ApplyDiff(m)
    [] m.type = "retryable" ->
         [entry EXCEPT !.snapshot.complete = m.complete, !.snapshot.error = TRUE]
    [] m.type = "closed" ->
         [entry EXCEPT !.sub = 0, !.rowsByKey = <<>>,
                       !.snapshot = [rows |-> <<>>, complete |-> FALSE, error |-> TRUE, result |-> <<>>]]

\* A push for a subscription that is gone is dropped.
ClientReceives ==
  /\ toClient # <<>>
  /\ toClient' = Tail(toClient)
  /\ entry' = IF Head(toClient).sub = entry.sub THEN Received(Head(toClient)) ELSE entry
  /\ UNCHANGED <<fillVars, store, linked, drops, toHost, hosted, nextId>>

----------------------------------------------------------------------------
(* The connection *)

\* Closing the host stops its subscriptions.
Drop ==
  /\ linked /\ nextId + drops < MaxTurns
  /\ linked' = FALSE
  /\ drops' = drops + 1
  /\ toHost' = <<>> /\ toClient' = <<>>
  /\ hosted' = Unsubscribed
  /\ UNCHANGED <<fillVars, store, entry, nextId>>

\* replay() renews an active subscription under its id.
Redial ==
  /\ ~linked
  /\ linked' = TRUE
  /\ toHost' = IF entry.sub = 0 THEN <<>> ELSE <<[type |-> "subscribe", sub |-> entry.sub]>>
  /\ UNCHANGED <<fillVars, store, drops, toClient, hosted, entry, nextId>>

LoadsGoOn == RowsLoaded \/ RowsNotLoaded \/ FillTurns
RowsNext ==
  \/ HostReceives \/ ClientReceives \/ Redial \/ Drop \/ Listen \/ Unlisten \/ Evict
  \/ Write \/ LoadsGoOn
RowsSpec == RowsInit /\ [][RowsNext]_<<fillVars, rowVars>>

----------------------------------------------------------------------------
(* Properties *)

\* What the client shows as complete is the result the query had when the host
\* pushed it, never a mix of two: the diffs, the rows kept across a lost
\* connection or a renewed subscription, the pushes that carry flags only and
\* the rows withheld while a load is in error never combine into rows that the
\* store did not have (host.ts:360, client.ts:773).
CompleteRowsAreOneVersion ==
  entry.snapshot.complete => entry.snapshot.rows = entry.snapshot.result

\* Nothing is withheld from a client that is subscribed to loaded slices: when no
\* message is under way it shows, as complete, the rows of the store, whatever
\* was pushed, lost, left out of a push in error or found unchanged before.
QuietClientIsCurrent ==
  linked /\ toHost = <<>> /\ toClient = <<>> /\ entry.sub # 0 /\ Complete(fill) =>
    entry.snapshot.complete /\ entry.snapshot.rows = store.rows
=============================================================================
