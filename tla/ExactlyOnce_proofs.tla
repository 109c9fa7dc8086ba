------------------------- MODULE ExactlyOnce_proofs -------------------------
(***************************************************************************)
(* Proofs about ExactlyOnce, for every number of sessions, writes,         *)
(* connections and restarts and every capacity of the registry.  When no   *)
(* send throws, from the inductive invariant Inv: at-most-once application,*)
(* "acked implies applied", and that the write path implements AtMostOnce. *)
(* Whatever throws, from the inductive invariant Ledger: type correctness, *)
(* the bound on the windows, that a client that keeps up is never refused, *)
(* and that the writes of a session reach the graph in order.              *)
(***************************************************************************)
EXTENDS ExactlyOnce, FiniteSetTheorems, SequenceTheorems, TLAPS

(***************************************************************************)
(* The registry's operators.                                               *)
(***************************************************************************)

\* drain() yields a window; it forgets no id, and what it newly counts as
\* seen is at or below the client's mark.
LEMMA DrainWindow ==
  ASSUME NEW w \in Window, NEW s \in Sessions, NEW mark \in 0..MaxSeq
  PROVE  /\ Drain(w, s, mark) \in Window
         /\ Drain(w, s, mark).lowWater \in {w.lowWater, mark}
         /\ \A n \in Seqs : Seen(w, s, n) => Seen(Drain(w, s, mark), s, n)
         /\ \A n \in Seqs : Seen(Drain(w, s, mark), s, n) => Seen(w, s, n) \/ n <= mark
         /\ s \notin known => Drain(w, s, mark) = w
  <1> USE BoundAssumption DEF Window, Seqs
  <1>1. CASE s \in known /\ s \notin Legacy /\ mark > w.lowWater
    <2>1. Drain(w, s, mark) =
            [w EXCEPT !.seqs = @ \ (w.lowWater + 1 .. mark), !.lowWater = mark]
      BY <1>1 DEF Drain
    <2>2. Drain(w, s, mark) \in Window /\ Drain(w, s, mark).lowWater = mark
      BY <2>1
    <2>3. \A n \in Seqs : n \in Drain(w, s, mark).seqs <=>
                            n \in w.seqs /\ ~(w.lowWater + 1 <= n /\ n <= mark)
      BY <2>1
    <2> QED
      BY <1>1, <2>2, <2>3 DEF Seen
  <1>2. CASE ~(s \in known /\ s \notin Legacy /\ mark > w.lowWater)
    BY <1>2 DEF Drain
  <1> QED
    BY <1>1, <1>2

\* mark() yields a window that remembers the new id and, unless it evicts a
\* legacy id, every old one; it remembers nothing else.
LEMMA MarkWindow ==
  ASSUME NEW w \in Window, NEW s \in Sessions, NEW n \in Seqs
  PROVE  /\ Mark(w, s, n) \in Window
         /\ Mark(w, s, n).lowWater = w.lowWater
         /\ \A k \in Seqs : Seen(Mark(w, s, n), s, k) => Seen(w, s, k) \/ k = n
         /\ ~Evicts(w, s, n) =>
              \A k \in Seqs : Seen(w, s, k) \/ k = n => Seen(Mark(w, s, n), s, k)
  <1> USE BoundAssumption, CapacityAssumption
  <1>1. CASE s \notin Legacy /\ n > w.lowWater
    BY <1>1 DEF Mark, Evicts, Window, Seen, Seqs
  <1>2. CASE Evicts(w, s, n)
    <2>1. w.legacyOrder # <<>>
      BY <1>2 DEF Evicts, Window
    <2>2. Append(Tail(w.legacyOrder), n) \in Seq(Seqs)
      BY <2>1 DEF Window
    <2>3. Mark(w, s, n) = [w EXCEPT !.legacy = (@ \cup {n}) \ {Head(w.legacyOrder)},
                                    !.legacyOrder = Append(Tail(@), n)]
      BY <1>2 DEF Mark, Evicts
    <2>4. /\ Mark(w, s, n).seqs = w.seqs /\ Mark(w, s, n).lowWater = w.lowWater
          /\ Mark(w, s, n).legacy = (w.legacy \cup {n}) \ {Head(w.legacyOrder)}
          /\ Mark(w, s, n) = [seqs |-> w.seqs, lowWater |-> w.lowWater,
                              legacy |-> (w.legacy \cup {n}) \ {Head(w.legacyOrder)},
                              legacyOrder |-> Append(Tail(w.legacyOrder), n)]
      BY <2>3 DEF Window
    <2>5. Mark(w, s, n) \in Window
      BY <2>2, <2>4 DEF Window
    <2>6. s \in Legacy
      BY <1>2 DEF Evicts
    <2> QED
      BY <1>2, <2>4, <2>5, <2>6 DEF Seen
  <1>3. CASE s \in Legacy /\ n \notin w.legacy /\ ~Evicts(w, s, n)
    <2>1. Mark(w, s, n) = [w EXCEPT !.legacy = @ \cup {n},
                                    !.legacyOrder = Append(@, n)]
      BY <1>3 DEF Mark
    <2>2. Append(w.legacyOrder, n) \in Seq(Seqs)
      BY DEF Window
    <2>3. /\ Mark(w, s, n).seqs = w.seqs /\ Mark(w, s, n).lowWater = w.lowWater
          /\ Mark(w, s, n).legacy = w.legacy \cup {n}
          /\ Mark(w, s, n) = [seqs |-> w.seqs, lowWater |-> w.lowWater,
                              legacy |-> w.legacy \cup {n},
                              legacyOrder |-> Append(w.legacyOrder, n)]
      BY <2>1 DEF Window
    <2>4. Mark(w, s, n) \in Window
      BY <2>2, <2>3 DEF Window
    <2> QED
      BY <1>3, <2>3, <2>4 DEF Seen
  <1>4. CASE ~(s \notin Legacy /\ n > w.lowWater) /\ ~Evicts(w, s, n)
             /\ ~(s \in Legacy /\ n \notin w.legacy /\ ~Evicts(w, s, n))
    BY <1>4 DEF Mark, Window, Seen, Seqs
  <1> QED
    BY <1>1, <1>2, <1>3, <1>4

\* A session the registry does not know has the window a new one starts with.
UnknownIsNew == \A s \in Sessions \ known : windows[s] = NewWindow

\* touch() gives s its new window, keeps the windows of the sessions it does
\* not evict, and counts the evicted ones among the forgotten.
LEMMA TouchRegistry ==
  ASSUME TypeOK, UnknownIsNew, NEW s \in Sessions, NEW w \in Window,
         NEW lost \in SUBSET Sessions, Touch(s, w, lost)
  PROVE  /\ windows' \in [Sessions -> Window]
         /\ windows'[s] = w
         /\ \A x \in Sessions \ {s} :
              \/ windows'[x] = windows[x]
              \/ windows'[x] = NewWindow /\ x \in forgotten'
         /\ \A x \in Sessions \ known' : windows'[x] = NewWindow
         /\ known' \subseteq Sessions
         /\ older' \subseteq Sessions \X Sessions
         /\ forgotten' = forgotten \cup Oldest(s) \cup lost
         /\ forgotten' \subseteq Sessions
  <1> USE DEF Touch, TypeOK
  <1>1. Oldest(s) \subseteq known /\ s \notin Oldest(s)
    BY DEF Oldest
  <1>2. NewWindow \in Window
    BY BoundAssumption DEF NewWindow, Window, Seqs
  <1>3. windows' \in [Sessions -> Window]
    BY <1>2
  <1>4. windows'[s] = w
    BY <1>1
  <1>5. ASSUME NEW x \in Sessions \ {s}
        PROVE  windows'[x] = IF x \in Oldest(s) THEN NewWindow ELSE windows[x]
    OBVIOUS
  <1>6. ASSUME NEW x \in Sessions \ known'
        PROVE  windows'[x] = NewWindow
    BY <1>1, <1>5 DEF UnknownIsNew
  <1>7. known' \subseteq Sessions
    BY <1>1
  <1>8. older' \subseteq Sessions \X Sessions
    <2>1. older' = {p \in older : /\ p[1] \in (known \ Oldest(s)) \ {s}
                                 /\ p[2] \in (known \ Oldest(s)) \ {s}}
                     \cup (((known \ Oldest(s)) \ {s}) \X {s})
      OBVIOUS
    <2>2. ((known \ Oldest(s)) \ {s}) \X {s} \subseteq Sessions \X Sessions
      OBVIOUS
    <2> QED
      BY <2>1, <2>2
  <1> QED
    BY <1>1, <1>3, <1>4, <1>5, <1>6, <1>7, <1>8

(***************************************************************************)
(* The host.  Whatever path mutate() takes, it answers one message and     *)
(* leaves the session a window w that it can vouch for; that is enough to  *)
(* preserve the invariant.                                                 *)
(***************************************************************************)
LEMMA HostStep ==
  ASSUME Inv, NEW s \in Sessions, NEW c \in Conns, Incoming(s, c),
         NEW ok \in BOOLEAN, Answer(s, c, ok),
         \* the registry afterwards
         NEW w \in Window,
         windows' \in [Sessions -> Window],
         windows'[s] = w,
         \A x \in Sessions \ {s} : \/ windows'[x] = windows[x]
                                   \/ windows'[x] = NewWindow /\ x \in forgotten',
         \A x \in Sessions \ known' : windows'[x] = NewWindow,
         known' \subseteq Sessions,
         older' \subseteq Sessions \X Sessions,
         forgotten \subseteq forgotten', forgotten' \subseteq Sessions,
         w.lowWater <= ackedThrough[s],
         \A n \in Seqs : Seen(w, s, n) =>
           n <= writeSeq[s] /\ (applied'[s][n] >= 1 \/ n \notin pending[s]),
         \* the graph afterwards
         applied' \in [Sessions -> [Seqs -> Nat]],
         \A x \in Sessions \ {s} : applied'[x] = applied[x],
         \A n \in Seqs : applied'[s][n] >= applied[s][n],
         s \notin forgotten' => \A n \in Seqs :
           applied'[s][n] <= 1 /\ (applied'[s][n] >= 1 => Seen(w, s, n)),
         ok => \/ applied'[s][Message(s, c).seq] >= 1
               \/ Message(s, c).seq \notin pending[s],
         refused' \in [Sessions -> SUBSET Seqs]
  PROVE  Inv'
  <1> DEFINE m == Message(s, c)
  <1> DEFINE ack == [seq |-> m.seq, ok |-> ok]
  <1>0. TypeOK
    BY DEF Inv
  <1>1. /\ m \in Request
        /\ requests[s][c] \in Seq(Request) /\ requests[s][c] # <<>>
        /\ m = requests[s][c][1] /\ Len(requests[s][c]) >= 1
    BY <1>0 DEF TypeOK, Incoming, Message
  <1>2. UNCHANGED <<writeSeq, pending, ackedThrough, resolvedAhead, outcome, closed,
                    conn, dials, restarts>>
    BY DEF Answer, clientVars
  <1>3. /\ requests' \in [Sessions -> [Conns -> Seq(Request)]]
        /\ \A x \in Sessions, d \in Conns : <<x, d>> # <<s, c>> =>
             requests'[x][d] = requests[x][d]
        /\ requests'[s][c] = Tail(requests[s][c])
    BY <1>0, <1>1 DEF Answer, TypeOK
  <1>4. \A x \in Sessions, d \in Conns : \A i \in 1..Len(requests'[x][d]) :
          \E j \in 1..Len(requests[x][d]) : requests'[x][d][i] = requests[x][d][j]
    <2> SUFFICES ASSUME NEW x \in Sessions, NEW d \in Conns,
                        NEW i \in 1..Len(requests'[x][d])
                 PROVE  \E j \in 1..Len(requests[x][d]) :
                          requests'[x][d][i] = requests[x][d][j]
      OBVIOUS
    <2>1. CASE <<x, d>> # <<s, c>>
      BY <1>3, <2>1
    <2>2. CASE x = s /\ d = c
      <3> DEFINE q == requests[s][c]
      <3>1. q \in Seq(Request) /\ q # <<>>
        BY <1>1
      <3>2. i \in 1..Len(Tail(q))
        BY <1>3, <2>2
      <3> HIDE DEF q
      <3>3. i + 1 \in 1..Len(q) /\ Tail(q)[i] = q[i + 1]
        BY <3>1, <3>2
      <3> QED
        BY <1>3, <2>2, <3>3 DEF q
    <2> QED
      BY <2>1, <2>2
  <1>5. ack \in Ack
    BY <1>1 DEF Ack, Request
  <1>6. acks' \in [Sessions -> Seq(Ack)]
    BY <1>0, <1>5 DEF Answer, TypeOK
  <1>7. \A x \in Sessions : \A i \in 1..Len(acks'[x]) :
          \/ i \in 1..Len(acks[x]) /\ acks'[x][i] = acks[x][i]
          \/ x = s /\ acks'[x][i] = ack
    BY <1>0, <1>5 DEF Answer, TypeOK
  <1>8. TypeOK'
    BY <1>0, <1>2, <1>3, <1>6 DEF TypeOK
  <1>9. PendingIsOpen'
    BY <1>2 DEF Inv, PendingIsOpen
  <1>10. \A x \in Sessions : windows'[x].lowWater <= ackedThrough[x]
    <2>1. \A x \in Sessions : windows[x].lowWater <= ackedThrough[x]
      BY DEF Inv, MarksAreResolved
    <2>2. \A x \in Sessions : NewWindow.lowWater <= ackedThrough[x]
      BY <1>0, BoundAssumption DEF NewWindow, TypeOK
    <2> QED
      BY <2>1, <2>2
  <1>11. MarksAreResolved'
    <2>1. MarksAreResolved
      BY DEF Inv
    <2>2. \A x \in Sessions, d \in Conns : \A i \in 1..Len(requests'[x][d]) :
            requests'[x][d][i].ackedThrough <= ackedThrough[x]
      <3> SUFFICES ASSUME NEW x \in Sessions, NEW d \in Conns,
                          NEW i \in 1..Len(requests'[x][d])
                   PROVE  requests'[x][d][i].ackedThrough <= ackedThrough[x]
        OBVIOUS
      <3>1. PICK j \in 1..Len(requests[x][d]) : requests'[x][d][i] = requests[x][d][j]
        BY <1>4
      <3> QED
        BY <2>1, <3>1 DEF MarksAreResolved
    <2> QED
      BY <1>2, <1>10, <2>1, <2>2 DEF MarksAreResolved
  <1>12. \A x \in Sessions, n \in Seqs : ~Seen(NewWindow, x, n)
    BY BoundAssumption DEF Seen, NewWindow, Seqs
  <1>13. NothingUnissued'
    <2>1. NothingUnissued
      BY DEF Inv
    <2>2. \A x \in Sessions, n \in Seqs : n > writeSeq[x] => ~Seen(windows'[x], x, n)
      <3>1. \A n \in Seqs : Seen(w, s, n) => ~(n > writeSeq[s])
        BY <1>0, BoundAssumption DEF TypeOK, Seqs
      <3>2. \A x \in Sessions, n \in Seqs : n > writeSeq[x] => ~Seen(windows[x], x, n)
        BY <2>1 DEF NothingUnissued
      <3> SUFFICES ASSUME NEW x \in Sessions, NEW n \in Seqs, n > writeSeq[x]
                   PROVE  ~Seen(windows'[x], x, n)
        OBVIOUS
      <3>3. CASE x = s
        BY <3>1, <3>3
      <3>4. CASE x # s
        BY <1>12, <3>2, <3>4
      <3> QED
        BY <3>3, <3>4
    <2>3. \A x \in Sessions : \A d \in Conns : \A i \in 1..Len(requests'[x][d]) :
            requests'[x][d][i].seq <= writeSeq[x]
      <3> SUFFICES ASSUME NEW x \in Sessions, NEW d \in Conns,
                          NEW i \in 1..Len(requests'[x][d])
                   PROVE  requests'[x][d][i].seq <= writeSeq[x]
        OBVIOUS
      <3>1. PICK j \in 1..Len(requests[x][d]) : requests'[x][d][i] = requests[x][d][j]
        BY <1>4
      <3> QED
        BY <2>1, <3>1 DEF NothingUnissued
    <2>4. m.seq <= writeSeq[s]
      BY <1>1, <2>1 DEF NothingUnissued
    <2>5. \A x \in Sessions : \A i \in 1..Len(acks'[x]) : acks'[x][i].seq <= writeSeq[x]
      <3> SUFFICES ASSUME NEW x \in Sessions, NEW i \in 1..Len(acks'[x])
                   PROVE  acks'[x][i].seq <= writeSeq[x]
        OBVIOUS
      <3>1. CASE i \in 1..Len(acks[x]) /\ acks'[x][i] = acks[x][i]
        BY <2>1, <3>1 DEF NothingUnissued
      <3>2. CASE x = s /\ acks'[x][i] = ack
        BY <2>4, <3>2
      <3> QED
        BY <1>7, <3>1, <3>2
    <2> QED
      BY <1>2, <2>1, <2>2, <2>3, <2>5 DEF NothingUnissued
  <1>14. AppliedIsRemembered'
    <2>1. AppliedIsRemembered
      BY DEF Inv
    <2> QED
      BY <2>1 DEF AppliedIsRemembered
  <1>15. \A x \in Sessions, n \in Seqs : applied'[x][n] >= applied[x][n]
    <2> SUFFICES ASSUME NEW x \in Sessions, NEW n \in Seqs
                 PROVE  applied'[x][n] >= applied[x][n]
      OBVIOUS
    <2>1. applied[x][n] \in Nat
      BY <1>0 DEF TypeOK
    <2> QED
      BY <2>1
  <1>16. SeenIsDone'
    <2>1. SeenIsDone
      BY DEF Inv
    <2>2. \A x \in Sessions, n \in Seqs :
            applied[x][n] >= 1 => applied'[x][n] >= 1
      BY <1>0, <1>15, SMTT(30) DEF TypeOK
    <2>3. \A x \in Sessions, n \in Seqs :
            Seen(windows'[x], x, n) => applied'[x][n] >= 1 \/ n \notin pending'[x]
      <3> SUFFICES ASSUME NEW x \in Sessions, NEW n \in Seqs, Seen(windows'[x], x, n)
                   PROVE  applied'[x][n] >= 1 \/ n \notin pending[x]
        BY <1>2
      <3>1. Seen(windows[x], x, n) => applied[x][n] >= 1 \/ n \notin pending[x]
        BY <2>1 DEF SeenIsDone
      <3>2. CASE x = s
        BY <3>2
      <3>3. CASE x # s /\ windows'[x] = windows[x]
        BY <2>2, <3>1, <3>3
      <3>4. CASE x # s /\ windows'[x] = NewWindow
        BY <1>12, <3>4
      <3> QED
        BY <3>2, <3>3, <3>4
    <2>4. \A x \in Sessions, n \in Seqs : \A i \in 1..Len(acks'[x]) :
            acks'[x][i].ok /\ acks'[x][i].seq = n =>
              applied'[x][n] >= 1 \/ n \notin pending'[x]
      <3> SUFFICES ASSUME NEW x \in Sessions, NEW n \in Seqs, NEW i \in 1..Len(acks'[x]),
                          acks'[x][i].ok, acks'[x][i].seq = n
                   PROVE  applied'[x][n] >= 1 \/ n \notin pending[x]
        BY <1>2
      <3>1. CASE i \in 1..Len(acks[x]) /\ acks'[x][i] = acks[x][i]
        BY <2>1, <2>2, <3>1 DEF SeenIsDone
      <3>2. CASE x = s /\ acks'[x][i] = ack
        BY <3>2
      <3> QED
        BY <1>7, <3>1, <3>2
    <2> QED
      BY <2>3, <2>4 DEF SeenIsDone
  <1>17. AppliedAtMostOnce'
    <2>1. AppliedAtMostOnce
      BY DEF Inv
    <2> QED
      BY <2>1 DEF AppliedAtMostOnce
  <1>18. AckedIsApplied'
    <2>1. AckedIsApplied
      BY DEF Inv
    <2> QED
      BY <1>0, <1>2, <1>15, <2>1, SMTT(30) DEF AckedIsApplied, TypeOK
  <1> QED
    BY <1>8, <1>9, <1>11, <1>13, <1>14, <1>16, <1>17, <1>18 DEF Inv

\* What the drained window of an incoming message can vouch for.
LEMMA DrainedWindow ==
  ASSUME Inv, NEW s \in Sessions, NEW c \in Conns, Incoming(s, c)
  PROVE  /\ Message(s, c) \in Request
         /\ Message(s, c).seq <= writeSeq[s]
         /\ Drained(s, c) \in Window
         /\ Drained(s, c).lowWater <= ackedThrough[s]
         /\ s \notin known => Drained(s, c) = windows[s]
         /\ \A n \in Seqs :
              /\ Seen(windows[s], s, n) => Seen(Drained(s, c), s, n)
              /\ Seen(Drained(s, c), s, n) =>
                   n <= writeSeq[s] /\ (applied[s][n] >= 1 \/ n \notin pending[s])
  <1> DEFINE m == Message(s, c)
  <1> USE DEF Inv
  <1>1. /\ m \in Request
        /\ m.seq <= writeSeq[s]
        /\ m.ackedThrough <= ackedThrough[s]
    <2>1. m = requests[s][c][1] /\ 1 \in 1..Len(requests[s][c])
          /\ requests[s][c][1] \in Request
      BY DEF Incoming, Message, TypeOK
    <2> QED
      BY <2>1 DEF MarksAreResolved, NothingUnissued
  <1>2. windows[s] \in Window /\ m.ackedThrough \in 0..MaxSeq
        /\ ackedThrough[s] \in 0..MaxSeq /\ writeSeq[s] \in 0..MaxSeq
    BY <1>1 DEF TypeOK, Request
  <1>3. /\ windows[s].lowWater <= ackedThrough[s]
        /\ \A n \in pending[s] : n > ackedThrough[s]
        /\ ackedThrough[s] <= writeSeq[s]
    BY DEF MarksAreResolved, NothingUnissued
  <1>4. /\ Drained(s, c) \in Window
        /\ Drained(s, c).lowWater \in {windows[s].lowWater, m.ackedThrough}
        /\ s \notin known => Drained(s, c) = windows[s]
        /\ \A n \in Seqs : Seen(windows[s], s, n) => Seen(Drained(s, c), s, n)
        /\ \A n \in Seqs : Seen(Drained(s, c), s, n) =>
             Seen(windows[s], s, n) \/ n <= m.ackedThrough
    BY <1>2, DrainWindow DEF Drained
  <1>5. ASSUME NEW n \in Seqs, Seen(Drained(s, c), s, n)
        PROVE  n <= writeSeq[s] /\ (applied[s][n] >= 1 \/ n \notin pending[s])
    <2>1. CASE Seen(windows[s], s, n)
      <3>1. ~(n > writeSeq[s]) /\ (applied[s][n] >= 1 \/ n \notin pending[s])
        BY <2>1 DEF NothingUnissued, SeenIsDone
      <3> QED
        BY <1>2, <3>1, BoundAssumption DEF Seqs
    <2>2. CASE n <= m.ackedThrough
      BY <1>1, <1>2, <1>3, <2>2, BoundAssumption DEF Seqs
    <2> QED
      BY <1>4, <1>5, <2>1, <2>2
  <1> QED
    BY <1>1, <1>2, <1>3, <1>4, <1>5

\* A write at or below the high-water mark is acknowledged again, not
\* applied.
LEMMA ReAckStep ==
  ASSUME Inv, NEW s \in Sessions, NEW c \in Conns, ReAck(s, c)
  PROVE  Inv'
  <1> DEFINE w == Drained(s, c)
  <1>1. Incoming(s, c) /\ Answer(s, c, TRUE) /\ Seen(w, s, Message(s, c).seq)
        /\ windows' = [windows EXCEPT ![s] = w]
        /\ UNCHANGED <<known, older, forgotten, applied, refused>>
    BY DEF ReAck
  <1>2. TypeOK /\ AppliedIsRemembered /\ AppliedAtMostOnce
    BY DEF Inv
  <1>3. /\ w \in Window /\ w.lowWater <= ackedThrough[s]
        /\ s \notin known => w = windows[s]
        /\ Message(s, c).seq \in Seqs
        /\ \A n \in Seqs :
              /\ Seen(windows[s], s, n) => Seen(w, s, n)
              /\ Seen(w, s, n) =>
                   n <= writeSeq[s] /\ (applied[s][n] >= 1 \/ n \notin pending[s])
    BY <1>1, DrainedWindow DEF Request
  <1> HIDE DEF w
  <1>4. /\ windows' \in [Sessions -> Window] /\ windows'[s] = w
        /\ \A x \in Sessions \ {s} : windows'[x] = windows[x]
        /\ \A x \in Sessions \ known' : windows'[x] = NewWindow
    BY <1>1, <1>2, <1>3 DEF TypeOK, AppliedIsRemembered
  <1>5. /\ applied' \in [Sessions -> [Seqs -> Nat]]
        /\ \A x \in Sessions \ {s} : applied'[x] = applied[x]
        /\ \A n \in Seqs : applied'[s][n] >= applied[s][n]
        /\ refused' \in [Sessions -> SUBSET Seqs]
        /\ known' \subseteq Sessions /\ older' \subseteq Sessions \X Sessions
        /\ forgotten \subseteq forgotten' /\ forgotten' \subseteq Sessions
    <2>1. \A n \in Seqs : applied[s][n] \in Nat
      BY <1>2 DEF TypeOK
    <2>2. \A n \in Seqs : applied'[s][n] >= applied[s][n]
      BY <1>1, <2>1
    <2> QED
      BY <1>1, <1>2, <2>2 DEF TypeOK
  <1>6. s \notin forgotten' => \A n \in Seqs :
          applied'[s][n] <= 1 /\ (applied'[s][n] >= 1 => Seen(w, s, n))
    BY <1>1, <1>2, <1>3 DEF AppliedAtMostOnce, AppliedIsRemembered
  <1> QED
    BY <1>1, <1>3, <1>4, <1>5, <1>6, HostStep

\* The paths that refuse an unapplied write and those that apply it touch the
\* registry in the same way.
LEMMA RefuseStep ==
  ASSUME Inv, NEW s \in Sessions, NEW c \in Conns,
         RefuseFull(s, c) \/ ApplyFails(s, c)
  PROVE  Inv'
  <1> DEFINE w == Drained(s, c)
  <1>1. Incoming(s, c) /\ Answer(s, c, FALSE) /\ Touch(s, w, {})
        /\ Refuse(s, Message(s, c).seq) /\ UNCHANGED applied
    BY DEF RefuseFull, ApplyFails, Fresh
  <1>2. TypeOK /\ AppliedIsRemembered /\ AppliedAtMostOnce
    BY DEF Inv
  <1>3. /\ w \in Window /\ w.lowWater <= ackedThrough[s]
        /\ Message(s, c).seq \in Seqs
        /\ \A n \in Seqs :
              /\ Seen(windows[s], s, n) => Seen(w, s, n)
              /\ Seen(w, s, n) =>
                   n <= writeSeq[s] /\ (applied[s][n] >= 1 \/ n \notin pending[s])
    BY <1>1, DrainedWindow DEF Request
  <1> HIDE DEF w
  <1>4. /\ windows' \in [Sessions -> Window]
        /\ windows'[s] = w
        /\ \A x \in Sessions \ {s} :
              \/ windows'[x] = windows[x]
              \/ windows'[x] = NewWindow /\ x \in forgotten'
        /\ \A x \in Sessions \ known' : windows'[x] = NewWindow
        /\ known' \subseteq Sessions
        /\ older' \subseteq Sessions \X Sessions
        /\ forgotten \subseteq forgotten'
        /\ forgotten' \subseteq Sessions
    <2>1. {} \in SUBSET Sessions
      OBVIOUS
    <2> QED
      BY <1>1, <1>2, <1>3, <2>1, TouchRegistry DEF AppliedIsRemembered, UnknownIsNew
  <1>5. /\ applied' \in [Sessions -> [Seqs -> Nat]]
        /\ \A x \in Sessions \ {s} : applied'[x] = applied[x]
        /\ \A n \in Seqs : applied'[s][n] >= applied[s][n]
        /\ refused' \in [Sessions -> SUBSET Seqs]
    BY <1>1, <1>2, <1>3 DEF TypeOK, Refuse
  <1>6. s \notin forgotten' => \A n \in Seqs :
          applied'[s][n] <= 1 /\ (applied'[s][n] >= 1 => Seen(w, s, n))
    BY <1>1, <1>2, <1>3, <1>4 DEF AppliedAtMostOnce, AppliedIsRemembered
  <1> QED
    BY <1>1, <1>3, <1>4, <1>5, <1>6, HostStep

\* A new write is applied, marked and acknowledged: the registry and the
\* outcomes move together.
LEMMA ApplyWriteStep ==
  ASSUME Inv, NEW s \in Sessions, NEW c \in Conns, ApplyWrite(s, c)
  PROVE  Inv'
  <1> DEFINE d == Drained(s, c)
             n == Message(s, c).seq
             w == Mark(d, s, n)
             lost == IF Evicts(d, s, n) THEN {s} ELSE {}
  <1>1. Incoming(s, c) /\ Answer(s, c, TRUE) /\ Touch(s, w, lost)
        /\ ~Seen(d, s, n) /\ Apply(s, n) /\ UNCHANGED refused
    BY DEF ApplyWrite, Fresh
  <1>2. TypeOK /\ AppliedIsRemembered /\ AppliedAtMostOnce
    BY DEF Inv
  <1>3. /\ d \in Window /\ d.lowWater <= ackedThrough[s]
        /\ n \in Seqs /\ n <= writeSeq[s]
        /\ \A k \in Seqs :
              /\ Seen(windows[s], s, k) => Seen(d, s, k)
              /\ Seen(d, s, k) =>
                   k <= writeSeq[s] /\ (applied[s][k] >= 1 \/ k \notin pending[s])
    BY <1>1, DrainedWindow DEF Request
  <1>4. /\ w \in Window /\ w.lowWater <= ackedThrough[s]
        /\ \A k \in Seqs : Seen(w, s, k) => Seen(d, s, k) \/ k = n
        /\ ~Evicts(d, s, n) => \A k \in Seqs : Seen(d, s, k) \/ k = n => Seen(w, s, k)
    BY <1>3, MarkWindow
  <1>5. applied' = [applied EXCEPT ![s][n] = @ + 1]
    BY <1>1 DEF Apply
  <1>6. lost \in SUBSET Sessions
    OBVIOUS
  <1> HIDE DEF d, n, w
  <1>7. /\ windows' \in [Sessions -> Window]
        /\ windows'[s] = w
        /\ \A x \in Sessions \ {s} :
              \/ windows'[x] = windows[x]
              \/ windows'[x] = NewWindow /\ x \in forgotten'
        /\ \A x \in Sessions \ known' : windows'[x] = NewWindow
        /\ known' \subseteq Sessions
        /\ older' \subseteq Sessions \X Sessions
        /\ forgotten \subseteq forgotten'
        /\ lost \subseteq forgotten'
        /\ forgotten' \subseteq Sessions
    BY <1>1, <1>2, <1>4, <1>6, TouchRegistry DEF AppliedIsRemembered, UnknownIsNew
  <1>8. /\ applied' \in [Sessions -> [Seqs -> Nat]]
        /\ \A x \in Sessions \ {s} : applied'[x] = applied[x]
        /\ \A k \in Seqs : applied[s][k] \in Nat
        /\ \A k \in Seqs : applied'[s][k] = IF k = n THEN applied[s][k] + 1 ELSE applied[s][k]
    BY <1>2, <1>3, <1>5 DEF TypeOK
  <1>9. \A k \in Seqs : applied'[s][k] >= applied[s][k]
    BY <1>8
  <1>10. \A k \in Seqs : Seen(w, s, k) =>
           k <= writeSeq[s] /\ (applied'[s][k] >= 1 \/ k \notin pending[s])
    BY <1>3, <1>4, <1>8
  <1>11. ASSUME s \notin forgotten', NEW k \in Seqs
         PROVE  applied'[s][k] <= 1 /\ (applied'[s][k] >= 1 => Seen(w, s, k))
    <2>1. ~Evicts(d, s, n) /\ s \notin forgotten
      BY <1>7, <1>11
    <2>2. applied[s][k] <= 1 /\ (applied[s][k] >= 1 => Seen(d, s, k))
      BY <1>2, <1>3, <2>1 DEF AppliedAtMostOnce, AppliedIsRemembered
    <2>3. k = n => applied[s][k] = 0
      BY <1>1, <1>8, <2>2
    <2> QED
      BY <1>4, <1>8, <2>1, <2>2, <2>3
  <1>12. applied'[s][Message(s, c).seq] >= 1
    BY <1>3, <1>8 DEF n
  <1>13. refused' \in [Sessions -> SUBSET Seqs]
    BY <1>1, <1>2 DEF TypeOK
  <1> QED
    BY <1>1, <1>4, <1>7, <1>8, <1>9, <1>10, <1>11, <1>12, <1>13, HostStep

\* Whatever copy of a write reaches the host, its handler keeps the
\* invariant.
THEOREM HostMutatePreservesInv ==
  ASSUME Inv, ~SendMayThrow, NEW s \in Sessions, NEW c \in Conns, HostMutate(s, c)
  PROVE  Inv'
  BY ReAckStep, RefuseStep, ApplyWriteStep DEF HostMutate, ApplyTorn

(***************************************************************************)
(* The client.                                                             *)
(***************************************************************************)

\* A step that leaves the registry and the graph alone keeps what the
\* invariant says about them.
LEMMA RegistryFrame ==
  ASSUME Inv, UNCHANGED <<registryVars, applied, refused, restarts>>
  PROVE  /\ windows' \in [Sessions -> Window] /\ known' \subseteq Sessions
         /\ older' \subseteq Sessions \X Sessions /\ forgotten' \subseteq Sessions
         /\ applied' \in [Sessions -> [Seqs -> Nat]]
         /\ refused' \in [Sessions -> SUBSET Seqs]
         /\ restarts' \in 0..MaxRestarts
         /\ AppliedIsRemembered'
         /\ AppliedAtMostOnce'
  BY DEF Inv, TypeOK, registryVars, AppliedIsRemembered, AppliedAtMostOnce

\* A write the application makes gets a sequence number nobody used.
LEMMA MutateStep ==
  ASSUME Inv, NEW s \in Sessions, Mutate(s)
  PROVE  Inv'
  <1> DEFINE n == writeSeq[s] + 1
             r == RequestFor(s, n)
  <1>1. TypeOK /\ MarksAreResolved /\ NothingUnissued /\ PendingIsOpen /\ SeenIsDone
        /\ AckedIsApplied
    BY DEF Inv
  <1>2. /\ n \in Seqs /\ n > writeSeq[s]
        /\ writeSeq' = [writeSeq EXCEPT ![s] = n]
        /\ pending' = [pending EXCEPT ![s] = @ \cup {n}]
        /\ UNCHANGED <<ackedThrough, resolvedAhead, outcome, closed, conn, dials, acks>>
        /\ UNCHANGED <<registryVars, applied, refused, restarts>>
        /\ r \in Request /\ r.seq = n /\ r.ackedThrough = ackedThrough[s]
    BY <1>1, BoundAssumption DEF Mutate, TypeOK, Seqs, Request, RequestFor
  <1>3. /\ requests' \in [Sessions -> [Conns -> Seq(Request)]]
        /\ \A x \in Sessions, d \in Conns :
             \/ requests'[x][d] = requests[x][d]
             \/ x = s /\ requests'[x][d] = Append(requests[x][d], r)
    <2>1. CASE conn[s] = 0
      BY <1>1, <2>1 DEF Mutate, TypeOK
    <2>2. CASE conn[s] # 0
      <3>1. conn[s] \in Conns
        BY <1>1, <2>2, BoundAssumption DEF TypeOK, Conns
      <3>2. requests' = [requests EXCEPT ![s][conn[s]] = Append(@, r)]
        BY <2>2 DEF Mutate
      <3>3. requests \in [Sessions -> [Conns -> Seq(Request)]] /\ r \in Request
        BY <1>1, <1>2 DEF TypeOK
      <3> HIDE DEF r
      <3>4. Append(requests[s][conn[s]], r) \in Seq(Request)
        BY <3>1, <3>3
      <3> QED
        BY <3>1, <3>2, <3>3, <3>4
    <2> QED
      BY <2>1, <2>2
  <1>4. \A x \in Sessions, d \in Conns : \A i \in 1..Len(requests'[x][d]) :
          \/ i \in 1..Len(requests[x][d]) /\ requests'[x][d][i] = requests[x][d][i]
          \/ x = s /\ requests'[x][d][i] = r
    <2> SUFFICES ASSUME NEW x \in Sessions, NEW d \in Conns,
                        NEW i \in 1..Len(requests'[x][d])
                 PROVE  \/ i \in 1..Len(requests[x][d]) /\ requests'[x][d][i] = requests[x][d][i]
                        \/ x = s /\ requests'[x][d][i] = r
      OBVIOUS
    <2>1. requests[x][d] \in Seq(Request)
      BY <1>1 DEF TypeOK
    <2>2. CASE requests'[x][d] = requests[x][d]
      BY <2>2
    <2>3. CASE x = s /\ requests'[x][d] = Append(requests[x][d], r)
      <3>1. r \in Request
        BY <1>2
      <3> HIDE DEF r
      <3> QED
        BY <2>1, <2>3, <3>1
    <2> QED
      BY <1>3, <2>2, <2>3
  <1> HIDE DEF n, r
  <1>4a. /\ writeSeq \in [Sessions -> 0..MaxSeq] /\ writeSeq' = [writeSeq EXCEPT ![s] = n]
         /\ pending \in [Sessions -> SUBSET Seqs] /\ pending' = [pending EXCEPT ![s] = @ \cup {n}]
         /\ n \in Nat /\ n > writeSeq[s]
    BY <1>1, <1>2, BoundAssumption DEF TypeOK, Seqs
  <1>5. \A x \in Sessions : writeSeq'[x] = IF x = s THEN n ELSE writeSeq[x]
    BY <1>4a
  <1>6. \A x \in Sessions : writeSeq[x] \in 0..MaxSeq /\ writeSeq[x] <= writeSeq'[x]
    BY <1>4a, <1>5, BoundAssumption
  <1>7. \A x \in Sessions : pending'[x] = IF x = s THEN pending[x] \cup {n} ELSE pending[x]
    BY <1>4a
  <1>8. TypeOK'
    <2>1. /\ writeSeq' \in [Sessions -> 0..MaxSeq]
          /\ pending' \in [Sessions -> SUBSET Seqs]
      BY <1>1, <1>2, <1>5, <1>7, BoundAssumption DEF TypeOK, Seqs
    <2> QED
      BY <1>1, <1>2, <1>3, <2>1, RegistryFrame DEF TypeOK
  <1>9. PendingIsOpen'
    <2> SUFFICES ASSUME NEW x \in Sessions, NEW k \in Seqs
                 PROVE  k \in pending'[x] <=> k <= writeSeq'[x] /\ outcome[x][k] = "none"
      BY <1>2 DEF PendingIsOpen
    <2>1. CASE x # s
      BY <1>1, <1>5, <1>7, <2>1 DEF PendingIsOpen
    <2>2. CASE x = s
      <3>1. n = writeSeq[s] + 1 /\ outcome[s][n] = "none"
        BY <1>1, <1>2 DEF n, NothingUnissued
      <3>2. k <= n <=> k <= writeSeq[s] \/ k = n
        BY <1>6, <3>1, BoundAssumption DEF Seqs
      <3> QED
        BY <1>1, <1>5, <1>7, <2>2, <3>1, <3>2 DEF PendingIsOpen
    <2> QED
      BY <2>1, <2>2
  <1>10. MarksAreResolved'
    <2>1. \A x \in Sessions, k \in Seqs : k \in pending'[x] =>
            k > ackedThrough[x] /\ k \notin resolvedAhead[x]
      <3>1. n > ackedThrough[s] /\ n \notin resolvedAhead[s]
        BY <1>1, <1>2, BoundAssumption DEF NothingUnissued, TypeOK, Seqs
      <3> QED
        BY <1>1, <1>7, <3>1 DEF MarksAreResolved
    <2>2. \A x \in Sessions, d \in Conns : \A i \in 1..Len(requests'[x][d]) :
            requests'[x][d][i].ackedThrough <= ackedThrough[x]
      <3>1. ackedThrough[s] <= ackedThrough[s]
        BY <1>1 DEF TypeOK
      <3> QED
        BY <1>1, <1>2, <1>4, <3>1 DEF MarksAreResolved
    <2>3. \A x \in Sessions : pending'[x] \subseteq Seqs
      BY <1>8 DEF TypeOK
    <2> QED
      BY <1>1, <1>2, <2>1, <2>2, <2>3 DEF MarksAreResolved, registryVars
  <1>11. NothingUnissued'
    <2>1. \A x \in Sessions : ackedThrough[x] <= writeSeq'[x]
      BY <1>1, <1>2, <1>5, <1>6 DEF NothingUnissued, TypeOK, Seqs
    <2>2. \A x \in Sessions, k \in Seqs : k > writeSeq'[x] => k > writeSeq[x]
      BY <1>1, <1>2, <1>5, <1>6, BoundAssumption DEF Seqs
    <2>3. \A x \in Sessions, d \in Conns : \A i \in 1..Len(requests'[x][d]) :
            requests'[x][d][i].seq <= writeSeq'[x]
      <3> SUFFICES ASSUME NEW x \in Sessions, NEW d \in Conns,
                          NEW i \in 1..Len(requests'[x][d])
                   PROVE  requests'[x][d][i].seq <= writeSeq'[x]
        OBVIOUS
      <3>1. CASE i \in 1..Len(requests[x][d]) /\ requests'[x][d][i] = requests[x][d][i]
        <4>1. requests[x][d][i] \in Request
          BY <1>1, <3>1 DEF TypeOK
        <4>2. requests[x][d][i].seq <= writeSeq[x]
          BY <1>1, <3>1 DEF NothingUnissued
        <4>3. writeSeq'[x] \in 0..MaxSeq
          BY <1>8 DEF TypeOK
        <4> QED
          BY <1>6, <3>1, <4>1, <4>2, <4>3, BoundAssumption DEF Request, Seqs
      <3>2. CASE x = s /\ requests'[x][d][i] = r
        BY <1>2, <1>5, <3>2 DEF Seqs
      <3> QED
        BY <1>4, <3>1, <3>2
    <2>4. \A x \in Sessions : \A i \in 1..Len(acks[x]) : acks[x][i].seq <= writeSeq'[x]
      <3> SUFFICES ASSUME NEW x \in Sessions, NEW i \in 1..Len(acks[x])
                   PROVE  acks[x][i].seq <= writeSeq'[x]
        OBVIOUS
      <3>1. acks[x][i] \in Ack /\ acks[x][i].seq <= writeSeq[x]
        BY <1>1 DEF TypeOK, NothingUnissued
      <3>2. writeSeq'[x] \in 0..MaxSeq
        BY <1>8 DEF TypeOK
      <3> QED
        BY <1>6, <3>1, <3>2, BoundAssumption DEF Ack, Seqs
    <2> QED
      BY <1>1, <1>2, <2>1, <2>2, <2>3, <2>4 DEF NothingUnissued, registryVars
  <1>12. SeenIsDone'
    <2>1. /\ ~Seen(windows[s], s, n)
          /\ \A i \in 1..Len(acks[s]) : acks[s][i].seq # n
      <3>1. \A i \in 1..Len(acks[s]) : acks[s][i].seq <= writeSeq[s] /\ acks[s][i] \in Ack
        BY <1>1 DEF NothingUnissued, TypeOK
      <3>2. \A i \in 1..Len(acks[s]) : acks[s][i].seq # n
        BY <1>2, <1>6, <3>1, BoundAssumption DEF Ack, Seqs
      <3> QED
        BY <1>1, <1>2, <3>2 DEF NothingUnissued
    <2> QED
      BY <1>1, <1>2, <1>7, <2>1 DEF SeenIsDone, registryVars
  <1>13. AckedIsApplied'
    BY <1>1, <1>2 DEF AckedIsApplied
  <1> QED
    BY <1>2, <1>8, <1>9, <1>10, <1>11, <1>12, <1>13, RegistryFrame DEF Inv

\* An acknowledgement settles its write and no other.
LEMMA ReceiveAckStep ==
  ASSUME Inv, NEW s \in Sessions, ReceiveAck(s)
  PROVE  Inv'
  <1> DEFINE ack == Head(acks[s])
             n == ack.seq
  <1>1. TypeOK /\ MarksAreResolved /\ NothingUnissued /\ PendingIsOpen /\ SeenIsDone
        /\ AckedIsApplied
    BY DEF Inv
  <1>2. /\ acks[s] \in Seq(Ack) /\ acks[s] # <<>>
        /\ 1 \in 1..Len(acks[s]) /\ ack = acks[s][1]
        /\ ack \in Ack /\ n \in Seqs /\ n <= writeSeq[s]
        /\ ack.ok \in BOOLEAN
        /\ ack.ok => applied[s][n] >= 1 \/ n \notin pending[s]
    <2>1. acks[s] \in Seq(Ack) /\ acks[s] # <<>>
      BY <1>1 DEF TypeOK, ReceiveAck
    <2>2. 1 \in 1..Len(acks[s]) /\ ack = acks[s][1] /\ ack \in Ack
      BY <2>1
    <2>3. n \in Seqs /\ ack.ok \in BOOLEAN
      BY <2>2 DEF Ack
    <2>4. n <= writeSeq[s]
      BY <1>1, <2>2 DEF NothingUnissued
    <2>5. ack.ok => applied[s][n] >= 1 \/ n \notin pending[s]
      BY <1>1, <2>2, <2>3 DEF SeenIsDone
    <2> QED
      BY <2>1, <2>2, <2>3, <2>4, <2>5
  <1>3. /\ acks' = [acks EXCEPT ![s] = Tail(@)]
        /\ UNCHANGED <<writeSeq, closed, conn, dials, requests>>
        /\ UNCHANGED <<registryVars, applied, refused, restarts>>
    BY DEF ReceiveAck
  <1>4. acks' \in [Sessions -> Seq(Ack)]
    BY <1>1, <1>2, <1>3 DEF TypeOK
  <1>5. \A x \in Sessions : \A i \in 1..Len(acks'[x]) :
          \E j \in 1..Len(acks[x]) : acks'[x][i] = acks[x][j]
    <2> SUFFICES ASSUME NEW x \in Sessions, NEW i \in 1..Len(acks'[x])
                 PROVE  \E j \in 1..Len(acks[x]) : acks'[x][i] = acks[x][j]
      OBVIOUS
    <2>1. CASE x # s
      BY <1>1, <1>3, <2>1 DEF TypeOK
    <2>2. CASE x = s
      <3> DEFINE q == acks[s]
      <3>1. q \in Seq(Ack) /\ q # <<>> /\ acks'[s] = Tail(q)
        BY <1>1, <1>2, <1>3 DEF TypeOK
      <3> HIDE DEF q
      <3>2. i + 1 \in 1..Len(q) /\ Tail(q)[i] = q[i + 1]
        BY <2>2, <3>1
      <3> QED
        BY <2>2, <3>1, <3>2 DEF q
    <2> QED
      BY <2>1, <2>2
  <1> HIDE DEF ack, n
  <1>6. /\ \A x \in Sessions : \A i \in 1..Len(acks'[x]) : acks'[x][i].seq <= writeSeq[x]
        /\ \A x \in Sessions, k \in Seqs : \A i \in 1..Len(acks'[x]) :
             acks'[x][i].ok /\ acks'[x][i].seq = k => applied[x][k] >= 1 \/ k \notin pending[x]
    <2>1. ASSUME NEW x \in Sessions, NEW i \in 1..Len(acks'[x])
          PROVE  /\ acks'[x][i].seq <= writeSeq[x]
                 /\ \A k \in Seqs : acks'[x][i].ok /\ acks'[x][i].seq = k =>
                      applied[x][k] >= 1 \/ k \notin pending[x]
      <3>1. PICK j \in 1..Len(acks[x]) : acks'[x][i] = acks[x][j]
        BY <1>5
      <3> QED
        BY <1>1, <3>1 DEF NothingUnissued, SeenIsDone
    <2> QED
      BY <2>1
  <1>7. CASE n \notin pending[s]
    <2>1. UNCHANGED <<pending, outcome, ackedThrough, resolvedAhead>>
      BY <1>7 DEF ReceiveAck, ack, n
    <2>2. TypeOK'
      BY <1>1, <1>3, <1>4, <2>1, RegistryFrame DEF TypeOK
    <2>3. PendingIsOpen' /\ MarksAreResolved' /\ AckedIsApplied'
      BY <1>1, <1>3, <2>1 DEF PendingIsOpen, MarksAreResolved, AckedIsApplied, registryVars
    <2>4. NothingUnissued' /\ SeenIsDone'
      BY <1>1, <1>3, <1>6, <2>1 DEF NothingUnissued, SeenIsDone, registryVars
    <2> QED
      BY <1>3, <2>2, <2>3, <2>4, RegistryFrame DEF Inv
  <1>8. CASE n \in pending[s]
    <2> DEFINE ahead == resolvedAhead[s] \cup {n}
               result == IF ack.ok THEN "ok" ELSE "rejected"
    <2>1. /\ pending' = [pending EXCEPT ![s] = @ \ {n}]
          /\ outcome' = [outcome EXCEPT ![s][n] = result]
          /\ ResolveSeq(s, n)
      BY <1>8 DEF ReceiveAck, ack, n
    <2>2. PICK k \in ackedThrough[s]..MaxSeq :
            /\ (ackedThrough[s] + 1 .. k) \subseteq ahead
            /\ ackedThrough' = [ackedThrough EXCEPT ![s] = k]
            /\ resolvedAhead' = [resolvedAhead EXCEPT ![s] = ahead \ (ackedThrough[s] + 1 .. k)]
      BY <2>1 DEF ResolveSeq
    <2>3. /\ ackedThrough[s] \in 0..MaxSeq /\ writeSeq[s] \in 0..MaxSeq
          /\ ackedThrough[s] <= writeSeq[s] /\ k \in 0..MaxSeq /\ ackedThrough[s] <= k
          /\ \A j \in ahead : j \in Seqs /\ j <= writeSeq[s]
      <3>1. ackedThrough[s] \in 0..MaxSeq /\ writeSeq[s] \in 0..MaxSeq
            /\ resolvedAhead[s] \subseteq Seqs
        BY <1>1 DEF TypeOK
      <3>2. \A j \in resolvedAhead[s] : ~(j > writeSeq[s])
        BY <1>1, <3>1 DEF NothingUnissued
      <3>3. ackedThrough[s] <= writeSeq[s]
        BY <1>1 DEF NothingUnissued
      <3> QED
        BY <1>2, <3>1, <3>2, <3>3, BoundAssumption DEF Seqs
    <2>4. k <= writeSeq[s]
      <3>1. CASE k = ackedThrough[s]
        BY <2>3, <3>1
      <3>2. CASE k # ackedThrough[s]
        <4>1. k \in ackedThrough[s] + 1 .. k
          BY <2>3, <3>2, BoundAssumption
        <4> QED
          BY <2>2, <2>3, <4>1
      <3> QED
        BY <3>1, <3>2
    <2> HIDE DEF result
    <2>5. /\ \A x \in Sessions : pending'[x] = IF x = s THEN pending[s] \ {n} ELSE pending[x]
          /\ \A x \in Sessions : ackedThrough'[x] = IF x = s THEN k ELSE ackedThrough[x]
          /\ \A x \in Sessions : resolvedAhead'[x] =
               IF x = s THEN ahead \ (ackedThrough[s] + 1 .. k) ELSE resolvedAhead[x]
          /\ \A x \in Sessions, j \in Seqs : outcome'[x][j] =
               IF x = s /\ j = n THEN result ELSE outcome[x][j]
      BY <1>1, <1>2, <2>1, <2>2 DEF TypeOK
    <2>6. result \in {"ok", "rejected"} /\ (result = "ok" => ack.ok)
      BY DEF result
    <2>7. TypeOK'
      <3>1. /\ pending' \in [Sessions -> SUBSET Seqs]
            /\ ackedThrough' \in [Sessions -> 0..MaxSeq]
            /\ resolvedAhead' \in [Sessions -> SUBSET Seqs]
        BY <1>1, <2>1, <2>2, <2>3 DEF TypeOK
      <3>2. outcome' \in [Sessions -> [Seqs -> {"none", "ok", "rejected", "closed"}]]
        BY <1>1, <1>2, <2>1, <2>6 DEF TypeOK
      <3> QED
        BY <1>1, <1>3, <1>4, <3>1, <3>2, RegistryFrame DEF TypeOK
    <2>8. PendingIsOpen'
      BY <1>1, <1>3, <2>5, <2>6 DEF PendingIsOpen
    <2>9. MarksAreResolved'
      <3>1. \A x \in Sessions : ackedThrough[x] <= ackedThrough'[x]
            /\ ackedThrough[x] \in 0..MaxSeq /\ ackedThrough'[x] \in 0..MaxSeq
        <4> SUFFICES ASSUME NEW x \in Sessions
                     PROVE  /\ ackedThrough[x] <= ackedThrough'[x]
                            /\ ackedThrough[x] \in 0..MaxSeq /\ ackedThrough'[x] \in 0..MaxSeq
          OBVIOUS
        <4>1. ackedThrough[x] \in 0..MaxSeq /\ ackedThrough'[x] \in 0..MaxSeq
          BY <1>1, <2>7 DEF TypeOK
        <4> QED
          BY <2>3, <2>5, <4>1
      <3>2. \A x \in Sessions, j \in Seqs : j \in pending'[x] =>
              j > ackedThrough'[x] /\ j \notin resolvedAhead'[x]
        <4> SUFFICES ASSUME NEW x \in Sessions, NEW j \in Seqs, j \in pending'[x]
                     PROVE  j > ackedThrough'[x] /\ j \notin resolvedAhead'[x]
          OBVIOUS
        <4>1. j \in pending[x] /\ j > ackedThrough[x] /\ j \notin resolvedAhead[x]
          BY <1>1, <2>5 DEF MarksAreResolved
        <4>2. CASE x # s
          BY <2>5, <4>1, <4>2
        <4>3. CASE x = s
          <5>1. j # n /\ j \notin ahead
            BY <2>5, <4>1, <4>3
          <5>2. j \notin ackedThrough[s] + 1 .. k
            BY <2>2, <5>1
          <5>3. j > k
            BY <2>3, <4>1, <4>3, <5>2, BoundAssumption DEF Seqs
          <5> QED
            BY <2>5, <4>3, <5>1, <5>3
        <4> QED
          BY <4>2, <4>3
      <3>3. \A x \in Sessions : windows[x].lowWater \in 0..MaxSeq
        BY <1>1 DEF TypeOK, Window
      <3>4. \A x \in Sessions : windows[x].lowWater <= ackedThrough'[x]
        BY <1>1, <3>1, <3>3, BoundAssumption DEF MarksAreResolved
      <3>5. ASSUME NEW x \in Sessions, NEW d \in Conns, NEW i \in 1..Len(requests[x][d])
            PROVE  requests[x][d][i].ackedThrough <= ackedThrough'[x]
        <4>1. requests[x][d][i] \in Request
          BY <1>1 DEF TypeOK
        <4>2. requests[x][d][i].ackedThrough <= ackedThrough[x]
          BY <1>1 DEF MarksAreResolved
        <4> QED
          BY <3>1, <4>1, <4>2, BoundAssumption DEF Request
      <3>6. \A x \in Sessions : pending'[x] \subseteq Seqs
        BY <2>7 DEF TypeOK
      <3> QED
        BY <1>3, <3>2, <3>4, <3>5, <3>6 DEF MarksAreResolved, registryVars
    <2>10. NothingUnissued'
      <3>1. \A x \in Sessions : ackedThrough'[x] <= writeSeq[x]
        BY <1>1, <2>4, <2>5 DEF NothingUnissued
      <3>2. \A x \in Sessions, j \in Seqs : j > writeSeq[x] =>
              outcome'[x][j] = "none" /\ j \notin resolvedAhead'[x] /\ ~Seen(windows[x], x, j)
        <4> SUFFICES ASSUME NEW x \in Sessions, NEW j \in Seqs, j > writeSeq[x]
                     PROVE  /\ outcome'[x][j] = "none" /\ j \notin resolvedAhead'[x]
                            /\ ~Seen(windows[x], x, j)
          OBVIOUS
        <4>1. outcome[x][j] = "none" /\ j \notin resolvedAhead[x] /\ ~Seen(windows[x], x, j)
          BY <1>1 DEF NothingUnissued
        <4>2. x = s => j # n
          BY <1>2, <2>3, BoundAssumption DEF Seqs
        <4> QED
          BY <2>5, <4>1, <4>2
      <3>3. \A x \in Sessions, d \in Conns : \A i \in 1..Len(requests[x][d]) :
              requests[x][d][i].seq <= writeSeq[x]
        BY <1>1 DEF NothingUnissued
      <3> QED
        BY <1>3, <1>6, <3>1, <3>2, <3>3 DEF NothingUnissued, registryVars
    <2>11. SeenIsDone'
      BY <1>1, <1>3, <1>6, <2>5, SMTT(30) DEF SeenIsDone, registryVars
    <2>12. AckedIsApplied'
      BY <1>1, <1>2, <1>3, <1>8, <2>5, <2>6 DEF AckedIsApplied
    <2> QED
      BY <1>3, <2>7, <2>8, <2>9, <2>10, <2>11, <2>12, RegistryFrame DEF Inv
  <1> QED
    BY <1>7, <1>8

\* Connections come and go without a trace in the client's books: enough to
\* know of the requests afterwards that each was there before, or is a replay
\* of a pending write.
LEMMA ConnectionStep ==
  ASSUME Inv, UNCHANGED <<clientVars, windows, known, older, applied, refused>>,
         forgotten \subseteq forgotten', forgotten' \subseteq Sessions,
         restarts' \in 0..MaxRestarts,
         conn' \in [Sessions -> 0..MaxConns], dials' \in [Sessions -> 0..MaxConns],
         requests' \in [Sessions -> [Conns -> Seq(Request)]],
         \A x \in Sessions, d \in Conns : \A i \in 1..Len(requests'[x][d]) :
           \/ \E j \in 1..Len(requests[x][d]) : requests'[x][d][i] = requests[x][d][j]
           \/ \E n \in pending[x] : requests'[x][d][i] = RequestFor(x, n),
         \A x \in Sessions : acks'[x] \in {acks[x], <<>>},
         acks' \in [Sessions -> Seq(Ack)]
  PROVE  Inv'
  <1>1. /\ TypeOK /\ MarksAreResolved /\ NothingUnissued /\ PendingIsOpen /\ SeenIsDone
        /\ AppliedIsRemembered /\ AppliedAtMostOnce /\ AckedIsApplied
    BY DEF Inv
  <1>2. UNCHANGED <<writeSeq, pending, ackedThrough, resolvedAhead, outcome, closed>>
    BY DEF clientVars
  <1>3. TypeOK'
    BY <1>1, <1>2 DEF TypeOK
  <1>4. ASSUME NEW x \in Sessions, NEW d \in Conns, NEW i \in 1..Len(requests'[x][d])
        PROVE  /\ requests'[x][d][i].ackedThrough <= ackedThrough[x]
               /\ requests'[x][d][i].seq <= writeSeq[x]
    <2>1. ASSUME NEW j \in 1..Len(requests[x][d]), requests'[x][d][i] = requests[x][d][j]
          PROVE  /\ requests'[x][d][i].ackedThrough <= ackedThrough[x]
                 /\ requests'[x][d][i].seq <= writeSeq[x]
      BY <1>1, <2>1 DEF MarksAreResolved, NothingUnissued
    <2>2. ASSUME NEW n \in pending[x], requests'[x][d][i] = RequestFor(x, n)
          PROVE  /\ requests'[x][d][i].ackedThrough <= ackedThrough[x]
                 /\ requests'[x][d][i].seq <= writeSeq[x]
      <3>1. n \in Seqs /\ ackedThrough[x] \in 0..MaxSeq
        BY <1>1 DEF TypeOK
      <3>2. n <= writeSeq[x]
        BY <1>1, <3>1 DEF PendingIsOpen
      <3> QED
        BY <2>2, <3>1, <3>2 DEF RequestFor
    <2> QED
      BY <2>1, <2>2
  <1>5. PendingIsOpen' /\ AppliedIsRemembered' /\ AppliedAtMostOnce' /\ AckedIsApplied'
    BY <1>1, <1>2 DEF PendingIsOpen, AppliedIsRemembered, AppliedAtMostOnce, AckedIsApplied
  <1>6. MarksAreResolved'
    BY <1>1, <1>2, <1>4 DEF MarksAreResolved
  <1>7. ASSUME NEW x \in Sessions, NEW i \in 1..Len(acks'[x])
        PROVE  i \in 1..Len(acks[x]) /\ acks'[x][i] = acks[x][i]
    <2>1. CASE acks'[x] = acks[x]
      BY <2>1
    <2>2. CASE acks'[x] = <<>>
      BY <2>2
    <2> QED
      BY <2>1, <2>2
  <1>8. NothingUnissued'
    BY <1>1, <1>2, <1>4, <1>7 DEF NothingUnissued
  <1>9. SeenIsDone'
    <2> SUFFICES ASSUME NEW x \in Sessions, NEW n \in Seqs
                 PROVE  /\ Seen(windows[x], x, n) => applied[x][n] >= 1 \/ n \notin pending[x]
                        /\ \A i \in 1..Len(acks'[x]) :
                             acks'[x][i].ok /\ acks'[x][i].seq = n =>
                               applied[x][n] >= 1 \/ n \notin pending[x]
      BY <1>2 DEF SeenIsDone
    <2>1. ASSUME NEW i \in 1..Len(acks'[x]), acks'[x][i].ok, acks'[x][i].seq = n
          PROVE  applied[x][n] >= 1 \/ n \notin pending[x]
      BY <1>1, <1>7, <2>1 DEF SeenIsDone
    <2> QED
      BY <1>1, <2>1 DEF SeenIsDone
  <1> QED
    BY <1>3, <1>5, <1>6, <1>8, <1>9 DEF Inv

\* A lost connection keeps a prefix of its requests.
LEMMA DisconnectShape ==
  ASSUME TypeOK, NEW s \in Sessions, conn[s] # 0, Disconnect(s)
  PROVE  /\ conn' \in [Sessions -> 0..MaxConns]
         /\ \A x \in Sessions : conn'[x] = IF x = s THEN 0 ELSE conn[x]
         /\ requests' \in [Sessions -> [Conns -> Seq(Request)]]
         /\ \A x \in Sessions : x # s => requests'[x] = requests[x]
         /\ \A x \in Sessions, d \in Conns : \A i \in 1..Len(requests'[x][d]) :
              i \in 1..Len(requests[x][d]) /\ requests'[x][d][i] = requests[x][d][i]
         /\ \A x \in Sessions, d \in Conns : \A i \in 1..Len(requests'[x][d]) :
              \E j \in 1..Len(requests[x][d]) : requests'[x][d][i] = requests[x][d][j]
         /\ \A x \in Sessions : acks'[x] \in {acks[x], <<>>}
         /\ acks' \in [Sessions -> Seq(Ack)]
  <1> DEFINE c == conn[s]
             q == requests[s][c]
  <1>1. c \in Conns /\ q \in Seq(Request)
    BY BoundAssumption DEF TypeOK, Conns
  <1>2. PICK k \in 0..Len(q) : requests' = [requests EXCEPT ![s][c] = SubSeq(@, 1, k)]
    BY DEF Disconnect
  <1> HIDE DEF q, c
  <1>3. SubSeq(q, 1, k) \in Seq(Request) /\ Len(SubSeq(q, 1, k)) = k
        /\ \A i \in 1..k : SubSeq(q, 1, k)[i] = q[i]
    BY <1>1, <1>2, SubSeqProperties
  <1>4. requests' = [requests EXCEPT ![s][c] = SubSeq(q, 1, k)]
    BY <1>2 DEF q
  <1>5. requests' \in [Sessions -> [Conns -> Seq(Request)]]
    BY <1>1, <1>3, <1>4 DEF TypeOK
  <1>6. ASSUME NEW x \in Sessions, NEW d \in Conns, NEW i \in 1..Len(requests'[x][d])
        PROVE  i \in 1..Len(requests[x][d]) /\ requests'[x][d][i] = requests[x][d][i]
    <2>1. CASE x = s /\ d = c
      <3>1. requests'[x][d] = SubSeq(q, 1, k)
        BY <1>1, <1>4, <2>1 DEF TypeOK
      <3>2. i \in 1..k /\ i \in 1..Len(q)
        BY <1>1, <1>2, <1>3, <3>1
      <3> QED
        BY <1>3, <2>1, <3>1, <3>2 DEF q
    <2>2. CASE ~(x = s /\ d = c)
      BY <1>1, <1>4, <2>2 DEF TypeOK
    <2> QED
      BY <2>1, <2>2
  <1>7. /\ conn' \in [Sessions -> 0..MaxConns] /\ acks' \in [Sessions -> Seq(Ack)]
        /\ \A x \in Sessions : acks'[x] \in {acks[x], <<>>}
        /\ \A x \in Sessions : conn'[x] = IF x = s THEN 0 ELSE conn[x]
    BY BoundAssumption DEF Disconnect, TypeOK
  <1>8. \A x \in Sessions : x # s => requests'[x] = requests[x]
    BY <1>1, <1>4 DEF TypeOK
  <1> QED
    BY <1>5, <1>6, <1>7, <1>8

\* A dropped connection takes its messages along and leaves the unsettled
\* writes.
LEMMA DropStep ==
  ASSUME Inv, NEW s \in Sessions, Drop(s)
  PROVE  Inv'
  <1>1. TypeOK
    BY DEF Inv
  <1>2. /\ conn[s] # 0 /\ Disconnect(s)
        /\ UNCHANGED <<clientVars, dials, registryVars, applied, refused, restarts>>
    BY DEF Drop
  <1>3. /\ UNCHANGED <<clientVars, windows, known, older, applied, refused>>
        /\ forgotten \subseteq forgotten' /\ forgotten' \subseteq Sessions
        /\ restarts' \in 0..MaxRestarts /\ dials' \in [Sessions -> 0..MaxConns]
    BY <1>1, <1>2 DEF TypeOK, registryVars
  <1> QED
    BY <1>1, <1>2, <1>3, DisconnectShape, ConnectionStep

\* A redial replays the unsettled writes only.
LEMMA RedialStep ==
  ASSUME Inv, NEW s \in Sessions, Redial(s)
  PROVE  Inv'
  <1> DEFINE N == Cardinality(pending[s])
             c == dials[s] + 1
  <1>1. TypeOK
    BY DEF Inv
  <1>2. /\ c \in Conns /\ c \in 0..MaxConns /\ pending[s] \subseteq Seqs
        /\ ackedThrough[s] \in 0..MaxSeq
    BY <1>1, BoundAssumption DEF Redial, TypeOK, Conns
  <1>3. N \in Nat
    <2>1. IsFiniteSet(Seqs)
      BY BoundAssumption, FS_Interval DEF Seqs
    <2> QED
      BY <1>2, <2>1, FS_Subset, FS_CardinalityType
  <1>4. PICK order \in Ascending(pending[s]) :
          requests' = [requests EXCEPT ![s][c] = [i \in 1..N |-> RequestFor(s, order[i])]]
    BY DEF Redial
  <1>5. order \in [1..N -> pending[s]]
    BY <1>4 DEF Ascending
  <1> DEFINE q == [i \in 1..N |-> RequestFor(s, order[i])]
  <1>6. requests' = [requests EXCEPT ![s][c] = q]
    BY <1>4
  <1> HIDE DEF N
  <1>7. \A i \in 1..N : q[i] \in Request
    BY <1>2, <1>5 DEF RequestFor, Request
  <1>8. q \in Seq(Request) /\ Len(q) = N
    BY <1>3, <1>7
  <1>9. \A i \in 1..Len(q) : \E n \in pending[s] : q[i] = RequestFor(s, n)
    BY <1>3, <1>5, <1>8
  <1> HIDE DEF q, c
  <1>10. requests' \in [Sessions -> [Conns -> Seq(Request)]]
    BY <1>1, <1>2, <1>6, <1>8 DEF TypeOK
  <1>11. \A x \in Sessions, d \in Conns :
           requests'[x][d] = IF x = s /\ d = c THEN q ELSE requests[x][d]
    BY <1>1, <1>2, <1>6 DEF TypeOK
  <1>12. \A x \in Sessions, d \in Conns : \A i \in 1..Len(requests'[x][d]) :
           \/ \E j \in 1..Len(requests[x][d]) : requests'[x][d][i] = requests[x][d][j]
           \/ \E n \in pending[x] : requests'[x][d][i] = RequestFor(x, n)
    BY <1>9, <1>11
  <1>13. conn' \in [Sessions -> 0..MaxConns] /\ dials' \in [Sessions -> 0..MaxConns]
    BY <1>1, <1>2 DEF Redial, TypeOK, c
  <1>14. /\ UNCHANGED <<clientVars, windows, known, older, applied, refused>>
         /\ forgotten \subseteq forgotten' /\ forgotten' \subseteq Sessions
         /\ restarts' \in 0..MaxRestarts
         /\ acks' \in [Sessions -> Seq(Ack)]
         /\ \A x \in Sessions : acks'[x] \in {acks[x], <<>>}
    BY <1>1 DEF Redial, TypeOK, registryVars
  <1> QED
    BY <1>10, <1>12, <1>13, <1>14, ConnectionStep

\* Closing a session ends its writes; copies under way stay harmless.
LEMMA CloseStep ==
  ASSUME Inv, NEW s \in Sessions, Close(s)
  PROVE  Inv'
  <1>1. /\ TypeOK /\ MarksAreResolved /\ NothingUnissued /\ PendingIsOpen /\ SeenIsDone
        /\ AckedIsApplied
    BY DEF Inv
  <1>2. /\ UNCHANGED <<writeSeq, ackedThrough, resolvedAhead, dials>>
        /\ UNCHANGED <<registryVars, applied, refused, restarts>>
        /\ closed' = [closed EXCEPT ![s] = TRUE]
    BY DEF Close
  <1>3. /\ pending' = [pending EXCEPT ![s] = {}]
        /\ outcome' = [outcome EXCEPT ![s] =
                         [n \in Seqs |-> IF n \in pending[s] THEN "closed" ELSE @[n]]]
    BY DEF Close
  <1>4. /\ \A x \in Sessions : pending'[x] = IF x = s THEN {} ELSE pending[x]
        /\ \A x \in Sessions, n \in Seqs : outcome'[x][n] =
             IF x = s /\ n \in pending[s] THEN "closed" ELSE outcome[x][n]
    BY <1>1, <1>3 DEF TypeOK
  <1>5. /\ conn' \in [Sessions -> 0..MaxConns]
        /\ requests' \in [Sessions -> [Conns -> Seq(Request)]]
        /\ \A x \in Sessions, d \in Conns : \A i \in 1..Len(requests'[x][d]) :
             \E j \in 1..Len(requests[x][d]) : requests'[x][d][i] = requests[x][d][j]
        /\ \A x \in Sessions : acks'[x] \in {acks[x], <<>>}
        /\ acks' \in [Sessions -> Seq(Ack)]
    <2>1. CASE conn[s] # 0
      <3>1. Disconnect(s)
        BY <2>1 DEF Close
      <3> QED
        BY <1>1, <2>1, <3>1, DisconnectShape
    <2>2. CASE conn[s] = 0
      BY <1>1, <2>2 DEF Close, TypeOK
    <2> QED
      BY <2>1, <2>2
  <1>6. TypeOK'
    <2>1. outcome' \in [Sessions -> [Seqs -> {"none", "ok", "rejected", "closed"}]]
      <3>1. [n \in Seqs |-> IF n \in pending[s] THEN "closed" ELSE outcome[s][n]]
              \in [Seqs -> {"none", "ok", "rejected", "closed"}]
        BY <1>1 DEF TypeOK
      <3> QED
        BY <1>1, <1>3, <3>1 DEF TypeOK
    <2>2. pending' \in [Sessions -> SUBSET Seqs] /\ closed' \in [Sessions -> BOOLEAN]
      BY <1>1, <1>2, <1>3 DEF TypeOK
    <2> QED
      BY <1>1, <1>2, <1>5, <2>1, <2>2, RegistryFrame DEF TypeOK
  <1>7. PendingIsOpen'
    <2> SUFFICES ASSUME NEW x \in Sessions, NEW n \in Seqs
                 PROVE  n \in pending'[x] <=> n <= writeSeq[x] /\ outcome'[x][n] = "none"
      BY <1>2 DEF PendingIsOpen
    <2>1. n \in pending[x] <=> n <= writeSeq[x] /\ outcome[x][n] = "none"
      BY <1>1 DEF PendingIsOpen
    <2> QED
      BY <1>4, <2>1
  <1>8. ASSUME NEW x \in Sessions, NEW d \in Conns, NEW i \in 1..Len(requests'[x][d])
        PROVE  /\ requests'[x][d][i].ackedThrough <= ackedThrough[x]
               /\ requests'[x][d][i].seq <= writeSeq[x]
    <2>1. PICK j \in 1..Len(requests[x][d]) : requests'[x][d][i] = requests[x][d][j]
      BY <1>5
    <2> QED
      BY <1>1, <2>1 DEF MarksAreResolved, NothingUnissued
  <1>9. ASSUME NEW x \in Sessions, NEW i \in 1..Len(acks'[x])
        PROVE  i \in 1..Len(acks[x]) /\ acks'[x][i] = acks[x][i]
    <2>1. CASE acks'[x] = acks[x]
      BY <2>1
    <2>2. CASE acks'[x] = <<>>
      BY <2>2
    <2> QED
      BY <1>5, <2>1, <2>2
  <1>10. MarksAreResolved'
    BY <1>1, <1>2, <1>4, <1>8 DEF MarksAreResolved, registryVars
  <1>11. NothingUnissued'
    <2>1. \A x \in Sessions, n \in Seqs : n > writeSeq[x] => outcome'[x][n] = "none"
      <3> SUFFICES ASSUME NEW x \in Sessions, NEW n \in Seqs, n > writeSeq[x]
                   PROVE  outcome'[x][n] = "none"
        OBVIOUS
      <3>1. writeSeq[x] \in 0..MaxSeq
        BY <1>1 DEF TypeOK
      <3>2. n \notin pending[x]
        BY <1>1, <3>1, BoundAssumption DEF PendingIsOpen, Seqs
      <3> QED
        BY <1>1, <1>4, <3>2 DEF NothingUnissued
    <2> QED
      BY <1>1, <1>2, <1>8, <1>9, <2>1, SMTT(30) DEF NothingUnissued, registryVars
  <1>12. SeenIsDone'
    BY <1>1, <1>2, <1>4, <1>9 DEF SeenIsDone, registryVars
  <1>13. AckedIsApplied'
    BY <1>1, <1>2, <1>4 DEF AckedIsApplied
  <1> QED
    BY <1>2, <1>6, <1>7, <1>10, <1>11, <1>12, <1>13, RegistryFrame DEF Inv

\* A restart goes back to what was saved.
LEMMA RestartStep ==
  ASSUME Inv, Restart
  PROVE  Inv'
  <1>1. /\ TypeOK /\ MarksAreResolved /\ NothingUnissued /\ PendingIsOpen /\ SeenIsDone
        /\ AppliedIsRemembered /\ AppliedAtMostOnce /\ AckedIsApplied
    BY DEF Inv
  <1>2. /\ restarts < MaxRestarts /\ restarts' = restarts + 1
        /\ windows' = [s \in Sessions |-> NewWindow]
        /\ known' = {} /\ older' = {}
        /\ forgotten' = forgotten \cup known
        /\ conn' = [s \in Sessions |-> 0]
        /\ requests' = [s \in Sessions |-> [c \in Conns |-> <<>>]]
        /\ acks' = [s \in Sessions |-> <<>>]
        /\ UNCHANGED <<dials, applied, refused>>
    BY DEF Restart
  <1>3. UNCHANGED <<writeSeq, pending, ackedThrough, resolvedAhead, outcome, closed>>
    BY DEF Restart, clientVars
  <1>4. /\ NewWindow \in Window /\ NewWindow.lowWater = 0
        /\ \A s \in Sessions, n \in Seqs : ~Seen(NewWindow, s, n)
    BY BoundAssumption DEF NewWindow, Window, Seen, Seqs
  <1>5. TypeOK'
    BY <1>1, <1>2, <1>3, <1>4, BoundAssumption DEF TypeOK
  <1>6. PendingIsOpen' /\ AckedIsApplied'
    BY <1>1, <1>2, <1>3 DEF PendingIsOpen, AckedIsApplied
  <1>7. /\ \A x \in Sessions : acks'[x] = <<>> /\ windows'[x] = NewWindow
        /\ \A x \in Sessions, d \in Conns : requests'[x][d] = <<>>
    BY <1>2
  <1>8. MarksAreResolved'
    <2>1. \A x \in Sessions : 0 <= ackedThrough[x]
      BY <1>1 DEF TypeOK
    <2> QED
      BY <1>1, <1>3, <1>4, <1>7, <2>1 DEF MarksAreResolved
  <1>9. NothingUnissued'
    BY <1>1, <1>3, <1>4, <1>7 DEF NothingUnissued
  <1>10. SeenIsDone'
    BY <1>1, <1>2, <1>3, <1>4, <1>7 DEF SeenIsDone
  <1>11. AppliedIsRemembered' /\ AppliedAtMostOnce'
    <2>1. ASSUME NEW s \in Sessions \ forgotten', NEW n \in Seqs
          PROVE  applied[s][n] <= 1 /\ ~(applied[s][n] >= 1)
      <3>1. s \notin forgotten /\ windows[s] = NewWindow
        BY <1>1, <1>2 DEF AppliedIsRemembered
      <3> QED
        BY <1>1, <1>4, <3>1 DEF AppliedIsRemembered, AppliedAtMostOnce
    <2> QED
      BY <1>2, <1>7, <2>1 DEF AppliedIsRemembered, AppliedAtMostOnce
  <1> QED
    BY <1>5, <1>6, <1>8, <1>9, <1>10, <1>11 DEF Inv

(***************************************************************************)
(* The theorems.                                                           *)
(***************************************************************************)

\* The initial state satisfies the inductive invariant.
LEMMA InitInv == Init => Inv
  <1> SUFFICES ASSUME Init PROVE Inv
    OBVIOUS
  <1>1. /\ NewWindow \in Window /\ NewWindow.lowWater = 0
        /\ \A s \in Sessions, n \in Seqs : ~Seen(NewWindow, s, n)
    BY BoundAssumption DEF NewWindow, Window, Seen, Seqs
  <1>2. TypeOK
    BY <1>1, BoundAssumption DEF Init, TypeOK
  <1>3. PendingIsOpen
    BY BoundAssumption DEF Init, PendingIsOpen, Seqs
  <1>4. MarksAreResolved /\ NothingUnissued /\ AppliedIsRemembered
    BY <1>1 DEF Init, MarksAreResolved, NothingUnissued, AppliedIsRemembered
  <1>5. SeenIsDone /\ AppliedAtMostOnce /\ AckedIsApplied
    BY <1>1 DEF Init, SeenIsDone, AppliedAtMostOnce, AckedIsApplied
  <1> QED
    BY <1>2, <1>3, <1>4, <1>5 DEF Inv

\* Every step keeps the inductive invariant, when send() does not throw.
LEMMA NextInv == ~SendMayThrow /\ Inv /\ [Next]_vars => Inv'
  <1> SUFFICES ASSUME ~SendMayThrow, Inv, [Next]_vars
               PROVE  Inv'
    OBVIOUS
  <1>1. CASE Next
    BY <1>1, MutateStep, ReceiveAckStep, DropStep, RedialStep, CloseStep,
       HostMutatePreservesInv, RestartStep DEF Next
  <1>2. CASE UNCHANGED vars
    BY <1>2 DEF vars, clientVars, wireVars, registryVars, Inv, TypeOK, PendingIsOpen,
       MarksAreResolved, NothingUnissued, AppliedIsRemembered, SeenIsDone,
       AppliedAtMostOnce, AckedIsApplied
  <1> QED
    BY <1>1, <1>2

\* If no listener or fan-out send throws, the inductive invariant holds in
\* every reachable state, for any number of sessions, writes, connections,
\* restarts and any capacity.
THEOREM Invariance == ~SendMayThrow => (Spec => []Inv)
  <1> SUFFICES ASSUME ~SendMayThrow PROVE Spec => []Inv
    OBVIOUS
  <1>1. Init => Inv
    BY InitInv
  <1>2. Inv /\ [Next]_vars => Inv'
    BY NextInv
  <1> QED
    BY <1>1, <1>2, PTL DEF Spec

\* dedup.ts: no replay, late copy or lost ack ever applies a write twice, as
\* long as the registry did not forget its session.
THEOREM AtMostOnceHolds == ~SendMayThrow => (Spec => []AppliedAtMostOnce)
  <1>1. Inv => AppliedAtMostOnce
    BY DEF Inv
  <1> QED
    BY <1>1, Invariance, PTL

\* client.ts: a mutate() promise only resolves for a write that was applied.
THEOREM AckedIsAppliedHolds == ~SendMayThrow => (Spec => []AckedIsApplied)
  <1>1. Inv => AckedIsApplied
    BY DEF Inv
  <1> QED
    BY <1>1, Invariance, PTL

(***************************************************************************)
(* The refinement: under Inv every step of the write path is a step of     *)
(* AtMostOnce or leaves its variables alone.                               *)
(***************************************************************************)

\* Only ApplyWrite changes the graph, and it applies an issued write that did
\* not run before or whose session was forgotten.
LEMMA HostMutateRefines ==
  ASSUME Inv, ~SendMayThrow, NEW s \in Sessions, NEW c \in Conns, HostMutate(s, c)
  PROVE  [Promise!Next]_Promise!vars
  <1> DEFINE n == Message(s, c).seq
             d == Drained(s, c)
  <1>1. UNCHANGED <<writeSeq, outcome>> /\ Incoming(s, c)
    BY DEF HostMutate, ReAck, RefuseFull, ApplyFails, ApplyWrite, ApplyTorn, Fresh,
       Answer, clientVars
  <1>2. TypeOK /\ AppliedIsRemembered
    BY DEF Inv
  <1>3. Oldest(s) \subseteq Sessions
    BY <1>2 DEF Oldest, TypeOK
  <1>4. CASE ReAck(s, c)
    BY <1>1, <1>4 DEF ReAck, Promise!vars
  <1>5. CASE RefuseFull(s, c) \/ ApplyFails(s, c)
    <2>1. forgotten' = forgotten \cup Oldest(s) /\ UNCHANGED applied
      BY <1>5 DEF RefuseFull, ApplyFails, Touch
    <2>2. Promise!Forget(Oldest(s))
      BY <1>1, <2>1 DEF Promise!Forget
    <2> QED
      BY <1>3, <2>2 DEF Promise!Next
  <1>6. CASE ApplyWrite(s, c)
    <2> DEFINE lost == Oldest(s) \cup (IF Evicts(d, s, n) THEN {s} ELSE {})
    <2>1. /\ ~Seen(d, s, n)
          /\ applied' = [applied EXCEPT ![s][n] = @ + 1]
          /\ forgotten' = forgotten \cup lost
      BY <1>6 DEF ApplyWrite, Apply, Touch, Fresh
    <2>2. lost \in SUBSET Sessions
      BY <1>3
    <2>3. n \in 1..MaxSeq /\ n <= writeSeq[s] /\ ~Seen(windows[s], s, n)
      BY <1>1, <2>1, DrainedWindow DEF Request, Seqs
    <2> HIDE DEF n, lost
    <2>4. applied[s][n] = 0 \/ s \in forgotten
      <3>1. applied[s][n] \in Nat
        <4>1. applied \in [Sessions -> [1..MaxSeq -> Nat]]
          BY <1>2 DEF TypeOK, Seqs
        <4> QED
          BY <2>3, <4>1
      <3>2. s \in forgotten \/ ~(applied[s][n] >= 1)
        BY <1>2, <2>3 DEF AppliedIsRemembered, Seqs
      <3> QED
        BY <3>1, <3>2
    <2>5. Promise!Apply(s, n)
      BY <1>1, <2>1, <2>2, <2>3, <2>4 DEF Promise!Apply
    <2> QED
      BY <2>3, <2>5 DEF Promise!Next
  <1> QED
    BY <1>4, <1>5, <1>6 DEF HostMutate, ApplyTorn

\* The first answer to a write settles its promise; a later one changes nothing.
LEMMA ReceiveAckRefines ==
  ASSUME Inv, NEW s \in Sessions, ReceiveAck(s)
  PROVE  [Promise!Next]_Promise!vars
  <1> DEFINE ack == Head(acks[s])
             result == IF ack.ok THEN "ok" ELSE "rejected"
  <1>1. UNCHANGED <<writeSeq, applied, forgotten>> /\ acks[s] # <<>>
    BY DEF ReceiveAck, registryVars
  <1>2. ack \in Ack /\ 1 \in 1..Len(acks[s]) /\ ack = acks[s][1]
    BY <1>1 DEF Inv, TypeOK
  <1>3. CASE ack.seq \notin pending[s]
    BY <1>1, <1>3 DEF ReceiveAck, Promise!vars
  <1>4. CASE ack.seq \in pending[s]
    <2>1. outcome' = [outcome EXCEPT ![s][ack.seq] = result]
      BY <1>4 DEF ReceiveAck
    <2>2. ack.seq \in 1..MaxSeq /\ result \in {"ok", "rejected"}
      BY <1>2 DEF Ack, Seqs
    <2>3. ack.seq <= writeSeq[s] /\ outcome[s][ack.seq] = "none"
      BY <1>4, <2>2 DEF Inv, PendingIsOpen, Seqs
    <2>4. result = "ok" => applied[s][ack.seq] >= 1
      BY <1>2, <1>4, <2>2 DEF Inv, SeenIsDone, Seqs
    <2> HIDE DEF ack, result
    <2>5. Promise!Settle(s, ack.seq, result)
      BY <1>1, <2>1, <2>3, <2>4 DEF Promise!Settle
    <2> QED
      BY <2>2, <2>5 DEF Promise!Next
  <1> QED
    BY <1>3, <1>4

\* Closing a session is a step of the promise, or none.
LEMMA CloseRefines ==
  ASSUME Inv, NEW s \in Sessions, Close(s)
  PROVE  [Promise!Next]_Promise!vars
  <1>1. UNCHANGED <<writeSeq, applied, forgotten>>
    BY DEF Close, registryVars
  <1>2. outcome' = [outcome EXCEPT ![s] =
                      [n \in 1..MaxSeq |-> IF n \in pending[s] THEN "closed" ELSE @[n]]]
    BY DEF Close, Seqs
  <1>3. \A n \in 1..MaxSeq :
          n \in pending[s] <=> outcome[s][n] = "none" /\ n <= writeSeq[s]
    BY DEF Inv, PendingIsOpen, Seqs
  <1>4. [n \in 1..MaxSeq |-> IF n \in pending[s] THEN "closed" ELSE outcome[s][n]]
          = [n \in 1..MaxSeq |-> IF outcome[s][n] = "none" /\ n <= writeSeq[s]
                                 THEN "closed" ELSE outcome[s][n]]
    BY <1>3
  <1>5. Promise!Close(s)
    BY <1>1, <1>2, <1>4 DEF Promise!Close
  <1> QED
    BY <1>5 DEF Promise!Next

\* Every step of the write path is a step of the promise, or none.
LEMMA NextRefines == ~SendMayThrow /\ Inv /\ [Next]_vars => [Promise!Next]_Promise!vars
  <1> SUFFICES ASSUME ~SendMayThrow, Inv, [Next]_vars
               PROVE  [Promise!Next]_Promise!vars
    OBVIOUS
  <1>1. ASSUME NEW s \in Sessions, Mutate(s)
        PROVE  [Promise!Next]_Promise!vars
    <2>1. Promise!Issue(s)
      BY <1>1 DEF Mutate, Promise!Issue, registryVars
    <2> QED
      BY <2>1 DEF Promise!Next
  <1>2. ASSUME NEW s \in Sessions, Drop(s) \/ Redial(s)
        PROVE  [Promise!Next]_Promise!vars
    BY <1>2 DEF Drop, Redial, clientVars, registryVars, Promise!vars
  <1>3. ASSUME Restart
        PROVE  [Promise!Next]_Promise!vars
    <2>1. known \in SUBSET Sessions
      BY DEF Inv, TypeOK
    <2>2. Promise!Forget(known)
      BY <1>3 DEF Restart, clientVars, Promise!Forget
    <2> QED
      BY <2>1, <2>2 DEF Promise!Next
  <1>4. CASE UNCHANGED vars
    BY <1>4 DEF vars, clientVars, registryVars, Promise!vars
  <1> QED
    BY <1>1, <1>2, <1>3, <1>4, HostMutateRefines, ReceiveAckRefines, CloseRefines DEF Next

\* The write path, with its drops, replays, late copies, LRU and restarts,
\* implements the promise it makes to the application.
THEOREM Refinement == ~SendMayThrow => (Spec => ImplementsAtMostOnce)
  <1> SUFFICES ASSUME ~SendMayThrow PROVE Spec => ImplementsAtMostOnce
    OBVIOUS
  <1>1. Init => Promise!Init
    BY DEF Init, Promise!Init, Seqs
  <1>2. Inv /\ [Next]_vars => [Promise!Next]_Promise!vars
    BY NextRefines
  <1>3. Spec => []Inv
    BY Invariance
  <1> QED
    BY <1>1, <1>2, <1>3, PTL DEF Spec, ImplementsAtMostOnce, Promise!Spec

(***************************************************************************)
(* What holds whether or not a listener or a fan-out send throws.  First   *)
(* the shape of the steps, from the types alone.                           *)
(***************************************************************************)
Base == TypeOK /\ UnknownIsNew

\* A path through mutate() that drains the window of s, touches the registry
\* or leaves it be, and answers, keeps the types.
LEMMA AnswerShape ==
  ASSUME Base, NEW s \in Sessions, NEW c \in Conns, Incoming(s, c),
         NEW ok \in BOOLEAN, Answer(s, c, ok)
  PROVE  /\ Message(s, c) \in Request
         /\ Message(s, c) = requests[s][c][1]
         /\ requests[s][c] \in Seq(Request) /\ requests[s][c] # <<>>
         /\ UNCHANGED <<clientVars, conn, dials, restarts>>
         /\ requests' \in [Sessions -> [Conns -> Seq(Request)]]
         /\ \A x \in Sessions, d \in Conns :
              requests'[x][d] = IF x = s /\ d = c THEN Tail(requests[x][d])
                                ELSE requests[x][d]
         /\ acks' \in [Sessions -> Seq(Ack)]
         /\ \A x \in Sessions : \A i \in 1..Len(acks'[x]) :
              \/ i \in 1..Len(acks[x]) /\ acks'[x][i] = acks[x][i]
              \/ x = s /\ acks'[x][i].seq = Message(s, c).seq
  <1> DEFINE m == Message(s, c)
             ack == [seq |-> m.seq, ok |-> ok]
  <1>1. TypeOK
    BY DEF Base
  <1>2. /\ m \in Request
        /\ requests[s][c] \in Seq(Request) /\ requests[s][c] # <<>>
        /\ m = requests[s][c][1]
    BY <1>1 DEF TypeOK, Incoming, Message
  <1>3. UNCHANGED <<clientVars, conn, dials, restarts>>
    BY DEF Answer
  <1>4. /\ requests' \in [Sessions -> [Conns -> Seq(Request)]]
        /\ \A x \in Sessions, d \in Conns :
              requests'[x][d] = IF x = s /\ d = c THEN Tail(requests[x][d])
                                ELSE requests[x][d]
    <2>1. requests \in [Sessions -> [Conns -> Seq(Request)]]
      BY <1>1 DEF TypeOK
    <2>2. requests' = [requests EXCEPT ![s][c] = Tail(@)]
      BY DEF Answer
    <2>3. Tail(requests[s][c]) \in Seq(Request)
      BY <1>2
    <2>4. requests' \in [Sessions -> [Conns -> Seq(Request)]]
      BY <2>1, <2>2, <2>3
    <2>5. \A x \in Sessions, d \in Conns :
            requests'[x][d] = IF x = s /\ d = c THEN Tail(requests[x][d])
                              ELSE requests[x][d]
      BY <2>1, <2>2
    <2> QED
      BY <2>4, <2>5
  <1>5. ack \in Ack
    BY <1>2 DEF Ack, Request
  <1>6. acks' \in [Sessions -> Seq(Ack)]
    BY <1>1, <1>5 DEF Answer, TypeOK
  <1>7. \A x \in Sessions : \A i \in 1..Len(acks'[x]) :
          \/ i \in 1..Len(acks[x]) /\ acks'[x][i] = acks[x][i]
          \/ x = s /\ acks'[x][i].seq = m.seq
    BY <1>1, <1>5 DEF Answer, TypeOK
  <1> QED
    BY <1>2, <1>3, <1>4, <1>6, <1>7

\* The window of an incoming message, drained, from the types alone.
LEMMA DrainedShape ==
  ASSUME TypeOK, NEW s \in Sessions, NEW c \in Conns, Message(s, c) \in Request
  PROVE  /\ windows[s] \in Window
         /\ Message(s, c).seq \in Seqs /\ Message(s, c).ackedThrough \in 0..MaxSeq
         /\ Drained(s, c) \in Window
         /\ Drained(s, c).lowWater \in {windows[s].lowWater, Message(s, c).ackedThrough}
         /\ s \notin known => Drained(s, c) = windows[s]
         /\ \A n \in Seqs : Seen(Drained(s, c), s, n) =>
              Seen(windows[s], s, n) \/ n <= Message(s, c).ackedThrough
  <1>1. windows[s] \in Window /\ Message(s, c).ackedThrough \in 0..MaxSeq
        /\ Message(s, c).seq \in Seqs
    BY DEF TypeOK, Request
  <1> QED
    BY <1>1, DrainWindow DEF Drained

\* What mutate() of a host does to the registry and the graph: the window of
\* s is drained, and marked only when there is room and the write was
\* applied; no other session gains anything; the write of the message ends up
\* seen, applied or refused.
HostEffect(s, c) ==
  LET n == Message(s, c).seq
      d == Drained(s, c)
  IN  /\ \A x \in Sessions :
           \/ windows'[x] \in {windows[x], NewWindow}
           \/ x = s /\ windows'[x] = d
           \/ x = s /\ windows'[x] = Mark(d, s, n) /\ HasRoom(s, c) /\ applied'[s][n] >= 1
      /\ \A x \in Sessions, k \in Seqs :
           \/ applied'[x][k] = applied[x][k]
           \/ x = s /\ k = n /\ applied'[x][k] = applied[x][k] + 1
      /\ \A x \in Sessions : refused[x] \subseteq refused'[x]
      /\ Seen(d, s, n) \/ applied'[s][n] >= 1 \/ n \in refused'[s]

\* A duplicate changes nothing but the low-water mark.
LEMMA ReAckShape ==
  ASSUME Base, NEW s \in Sessions, NEW c \in Conns, ReAck(s, c)
  PROVE  Base' /\ HostEffect(s, c)
  <1>1. Incoming(s, c) /\ Answer(s, c, TRUE) /\ Seen(Drained(s, c), s, Message(s, c).seq)
        /\ windows' = [windows EXCEPT ![s] = Drained(s, c)]
        /\ UNCHANGED <<known, older, forgotten, applied, refused>>
    BY DEF ReAck
  <1>2. TypeOK /\ UnknownIsNew
    BY DEF Base
  <1>3. Message(s, c) \in Request /\ UNCHANGED <<clientVars, conn, dials, restarts>>
        /\ requests' \in [Sessions -> [Conns -> Seq(Request)]]
        /\ acks' \in [Sessions -> Seq(Ack)]
    BY <1>1, AnswerShape
  <1>4. /\ Drained(s, c) \in Window
        /\ s \notin known => Drained(s, c) = windows[s]
    BY <1>2, <1>3, DrainedShape
  <1>5. windows' \in [Sessions -> Window] /\ windows'[s] = Drained(s, c)
        /\ \A x \in Sessions \ {s} : windows'[x] = windows[x]
    BY <1>1, <1>2, <1>4 DEF TypeOK
  <1>6. TypeOK'
    BY <1>1, <1>2, <1>3, <1>5 DEF TypeOK, clientVars
  <1>7. UnknownIsNew'
    BY <1>1, <1>2, <1>4, <1>5 DEF UnknownIsNew
  <1>8. HostEffect(s, c)
    BY <1>1, <1>5 DEF HostEffect
  <1> QED
    BY <1>6, <1>7, <1>8 DEF Base

\* The other paths touch the registry; one of them marks the write.
LEMMA TouchShape ==
  ASSUME Base, NEW s \in Sessions, NEW c \in Conns, Incoming(s, c),
         NEW ok \in BOOLEAN, Answer(s, c, ok),
         NEW w \in Window, NEW lost \in SUBSET Sessions, Touch(s, w, lost),
         \/ w = Drained(s, c)
         \/ /\ w = Mark(Drained(s, c), s, Message(s, c).seq) /\ HasRoom(s, c)
            /\ Apply(s, Message(s, c).seq),
         Apply(s, Message(s, c).seq) \/ UNCHANGED applied,
         Refuse(s, Message(s, c).seq) \/ UNCHANGED refused,
         Apply(s, Message(s, c).seq) \/ Refuse(s, Message(s, c).seq)
  PROVE  Base' /\ HostEffect(s, c)
  <1> DEFINE n == Message(s, c).seq
  <1>1. TypeOK /\ UnknownIsNew
    BY DEF Base
  <1>2. n \in Seqs /\ UNCHANGED <<clientVars, conn, dials, restarts>>
        /\ requests' \in [Sessions -> [Conns -> Seq(Request)]]
        /\ acks' \in [Sessions -> Seq(Ack)]
    <2>1. Message(s, c) \in Request
      BY AnswerShape
    <2>2. n \in Seqs
      BY <2>1 DEF Request
    <2> QED
      BY <2>2, AnswerShape
  <1>3. /\ windows' \in [Sessions -> Window]
        /\ windows'[s] = w
        /\ \A x \in Sessions \ {s} : windows'[x] \in {windows[x], NewWindow}
        /\ \A x \in Sessions \ known' : windows'[x] = NewWindow
        /\ known' \subseteq Sessions
        /\ older' \subseteq Sessions \X Sessions
        /\ forgotten' \subseteq Sessions
    BY <1>1, TouchRegistry
  <1>4. /\ applied' \in [Sessions -> [Seqs -> Nat]]
        /\ \A x \in Sessions, k \in Seqs :
             \/ applied'[x][k] = applied[x][k]
             \/ x = s /\ k = n /\ applied'[x][k] = applied[x][k] + 1
        /\ Apply(s, n) => applied'[s][n] >= 1
    <2>1. applied \in [Sessions -> [Seqs -> Nat]] /\ applied[s][n] \in Nat
      BY <1>1, <1>2 DEF TypeOK
    <2> HIDE DEF n
    <2>2. CASE Apply(s, n)
      BY <1>2, <2>1, <2>2 DEF Apply
    <2>3. CASE ~Apply(s, n)
      BY <2>1, <2>3 DEF n
    <2> QED
      BY <2>2, <2>3
  <1>5. /\ refused' \in [Sessions -> SUBSET Seqs]
        /\ \A x \in Sessions : refused[x] \subseteq refused'[x]
        /\ Refuse(s, n) => n \in refused'[s]
    <2>1. refused \in [Sessions -> SUBSET Seqs]
      BY <1>1 DEF TypeOK
    <2> HIDE DEF n
    <2>2. CASE Refuse(s, n)
      BY <1>2, <2>1, <2>2 DEF Refuse
    <2>3. CASE ~Refuse(s, n)
      BY <2>1, <2>3 DEF n
    <2> QED
      BY <2>2, <2>3
  <1>6. TypeOK'
    BY <1>1, <1>2, <1>3, <1>4, <1>5 DEF TypeOK, clientVars
  <1>7. UnknownIsNew'
    BY <1>3 DEF UnknownIsNew
  <1>8. \A x \in Sessions :
           \/ windows'[x] \in {windows[x], NewWindow}
           \/ x = s /\ windows'[x] = Drained(s, c)
           \/ /\ x = s /\ windows'[x] = Mark(Drained(s, c), s, n)
              /\ HasRoom(s, c) /\ applied'[s][n] >= 1
    BY <1>3, <1>4
  <1>9. applied'[s][n] >= 1 \/ n \in refused'[s]
    BY <1>4, <1>5
  <1>10. HostEffect(s, c)
    BY <1>4, <1>5, <1>8, <1>9 DEF HostEffect
  <1> QED
    BY <1>6, <1>7, <1>10 DEF Base

\* Every path through mutate() of a host has that effect.
LEMMA HostShape ==
  ASSUME Base, NEW s \in Sessions, NEW c \in Conns, HostMutate(s, c)
  PROVE  /\ Base' /\ HostEffect(s, c)
         /\ Incoming(s, c)
         /\ \E ok \in BOOLEAN : Answer(s, c, ok)
  <1>1. Incoming(s, c) /\ \E ok \in BOOLEAN : Answer(s, c, ok)
    BY DEF HostMutate, ReAck, RefuseFull, ApplyFails, ApplyWrite, ApplyTorn, Fresh
  <1>2. TypeOK /\ Message(s, c) \in Request
    BY <1>1, AnswerShape DEF Base
  <1>3. Drained(s, c) \in Window /\ Message(s, c).seq \in Seqs
    BY <1>2, DrainedShape
  <1>4. Mark(Drained(s, c), s, Message(s, c).seq) \in Window
    BY <1>3, MarkWindow
  <1>5. CASE ReAck(s, c)
    BY <1>1, <1>5, ReAckShape
  <1>6. CASE RefuseFull(s, c) \/ ApplyFails(s, c)
    <2>1. Answer(s, c, FALSE) /\ Touch(s, Drained(s, c), {}) /\ UNCHANGED applied
          /\ Refuse(s, Message(s, c).seq)
      BY <1>6 DEF RefuseFull, ApplyFails
    <2> QED
      BY <1>1, <1>3, <2>1, TouchShape
  <1>7. CASE ApplyWrite(s, c)
    <2> DEFINE lost == IF Evicts(Drained(s, c), s, Message(s, c).seq) THEN {s} ELSE {}
    <2>1. Answer(s, c, TRUE) /\ HasRoom(s, c) /\ UNCHANGED refused
          /\ Touch(s, Mark(Drained(s, c), s, Message(s, c).seq), lost)
          /\ Apply(s, Message(s, c).seq)
      BY <1>7 DEF ApplyWrite
    <2>2. lost \in SUBSET Sessions
      OBVIOUS
    <2> HIDE DEF lost
    <2> QED
      BY <1>1, <1>4, <2>1, <2>2, TouchShape
  <1>8. CASE ApplyTorn(s, c)
    <2>1. Answer(s, c, FALSE) /\ Touch(s, Drained(s, c), {})
          /\ Apply(s, Message(s, c).seq) /\ Refuse(s, Message(s, c).seq)
      BY <1>8 DEF ApplyTorn
    <2> QED
      BY <1>1, <1>3, <2>1, TouchShape
  <1> QED
    BY <1>5, <1>6, <1>7, <1>8 DEF HostMutate

\* A mutate() numbers the write, keeps it pending and sends it if it can.
LEMMA MutateShape ==
  ASSUME Base, NEW s \in Sessions, NEW n, n = writeSeq[s] + 1, Mutate(s)
  PROVE  /\ Base'
         /\ n \in Seqs /\ RequestFor(s, n) \in Request
         /\ \A x \in Sessions : writeSeq'[x] = IF x = s THEN n ELSE writeSeq[x]
         /\ \A x \in Sessions :
              pending'[x] = IF x = s THEN pending[x] \cup {n} ELSE pending[x]
         /\ UNCHANGED <<ackedThrough, resolvedAhead, closed, conn, acks>>
         /\ UNCHANGED <<registryVars, applied, refused, restarts>>
         /\ \A x \in Sessions, d \in Conns :
              requests'[x][d] = IF x = s /\ d = conn[s]
                                THEN Append(requests[x][d], RequestFor(s, n))
                                ELSE requests[x][d]
  <1> DEFINE r == RequestFor(s, n)
  <1>1. TypeOK /\ UnknownIsNew
    BY DEF Base
  <1>2. writeSeq[s] \in 0..MaxSeq /\ writeSeq[s] < MaxSeq /\ ackedThrough[s] \in 0..MaxSeq
    BY <1>1 DEF TypeOK, Mutate
  <1>3. n \in Seqs /\ n \in 0..MaxSeq
    BY <1>2, BoundAssumption DEF Seqs
  <1>4. r \in Request
    BY <1>2, <1>3 DEF Request, RequestFor
  <1>5. /\ writeSeq' = [writeSeq EXCEPT ![s] = n]
        /\ pending' = [pending EXCEPT ![s] = @ \cup {n}]
        /\ UNCHANGED <<ackedThrough, resolvedAhead, outcome, closed, conn, dials, acks>>
        /\ UNCHANGED <<registryVars, applied, refused, restarts>>
        /\ requests' = IF conn[s] # 0
                       THEN [requests EXCEPT ![s][conn[s]] = Append(@, r)]
                       ELSE requests
    BY DEF Mutate
  <1>6. conn[s] \in 0..MaxConns /\ 0 \notin Conns
        /\ (conn[s] # 0 => conn[s] \in Conns)
    BY <1>1, BoundAssumption DEF TypeOK, Conns
  <1> HIDE DEF r
  <1>7. /\ requests' \in [Sessions -> [Conns -> Seq(Request)]]
        /\ \A x \in Sessions, d \in Conns :
              requests'[x][d] = IF x = s /\ d = conn[s] THEN Append(requests[x][d], r)
                                ELSE requests[x][d]
    <2>1. requests \in [Sessions -> [Conns -> Seq(Request)]]
      BY <1>1 DEF TypeOK
    <2>2. CASE conn[s] = 0
      BY <1>5, <1>6, <2>1, <2>2
    <2>3. CASE conn[s] # 0
      <3> DEFINE q == Append(requests[s][conn[s]], r)
      <3>1. q \in Seq(Request)
        BY <1>4, <1>6, <2>1, <2>3
      <3>2. requests' = [requests EXCEPT ![s][conn[s]] = q]
        BY <1>5, <2>3
      <3>3. \A x \in Sessions, d \in Conns :
              requests'[x][d] = IF x = s /\ d = conn[s] THEN q ELSE requests[x][d]
        BY <1>6, <2>1, <2>3, <3>2
      <3>4. \A x \in Sessions, d \in Conns :
              requests'[x][d] = IF x = s /\ d = conn[s] THEN Append(requests[x][d], r)
                                ELSE requests[x][d]
        BY <3>3
      <3> HIDE DEF q
      <3>5. requests' \in [Sessions -> [Conns -> Seq(Request)]]
        BY <1>6, <2>1, <2>3, <3>1, <3>2
      <3> QED
        BY <3>4, <3>5
    <2> QED
      BY <2>2, <2>3
  <1>8. /\ writeSeq' \in [Sessions -> 0..MaxSeq]
        /\ \A x \in Sessions : writeSeq'[x] = IF x = s THEN n ELSE writeSeq[x]
    BY <1>1, <1>3, <1>5 DEF TypeOK
  <1>9. /\ pending' \in [Sessions -> SUBSET Seqs]
        /\ \A x \in Sessions :
              pending'[x] = IF x = s THEN pending[x] \cup {n} ELSE pending[x]
    BY <1>1, <1>3, <1>5 DEF TypeOK
  <1>10. TypeOK'
    BY <1>1, <1>5, <1>7, <1>8, <1>9 DEF TypeOK, registryVars
  <1>11. UnknownIsNew'
    BY <1>1, <1>5 DEF UnknownIsNew, registryVars
  <1> QED
    BY <1>3, <1>4, <1>5, <1>7, <1>8, <1>9, <1>10, <1>11 DEF Base, r

\* An answer takes at most its write out of the pending ones, and adds at most
\* that write to the resolved ones.
LEMMA ReceiveAckShape ==
  ASSUME Base, NEW s \in Sessions, ReceiveAck(s)
  PROVE  /\ Base'
         /\ \E n \in Seqs :
              /\ \E i \in 1..Len(acks[s]) : acks[s][i].seq = n
              /\ \A x \in Sessions : pending'[x] \subseteq pending[x]
              /\ \A x \in Sessions : \A k \in pending[x] :
                   k \in pending'[x] \/ (x = s /\ k = n)
              /\ \A x \in Sessions : ackedThrough[x] <= ackedThrough'[x]
              /\ \A x \in Sessions, k \in Seqs :
                   k <= ackedThrough'[x] \/ k \in resolvedAhead'[x] =>
                     k <= ackedThrough[x] \/ k \in resolvedAhead[x] \/ (x = s /\ k = n)
         /\ UNCHANGED <<writeSeq, closed, conn, requests>>
         /\ UNCHANGED <<registryVars, applied, refused, restarts>>
         /\ \A x \in Sessions : \A i \in 1..Len(acks'[x]) :
              \E j \in 1..Len(acks[x]) : acks'[x][i] = acks[x][j]
  <1> DEFINE ack == Head(acks[s])
             n == ack.seq
  <1>1. TypeOK /\ UnknownIsNew
    BY DEF Base
  <1>2. /\ acks[s] \in Seq(Ack) /\ acks[s] # <<>>
        /\ 1 \in 1..Len(acks[s]) /\ ack = acks[s][1] /\ ack \in Ack
    BY <1>1 DEF TypeOK, ReceiveAck
  <1>3. n \in Seqs /\ ack.ok \in BOOLEAN
    BY <1>2 DEF Ack
  <1>4. /\ acks' = [acks EXCEPT ![s] = Tail(@)]
        /\ UNCHANGED <<writeSeq, closed, conn, dials, requests>>
        /\ UNCHANGED <<registryVars, applied, refused, restarts>>
    BY DEF ReceiveAck
  <1>5. /\ acks' \in [Sessions -> Seq(Ack)]
        /\ \A x \in Sessions : acks'[x] = IF x = s THEN Tail(acks[s]) ELSE acks[x]
    BY <1>1, <1>2, <1>4 DEF TypeOK
  <1>6. ASSUME NEW x \in Sessions, NEW i \in 1..Len(acks'[x])
        PROVE  \E j \in 1..Len(acks[x]) : acks'[x][i] = acks[x][j]
    <2>1. CASE x # s
      BY <1>5, <2>1
    <2>2. CASE x = s
      <3> DEFINE q == acks[s]
      <3>1. q \in Seq(Ack) /\ q # <<>> /\ acks'[s] = Tail(q)
        BY <1>2, <1>5
      <3> HIDE DEF q
      <3>2. i + 1 \in 1..Len(q) /\ Tail(q)[i] = q[i + 1]
        BY <2>2, <3>1
      <3> QED
        BY <2>2, <3>1, <3>2 DEF q
    <2> QED
      BY <2>1, <2>2
  <1>7. \E i \in 1..Len(acks[s]) : acks[s][i].seq = n
    BY <1>2
  <1> HIDE DEF ack, n
  <1>8. UnknownIsNew'
    BY <1>1, <1>4 DEF UnknownIsNew, registryVars
  <1>9. /\ TypeOK'
        /\ \A x \in Sessions : pending'[x] \subseteq pending[x]
        /\ \A x \in Sessions : \A k \in pending[x] :
             k \in pending'[x] \/ (x = s /\ k = n)
        /\ \A x \in Sessions : ackedThrough[x] <= ackedThrough'[x]
        /\ \A x \in Sessions, k \in Seqs :
             k <= ackedThrough'[x] \/ k \in resolvedAhead'[x] =>
               k <= ackedThrough[x] \/ k \in resolvedAhead[x] \/ (x = s /\ k = n)
    <2>1. CASE n \notin pending[s]
      <3>1. UNCHANGED <<pending, outcome, ackedThrough, resolvedAhead>>
        BY <2>1 DEF ReceiveAck, ack, n
      <3>2. TypeOK'
        BY <1>1, <1>4, <1>5, <3>1 DEF TypeOK, registryVars
      <3>3. \A x \in Sessions : ackedThrough[x] <= ackedThrough[x]
        BY <1>1, BoundAssumption DEF TypeOK
      <3> QED
        BY <3>1, <3>2, <3>3
    <2>2. CASE n \in pending[s]
      <3> DEFINE ahead == resolvedAhead[s] \cup {n}
                 result == IF ack.ok THEN "ok" ELSE "rejected"
      <3>1. /\ pending' = [pending EXCEPT ![s] = @ \ {n}]
            /\ outcome' = [outcome EXCEPT ![s][n] = result]
            /\ ResolveSeq(s, n)
        BY <2>2 DEF ReceiveAck, ack, n
      <3>2. PICK k \in ackedThrough[s]..MaxSeq :
              /\ (ackedThrough[s] + 1 .. k) \subseteq ahead
              /\ ackedThrough' = [ackedThrough EXCEPT ![s] = k]
              /\ resolvedAhead' = [resolvedAhead EXCEPT ![s] =
                                     ahead \ (ackedThrough[s] + 1 .. k)]
        BY <3>1 DEF ResolveSeq
      <3>3. /\ ackedThrough[s] \in 0..MaxSeq /\ resolvedAhead[s] \subseteq Seqs
            /\ k \in 0..MaxSeq /\ ackedThrough[s] <= k
        BY <1>1, BoundAssumption DEF TypeOK
      <3>4. result \in {"ok", "rejected"}
        OBVIOUS
      <3> HIDE DEF result
      <3>5. /\ pending' \in [Sessions -> SUBSET Seqs]
            /\ \A x \in Sessions :
                 pending'[x] = IF x = s THEN pending[s] \ {n} ELSE pending[x]
        BY <1>1, <3>1 DEF TypeOK
      <3>6. /\ ackedThrough' \in [Sessions -> 0..MaxSeq]
            /\ \A x \in Sessions : ackedThrough'[x] = IF x = s THEN k ELSE ackedThrough[x]
        BY <1>1, <3>2, <3>3 DEF TypeOK
      <3>7. /\ resolvedAhead' \in [Sessions -> SUBSET Seqs]
            /\ \A x \in Sessions : resolvedAhead'[x] =
                 IF x = s THEN ahead \ (ackedThrough[s] + 1 .. k) ELSE resolvedAhead[x]
        BY <1>1, <1>3, <3>2, <3>3 DEF TypeOK
      <3>8. outcome' \in [Sessions -> [Seqs -> {"none", "ok", "rejected", "closed"}]]
        BY <1>1, <1>3, <3>1, <3>4 DEF TypeOK
      <3>9. TypeOK'
        BY <1>1, <1>4, <1>5, <3>5, <3>6, <3>7, <3>8 DEF TypeOK, registryVars
      <3>10. \A x \in Sessions : ackedThrough[x] <= ackedThrough'[x]
        <4>1. \A x \in Sessions : ackedThrough[x] \in Nat
          BY <1>1, BoundAssumption DEF TypeOK
        <4>2. \A x \in Sessions : ackedThrough[x] <= ackedThrough[x]
          BY <4>1
        <4> QED
          BY <3>3, <3>6, <4>2
      <3>11. ASSUME NEW x \in Sessions, NEW j \in Seqs,
                    j <= ackedThrough'[x] \/ j \in resolvedAhead'[x]
             PROVE  j <= ackedThrough[x] \/ j \in resolvedAhead[x] \/ (x = s /\ j = n)
        <4>1. CASE x # s
          BY <3>6, <3>7, <3>11, <4>1
        <4>2. CASE x = s /\ j \in resolvedAhead'[x]
          BY <3>7, <4>2
        <4>3. CASE x = s /\ j <= ackedThrough'[x] /\ ~(j <= ackedThrough[x])
          <5>1. j \in ackedThrough[s] + 1 .. k
            BY <3>3, <3>6, <4>3, BoundAssumption DEF Seqs
          <5> QED
            BY <3>2, <4>3, <5>1
        <4> QED
          BY <3>11, <4>1, <4>2, <4>3
      <3> QED
        BY <3>5, <3>9, <3>10, <3>11
    <2> QED
      BY <2>1, <2>2
  <1> QED
    BY <1>3, <1>4, <1>6, <1>7, <1>8, <1>9 DEF Base

\* A lost connection, a closed client or a restarted server loses requests
\* and answers, and invents none.
LEMMA LossShape ==
  ASSUME Base, (\E s \in Sessions : Drop(s) \/ Close(s)) \/ Restart
  PROVE  /\ Base'
         /\ UNCHANGED <<writeSeq, ackedThrough, resolvedAhead, applied, refused>>
         /\ \A x \in Sessions :
              /\ pending'[x] \subseteq pending[x]
              /\ pending'[x] # pending[x] => closed'[x]
              /\ closed[x] => closed'[x]
              /\ windows'[x] \in {windows[x], NewWindow}
              /\ acks'[x] \in {acks[x], <<>>}
              /\ conn'[x] # 0 => conn'[x] = conn[x] /\ requests'[x] = requests[x]
         /\ \A x \in Sessions, d \in Conns : \A i \in 1..Len(requests'[x][d]) :
              i \in 1..Len(requests[x][d]) /\ requests'[x][d][i] = requests[x][d][i]
  <1>1. TypeOK /\ UnknownIsNew
    BY DEF Base
  <1>2. CASE Restart
    <2>1. /\ restarts' = restarts + 1 /\ restarts < MaxRestarts
          /\ windows' = [s \in Sessions |-> NewWindow]
          /\ known' = {} /\ older' = {} /\ forgotten' = forgotten \cup known
          /\ conn' = [s \in Sessions |-> 0]
          /\ requests' = [s \in Sessions |-> [c \in Conns |-> <<>>]]
          /\ acks' = [s \in Sessions |-> <<>>]
          /\ UNCHANGED <<clientVars, dials, applied, refused>>
      BY <1>2 DEF Restart
    <2>2. NewWindow \in Window
      BY BoundAssumption DEF NewWindow, Window, Seqs
    <2>3. /\ windows' \in [Sessions -> Window]
          /\ conn' \in [Sessions -> 0..MaxConns]
          /\ requests' \in [Sessions -> [Conns -> Seq(Request)]]
          /\ acks' \in [Sessions -> Seq(Ack)]
          /\ restarts' \in 0..MaxRestarts
      BY <1>1, <2>1, <2>2, BoundAssumption DEF TypeOK
    <2>4. TypeOK'
      BY <1>1, <2>1, <2>3 DEF TypeOK, clientVars
    <2>5. UnknownIsNew'
      BY <2>1 DEF UnknownIsNew
    <2>6. \A x \in Sessions, d \in Conns : requests'[x][d] = <<>>
      BY <2>1
    <2> QED
      BY <2>1, <2>4, <2>5, <2>6 DEF Base, clientVars
  <1>3. ASSUME NEW s \in Sessions, Drop(s) \/ Close(s)
        PROVE  /\ Base'
               /\ UNCHANGED <<writeSeq, ackedThrough, resolvedAhead, applied, refused>>
               /\ \A x \in Sessions :
                    /\ pending'[x] \subseteq pending[x]
                    /\ pending'[x] # pending[x] => closed'[x]
                    /\ closed[x] => closed'[x]
                    /\ windows'[x] \in {windows[x], NewWindow}
                    /\ acks'[x] \in {acks[x], <<>>}
                    /\ conn'[x] # 0 => conn'[x] = conn[x] /\ requests'[x] = requests[x]
               /\ \A x \in Sessions, d \in Conns : \A i \in 1..Len(requests'[x][d]) :
                    i \in 1..Len(requests[x][d]) /\ requests'[x][d][i] = requests[x][d][i]
    <2>1. UNCHANGED <<writeSeq, ackedThrough, resolvedAhead, dials>>
          /\ UNCHANGED <<registryVars, applied, refused, restarts>>
      BY <1>3 DEF Drop, Close, clientVars
    <2>2. /\ conn' \in [Sessions -> 0..MaxConns]
          /\ requests' \in [Sessions -> [Conns -> Seq(Request)]]
          /\ acks' \in [Sessions -> Seq(Ack)]
          /\ \A x \in Sessions : acks'[x] \in {acks[x], <<>>}
          /\ \A x \in Sessions :
               conn'[x] # 0 => conn'[x] = conn[x] /\ requests'[x] = requests[x]
          /\ \A x \in Sessions, d \in Conns : \A i \in 1..Len(requests'[x][d]) :
               i \in 1..Len(requests[x][d]) /\ requests'[x][d][i] = requests[x][d][i]
      <3>1. CASE conn[s] # 0
        <4>1. Disconnect(s)
          BY <1>3, <3>1 DEF Drop, Close
        <4> QED
          BY <1>1, <3>1, <4>1, DisconnectShape
      <3>2. CASE conn[s] = 0
        BY <1>1, <1>3, <3>2 DEF Drop, Close, TypeOK
      <3> QED
        BY <3>1, <3>2
    <2>3. /\ pending' \in [Sessions -> SUBSET Seqs] /\ closed' \in [Sessions -> BOOLEAN]
          /\ outcome' \in [Sessions -> [Seqs -> {"none", "ok", "rejected", "closed"}]]
          /\ \A x \in Sessions : /\ pending'[x] \subseteq pending[x]
                                 /\ pending'[x] # pending[x] => closed'[x]
                                 /\ closed[x] => closed'[x]
      <3>1. CASE Drop(s)
        BY <1>1, <3>1 DEF Drop, clientVars, TypeOK
      <3>2. CASE Close(s)
        <4>1. /\ pending' = [pending EXCEPT ![s] = {}]
              /\ closed' = [closed EXCEPT ![s] = TRUE]
          BY <3>2 DEF Close
        <4>2. [n \in Seqs |-> IF n \in pending[s] THEN "closed" ELSE outcome[s][n]]
                \in [Seqs -> {"none", "ok", "rejected", "closed"}]
          BY <1>1 DEF TypeOK
        <4>3. outcome' = [outcome EXCEPT ![s] =
                [n \in Seqs |-> IF n \in pending[s] THEN "closed" ELSE @[n]]]
          BY <3>2 DEF Close
        <4>4. outcome' \in [Sessions -> [Seqs -> {"none", "ok", "rejected", "closed"}]]
          BY <1>1, <4>2, <4>3 DEF TypeOK
        <4>5. closed \in [Sessions -> BOOLEAN] /\ pending \in [Sessions -> SUBSET Seqs]
          BY <1>1 DEF TypeOK
        <4>6. closed' \in [Sessions -> BOOLEAN] /\ closed'[s]
              /\ \A x \in Sessions : closed[x] => closed'[x]
          BY <4>1, <4>5
        <4>7. pending' \in [Sessions -> SUBSET Seqs]
              /\ \A x \in Sessions : pending'[x] = IF x = s THEN {} ELSE pending[x]
          BY <4>1, <4>5
        <4> QED
          BY <4>4, <4>6, <4>7
      <3> QED
        BY <1>3, <3>1, <3>2
    <2>4. TypeOK'
      BY <1>1, <2>1, <2>2, <2>3 DEF TypeOK, registryVars
    <2>5. UnknownIsNew' /\ \A x \in Sessions : windows'[x] = windows[x]
      BY <1>1, <2>1 DEF UnknownIsNew, registryVars
    <2> QED
      BY <2>1, <2>2, <2>3, <2>4, <2>5 DEF Base
  <1> QED
    BY <1>2, <1>3

\* The ascending enumeration of a set of writes reaches every one of them.
LEMMA AscendingIsOnto ==
  ASSUME NEW S \in SUBSET Seqs, NEW f \in Ascending(S)
  PROVE  /\ IsFiniteSet(S) /\ Cardinality(S) \in Nat
         /\ f \in [1..Cardinality(S) -> S]
         /\ \A i, j \in 1..Cardinality(S) : i < j => f[i] < f[j]
         /\ \A n \in S : \E i \in 1..Cardinality(S) : f[i] = n
  <1> DEFINE N == Cardinality(S)
  <1>1. IsFiniteSet(S) /\ N \in Nat
    <2>1. IsFiniteSet(Seqs)
      BY BoundAssumption, FS_Interval DEF Seqs
    <2> QED
      BY <2>1, FS_Subset, FS_CardinalityType
  <1>2. f \in [1..N -> S] /\ \A i, j \in 1..N : i < j => f[i] < f[j]
    BY DEF Ascending
  <1>3. IsFiniteSet(1..N) /\ Cardinality(1..N) = N
    <2> HIDE DEF N
    <2>1. 1 \in Int /\ N \in Int
      BY <1>1
    <2>2. IsFiniteSet(1..N) /\ Cardinality(1..N) = IF 1 > N THEN 0 ELSE N - 1 + 1
      BY <2>1, FS_Interval
    <2> QED
      BY <1>1, <2>2
  <1>4. ASSUME NEW n \in S, \A i \in 1..N : f[i] # n
        PROVE  FALSE
    <2>1. IsFiniteSet(S \ {n}) /\ Cardinality(S \ {n}) = N - 1
      BY <1>1, FS_RemoveElement
    <2> HIDE DEF N
    <2>2. f \in [1..N -> S \ {n}]
      BY <1>2, <1>4
    <2>3. Cardinality(S \ {n}) < Cardinality(1..N)
      BY <1>1, <1>3, <2>1
    <2>4. PICK i, j \in 1..N : i # j /\ f[i] = f[j]
      <3> DEFINE A == 1..N
                 B == S \ {n}
      <3>1. /\ IsFiniteSet(A) /\ IsFiniteSet(B) /\ Cardinality(B) < Cardinality(A)
            /\ f \in [A -> B]
        BY <1>1, <1>3, <2>1, <2>2, <2>3, FS_Subset
      <3> HIDE DEF A, B
      <3>2. \E i, j \in A : i # j /\ f[i] = f[j]
        BY <3>1, FS_PigeonHole
      <3> QED
        BY <3>2 DEF A
    <2>5. f[i] \in Nat
      <3>1. f[i] \in S
        BY <1>2, <2>4
      <3>2. \A k \in Seqs : k \in Nat
        BY BoundAssumption DEF Seqs
      <3> QED
        BY <3>1, <3>2
    <2>6. f[i] < f[j] \/ f[j] < f[i]
      BY <1>1, <1>2, <2>4
    <2> QED
      BY <2>4, <2>5, <2>6
  <1> QED
    BY <1>1, <1>2, <1>4

\* A redial opens a connection nobody used and replays on it the pending
\* writes in the order they were issued.
LEMMA RedialShape ==
  ASSUME Base, NEW s \in Sessions, Redial(s)
  PROVE  /\ Base' /\ ~closed[s]
         /\ UNCHANGED <<clientVars, acks, registryVars, applied, refused, restarts>>
         /\ \E c \in Conns, N \in Nat : \E f \in [1..N -> pending[s]] :
              /\ \A i, j \in 1..N : i < j => f[i] < f[j]
              /\ \A n \in pending[s] : \E i \in 1..N : f[i] = n
              /\ \A x \in Sessions : conn'[x] = IF x = s THEN c ELSE conn[x]
              /\ \A x \in Sessions, d \in Conns :
                   requests'[x][d] = IF x = s /\ d = c
                                     THEN [i \in 1..N |-> RequestFor(s, f[i])]
                                     ELSE requests[x][d]
  <1> DEFINE N == Cardinality(pending[s])
             c == dials[s] + 1
  <1>1. TypeOK /\ UnknownIsNew
    BY DEF Base
  <1>2. /\ c \in Conns /\ c \in 0..MaxConns /\ pending[s] \in SUBSET Seqs
        /\ ackedThrough[s] \in 0..MaxSeq
    BY <1>1, BoundAssumption DEF Redial, TypeOK, Conns
  <1>3. PICK f \in Ascending(pending[s]) :
          requests' = [requests EXCEPT ![s][c] = [i \in 1..N |-> RequestFor(s, f[i])]]
    BY DEF Redial
  <1>4. /\ N \in Nat /\ f \in [1..N -> pending[s]]
        /\ \A i, j \in 1..N : i < j => f[i] < f[j]
        /\ \A n \in pending[s] : \E i \in 1..N : f[i] = n
    BY <1>2, AscendingIsOnto
  <1> DEFINE q == [i \in 1..N |-> RequestFor(s, f[i])]
  <1>5. requests' = [requests EXCEPT ![s][c] = q]
    BY <1>3
  <1>6. ~closed[s] /\ UNCHANGED <<clientVars, acks, registryVars, applied, refused, restarts>>
        /\ dials' = [dials EXCEPT ![s] = c] /\ conn' = [conn EXCEPT ![s] = c]
    BY <1>1 DEF Redial, TypeOK
  <1> HIDE DEF N, c
  <1>7. \A i \in 1..N : RequestFor(s, f[i]) \in Request
    BY <1>2, <1>4 DEF RequestFor, Request
  <1>8. q \in Seq(Request)
    BY <1>4, <1>7
  <1>9. /\ conn' \in [Sessions -> 0..MaxConns] /\ dials' \in [Sessions -> 0..MaxConns]
        /\ \A x \in Sessions : conn'[x] = IF x = s THEN c ELSE conn[x]
    BY <1>1, <1>2, <1>6 DEF TypeOK
  <1> HIDE DEF q
  <1>10. /\ requests' \in [Sessions -> [Conns -> Seq(Request)]]
         /\ \A x \in Sessions, d \in Conns :
              requests'[x][d] = IF x = s /\ d = c THEN q ELSE requests[x][d]
    BY <1>1, <1>2, <1>5, <1>8 DEF TypeOK
  <1>11. TypeOK'
    BY <1>1, <1>6, <1>9, <1>10 DEF TypeOK, clientVars, registryVars
  <1>12. UnknownIsNew'
    BY <1>1, <1>6 DEF UnknownIsNew, registryVars
  <1>13. \A x \in Sessions, d \in Conns :
           requests'[x][d] = IF x = s /\ d = c THEN [i \in 1..N |-> RequestFor(s, f[i])]
                             ELSE requests[x][d]
    BY <1>10 DEF q
  <1>14. /\ \A i, j \in 1..N : i < j => f[i] < f[j]
         /\ \A n \in pending[s] : \E i \in 1..N : f[i] = n
         /\ \A x \in Sessions : conn'[x] = IF x = s THEN c ELSE conn[x]
         /\ \A x \in Sessions, d \in Conns :
              requests'[x][d] = IF x = s /\ d = c THEN [i \in 1..N |-> RequestFor(s, f[i])]
                                ELSE requests[x][d]
    BY <1>4, <1>9, <1>13
  <1>15. c \in Conns /\ N \in Nat /\ f \in [1..N -> pending[s]]
    BY <1>2, <1>4
  <1>16. \E d \in Conns, M \in Nat : \E g \in [1..M -> pending[s]] :
           /\ \A i, j \in 1..M : i < j => g[i] < g[j]
           /\ \A n \in pending[s] : \E i \in 1..M : g[i] = n
           /\ \A x \in Sessions : conn'[x] = IF x = s THEN d ELSE conn[x]
           /\ \A x \in Sessions, e \in Conns :
                requests'[x][e] = IF x = s /\ e = d
                                  THEN [i \in 1..M |-> RequestFor(s, g[i])]
                                  ELSE requests[x][e]
    <2> USE <1>15
    <2> WITNESS c \in Conns, N \in Nat
    <2> WITNESS f \in [1..N -> pending[s]]
    <2> QED
      BY <1>14
  <1> QED
    BY <1>6, <1>11, <1>12, <1>16 DEF Base

\* Types are kept by every step, whatever throws.
LEMMA BaseStep == Base /\ [Next]_vars => Base'
  <1> SUFFICES ASSUME Base, [Next]_vars PROVE Base'
    OBVIOUS
  <1>1. ASSUME NEW s \in Sessions, Mutate(s) PROVE Base'
    BY <1>1, MutateShape
  <1>2. ASSUME NEW s \in Sessions, ReceiveAck(s) PROVE Base'
    BY <1>2, ReceiveAckShape
  <1>3. ASSUME NEW s \in Sessions, Redial(s) PROVE Base'
    BY <1>3, RedialShape
  <1>4. ASSUME NEW s \in Sessions, NEW c \in Conns, HostMutate(s, c) PROVE Base'
    BY <1>4, HostShape
  <1>5. ASSUME (\E s \in Sessions : Drop(s) \/ Close(s)) \/ Restart PROVE Base'
    BY <1>5, LossShape
  <1>6. CASE UNCHANGED vars
    BY <1>6 DEF Base, TypeOK, UnknownIsNew, vars, clientVars, wireVars, registryVars
  <1> QED
    BY <1>1, <1>2, <1>3, <1>4, <1>5, <1>6 DEF Next

(***************************************************************************)
(* The windows.                                                            *)
(***************************************************************************)

\* A window of session s that is within its capacity: a modern one keeps ids
\* beyond its low-water mark, issued up to `top'; a legacy one keeps ids that
\* wait for eviction.
WindowFits(w, s, top) ==
  /\ Cardinality(w.seqs) <= Capacity
  /\ Len(w.legacyOrder) <= Capacity
  /\ s \in Legacy =>
       /\ w.seqs = {}
       /\ \A n \in w.legacy : \E i \in 1..Len(w.legacyOrder) : w.legacyOrder[i] = n
  /\ s \notin Legacy =>
       /\ w.legacy = {}
       /\ \A n \in w.seqs : w.lowWater < n /\ n <= top

\* A set of writes is finite.
LEMMA SeqsAreFinite ==
  ASSUME NEW S \in SUBSET Seqs
  PROVE  /\ IsFiniteSet(S) /\ Cardinality(S) \in Nat
         /\ \A T \in SUBSET S : Cardinality(T) \in Nat /\ Cardinality(T) <= Cardinality(S)
  <1>1. IsFiniteSet(Seqs)
    BY BoundAssumption, FS_Interval DEF Seqs
  <1>2. IsFiniteSet(S) /\ Cardinality(S) \in Nat
    BY <1>1, FS_Subset, FS_CardinalityType
  <1>3. ASSUME NEW T \in SUBSET S
        PROVE  Cardinality(T) \in Nat /\ Cardinality(T) <= Cardinality(S)
    BY <1>2, FS_Subset, FS_CardinalityType
  <1> QED
    BY <1>2, <1>3

\* A new window fits.
LEMMA NewWindowFits ==
  ASSUME NEW s \in Sessions, NEW top
  PROVE  WindowFits(NewWindow, s, top)
  <1>1. NewWindow.seqs = {} /\ NewWindow.legacy = {} /\ NewWindow.legacyOrder = <<>>
    BY DEF NewWindow
  <1>2. Cardinality({}) = 0
    BY FS_EmptySet
  <1> QED
    BY <1>1, <1>2, CapacityAssumption DEF WindowFits

\* A window that fits retains no more ids than the capacity.
LEMMA FittingIsBounded ==
  ASSUME NEW w \in Window, NEW s \in Sessions, NEW top, WindowFits(w, s, top)
  PROVE  Retained(w) <= Capacity
  <1>1. Cardinality({}) = 0
    BY FS_EmptySet
  <1>2. Cardinality(w.seqs) \in Nat
    BY SeqsAreFinite DEF Window
  <1>3. CASE s \notin Legacy
    <2>1. w.legacy = {} /\ Cardinality(w.seqs) <= Capacity
      BY <1>3 DEF WindowFits
    <2> QED
      BY <1>1, <1>2, <2>1, CapacityAssumption DEF Retained
  <1>4. CASE s \in Legacy
    <2> DEFINE q == w.legacyOrder
    <2>1. q \in Seq(Seqs) /\ w.legacy \in SUBSET Seqs /\ Len(q) \in Nat
      BY DEF Window
    <2>2. \A n \in w.legacy : \E i \in 1..Len(q) : q[i] = n
      BY <1>4 DEF WindowFits
    <2> HIDE DEF q
    <2>3. IsFiniteSet(w.legacy) /\ Cardinality(w.legacy) \in Nat
      BY <2>1, SeqsAreFinite
    <2>4. IsFiniteSet(1..Len(q)) /\ Cardinality(1..Len(q)) = Len(q)
      <3>1. IsFiniteSet(1..Len(q))
            /\ Cardinality(1..Len(q)) = IF 1 > Len(q) THEN 0 ELSE Len(q) - 1 + 1
        BY <2>1, FS_Interval
      <3> QED
        BY <2>1, <3>1
    <2>5. Cardinality(w.legacy) <= Len(q)
      <3> SUFFICES ASSUME Len(q) < Cardinality(w.legacy) PROVE FALSE
        BY <2>1, <2>3
      <3> DEFINE place == [n \in w.legacy |-> CHOOSE i \in 1..Len(q) : q[i] = n]
      <3>1. /\ place \in [w.legacy -> 1..Len(q)]
            /\ \A n \in w.legacy : q[place[n]] = n
        BY <2>2
      <3> HIDE DEF place
      <3>2. PICK m, n \in w.legacy : m # n /\ place[m] = place[n]
        BY <2>3, <2>4, <3>1, FS_PigeonHole
      <3> QED
        BY <3>1, <3>2
    <2>6. Cardinality(w.seqs) = 0 /\ Len(q) <= Capacity
      BY <1>1, <1>4 DEF WindowFits, q
    <2> QED
      BY <2>1, <2>3, <2>5, <2>6, CapacityAssumption DEF Retained
  <1> QED
    BY <1>3, <1>4

\* drain() keeps a window fitting.
LEMMA DrainFits ==
  ASSUME NEW w \in Window, NEW s \in Sessions, NEW mark \in 0..MaxSeq, NEW top \in Nat,
         WindowFits(w, s, top)
  PROVE  WindowFits(Drain(w, s, mark), s, top)
  <1> DEFINE d == Drain(w, s, mark)
  <1>1. CASE s \in known /\ s \notin Legacy /\ mark > w.lowWater
    <2>1. d = [w EXCEPT !.seqs = @ \ (w.lowWater + 1 .. mark), !.lowWater = mark]
      BY <1>1 DEF Drain
    <2>2. /\ d.seqs = w.seqs \ (w.lowWater + 1 .. mark) /\ d.lowWater = mark
          /\ d.legacy = w.legacy /\ d.legacyOrder = w.legacyOrder
      BY <2>1 DEF Window
    <2>3. w.seqs \in SUBSET Seqs /\ w.lowWater \in 0..MaxSeq
      BY DEF Window
    <2> HIDE DEF d
    <2>4. Cardinality(d.seqs) <= Cardinality(w.seqs)
          /\ Cardinality(d.seqs) \in Nat /\ Cardinality(w.seqs) \in Nat
      BY <2>2, <2>3, SeqsAreFinite
    <2>5. Cardinality(d.seqs) <= Capacity
      BY <2>4, CapacityAssumption DEF WindowFits
    <2>6. \A n \in d.seqs : mark < n /\ n <= top
      BY <1>1, <2>2, <2>3, BoundAssumption DEF WindowFits, Seqs
    <2> QED
      BY <1>1, <2>2, <2>5, <2>6 DEF WindowFits, d
  <1>2. CASE ~(s \in known /\ s \notin Legacy /\ mark > w.lowWater)
    BY <1>2 DEF Drain
  <1> QED
    BY <1>1, <1>2

\* mark() keeps a window fitting in which there is room.
LEMMA MarkFits ==
  ASSUME NEW w \in Window, NEW s \in Sessions, NEW n \in Seqs, NEW top \in Nat,
         n <= top, WindowFits(w, s, top), s \in Legacy \/ Retained(w) < Capacity
  PROVE  WindowFits(Mark(w, s, n), s, top)
  <1> DEFINE v == Mark(w, s, n)
             q == w.legacyOrder
  <1>1. /\ w.seqs \in SUBSET Seqs /\ w.legacy \in SUBSET Seqs /\ w.lowWater \in Nat
        /\ q \in Seq(Seqs) /\ Len(q) \in Nat
        /\ Capacity \in Nat /\ Capacity >= 1
    BY CapacityAssumption, BoundAssumption DEF Window
  <1>2. CASE s \notin Legacy /\ n > w.lowWater
    <2>1. v = [w EXCEPT !.seqs = @ \cup {n}]
      BY <1>2 DEF Mark, Evicts
    <2>2. /\ v.seqs = w.seqs \cup {n} /\ v.lowWater = w.lowWater
          /\ v.legacy = w.legacy /\ v.legacyOrder = w.legacyOrder
      BY <2>1 DEF Window
    <2> HIDE DEF v, q
    <2>3. IsFiniteSet(w.seqs) /\ Cardinality(w.seqs) \in Nat /\ Cardinality(w.legacy) \in Nat
      BY <1>1, SeqsAreFinite
    <2>4. Cardinality(w.seqs) + 1 <= Capacity
      BY <1>1, <1>2, <2>3 DEF Retained
    <2>5. Cardinality(v.seqs) = IF n \in w.seqs THEN Cardinality(w.seqs)
                                ELSE Cardinality(w.seqs) + 1
      BY <2>2, <2>3, FS_AddElement
    <2>6. Cardinality(v.seqs) <= Capacity
      BY <1>1, <2>3, <2>4, <2>5
    <2>7. \A k \in v.seqs : w.lowWater < k /\ k <= top
      BY <1>1, <1>2, <2>2 DEF WindowFits, Seqs
    <2> QED
      BY <1>2, <2>2, <2>6, <2>7 DEF WindowFits, v
  <1>3. CASE Evicts(w, s, n)
    <2>1. s \in Legacy /\ n \notin w.legacy /\ Len(q) >= Capacity
      BY <1>3 DEF Evicts
    <2>2. v = [w EXCEPT !.legacy = (@ \cup {n}) \ {Head(q)},
                        !.legacyOrder = Append(Tail(@), n)]
      BY <1>3, <2>1 DEF Mark
    <2>3. /\ v.seqs = w.seqs
          /\ v.legacy = (w.legacy \cup {n}) \ {Head(q)}
          /\ v.legacyOrder = Append(Tail(q), n)
      BY <2>2 DEF Window
    <2> HIDE DEF v, q
    <2>4. q # <<>> /\ Tail(q) \in Seq(Seqs) /\ Len(Tail(q)) = Len(q) - 1 /\ Head(q) = q[1]
      BY <1>1, <2>1
    <2>5. \A i \in 1..Len(Tail(q)) : Tail(q)[i] = q[i + 1]
      BY <1>1, <2>4
    <2>6. /\ Len(v.legacyOrder) = Len(q)
          /\ \A i \in 1..(Len(q) - 1) : v.legacyOrder[i] = Tail(q)[i]
          /\ v.legacyOrder[Len(q)] = n
      BY <1>1, <2>3, <2>4
    <2>7. ASSUME NEW k \in v.legacy
          PROVE  \E i \in 1..Len(v.legacyOrder) : v.legacyOrder[i] = k
      <3>1. CASE k = n
        BY <1>1, <2>1, <2>6, <3>1
      <3>2. CASE k # n
        <4>1. k \in w.legacy /\ k # q[1]
          BY <2>3, <2>4, <2>7, <3>2
        <4>2. PICK i \in 1..Len(q) : q[i] = k
          BY <2>1, <4>1 DEF WindowFits, q
        <4>3. i - 1 \in 1..(Len(q) - 1) /\ i - 1 \in 1..Len(Tail(q))
          BY <1>1, <2>4, <4>1, <4>2
        <4>4. v.legacyOrder[i - 1] = k
          BY <1>1, <2>5, <2>6, <4>2, <4>3
        <4>5. i - 1 \in 1..Len(v.legacyOrder)
          BY <1>1, <2>6, <4>3
        <4> QED
          BY <4>4, <4>5
      <3> QED
        BY <3>1, <3>2
    <2> QED
      BY <2>1, <2>3, <2>6, <2>7 DEF WindowFits, v, q
  <1>4. CASE s \in Legacy /\ n \notin w.legacy /\ ~Evicts(w, s, n)
    <2>1. ~(Len(q) >= Capacity)
      BY <1>4 DEF Evicts
    <2>2. v = [w EXCEPT !.legacy = @ \cup {n}, !.legacyOrder = Append(@, n)]
      BY <1>4 DEF Mark
    <2>3. /\ v.seqs = w.seqs /\ v.legacy = w.legacy \cup {n}
          /\ v.legacyOrder = Append(q, n)
      BY <2>2 DEF Window
    <2> HIDE DEF v, q
    <2>4. /\ Len(v.legacyOrder) = Len(q) + 1 /\ v.legacyOrder[Len(q) + 1] = n
          /\ \A i \in 1..Len(q) : v.legacyOrder[i] = q[i]
      BY <1>1, <2>3
    <2>5. ASSUME NEW k \in v.legacy
          PROVE  \E i \in 1..Len(v.legacyOrder) : v.legacyOrder[i] = k
      <3>1. CASE k = n
        BY <1>1, <2>4, <3>1
      <3>2. CASE k # n
        <4>1. PICK i \in 1..Len(q) : q[i] = k
          BY <1>4, <2>3, <2>5, <3>2 DEF WindowFits, q
        <4>2. i \in 1..Len(v.legacyOrder) /\ v.legacyOrder[i] = k
          BY <1>1, <2>4, <4>1
        <4> QED
          BY <4>2
      <3> QED
        BY <3>1, <3>2
    <2>6. Len(v.legacyOrder) <= Capacity
      BY <1>1, <2>1, <2>4
    <2> QED
      BY <1>4, <2>3, <2>5, <2>6 DEF WindowFits, v
  <1>5. CASE ~(s \notin Legacy /\ n > w.lowWater) /\ ~Evicts(w, s, n)
             /\ ~(s \in Legacy /\ n \notin w.legacy /\ ~Evicts(w, s, n))
    BY <1>5 DEF Mark
  <1> QED
    BY <1>2, <1>3, <1>4, <1>5

\* The windows fit, and nothing is pending or under way that was not issued.
IssuedOnly ==
  \A s \in Sessions :
    /\ \A c \in Conns : \A i \in 1..Len(requests[s][c]) : requests[s][c][i].seq <= writeSeq[s]
    /\ \A n \in pending[s] : n <= writeSeq[s]

WindowsFit == \A s \in Sessions : WindowFits(windows[s], s, writeSeq[s])

WindowInv == Base /\ IssuedOnly /\ WindowsFit

\* The window of a session after a message of it was handled.
LEMMA HostFits ==
  ASSUME WindowInv, NEW s \in Sessions, NEW c \in Conns, HostMutate(s, c)
  PROVE  WindowInv'
  <1> DEFINE m == Message(s, c)
             d == Drained(s, c)
             q == requests[s][c]
  <1>1. TypeOK /\ Base' /\ HostEffect(s, c) /\ Incoming(s, c) /\ Base
    BY HostShape DEF WindowInv, Base
  <1>2. PICK ok \in BOOLEAN : Answer(s, c, ok)
    BY HostShape DEF WindowInv
  <1>3. /\ m \in Request /\ m = q[1] /\ q \in Seq(Request) /\ q # <<>>
        /\ UNCHANGED <<clientVars, conn, dials, restarts>>
        /\ \A x \in Sessions, e \in Conns :
              requests'[x][e] = IF x = s /\ e = c THEN Tail(requests[x][e])
                                ELSE requests[x][e]
    BY <1>1, <1>2, AnswerShape
  <1>4. /\ windows[s] \in Window /\ m.seq \in Seqs /\ m.ackedThrough \in 0..MaxSeq
        /\ d \in Window /\ writeSeq[s] \in Nat
    <2>1. writeSeq[s] \in Nat
      BY <1>1, BoundAssumption DEF TypeOK
    <2> QED
      BY <1>1, <1>3, <2>1, DrainedShape
  <1>5. m.seq <= writeSeq[s] /\ WindowFits(windows[s], s, writeSeq[s])
    BY <1>3 DEF WindowInv, IssuedOnly, WindowsFit
  <1>6. WindowFits(d, s, writeSeq[s])
    BY <1>4, <1>5, DrainFits DEF Drained
  <1>7. HasRoom(s, c) => WindowFits(Mark(d, s, m.seq), s, writeSeq[s])
    BY <1>4, <1>5, <1>6, MarkFits DEF HasRoom
  <1>8. WindowsFit'
    <2> SUFFICES ASSUME NEW x \in Sessions
                 PROVE  WindowFits(windows'[x], x, writeSeq[x])
      BY <1>3 DEF WindowsFit, clientVars
    <2>1. WindowFits(windows[x], x, writeSeq[x]) /\ WindowFits(NewWindow, x, writeSeq[x])
      BY NewWindowFits DEF WindowInv, WindowsFit
    <2>2. \/ windows'[x] \in {windows[x], NewWindow}
          \/ x = s /\ windows'[x] = d
          \/ x = s /\ windows'[x] = Mark(d, s, m.seq) /\ HasRoom(s, c)
      BY <1>1 DEF HostEffect
    <2> QED
      BY <1>6, <1>7, <2>1, <2>2
  <1>9. IssuedOnly'
    <2>1. ASSUME NEW x \in Sessions, NEW e \in Conns, NEW i \in 1..Len(requests'[x][e])
          PROVE  requests'[x][e][i].seq <= writeSeq[x]
      <3>1. CASE x = s /\ e = c
        <4>1. q \in Seq(Request) /\ q # <<>> /\ requests'[x][e] = Tail(q)
          BY <1>3, <3>1
        <4> HIDE DEF q
        <4>2. i + 1 \in 1..Len(q) /\ Tail(q)[i] = q[i + 1]
          BY <4>1
        <4> QED
          BY <3>1, <4>1, <4>2 DEF q, WindowInv, IssuedOnly
      <3>2. CASE ~(x = s /\ e = c)
        BY <1>3, <3>2 DEF WindowInv, IssuedOnly
      <3> QED
        BY <3>1, <3>2
    <2> QED
      BY <1>3, <2>1 DEF WindowInv, IssuedOnly, clientVars
  <1> QED
    BY <1>1, <1>8, <1>9 DEF WindowInv

\* Every step keeps the windows within the capacity.
LEMMA WindowStep == WindowInv /\ [Next]_vars => WindowInv'
  <1> SUFFICES ASSUME WindowInv, [Next]_vars PROVE WindowInv'
    OBVIOUS
  <1>1. Base /\ TypeOK /\ IssuedOnly /\ WindowsFit /\ Base'
    BY BaseStep DEF WindowInv, Base
  <1>2. ASSUME NEW s \in Sessions, Mutate(s) PROVE WindowInv'
    <2> DEFINE n == writeSeq[s] + 1
    <2>1. /\ n \in Seqs /\ RequestFor(s, n) \in Request
          /\ \A x \in Sessions : writeSeq'[x] = IF x = s THEN n ELSE writeSeq[x]
          /\ \A x \in Sessions :
               pending'[x] = IF x = s THEN pending[x] \cup {n} ELSE pending[x]
          /\ UNCHANGED registryVars
          /\ \A x \in Sessions, d \in Conns :
               requests'[x][d] = IF x = s /\ d = conn[s]
                                 THEN Append(requests[x][d], RequestFor(s, n))
                                 ELSE requests[x][d]
      BY <1>1, <1>2, MutateShape
    <2>2. \A x \in Sessions : writeSeq[x] \in Nat /\ pending[x] \subseteq Nat
      BY <1>1, BoundAssumption DEF TypeOK, Seqs
    <2>3. \A x \in Sessions : /\ writeSeq[x] <= writeSeq'[x] /\ writeSeq'[x] \in Nat
                              /\ \A k \in Nat : k <= writeSeq[x] => k <= writeSeq'[x]
      BY <2>1, <2>2
    <2>4. ASSUME NEW x \in Sessions
          PROVE  WindowFits(windows'[x], x, writeSeq'[x])
      <3>1. WindowFits(windows[x], x, writeSeq[x]) /\ windows'[x] = windows[x]
        BY <1>1, <2>1 DEF WindowsFit, registryVars
      <3>2. windows[x].seqs \subseteq Nat
        BY <1>1, BoundAssumption DEF TypeOK, Window, Seqs
      <3> QED
        BY <2>3, <3>1, <3>2 DEF WindowFits
    <2>5. ASSUME NEW x \in Sessions, NEW d \in Conns, NEW i \in 1..Len(requests'[x][d])
          PROVE  requests'[x][d][i].seq <= writeSeq'[x]
      <3> DEFINE q == requests[x][d]
      <3>1. q \in Seq(Request) /\ \A j \in 1..Len(q) : q[j].seq \in Nat
        <4>1. q \in Seq(Request)
          BY <1>1 DEF TypeOK
        <4>2. \A j \in 1..Len(q) : q[j] \in Request
          BY <4>1
        <4>3. \A r \in Request : r.seq \in Nat
          BY BoundAssumption DEF Request, Seqs
        <4> QED
          BY <4>1, <4>2, <4>3
      <3>2. \A j \in 1..Len(q) : q[j].seq <= writeSeq'[x]
        BY <1>1, <2>3, <3>1 DEF IssuedOnly
      <3>3. CASE x = s /\ d = conn[s]
        <4>1. requests'[x][d] = Append(q, RequestFor(s, n))
          BY <2>1, <3>3
        <4>2. RequestFor(s, n).seq <= writeSeq'[x]
          BY <2>1, <2>3, <3>3 DEF RequestFor
        <4> HIDE DEF q, n
        <4> QED
          BY <2>1, <3>1, <3>2, <4>1, <4>2
      <3>4. CASE ~(x = s /\ d = conn[s])
        BY <2>1, <3>2, <3>4
      <3> QED
        BY <3>3, <3>4
    <2>6. \A x \in Sessions : \A k \in pending'[x] : k <= writeSeq'[x]
      <3> SUFFICES ASSUME NEW x \in Sessions, NEW k \in pending'[x]
                   PROVE  k <= writeSeq'[x]
        OBVIOUS
      <3>1. CASE k \in pending[x]
        <4>1. k \in Nat /\ k <= writeSeq[x]
          BY <1>1, <2>2, <3>1 DEF IssuedOnly
        <4> QED
          BY <2>3, <4>1
      <3>2. CASE k \notin pending[x]
        <4>1. x = s /\ k = n
          <5>1. pending'[x] = IF x = s THEN pending[x] \cup {n} ELSE pending[x]
            BY <2>1
          <5> HIDE DEF n
          <5> QED
            BY <3>2, <5>1
        <4>2. n \in Nat /\ writeSeq'[x] = n
          BY <2>1, <2>2, <4>1
        <4> QED
          BY <4>1, <4>2
      <3> QED
        BY <3>1, <3>2
    <2> QED
      BY <1>1, <2>4, <2>5, <2>6 DEF WindowInv, WindowsFit, IssuedOnly
  <1>3. ASSUME NEW s \in Sessions, ReceiveAck(s) PROVE WindowInv'
    <2>1. /\ UNCHANGED <<writeSeq, requests>> /\ UNCHANGED registryVars
          /\ \A x \in Sessions : pending'[x] \subseteq pending[x]
      BY <1>1, <1>3, ReceiveAckShape
    <2> QED
      BY <1>1, <2>1 DEF WindowInv, WindowsFit, IssuedOnly, registryVars
  <1>4. ASSUME NEW s \in Sessions, Redial(s) PROVE WindowInv'
    <2>1. UNCHANGED <<clientVars, registryVars>>
      BY <1>1, <1>4, RedialShape
    <2>2. PICK c \in Conns, N \in Nat : \E f \in [1..N -> pending[s]] :
            \A x \in Sessions, d \in Conns :
              requests'[x][d] = IF x = s /\ d = c
                                THEN [i \in 1..N |-> RequestFor(s, f[i])]
                                ELSE requests[x][d]
      BY <1>1, <1>4, RedialShape
    <2>3. PICK f \in [1..N -> pending[s]] : \A x \in Sessions, d \in Conns :
            requests'[x][d] = IF x = s /\ d = c THEN [i \in 1..N |-> RequestFor(s, f[i])]
                              ELSE requests[x][d]
      BY <2>2
    <2>4. ASSUME NEW x \in Sessions, NEW d \in Conns, NEW i \in 1..Len(requests'[x][d])
          PROVE  requests'[x][d][i].seq <= writeSeq[x]
      <3>1. CASE x = s /\ d = c
        <4> DEFINE q == [j \in 1..N |-> RequestFor(s, f[j])]
        <4>1. i \in 1..N /\ requests'[x][d][i] = RequestFor(s, f[i])
          <5>1. requests'[x][d] = q
            BY <2>3, <3>1
          <5>2. Len(q) = N
            OBVIOUS
          <5>3. i \in 1..N
            BY <5>1, <5>2
          <5> QED
            BY <5>1, <5>3
        <4> QED
          BY <1>1, <3>1, <4>1 DEF RequestFor, IssuedOnly
      <3>2. CASE ~(x = s /\ d = c)
        BY <1>1, <2>3, <3>2 DEF IssuedOnly
      <3> QED
        BY <3>1, <3>2
    <2> QED
      BY <1>1, <2>1, <2>4 DEF WindowInv, WindowsFit, IssuedOnly, clientVars, registryVars
  <1>5. ASSUME NEW s \in Sessions, NEW c \in Conns, HostMutate(s, c) PROVE WindowInv'
    BY <1>5, HostFits
  <1>6. ASSUME (\E s \in Sessions : Drop(s) \/ Close(s)) \/ Restart PROVE WindowInv'
    <2>1. /\ UNCHANGED writeSeq
          /\ \A x \in Sessions : /\ pending'[x] \subseteq pending[x]
                                 /\ windows'[x] \in {windows[x], NewWindow}
          /\ \A x \in Sessions, d \in Conns : \A i \in 1..Len(requests'[x][d]) :
               i \in 1..Len(requests[x][d]) /\ requests'[x][d][i] = requests[x][d][i]
      BY <1>1, <1>6, LossShape
    <2>2. WindowsFit'
      BY <1>1, <2>1, NewWindowFits DEF WindowsFit
    <2>3. IssuedOnly'
      BY <1>1, <2>1 DEF IssuedOnly
    <2> QED
      BY <1>1, <2>2, <2>3 DEF WindowInv
  <1>7. CASE UNCHANGED vars
    BY <1>1, <1>7 DEF WindowInv, WindowsFit, IssuedOnly, vars, clientVars, wireVars, registryVars
  <1> QED
    BY <1>2, <1>3, <1>4, <1>5, <1>6, <1>7 DEF Next

\* Initially no window holds anything.
LEMMA WindowInit == Init => WindowInv
  <1> SUFFICES ASSUME Init PROVE WindowInv
    OBVIOUS
  <1>1. TypeOK
    BY InitInv DEF Inv
  <1>2. UnknownIsNew /\ IssuedOnly
    BY DEF Init, UnknownIsNew, IssuedOnly
  <1>3. WindowsFit
    BY NewWindowFits DEF Init, WindowsFit
  <1> QED
    BY <1>1, <1>2, <1>3 DEF WindowInv, Base

\* A host only refuses a message for want of room when its window is full of
\* writes beyond the mark the message carries.
LEMMA FullWindowIsBehind ==
  ASSUME WindowInv, NEW s \in Sessions, NEW c \in Conns, RefuseFull(s, c)
  PROVE  writeSeq[s] - Message(s, c).ackedThrough > Capacity
  <1> DEFINE m == Message(s, c)
             d == Drained(s, c)
             top == writeSeq[s]
  <1>1. TypeOK /\ UnknownIsNew /\ Incoming(s, c) /\ ~Seen(d, s, m.seq)
        /\ s \notin Legacy /\ ~(Retained(d) < Capacity)
        /\ Answer(s, c, FALSE)
    BY DEF WindowInv, Base, RefuseFull, Fresh, HasRoom
  <1>2. m \in Request /\ m = requests[s][c][1] /\ 1 \in 1..Len(requests[s][c])
    <2>1. /\ m \in Request /\ m = requests[s][c][1]
          /\ requests[s][c] \in Seq(Request) /\ requests[s][c] # <<>>
      BY <1>1, AnswerShape DEF WindowInv
    <2> QED
      BY <2>1
  <1>3. /\ windows[s] \in Window /\ m.seq \in Seqs /\ m.ackedThrough \in 0..MaxSeq
        /\ d \in Window
        /\ s \notin known => d = windows[s]
    BY <1>1, <1>2, DrainedShape
  <1>4. /\ m.seq \in Nat /\ m.ackedThrough \in Nat /\ top \in Nat
        /\ d.lowWater \in Nat /\ d.seqs \in SUBSET Seqs /\ d.seqs \subseteq Nat
        /\ Capacity \in Nat /\ Capacity >= 1
    <2>1. m.seq \in Nat /\ m.ackedThrough \in Nat /\ top \in Nat
      BY <1>1, <1>3, BoundAssumption DEF TypeOK, Seqs
    <2>2. d.lowWater \in Nat /\ d.seqs \in SUBSET Seqs
      BY <1>3, BoundAssumption DEF Window
    <2>3. Seqs \subseteq Nat
      BY BoundAssumption DEF Seqs
    <2>4. Capacity \in Nat /\ Capacity >= 1
      BY CapacityAssumption
    <2>5. d.seqs \subseteq Nat
      BY <2>2, <2>3
    <2> QED
      BY <2>1, <2>2, <2>4, <2>5
  <1>5. m.seq <= top
    BY <1>2 DEF WindowInv, IssuedOnly
  <1>6. WindowFits(d, s, top)
    <2>1. WindowFits(windows[s], s, top)
      BY DEF WindowInv, WindowsFit
    <2> QED
      BY <1>3, <1>4, <2>1, DrainFits DEF Drained
  <1>7. /\ d.legacy = {} /\ \A n \in d.seqs : d.lowWater < n /\ n <= top
        /\ m.seq > d.lowWater /\ m.seq \notin d.seqs
    BY <1>1, <1>4, <1>6 DEF WindowFits, Seen
  <1>8. Cardinality(d.seqs) \in Nat /\ Cardinality(d.seqs) >= Capacity
        /\ IsFiniteSet(d.seqs)
    <2>1. Cardinality({}) = 0
      BY FS_EmptySet
    <2>2. Cardinality(d.seqs) \in Nat /\ IsFiniteSet(d.seqs)
      BY <1>4, SeqsAreFinite
    <2>3. Retained(d) = Cardinality(d.seqs)
      BY <1>7, <2>1, <2>2 DEF Retained
    <2> QED
      BY <1>1, <1>4, <2>2, <2>3
  <1>9. d.lowWater >= m.ackedThrough
    <2>1. s \in known
      <3> SUFFICES ASSUME s \notin known PROVE FALSE
        OBVIOUS
      <3>1. d.seqs = {}
        BY <1>1, <1>3 DEF UnknownIsNew, NewWindow
      <3>2. Cardinality(d.seqs) = 0
        BY <3>1, FS_EmptySet
      <3> QED
        BY <1>4, <1>8, <3>2
    <2>2. CASE m.ackedThrough > windows[s].lowWater
      <3>1. d = [windows[s] EXCEPT !.seqs = @ \ (windows[s].lowWater + 1 .. m.ackedThrough),
                                   !.lowWater = m.ackedThrough]
        BY <1>1, <2>1, <2>2 DEF Drained, Drain
      <3>2. d.lowWater = m.ackedThrough
        BY <1>3, <3>1 DEF Window
      <3> QED
        BY <1>4, <3>2
    <2>3. CASE ~(m.ackedThrough > windows[s].lowWater)
      <3>1. d = windows[s]
        BY <2>3 DEF Drained, Drain
      <3> QED
        BY <1>4, <2>3, <3>1
    <2> QED
      BY <2>2, <2>3
  <1> HIDE DEF m, d, top
  <1>10. d.seqs \cup {m.seq} \subseteq d.lowWater + 1 .. top
    BY <1>4, <1>5, <1>7
  <1>11. Cardinality(d.seqs \cup {m.seq}) = Cardinality(d.seqs) + 1
    BY <1>7, <1>8, FS_AddElement
  <1>12. Cardinality(d.seqs \cup {m.seq}) <= top - d.lowWater
    <2> DEFINE I == d.lowWater + 1 .. top
    <2>1. d.lowWater + 1 \in Int /\ top \in Int
      BY <1>4
    <2>2. IsFiniteSet(I) /\ Cardinality(I) =
            IF d.lowWater + 1 > top THEN 0 ELSE top - (d.lowWater + 1) + 1
      BY <2>1, FS_Interval
    <2>3. Cardinality(I) = top - d.lowWater
      BY <1>4, <1>5, <1>7, <2>2
    <2> HIDE DEF I
    <2>4. d.seqs \cup {m.seq} \in SUBSET I
      BY <1>10 DEF I
    <2>5. Cardinality(d.seqs \cup {m.seq}) <= Cardinality(I)
      BY <2>2, <2>4, FS_Subset
    <2> QED
      BY <2>3, <2>5
  <1>13. top - m.ackedThrough > Capacity
    BY <1>4, <1>8, <1>9, <1>11, <1>12
  <1> QED
    BY <1>13 DEF m, top

(***************************************************************************)
(* The order of the writes.  A write is accounted for once it reached the  *)
(* graph or some host refused it.                                          *)
(***************************************************************************)
Accounted(s) == {n \in Seqs : applied[s][n] >= 1 \/ n \in refused[s]}

\* Before every request of a queue stand the requests for all earlier writes
\* but those in `done'.
InOrder(q, done) ==
  \A i \in 1..Len(q), m \in Seqs :
    m < q[i].seq => m \in done \/ \E j \in 1..(i - 1) : q[j].seq = m

\* A queue holds requests for all writes up to `top' but those in `done'.
Reaches(q, top, done) ==
  \A m \in Seqs : m <= top => m \in done \/ \E j \in 1..Len(q) : q[j].seq = m

\* Handling the first request keeps the order, when its write is done.
LEMMA TailInOrder ==
  ASSUME NEW q \in Seq(Request), q # <<>>, NEW done, NEW more, done \subseteq more,
         q[1].seq \in more
  PROVE  /\ InOrder(q, done) => InOrder(Tail(q), more)
         /\ \A top : Reaches(q, top, done) => Reaches(Tail(q), top, more)
  <1>1. /\ Len(q) \in Nat /\ Len(q) >= 1 /\ Len(Tail(q)) = Len(q) - 1
        /\ \A i \in 1..Len(Tail(q)) : i + 1 \in 1..Len(q) /\ Tail(q)[i] = q[i + 1]
    OBVIOUS
  <1>2. ASSUME InOrder(q, done), NEW i \in 1..Len(Tail(q)), NEW m \in Seqs,
               m < Tail(q)[i].seq, m \notin more
        PROVE  \E j \in 1..(i - 1) : Tail(q)[j].seq = m
    <2>1. PICK j \in 1..i : q[j].seq = m
      <3>1. i + 1 \in 1..Len(q) /\ Tail(q)[i] = q[i + 1] /\ i + 1 - 1 = i
        BY <1>1
      <3> QED
        BY <1>2, <3>1 DEF InOrder
    <2>2. j # 1
      BY <1>2, <2>1
    <2>3. j - 1 \in 1..(i - 1) /\ j - 1 \in 1..Len(Tail(q)) /\ j - 1 + 1 = j
      BY <1>1, <2>1, <2>2
    <2>4. Tail(q)[j - 1] = q[j]
      BY <1>1, <2>3
    <2> QED
      BY <2>1, <2>3, <2>4
  <1>3. ASSUME NEW top, Reaches(q, top, done), NEW m \in Seqs, m <= top, m \notin more
        PROVE  \E j \in 1..Len(Tail(q)) : Tail(q)[j].seq = m
    <2>1. PICK j \in 1..Len(q) : q[j].seq = m
      BY <1>3 DEF Reaches
    <2>2. j # 1
      BY <1>3, <2>1
    <2>3. j - 1 \in 1..Len(Tail(q)) /\ j - 1 + 1 = j
      BY <1>1, <2>1, <2>2
    <2>4. Tail(q)[j - 1] = q[j]
      BY <1>1, <2>3
    <2> QED
      BY <2>1, <2>3, <2>4
  <1>4. InOrder(q, done) => InOrder(Tail(q), more)
    BY <1>2 DEF InOrder
  <1>5. \A top : Reaches(q, top, done) => Reaches(Tail(q), top, more)
    BY <1>3 DEF Reaches
  <1> QED
    BY <1>4, <1>5

\* Sending the next write keeps the order.
LEMMA AppendInOrder ==
  ASSUME NEW q \in Seq(Request), NEW r \in Request, NEW top \in Nat, r.seq = top + 1,
         NEW done, InOrder(q, done), Reaches(q, top, done)
  PROVE  InOrder(Append(q, r), done) /\ Reaches(Append(q, r), top + 1, done)
  <1> DEFINE a == Append(q, r)
  <1>1. /\ Len(q) \in Nat /\ Len(a) = Len(q) + 1 /\ a[Len(q) + 1] = r
        /\ \A i \in 1..Len(q) : i \in 1..Len(a) /\ a[i] = q[i]
    OBVIOUS
  <1>2. \A m \in Seqs : m \in Nat
    BY BoundAssumption DEF Seqs
  <1> HIDE DEF a
  <1>3. ASSUME NEW m \in Seqs, m <= top, m \notin done
        PROVE  \E j \in 1..Len(q) : a[j].seq = m
    BY <1>1, <1>3 DEF Reaches
  <1>4. ASSUME NEW i \in 1..Len(a), NEW m \in Seqs, m < a[i].seq, m \notin done
        PROVE  \E j \in 1..(i - 1) : a[j].seq = m
    <2>1. CASE i = Len(q) + 1
      <3>1. m <= top
        BY <1>1, <1>2, <1>4, <2>1
      <3>2. PICK j \in 1..Len(q) : a[j].seq = m
        BY <1>3, <1>4, <3>1
      <3> QED
        BY <1>1, <2>1, <3>2
    <2>2. CASE i # Len(q) + 1
      <3>1. i \in 1..Len(q) /\ a[i] = q[i]
        BY <1>1, <2>2
      <3>2. PICK j \in 1..(i - 1) : q[j].seq = m
        BY <1>4, <3>1 DEF InOrder
      <3>3. a[j] = q[j]
        BY <1>1, <3>1, <3>2
      <3> QED
        BY <3>2, <3>3
    <2> QED
      BY <2>1, <2>2
  <1>5. ASSUME NEW m \in Seqs, m <= top + 1, m \notin done
        PROVE  \E j \in 1..Len(a) : a[j].seq = m
    <2>1. CASE m = top + 1
      BY <1>1, <2>1
    <2>2. CASE m # top + 1
      <3>1. m <= top
        BY <1>2, <1>5, <2>2
      <3> QED
        BY <1>1, <1>3, <1>5, <3>1
    <2> QED
      BY <2>1, <2>2
  <1>6. InOrder(a, done)
    BY <1>4 DEF InOrder
  <1>7. Reaches(a, top + 1, done)
    BY <1>5 DEF Reaches
  <1> QED
    BY <1>6, <1>7 DEF a

\* Losing the last requests keeps the order of the others.
LEMMA PrefixInOrder ==
  ASSUME NEW q \in Seq(Request), NEW p \in Seq(Request), NEW done, InOrder(q, done),
         \A i \in 1..Len(p) : i \in 1..Len(q) /\ p[i] = q[i]
  PROVE  InOrder(p, done)
  <1> SUFFICES ASSUME NEW i \in 1..Len(p), NEW m \in Seqs, m < p[i].seq, m \notin done
               PROVE  \E j \in 1..(i - 1) : p[j].seq = m
    BY DEF InOrder
  <1>1. i \in 1..Len(q) /\ p[i] = q[i]
    OBVIOUS
  <1>2. PICK j \in 1..(i - 1) : q[j].seq = m
    BY <1>1 DEF InOrder
  <1>3. j \in 1..Len(p)
    BY <1>2
  <1> QED
    BY <1>2, <1>3

\* A replay of all pending writes in ascending order is in order, and reaches
\* as far as every write is pending or done.
LEMMA ReplayInOrder ==
  ASSUME NEW s \in Sessions, NEW N \in Nat, NEW S \in SUBSET Seqs, NEW f \in [1..N -> S],
         \A i, j \in 1..N : i < j => f[i] < f[j],
         \A n \in S : \E i \in 1..N : f[i] = n,
         NEW top \in Nat, \A n \in S : n <= top,
         NEW done, \A n \in Seqs : n <= top => n \in S \/ n \in done,
         NEW q, q = [i \in 1..N |-> RequestFor(s, f[i])]
  PROVE  InOrder(q, done) /\ Reaches(q, top, done)
  <1>1. Len(q) = N /\ \A i \in 1..N : q[i].seq = f[i]
    BY DEF RequestFor
  <1>2. \A n \in Seqs : n \in Nat
    BY BoundAssumption DEF Seqs
  <1>3. Reaches(q, top, done)
    <2> SUFFICES ASSUME NEW m \in Seqs, m <= top, m \notin done
                 PROVE  \E j \in 1..N : q[j].seq = m
      BY <1>1 DEF Reaches
    <2>1. m \in S
      OBVIOUS
    <2>2. PICK j \in 1..N : f[j] = m
      BY <2>1
    <2> QED
      BY <1>1, <2>2
  <1>4. InOrder(q, done)
    <2> SUFFICES ASSUME NEW i \in 1..N, NEW m \in Seqs, m < f[i], m \notin done
                 PROVE  \E j \in 1..(i - 1) : q[j].seq = m
      BY <1>1 DEF InOrder
    <2>1. f[i] \in S /\ f[i] <= top /\ f[i] \in Nat /\ m \in Nat
      BY <1>2
    <2>2. m \in S
      BY <2>1
    <2>3. PICK j \in 1..N : f[j] = m
      BY <2>2
    <2>4. ~(i < j) /\ i # j
      BY <2>1, <2>3
    <2>5. j \in 1..(i - 1)
      BY <2>4
    <2> QED
      BY <1>1, <2>3, <2>5
  <1> QED
    BY <1>3, <1>4

\* The ledger of a session: marks the client reached; what it resolved, what
\* the registry counts as seen and what is being acked is accounted for; a
\* write that is issued stays pending until it is, unless the client closes;
MarksReached ==
  \A s \in Sessions :
    /\ windows[s].lowWater <= ackedThrough[s]
    /\ \A c \in Conns : \A i \in 1..Len(requests[s][c]) :
         requests[s][c][i].ackedThrough <= ackedThrough[s]
ResolvedIsAccounted ==
  \A s \in Sessions, n \in Seqs :
    n <= ackedThrough[s] \/ n \in resolvedAhead[s] \/ Seen(windows[s], s, n) =>
      n \in Accounted(s)
AcksAreAccounted ==
  \A s \in Sessions : \A i \in 1..Len(acks[s]) : acks[s][i].seq \in Accounted(s)
IssuedIsAccounted ==
  \A s \in Sessions, n \in Seqs :
    n <= writeSeq[s] => n \in pending[s] \/ n \in Accounted(s) \/ closed[s]
\* and every queue is in order, the current one up to the last write.
QueuesInOrder ==
  \A s \in Sessions, c \in Conns : InOrder(requests[s][c], Accounted(s))
CurrentReaches ==
  \A s \in Sessions :
    conn[s] # 0 => Reaches(requests[s][conn[s]], writeSeq[s], Accounted(s))

Ledger ==
  /\ WindowInv
  /\ MarksReached
  /\ ResolvedIsAccounted
  /\ AcksAreAccounted
  /\ IssuedIsAccounted
  /\ QueuesInOrder
  /\ CurrentReaches

\* What is accounted for stays so, and a handled message's write becomes so.
LEMMA HostAccounts ==
  ASSUME Ledger, NEW s \in Sessions, NEW c \in Conns, HostMutate(s, c)
  PROVE  /\ \A x \in Sessions : Accounted(x) \subseteq Accounted(x)'
         /\ Message(s, c).seq \in Accounted(s)'
         /\ \A x \in Sessions : windows'[x].lowWater <= ackedThrough[x]
         /\ \A x \in Sessions, k \in Seqs :
              Seen(windows'[x], x, k) => k \in Accounted(x)'
  <1> DEFINE m == Message(s, c)
             n == m.seq
             d == Drained(s, c)
  <1>1. /\ Base /\ TypeOK /\ TypeOK' /\ HostEffect(s, c) /\ Incoming(s, c)
        /\ MarksReached /\ ResolvedIsAccounted
    BY HostShape DEF Ledger, WindowInv, Base
  <1>2. PICK ok \in BOOLEAN : Answer(s, c, ok)
    BY HostShape DEF Ledger, WindowInv
  <1>3. /\ m \in Request /\ m = requests[s][c][1]
        /\ requests[s][c] \in Seq(Request) /\ requests[s][c] # <<>>
    BY <1>1, <1>2, AnswerShape
  <1>4. /\ windows[s] \in Window /\ n \in Seqs /\ m.ackedThrough \in 0..MaxSeq
        /\ d \in Window /\ d.lowWater \in {windows[s].lowWater, m.ackedThrough}
        /\ \A k \in Seqs : Seen(d, s, k) => Seen(windows[s], s, k) \/ k <= m.ackedThrough
    BY <1>1, <1>3, DrainedShape
  <1>5. m.ackedThrough <= ackedThrough[s] /\ windows[s].lowWater <= ackedThrough[s]
    <2>1. 1 \in 1..Len(requests[s][c])
      BY <1>3
    <2> QED
      BY <1>1, <1>3, <2>1 DEF MarksReached
  <1>6. ackedThrough[s] \in Nat /\ m.ackedThrough \in Nat /\ \A k \in Seqs : k \in Nat
    BY <1>1, <1>4, BoundAssumption DEF TypeOK, Seqs
  <1>7. ASSUME NEW x \in Sessions, NEW k \in Accounted(x)
        PROVE  k \in Accounted(x)'
    <2>1. k \in Seqs /\ (applied[x][k] >= 1 \/ k \in refused[x])
      BY <1>7 DEF Accounted
    <2>2. applied[x][k] \in Nat
      BY <1>1, <2>1 DEF TypeOK
    <2>3. applied'[x][k] = applied[x][k] \/ applied'[x][k] = applied[x][k] + 1
      BY <1>1, <2>1 DEF HostEffect
    <2>4. applied[x][k] >= 1 => applied'[x][k] >= 1
      BY <2>2, <2>3
    <2>5. refused[x] \subseteq refused'[x]
      BY <1>1 DEF HostEffect
    <2> QED
      BY <2>1, <2>4, <2>5 DEF Accounted
  <1>8. \A k \in Seqs : Seen(d, s, k) => k \in Accounted(s)'
    <2> SUFFICES ASSUME NEW k \in Seqs, Seen(d, s, k) PROVE k \in Accounted(s)'
      OBVIOUS
    <2>1. Seen(windows[s], s, k) \/ k <= ackedThrough[s]
      BY <1>4, <1>5, <1>6
    <2>2. k \in Accounted(s)
      BY <1>1, <2>1 DEF ResolvedIsAccounted
    <2> QED
      BY <1>7, <2>2
  <1>9. n \in Accounted(s)'
    <2>1. Seen(d, s, n) \/ applied'[s][n] >= 1 \/ n \in refused'[s]
      BY <1>1 DEF HostEffect
    <2> QED
      BY <1>4, <1>8, <2>1 DEF Accounted
  <1>10. ASSUME NEW x \in Sessions
         PROVE  \/ windows'[x] \in {windows[x], NewWindow}
                \/ x = s /\ windows'[x] = d
                \/ x = s /\ windows'[x] = Mark(d, s, n)
    BY <1>1 DEF HostEffect
  <1>11. /\ Mark(d, s, n).lowWater = d.lowWater
         /\ \A k \in Seqs : Seen(Mark(d, s, n), s, k) => Seen(d, s, k) \/ k = n
    BY <1>4, MarkWindow
  <1>12. /\ NewWindow.lowWater = 0
         /\ \A x \in Sessions, k \in Seqs : ~Seen(NewWindow, x, k)
    BY BoundAssumption DEF NewWindow, Seen, Seqs
  <1> HIDE DEF m, n, d
  <1>13. ASSUME NEW x \in Sessions
         PROVE  windows'[x].lowWater <= ackedThrough[x]
    <2>1. windows[x].lowWater <= ackedThrough[x] /\ 0 <= ackedThrough[x]
      BY <1>1 DEF MarksReached, TypeOK
    <2> QED
      BY <1>4, <1>5, <1>10, <1>11, <1>12, <2>1
  <1>14. ASSUME NEW x \in Sessions, NEW k \in Seqs, Seen(windows'[x], x, k)
         PROVE  k \in Accounted(x)'
    <2>1. CASE windows'[x] = windows[x]
      <3>1. k \in Accounted(x)
        BY <1>1, <1>14, <2>1 DEF ResolvedIsAccounted
      <3> QED
        BY <1>7, <3>1
    <2>2. CASE windows'[x] = NewWindow
      BY <1>12, <1>14, <2>2
    <2>3. CASE x = s /\ windows'[x] = d
      BY <1>8, <1>14, <2>3
    <2>4. CASE x = s /\ windows'[x] = Mark(d, s, n)
      BY <1>8, <1>9, <1>11, <1>14, <2>4
    <2> QED
      BY <1>10, <2>1, <2>2, <2>3, <2>4
  <1> QED
    BY <1>7, <1>9, <1>13, <1>14 DEF n, m

\* A host that handles a message keeps the ledger.
LEMMA HostLedger ==
  ASSUME Ledger, NEW s \in Sessions, NEW c \in Conns, HostMutate(s, c)
  PROVE  Ledger'
  <1> DEFINE m == Message(s, c)
  <1>1. /\ Base /\ TypeOK /\ Incoming(s, c) /\ WindowInv'
    BY HostShape, HostFits DEF Ledger, WindowInv, Base
  <1>2. PICK ok \in BOOLEAN : Answer(s, c, ok)
    BY HostShape DEF Ledger, WindowInv
  <1>3. /\ m = requests[s][c][1]
        /\ requests[s][c] \in Seq(Request) /\ requests[s][c] # <<>>
        /\ UNCHANGED <<clientVars, conn, dials, restarts>>
        /\ \A x \in Sessions, e \in Conns :
              requests'[x][e] = IF x = s /\ e = c THEN Tail(requests[x][e])
                                ELSE requests[x][e]
        /\ \A x \in Sessions : \A i \in 1..Len(acks'[x]) :
              \/ i \in 1..Len(acks[x]) /\ acks'[x][i] = acks[x][i]
              \/ x = s /\ acks'[x][i].seq = m.seq
    BY <1>1, <1>2, AnswerShape
  <1>4. UNCHANGED <<writeSeq, pending, ackedThrough, resolvedAhead, closed, conn>>
    BY <1>3 DEF clientVars
  <1>5. /\ \A x \in Sessions : Accounted(x) \subseteq Accounted(x)'
        /\ m.seq \in Accounted(s)'
        /\ \A x \in Sessions : windows'[x].lowWater <= ackedThrough[x]
        /\ \A x \in Sessions, k \in Seqs : Seen(windows'[x], x, k) => k \in Accounted(x)'
    BY HostAccounts
  <1> HIDE DEF m
  <1>6. MarksReached'
    <2>1. ASSUME NEW x \in Sessions, NEW e \in Conns, NEW i \in 1..Len(requests'[x][e])
          PROVE  requests'[x][e][i].ackedThrough <= ackedThrough[x]
      <3> DEFINE q == requests[x][e]
      <3>1. CASE x = s /\ e = c
        <4>1. q \in Seq(Request) /\ q # <<>> /\ requests'[x][e] = Tail(q)
          BY <1>3, <3>1
        <4> HIDE DEF q
        <4>2. i + 1 \in 1..Len(q) /\ Tail(q)[i] = q[i + 1]
          BY <4>1
        <4> QED
          BY <4>1, <4>2 DEF q, Ledger, MarksReached
      <3>2. CASE ~(x = s /\ e = c)
        BY <1>3, <3>2 DEF Ledger, MarksReached
      <3> QED
        BY <3>1, <3>2
    <2> QED
      BY <1>4, <1>5, <2>1 DEF MarksReached
  <1>7. ResolvedIsAccounted'
    BY <1>4, <1>5 DEF Ledger, ResolvedIsAccounted
  <1>8. AcksAreAccounted'
    <2> SUFFICES ASSUME NEW x \in Sessions, NEW i \in 1..Len(acks'[x])
                 PROVE  acks'[x][i].seq \in Accounted(x)'
      BY DEF AcksAreAccounted
    <2>1. CASE i \in 1..Len(acks[x]) /\ acks'[x][i] = acks[x][i]
      BY <1>5, <2>1 DEF Ledger, AcksAreAccounted
    <2>2. CASE x = s /\ acks'[x][i].seq = m.seq
      BY <1>5, <2>2
    <2> QED
      BY <1>3, <2>1, <2>2
  <1>9. IssuedIsAccounted'
    BY <1>4, <1>5 DEF Ledger, IssuedIsAccounted
  <1>10. ASSUME NEW x \in Sessions, NEW e \in Conns
         PROVE  /\ InOrder(requests'[x][e], Accounted(x)')
                /\ \A top : Reaches(requests[x][e], top, Accounted(x)) =>
                              Reaches(requests'[x][e], top, Accounted(x)')
    <2> DEFINE q == requests[x][e]
               more == Accounted(x)'
    <2>1. InOrder(q, Accounted(x)) /\ q \in Seq(Request)
      BY <1>1 DEF Ledger, QueuesInOrder, TypeOK
    <2>2. Accounted(x) \subseteq more
      BY <1>5
    <2>3. CASE x = s /\ e = c
      <3>1. q # <<>> /\ q[1].seq \in more /\ requests'[x][e] = Tail(q)
        BY <1>3, <1>5, <2>3
      <3> HIDE DEF q, more
      <3>2. /\ InOrder(Tail(q), more)
            /\ \A top : Reaches(q, top, Accounted(x)) => Reaches(Tail(q), top, more)
        BY <2>1, <2>2, <3>1, TailInOrder
      <3> QED
        BY <3>1, <3>2 DEF q, more
    <2>4. CASE ~(x = s /\ e = c)
      <3>1. requests'[x][e] = q
        BY <1>3, <2>4
      <3> HIDE DEF q, more
      <3>2. InOrder(q, more)
        BY <2>1, <2>2 DEF InOrder
      <3>3. \A top : Reaches(q, top, Accounted(x)) => Reaches(q, top, more)
        BY <2>2 DEF Reaches
      <3> QED
        BY <3>1, <3>2, <3>3 DEF q, more
    <2> QED
      BY <2>3, <2>4
  <1>11. QueuesInOrder'
    BY <1>10 DEF QueuesInOrder
  <1>12. CurrentReaches'
    <2> SUFFICES ASSUME NEW x \in Sessions, conn[x] # 0
                 PROVE  Reaches(requests'[x][conn[x]], writeSeq[x], Accounted(x)')
      BY <1>4 DEF CurrentReaches
    <2>1. conn[x] \in Conns
      BY <1>1, BoundAssumption DEF TypeOK, Conns
    <2>2. PICK e \in Conns : e = conn[x]
      BY <2>1
    <2>3. Reaches(requests[x][e], writeSeq[x], Accounted(x))
      BY <2>2 DEF Ledger, CurrentReaches
    <2> QED
      BY <1>10, <2>2, <2>3
  <1> QED
    BY <1>1, <1>6, <1>7, <1>8, <1>9, <1>11, <1>12 DEF Ledger

\* A step that leaves the graph and the refusals alone accounts for the same
\* writes as before.
LEMMA AccountedFrame ==
  ASSUME UNCHANGED <<applied, refused>>, NEW s \in Sessions
  PROVE  Accounted(s)' = Accounted(s)
  BY DEF Accounted

\* A new write goes to the end of the current queue.
LEMMA MutateLedger ==
  ASSUME Ledger, NEW s \in Sessions, Mutate(s), WindowInv'
  PROVE  Ledger'
  <1> DEFINE n == writeSeq[s] + 1
             r == RequestFor(s, n)
  <1>1. Base /\ TypeOK
    BY DEF Ledger, WindowInv, Base
  <1>2. /\ n \in Seqs /\ r \in Request
        /\ \A x \in Sessions : writeSeq'[x] = IF x = s THEN n ELSE writeSeq[x]
        /\ \A x \in Sessions :
             pending'[x] = IF x = s THEN pending[x] \cup {n} ELSE pending[x]
        /\ UNCHANGED <<ackedThrough, resolvedAhead, closed, conn, acks>>
        /\ UNCHANGED <<registryVars, applied, refused, restarts>>
        /\ \A x \in Sessions, d \in Conns :
             requests'[x][d] = IF x = s /\ d = conn[s] THEN Append(requests[x][d], r)
                               ELSE requests[x][d]
    BY <1>1, MutateShape
  <1>3. \A x \in Sessions : Accounted(x)' = Accounted(x)
    BY <1>2, AccountedFrame
  <1>4. writeSeq[s] \in Nat /\ r.seq = writeSeq[s] + 1 /\ r.ackedThrough = ackedThrough[s]
        /\ (\A k \in Seqs : k \in Nat) /\ ackedThrough[s] <= ackedThrough[s]
    BY <1>1, BoundAssumption DEF TypeOK, Seqs, RequestFor
  <1>5. n = writeSeq[s] + 1
    OBVIOUS
  <1> HIDE DEF n, r
  <1>6. MarksReached'
    <2>1. ASSUME NEW x \in Sessions, NEW d \in Conns, NEW i \in 1..Len(requests'[x][d])
          PROVE  requests'[x][d][i].ackedThrough <= ackedThrough[x]
      <3> DEFINE q == requests[x][d]
      <3>1. q \in Seq(Request) /\ \A j \in 1..Len(q) : q[j].ackedThrough <= ackedThrough[x]
        BY <1>1 DEF TypeOK, Ledger, MarksReached
      <3> HIDE DEF q
      <3>2. CASE x = s /\ d = conn[s]
        <4>1. requests'[x][d] = Append(q, r)
          BY <1>2, <3>2 DEF q
        <4> QED
          BY <1>2, <1>4, <3>1, <3>2, <4>1
      <3>3. CASE ~(x = s /\ d = conn[s])
        BY <1>2, <3>1, <3>3 DEF q
      <3> QED
        BY <3>2, <3>3
    <2> QED
      BY <1>2, <2>1 DEF MarksReached, registryVars, Ledger
  <1>7. ResolvedIsAccounted' /\ AcksAreAccounted'
    BY <1>2, <1>3 DEF ResolvedIsAccounted, AcksAreAccounted, registryVars, Ledger
  <1>8. IssuedIsAccounted'
    <2> SUFFICES ASSUME NEW x \in Sessions, NEW k \in Seqs, k <= writeSeq'[x]
                 PROVE  k \in pending'[x] \/ k \in Accounted(x) \/ closed[x]
      BY <1>2, <1>3 DEF IssuedIsAccounted
    <2>1. CASE x = s /\ k = n
      BY <1>2, <2>1
    <2>2. CASE ~(x = s /\ k = n)
      <3>1. k <= writeSeq[x]
        BY <1>2, <1>4, <1>5, <2>2
      <3> QED
        BY <1>2, <3>1 DEF Ledger, IssuedIsAccounted
    <2> QED
      BY <2>1, <2>2
  <1>9. ASSUME NEW x \in Sessions, NEW d \in Conns
        PROVE  /\ InOrder(requests'[x][d], Accounted(x))
               /\ d = conn[x] => Reaches(requests'[x][d], writeSeq'[x], Accounted(x))
    <2> DEFINE q == requests[x][d]
    <2>1. q \in Seq(Request) /\ InOrder(q, Accounted(x))
      BY <1>1 DEF TypeOK, Ledger, QueuesInOrder
    <2>2. d = conn[x] => Reaches(q, writeSeq[x], Accounted(x))
      BY BoundAssumption DEF Ledger, CurrentReaches, Conns
    <2> HIDE DEF q
    <2>3. CASE x = s /\ d = conn[s]
      <3>1. requests'[x][d] = Append(q, r) /\ writeSeq'[x] = writeSeq[s] + 1
        BY <1>2, <1>5, <2>3 DEF q
      <3>2. Reaches(q, writeSeq[s], Accounted(x))
        BY <2>2, <2>3
      <3> QED
        BY <1>2, <1>4, <2>1, <3>1, <3>2, AppendInOrder
    <2>4. CASE ~(x = s /\ d = conn[s])
      <3>1. requests'[x][d] = q
        BY <1>2, <2>4 DEF q
      <3>2. d = conn[x] => writeSeq'[x] = writeSeq[x]
        BY <1>2, <2>4
      <3> QED
        BY <2>1, <2>2, <3>1, <3>2
    <2> QED
      BY <2>3, <2>4
  <1>10. QueuesInOrder'
    BY <1>3, <1>9 DEF QueuesInOrder
  <1>11. CurrentReaches'
    <2> SUFFICES ASSUME NEW x \in Sessions, conn[x] # 0
                 PROVE  Reaches(requests'[x][conn[x]], writeSeq'[x], Accounted(x))
      BY <1>2, <1>3 DEF CurrentReaches
    <2>1. PICK d \in Conns : d = conn[x]
      BY <1>1, BoundAssumption DEF TypeOK, Conns
    <2> QED
      BY <1>9, <2>1
  <1> QED
    BY <1>6, <1>7, <1>8, <1>10, <1>11 DEF Ledger

\* An answer resolves a write that is accounted for.
LEMMA ReceiveAckLedger ==
  ASSUME Ledger, NEW s \in Sessions, ReceiveAck(s), WindowInv'
  PROVE  Ledger'
  <1>1. Base /\ TypeOK /\ TypeOK'
    BY DEF Ledger, WindowInv, Base
  <1>2. /\ UNCHANGED <<writeSeq, closed, conn, requests>>
        /\ UNCHANGED <<registryVars, applied, refused, restarts>>
        /\ \A x \in Sessions : \A i \in 1..Len(acks'[x]) :
             \E j \in 1..Len(acks[x]) : acks'[x][i] = acks[x][j]
    BY <1>1, ReceiveAckShape
  <1>3. PICK n \in Seqs :
          /\ \E i \in 1..Len(acks[s]) : acks[s][i].seq = n
          /\ \A x \in Sessions : pending'[x] \subseteq pending[x]
          /\ \A x \in Sessions : \A k \in pending[x] :
               k \in pending'[x] \/ (x = s /\ k = n)
          /\ \A x \in Sessions : ackedThrough[x] <= ackedThrough'[x]
          /\ \A x \in Sessions, k \in Seqs :
               k <= ackedThrough'[x] \/ k \in resolvedAhead'[x] =>
                 k <= ackedThrough[x] \/ k \in resolvedAhead[x] \/ (x = s /\ k = n)
    BY <1>1, ReceiveAckShape
  <1>4. \A x \in Sessions : Accounted(x)' = Accounted(x)
    BY <1>2, AccountedFrame
  <1>5. n \in Accounted(s)
    BY <1>3 DEF Ledger, AcksAreAccounted
  <1>6. MarksReached'
    <2>1. \A x \in Sessions : ackedThrough[x] \in Nat /\ ackedThrough'[x] \in Nat
      BY <1>1, BoundAssumption DEF TypeOK
    <2>2. ASSUME NEW x \in Sessions PROVE windows[x].lowWater <= ackedThrough'[x]
      <3>1. windows[x].lowWater \in Nat /\ windows[x].lowWater <= ackedThrough[x]
        BY <1>1, BoundAssumption DEF TypeOK, Window, Ledger, MarksReached
      <3> QED
        BY <1>3, <2>1, <3>1
    <2>3. ASSUME NEW x \in Sessions, NEW c \in Conns, NEW i \in 1..Len(requests[x][c])
          PROVE  requests[x][c][i].ackedThrough <= ackedThrough'[x]
      <3>1. requests[x][c][i] \in Request
        <4>1. requests[x][c] \in Seq(Request)
          BY <1>1 DEF TypeOK
        <4> QED
          BY <4>1
      <3>2. requests[x][c][i].ackedThrough \in Nat
        BY <3>1, BoundAssumption DEF Request
      <3>3. requests[x][c][i].ackedThrough <= ackedThrough[x]
        BY DEF Ledger, MarksReached
      <3> QED
        BY <1>3, <2>1, <3>2, <3>3
    <2> QED
      BY <1>2, <2>2, <2>3 DEF MarksReached, registryVars
  <1>7. ResolvedIsAccounted'
    BY <1>2, <1>3, <1>4, <1>5 DEF ResolvedIsAccounted, Ledger, registryVars
  <1>8. AcksAreAccounted'
    <2> SUFFICES ASSUME NEW x \in Sessions, NEW i \in 1..Len(acks'[x])
                 PROVE  acks'[x][i].seq \in Accounted(x)
      BY <1>4 DEF AcksAreAccounted
    <2>1. PICK j \in 1..Len(acks[x]) : acks'[x][i] = acks[x][j]
      BY <1>2
    <2> QED
      BY <2>1 DEF Ledger, AcksAreAccounted
  <1>9. IssuedIsAccounted'
    BY <1>2, <1>3, <1>4, <1>5 DEF IssuedIsAccounted, Ledger
  <1>10. QueuesInOrder' /\ CurrentReaches'
    BY <1>2, <1>4 DEF QueuesInOrder, CurrentReaches, Ledger
  <1> QED
    BY <1>6, <1>7, <1>8, <1>9, <1>10 DEF Ledger

\* A replay brings the new connection up to the last write.
LEMMA RedialLedger ==
  ASSUME Ledger, NEW s \in Sessions, Redial(s), WindowInv'
  PROVE  Ledger'
  <1>1. Base /\ TypeOK
    BY DEF Ledger, WindowInv, Base
  <1>2. ~closed[s] /\ UNCHANGED <<clientVars, acks, registryVars, applied, refused, restarts>>
    BY <1>1, RedialShape
  <1>3. PICK c \in Conns, N \in Nat : \E f \in [1..N -> pending[s]] :
          /\ \A i, j \in 1..N : i < j => f[i] < f[j]
          /\ \A n \in pending[s] : \E i \in 1..N : f[i] = n
          /\ \A x \in Sessions : conn'[x] = IF x = s THEN c ELSE conn[x]
          /\ \A x \in Sessions, d \in Conns :
               requests'[x][d] = IF x = s /\ d = c
                                 THEN [i \in 1..N |-> RequestFor(s, f[i])]
                                 ELSE requests[x][d]
    BY <1>1, RedialShape
  <1>4. PICK f \in [1..N -> pending[s]] :
          /\ \A i, j \in 1..N : i < j => f[i] < f[j]
          /\ \A n \in pending[s] : \E i \in 1..N : f[i] = n
          /\ \A x \in Sessions : conn'[x] = IF x = s THEN c ELSE conn[x]
          /\ \A x \in Sessions, d \in Conns :
               requests'[x][d] = IF x = s /\ d = c
                                 THEN [i \in 1..N |-> RequestFor(s, f[i])]
                                 ELSE requests[x][d]
    BY <1>3
  <1>5. UNCHANGED <<writeSeq, pending, ackedThrough, resolvedAhead, closed, windows>>
    BY <1>2 DEF clientVars, registryVars
  <1>6. \A x \in Sessions : Accounted(x)' = Accounted(x)
    BY <1>2, AccountedFrame
  <1> DEFINE q == [i \in 1..N |-> RequestFor(s, f[i])]
  <1>7. Len(q) = N /\ \A i \in 1..N : q[i].ackedThrough = ackedThrough[s]
    BY DEF RequestFor
  <1>8. InOrder(q, Accounted(s)) /\ Reaches(q, writeSeq[s], Accounted(s))
    <2>1. pending[s] \in SUBSET Seqs /\ writeSeq[s] \in Nat
      BY <1>1, BoundAssumption DEF TypeOK
    <2>2. \A n \in pending[s] : n <= writeSeq[s]
      BY DEF Ledger, WindowInv, IssuedOnly
    <2>3. \A n \in Seqs : n <= writeSeq[s] => n \in pending[s] \/ n \in Accounted(s)
      BY <1>2 DEF Ledger, IssuedIsAccounted
    <2>4. /\ N \in Nat /\ f \in [1..N -> pending[s]]
          /\ \A i, j \in 1..N : i < j => f[i] < f[j]
          /\ \A n \in pending[s] : \E i \in 1..N : f[i] = n
      BY <1>3, <1>4
    <2>5. q = [i \in 1..N |-> RequestFor(s, f[i])]
      OBVIOUS
    <2> DEFINE S == pending[s]
               top == writeSeq[s]
               done == Accounted(s)
    <2> HIDE DEF q
    <2>6. /\ S \in SUBSET Seqs /\ f \in [1..N -> S] /\ top \in Nat
          /\ \A i, j \in 1..N : i < j => f[i] < f[j]
          /\ \A n \in S : \E i \in 1..N : f[i] = n
          /\ \A n \in S : n <= top
          /\ \A n \in Seqs : n <= top => n \in S \/ n \in done
      BY <2>1, <2>2, <2>3, <2>4
    <2> HIDE DEF S, top, done
    <2>7. InOrder(q, done) /\ Reaches(q, top, done)
      BY <2>4, <2>5, <2>6, ReplayInOrder
    <2> QED
      BY <2>7 DEF top, done
  <1>9. \A x \in Sessions, d \in Conns :
          requests'[x][d] = IF x = s /\ d = c THEN q ELSE requests[x][d]
    BY <1>4
  <1> HIDE DEF q
  <1>10. MarksReached'
    <2>1. \A x \in Sessions : ackedThrough[x] <= ackedThrough[x]
      BY <1>1 DEF TypeOK
    <2>2. ASSUME NEW x \in Sessions, NEW d \in Conns, NEW i \in 1..Len(requests'[x][d])
          PROVE  requests'[x][d][i].ackedThrough <= ackedThrough[x]
      <3>1. CASE x = s /\ d = c
        BY <1>7, <1>9, <2>1, <3>1
      <3>2. CASE ~(x = s /\ d = c)
        BY <1>9, <3>2 DEF Ledger, MarksReached
      <3> QED
        BY <3>1, <3>2
    <2> QED
      BY <1>5, <2>2 DEF Ledger, MarksReached
  <1>11. ResolvedIsAccounted' /\ AcksAreAccounted' /\ IssuedIsAccounted'
    BY <1>2, <1>5, <1>6 DEF Ledger, ResolvedIsAccounted, AcksAreAccounted, IssuedIsAccounted
  <1>12. QueuesInOrder'
    BY <1>6, <1>8, <1>9 DEF Ledger, QueuesInOrder
  <1>13. CurrentReaches'
    <2> SUFFICES ASSUME NEW x \in Sessions, conn'[x] # 0
                 PROVE  Reaches(requests'[x][conn'[x]], writeSeq[x], Accounted(x))
      BY <1>5, <1>6 DEF CurrentReaches
    <2>1. CASE x = s
      <3>1. conn'[x] = c /\ requests'[x][c] = q
        BY <1>4, <1>9, <2>1
      <3> QED
        BY <1>8, <2>1, <3>1
    <2>2. CASE x # s
      <3>1. conn'[x] = conn[x]
        BY <1>4, <2>2
      <3>2. conn[x] \in Conns
        BY <1>1, <3>1, BoundAssumption DEF TypeOK, Conns
      <3>3. requests'[x][conn[x]] = requests[x][conn[x]]
        BY <1>9, <2>2, <3>2
      <3> QED
        BY <3>1, <3>3 DEF Ledger, CurrentReaches
    <2> QED
      BY <2>1, <2>2
  <1> QED
    BY <1>10, <1>11, <1>12, <1>13 DEF Ledger

\* Losses leave queues that are in order, and no current one to complete.
LEMMA LossLedger ==
  ASSUME Ledger, (\E s \in Sessions : Drop(s) \/ Close(s)) \/ Restart, WindowInv'
  PROVE  Ledger'
  <1>1. Base /\ TypeOK /\ TypeOK'
    BY DEF Ledger, WindowInv, Base
  <1>2. /\ UNCHANGED <<writeSeq, ackedThrough, resolvedAhead, applied, refused>>
        /\ \A x \in Sessions :
             /\ pending'[x] \subseteq pending[x]
             /\ pending'[x] # pending[x] => closed'[x]
             /\ closed[x] => closed'[x]
             /\ windows'[x] \in {windows[x], NewWindow}
             /\ acks'[x] \in {acks[x], <<>>}
             /\ conn'[x] # 0 => conn'[x] = conn[x] /\ requests'[x] = requests[x]
        /\ \A x \in Sessions, d \in Conns : \A i \in 1..Len(requests'[x][d]) :
             i \in 1..Len(requests[x][d]) /\ requests'[x][d][i] = requests[x][d][i]
    BY <1>1, LossShape
  <1>3. \A x \in Sessions : Accounted(x)' = Accounted(x)
    BY <1>2, AccountedFrame
  <1>4. /\ NewWindow.lowWater = 0
        /\ \A x \in Sessions, k \in Seqs : ~Seen(NewWindow, x, k)
        /\ \A x \in Sessions : 0 <= ackedThrough[x]
    BY <1>1, BoundAssumption DEF NewWindow, Seen, Seqs, TypeOK
  <1>5. MarksReached'
    <2>1. ASSUME NEW x \in Sessions PROVE windows'[x].lowWater <= ackedThrough[x]
      <3>1. windows[x].lowWater <= ackedThrough[x] /\ NewWindow.lowWater <= ackedThrough[x]
        BY <1>4 DEF Ledger, MarksReached
      <3> QED
        BY <1>2, <3>1
    <2>2. ASSUME NEW x \in Sessions, NEW d \in Conns, NEW i \in 1..Len(requests'[x][d])
          PROVE  requests'[x][d][i].ackedThrough <= ackedThrough[x]
      BY <1>2 DEF Ledger, MarksReached
    <2> QED
      BY <1>2, <2>1, <2>2 DEF MarksReached
  <1>6. ResolvedIsAccounted'
    <2> SUFFICES ASSUME NEW x \in Sessions, NEW k \in Seqs,
                        \/ k <= ackedThrough[x] \/ k \in resolvedAhead[x]
                        \/ Seen(windows'[x], x, k)
                 PROVE  k \in Accounted(x)
      BY <1>2, <1>3 DEF ResolvedIsAccounted
    <2>1. Seen(windows'[x], x, k) => Seen(windows[x], x, k)
      BY <1>2, <1>4
    <2> QED
      BY <2>1 DEF Ledger, ResolvedIsAccounted
  <1>7. AcksAreAccounted'
    <2> SUFFICES ASSUME NEW x \in Sessions, NEW i \in 1..Len(acks'[x])
                 PROVE  acks'[x][i].seq \in Accounted(x)
      BY <1>3 DEF AcksAreAccounted
    <2>1. acks'[x] = acks[x]
      <3>1. acks'[x] # <<>>
        OBVIOUS
      <3> QED
        BY <1>2, <3>1
    <2> QED
      BY <2>1 DEF Ledger, AcksAreAccounted
  <1>8. IssuedIsAccounted'
    <2> SUFFICES ASSUME NEW x \in Sessions, NEW k \in Seqs, k <= writeSeq[x]
                 PROVE  k \in pending'[x] \/ k \in Accounted(x) \/ closed'[x]
      BY <1>2, <1>3 DEF IssuedIsAccounted
    <2>1. k \in pending[x] \/ k \in Accounted(x) \/ closed[x]
      BY DEF Ledger, IssuedIsAccounted
    <2> QED
      BY <1>2, <2>1
  <1>9. QueuesInOrder'
    <2> SUFFICES ASSUME NEW x \in Sessions, NEW d \in Conns
                 PROVE  InOrder(requests'[x][d], Accounted(x))
      BY <1>3 DEF QueuesInOrder
    <2> DEFINE q == requests[x][d]
               p == requests'[x][d]
    <2>1. q \in Seq(Request) /\ p \in Seq(Request) /\ InOrder(q, Accounted(x))
      BY <1>1 DEF TypeOK, Ledger, QueuesInOrder
    <2>2. \A i \in 1..Len(p) : i \in 1..Len(q) /\ p[i] = q[i]
      BY <1>2
    <2> HIDE DEF p, q
    <2>3. InOrder(p, Accounted(x))
      BY <2>1, <2>2, PrefixInOrder
    <2> QED
      BY <2>3 DEF p
  <1>10. CurrentReaches'
    <2> SUFFICES ASSUME NEW x \in Sessions, conn'[x] # 0
                 PROVE  Reaches(requests'[x][conn'[x]], writeSeq[x], Accounted(x))
      BY <1>2, <1>3 DEF CurrentReaches
    <2>1. conn'[x] = conn[x] /\ requests'[x] = requests[x]
      BY <1>2
    <2> QED
      BY <2>1 DEF Ledger, CurrentReaches
  <1> QED
    BY <1>5, <1>6, <1>7, <1>8, <1>9, <1>10 DEF Ledger

\* Every step keeps the ledger.
LEMMA LedgerStep == Ledger /\ [Next]_vars => Ledger'
  <1> SUFFICES ASSUME Ledger, [Next]_vars PROVE Ledger'
    OBVIOUS
  <1>1. WindowInv'
    BY WindowStep DEF Ledger
  <1>2. CASE Next
    BY <1>1, <1>2, MutateLedger, ReceiveAckLedger, RedialLedger, HostLedger, LossLedger
       DEF Next
  <1>3. CASE UNCHANGED vars
    <2>1. \A x \in Sessions : Accounted(x)' = Accounted(x)
      BY <1>3, AccountedFrame DEF vars
    <2> QED
      BY <1>1, <1>3, <2>1 DEF Ledger, MarksReached, ResolvedIsAccounted, AcksAreAccounted,
         IssuedIsAccounted, QueuesInOrder, CurrentReaches, vars, clientVars, wireVars,
         registryVars
  <1> QED
    BY <1>2, <1>3

\* Initially there is nothing to account for.
LEMMA LedgerInit == Init => Ledger
  <1> SUFFICES ASSUME Init PROVE Ledger
    OBVIOUS
  <1>1. NewWindow.lowWater = 0 /\ \A s \in Sessions, n \in Seqs : ~Seen(NewWindow, s, n)
    BY BoundAssumption DEF NewWindow, Seen, Seqs
  <1>2. \A n \in Seqs : ~(n <= 0)
    BY BoundAssumption DEF Seqs
  <1>3. MarksReached /\ ResolvedIsAccounted /\ AcksAreAccounted /\ IssuedIsAccounted
    BY <1>1, <1>2 DEF Init, MarksReached, ResolvedIsAccounted, AcksAreAccounted,
       IssuedIsAccounted
  <1>4. QueuesInOrder /\ CurrentReaches
    BY DEF Init, QueuesInOrder, CurrentReaches, InOrder
  <1> QED
    BY <1>3, <1>4, WindowInit DEF Ledger

\* The write of a message a host applies has all its predecessors accounted
\* for.
LEMMA FirstInQueueIsNext ==
  ASSUME Ledger, NEW s \in Sessions, NEW n \in Seqs, [Next]_vars,
         applied[s][n] = 0, applied'[s][n] = 1, NEW m \in 1..(n - 1)
  PROVE  applied[s][m] >= 1 \/ m \in refused[s]
  <1>1. Base /\ TypeOK
    BY DEF Ledger, WindowInv, Base
  <1>2. PICK x \in Sessions, c \in Conns : HostMutate(x, c)
    <2>1. applied' # applied
      OBVIOUS
    <2>2. ASSUME NEW x \in Sessions,
                 Mutate(x) \/ ReceiveAck(x) \/ Drop(x) \/ Redial(x) \/ Close(x)
          PROVE  FALSE
      BY <2>1, <2>2 DEF Mutate, ReceiveAck, Drop, Redial, Close
    <2>3. ~Restart /\ ~UNCHANGED vars
      BY <2>1 DEF Restart, vars
    <2> QED
      BY <2>2, <2>3 DEF Next
  <1>3. HostEffect(x, c) /\ Incoming(x, c) /\ \E ok \in BOOLEAN : Answer(x, c, ok)
    BY <1>1, <1>2, HostShape
  <1>4. /\ Message(x, c) = requests[x][c][1]
        /\ requests[x][c] \in Seq(Request) /\ requests[x][c] # <<>>
    BY <1>1, <1>3, AnswerShape
  <1>5. x = s /\ n = Message(x, c).seq
    BY <1>3 DEF HostEffect
  <1>6. 1 \in 1..Len(requests[s][c]) /\ n = requests[s][c][1].seq
    BY <1>4, <1>5
  <1>7. m \in Seqs /\ m < n
    BY BoundAssumption DEF Seqs
  <1>8. m \in Accounted(s)
    <2>1. InOrder(requests[s][c], Accounted(s))
      BY DEF Ledger, QueuesInOrder
    <2>2. \A j \in 1..(1 - 1) : FALSE
      OBVIOUS
    <2> QED
      BY <1>6, <1>7, <2>1, <2>2 DEF InOrder
  <1> QED
    BY <1>8 DEF Accounted

(***************************************************************************)
(* The theorems that hold whether or not a send throws.                    *)
(***************************************************************************)
\* The ledger holds in every reachable state, whatever sends throw.
LEMMA LedgerInvariant == Spec => []Ledger
  <1>1. Init => Ledger
    BY LedgerInit
  <1>2. Ledger /\ [Next]_vars => Ledger'
    BY LedgerStep
  <1> QED
    BY <1>1, <1>2, PTL DEF Spec

\* Type correctness of the write path.
THEOREM TypeCorrect == Spec => []TypeOK
  <1>1. Ledger => TypeOK
    BY DEF Ledger, WindowInv, Base
  <1> QED
    BY <1>1, LedgerInvariant, PTL

\* dedup.ts: the registry retains no more ids of a session than its capacity,
\* neither in a modern window nor in the set of a legacy client.
THEOREM WindowBound == Spec => []WindowIsBounded
  <1>1. Ledger => WindowIsBounded
    <2> SUFFICES ASSUME Ledger, NEW s \in Sessions
                 PROVE  Retained(windows[s]) <= Capacity
      BY DEF WindowIsBounded
    <2>1. windows[s] \in Window /\ WindowFits(windows[s], s, writeSeq[s])
      BY DEF Ledger, WindowInv, Base, TypeOK, WindowsFit
    <2> QED
      BY <2>1, FittingIsBounded
  <1> QED
    BY <1>1, LedgerInvariant, PTL

\* dedup.ts, admit(): the capacity check refuses a write only of a client
\* that is Capacity writes beyond the mark it sent along.
THEOREM KeepingUp == Spec => KeepingUpIsNeverRefused
  <1> DEFINE A == \A s \in Sessions, c \in Conns :
                    RefuseFull(s, c) => writeSeq[s] - Message(s, c).ackedThrough > Capacity
  <1>1. Ledger => A
    BY FullWindowIsBehind DEF Ledger
  <1>2. Ledger /\ [Next]_vars => [A]_vars
    BY <1>1
  <1> QED
    BY <1>2, LedgerInvariant, PTL DEF Spec, KeepingUpIsNeverRefused

\* client.ts, reconnect.ts: across drops and replays the writes of a session
\* first reach the graph in the order they were issued, but for refused ones.
THEOREM InOrderApplication == Spec => AppliedInOrder
  <1> DEFINE A == \A s \in Sessions, n \in Seqs :
                    applied[s][n] = 0 /\ applied'[s][n] = 1 =>
                      \A m \in 1..(n - 1) : applied[s][m] >= 1 \/ m \in refused[s]
  <1>1. Ledger /\ [Next]_vars => [A]_vars
    BY FirstInQueueIsNext
  <1> QED
    BY <1>1, LedgerInvariant, PTL DEF Spec, AppliedInOrder
=============================================================================
