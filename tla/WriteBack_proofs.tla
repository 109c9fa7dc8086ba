-------------------------- MODULE WriteBack_proofs --------------------------
(***************************************************************************)
(* Proofs about WriteBack: for every cap, number of attempts and order of  *)
(* saves and crashes, an accepted write is never lost without a report,    *)
(* never waits for a pump that does not run, and never overtakes one made  *)
(* before it.                                                              *)
(***************************************************************************)
EXTENDS WriteBack, TLAPS

\* The elements of an appended sequence.
LEMMA RangeAppend ==
  ASSUME NEW S, NEW s \in Seq(S), NEW e \in S
  PROVE  /\ Append(s, e) \in Seq(S) /\ Len(Append(s, e)) = Len(s) + 1
         /\ Range(Append(s, e)) = Range(s) \cup {e}
  <1>1. /\ Append(s, e) \in Seq(S) /\ Len(Append(s, e)) = Len(s) + 1
        /\ DOMAIN Append(s, e) = 1..(Len(s) + 1) /\ DOMAIN s = 1..Len(s)
        /\ Len(s) \in Nat
    OBVIOUS
  <1>2. \A i \in 1..Len(s) : Append(s, e)[i] = s[i]
    OBVIOUS
  <1>3. Append(s, e)[Len(s) + 1] = e
    OBVIOUS
  <1>4. 1..(Len(s) + 1) = (1..Len(s)) \cup {Len(s) + 1}
    BY <1>1
  <1>5. Range(Append(s, e)) = {Append(s, e)[i] : i \in (1..Len(s)) \cup {Len(s) + 1}}
    BY <1>1, <1>4 DEF Range
  <1>6. Range(s) = {s[i] : i \in 1..Len(s)}
    BY <1>1 DEF Range
  <1> QED
    BY <1>1, <1>2, <1>3, <1>5, <1>6

\* The elements of a tail.
LEMMA RangeTail ==
  ASSUME NEW S, NEW s \in Seq(S), s # <<>>
  PROVE  /\ Tail(s) \in Seq(S) /\ Len(Tail(s)) = Len(s) - 1 /\ Len(s) \in Nat \ {0}
         /\ Head(s) \in S
         /\ Range(s) = Range(Tail(s)) \cup {Head(s)}
  <1>1. /\ Tail(s) \in Seq(S) /\ Len(Tail(s)) = Len(s) - 1 /\ Len(s) \in Nat \ {0}
        /\ Head(s) \in S /\ Head(s) = s[1]
        /\ DOMAIN Tail(s) = 1..(Len(s) - 1) /\ DOMAIN s = 1..Len(s)
    OBVIOUS
  <1>2. \A i \in 1..(Len(s) - 1) : Tail(s)[i] = s[i + 1]
    OBVIOUS
  <1>3. Range(s) \subseteq Range(Tail(s)) \cup {Head(s)}
    <2> SUFFICES ASSUME NEW i \in 1..Len(s) PROVE s[i] \in Range(Tail(s)) \cup {Head(s)}
      BY <1>1 DEF Range
    <2>1. CASE i = 1
      BY <2>1, <1>1
    <2>2. CASE i # 1
      <3>1. i - 1 \in 1..(Len(s) - 1) /\ (i - 1) + 1 = i
        BY <2>2, <1>1
      <3>2. s[i] = Tail(s)[i - 1]
        BY <3>1, <1>2
      <3> QED
        BY <3>1, <3>2, <1>1 DEF Range
    <2> QED
      BY <2>1, <2>2
  <1>4. Range(Tail(s)) \subseteq Range(s)
    <2> SUFFICES ASSUME NEW i \in 1..(Len(s) - 1) PROVE Tail(s)[i] \in Range(s)
      BY <1>1 DEF Range
    <2>1. i + 1 \in 1..Len(s)
      BY <1>1
    <2> QED
      BY <2>1, <1>1, <1>2 DEF Range
  <1>5. Head(s) \in Range(s)
    <2>1. 1 \in 1..Len(s)
      BY <1>1
    <2> QED
      BY <2>1, <1>1 DEF Range
  <1> QED
    BY <1>1, <1>3, <1>4, <1>5

\* Numbers only grow, and a sequence of old ones is one of the new ones.
LEMMA SeqGrows ==
  ASSUME NEW m \in Nat, NEW n \in Nat, m <= n, NEW s \in Seq(1..m)
  PROVE  s \in Seq(1..n)
  <1>1. \A i \in 1..Len(s) : s[i] \in 1..n
    <2> TAKE i \in 1..Len(s)
    <2>1. s[i] \in 1..m
      OBVIOUS
    <2> QED
      BY <2>1
  <1> QED
    BY <1>1

\* The initial state satisfies the inductive invariant.
LEMMA InitInv == Init => Inv
  <1> SUFFICES ASSUME Init PROVE Inv
    OBVIOUS
  <1> USE RetryAssumption, BoundAssumption DEF Init
  <1>1. Range(<<>>) = {} /\ Len(<<>>) = 0
    BY DEF Range
  <1>0. <<>> \in Seq(1..written) /\ 0 <= MaxPending
    OBVIOUS
  <1>2. disk \in Snapshot /\ disk.graph = {} /\ disk.pending = <<>>
    BY DEF Snapshot
  <1>3. TypeOK
    <2>1. queue \in Seq(1..written) /\ Len(queue) <= MaxPending /\ upstream \in Seq(1..written)
      BY <1>0, <1>1
    <2>2. graph \subseteq 1..written /\ reported \subseteq 1..written /\ refused \subseteq 1..written
      OBVIOUS
    <2>3. attempt \in 0..Attempts - 1 /\ written \in 0..MaxWrites
          /\ saves \in 0..MaxSaves /\ crashes \in 0..MaxCrashes
      OBVIOUS
    <2>4. saving \subseteq Snapshot /\ disk \in Snapshot
      BY <1>2
    <2>5. phase \in {"idle", "pushing", "sleeping"} /\ arrived \in BOOLEAN
      OBVIOUS
    <2> QED
      BY <2>1, <2>2, <2>3, <2>4, <2>5 DEF TypeOK
  <1>4. NoSilentLoss /\ QueuedIsApplied /\ NothingIsStranded /\ ArrivedIsUpstream
    BY <1>1 DEF NoSilentLoss, QueuedIsApplied, NothingIsStranded, ArrivedIsUpstream
  <1>5. SnapshotsAreSafe
    <2> SUFFICES ASSUME NEW s \in saving \cup {disk}
                 PROVE  /\ s.graph \subseteq 1..written
                        /\ s.pending \in Seq(1..written) /\ Len(s.pending) <= MaxPending
                        /\ s.graph \ refused \subseteq Range(s.pending) \cup Upstreamed \cup reported
                        /\ Range(s.pending) \subseteq s.graph
      BY DEF SnapshotsAreSafe
    <2>1. s.graph = {} /\ s.pending = <<>>
      BY <1>2
    <2> QED
      BY <2>1, <1>0, <1>1
  <1> QED
    BY <1>3, <1>4, <1>5 DEF Inv

\* A snapshot stays safe while what is known of the writes grows.
LEMMA SafetyGrows ==
  ASSUME TypeOK, SnapshotsAreSafe,
         written' \in Nat, written <= written',
         refused \subseteq refused', reported \subseteq reported',
         Upstreamed \subseteq Upstreamed',
         saving' \cup {disk'} \subseteq saving \cup {disk}
  PROVE  SnapshotsAreSafe'
  <1> SUFFICES ASSUME NEW s \in saving \cup {disk}
               PROVE  /\ s.graph \subseteq 1..written'
                      /\ s.pending \in Seq(1..written') /\ Len(s.pending) <= MaxPending
                      /\ s.graph \ refused' \subseteq
                           Range(s.pending) \cup Upstreamed' \cup reported'
                      /\ Range(s.pending) \subseteq s.graph
    BY DEF SnapshotsAreSafe
  <1>1. /\ s.graph \subseteq 1..written
        /\ s.pending \in Seq(1..written) /\ Len(s.pending) <= MaxPending
        /\ s.graph \ refused \subseteq Range(s.pending) \cup Upstreamed \cup reported
        /\ Range(s.pending) \subseteq s.graph
    BY DEF SnapshotsAreSafe
  <1>2. written \in Nat
    BY BoundAssumption DEF TypeOK
  <1>3. s.pending \in Seq(1..written')
    BY <1>1, <1>2, SeqGrows
  <1>4. 1..written \subseteq 1..written'
    BY <1>2
  <1> QED
    BY <1>1, <1>3, <1>4

\* A pump that starts on a queue, or stops for lack of one.
LEMMA PumpShape ==
  ASSUME NEW q, PumpOrStop(q)
  PROVE  /\ phase' \in {"idle", "pushing"}
         /\ attempt' \in 0..Attempts - 1
         /\ arrived' = FALSE
         /\ phase' = "idle" <=> q = <<>>
  BY RetryAssumption DEF PumpOrStop

\* Settling the head, which has arrived or is reported.
LEMMA ShiftStep ==
  ASSUME Inv, phase = "pushing", Shift,
         UNCHANGED <<graph, upstream, diskVars, refused, written, crashes>>,
         reported' = reported \/ reported' = reported \cup {Head(queue)},
         Head(queue) \in Upstreamed \cup reported'
  PROVE  Inv'
  <1> USE DEF Inv
  <1>1. queue # <<>> /\ queue \in Seq(1..written)
    BY DEF NothingIsStranded, TypeOK
  <1>2. /\ Tail(queue) \in Seq(1..written) /\ Len(Tail(queue)) = Len(queue) - 1
        /\ Len(queue) \in Nat \ {0} /\ Head(queue) \in 1..written
        /\ Range(queue) = Range(Tail(queue)) \cup {Head(queue)}
    BY <1>1, RangeTail
  <1>3. queue' = Tail(queue) /\ PumpOrStop(Tail(queue))
    BY DEF Shift
  <1>4. /\ phase' \in {"idle", "pushing"}
        /\ attempt' \in 0..Attempts - 1
        /\ arrived' = FALSE
        /\ phase' = "idle" <=> Tail(queue) = <<>>
    BY <1>3, PumpShape
  <1>5. Range(<<>>) = {}
    BY DEF Range
  <1>6. TypeOK'
    <2>1. queue' \in Seq(1..written') /\ Len(queue') <= MaxPending
      BY <1>2, <1>3, RetryAssumption DEF TypeOK
    <2>2. reported' \subseteq 1..written'
      BY <1>2 DEF TypeOK
    <2> QED
      BY <2>1, <2>2, <1>4 DEF TypeOK, diskVars
  <1>7. NoSilentLoss'
    BY <1>2, <1>3 DEF NoSilentLoss, Upstreamed
  <1>8. QueuedIsApplied'
    BY <1>2, <1>3 DEF QueuedIsApplied
  <1>9. NothingIsStranded'
    BY <1>3, <1>4, <1>5 DEF NothingIsStranded
  <1>10. ArrivedIsUpstream'
    BY <1>4 DEF ArrivedIsUpstream
  <1>11. SnapshotsAreSafe'
    BY SafetyGrows, BoundAssumption DEF TypeOK, Upstreamed, diskVars
  <1> QED
    BY <1>6, <1>7, <1>8, <1>9, <1>10, <1>11

\* What any mutate() does to the numbers and the snapshots.
LEMMA ApplyShape ==
  ASSUME Inv, Apply,
         UNCHANGED <<upstream, diskVars, reported, crashes>>,
         refused' = refused \/ refused' = refused \cup {written + 1}
  PROVE  /\ written \in Nat /\ written' = written + 1 /\ written' \in 0..MaxWrites
         /\ graph' = graph \cup {written'}
         /\ graph' \subseteq 1..written' /\ refused' \subseteq 1..written'
         /\ reported' \subseteq 1..written'
         /\ upstream' \in Seq(1..written') /\ queue \in Seq(1..written')
         /\ Len(queue) + 1 <= MaxPending
         /\ saving' \subseteq Snapshot /\ disk' \in Snapshot
         /\ saves' \in 0..MaxSaves /\ crashes' \in 0..MaxCrashes
         /\ SnapshotsAreSafe'
  <1> USE DEF Inv
  <1>1. /\ written \in Nat /\ written' = written + 1 /\ written' \in 0..MaxWrites
        /\ graph' = graph \cup {written'}
    BY BoundAssumption DEF Apply, TypeOK
  <1>2. 1..written' = (1..written) \cup {written'}
    BY <1>1
  <1>3. graph' \subseteq 1..written' /\ refused' \subseteq 1..written' /\ reported' \subseteq 1..written'
    BY <1>1, <1>2 DEF TypeOK
  <1>4. upstream' \in Seq(1..written') /\ queue \in Seq(1..written')
    BY <1>1, SeqGrows DEF TypeOK
  <1>5. Len(queue) + 1 <= MaxPending
    BY RetryAssumption DEF Apply, HasRoom, TypeOK
  <1>6. SnapshotsAreSafe'
    BY <1>1, SafetyGrows DEF Upstreamed, diskVars
  <1> QED
    BY <1>1, <1>3, <1>4, <1>5, <1>6 DEF TypeOK, diskVars

\* mutate() that queues, whether or not it comes to call the pump.
LEMMA EnqueueStep ==
  ASSUME Inv, Apply, queue' = Append(queue, written + 1),
         UNCHANGED <<upstream, diskVars, reported, crashes>>,
         \/ /\ refused' = refused
            /\ IF phase = "idle" THEN PumpOrStop(queue') ELSE UNCHANGED pumpVars
         \/ refused' = refused \cup {written + 1} /\ UNCHANGED pumpVars
  PROVE  Inv'
  <1> USE DEF Inv
  <1>1. /\ written \in Nat /\ written' = written + 1 /\ written' \in 0..MaxWrites
        /\ graph' = graph \cup {written'}
        /\ graph' \subseteq 1..written' /\ refused' \subseteq 1..written'
        /\ reported' \subseteq 1..written'
        /\ upstream' \in Seq(1..written') /\ queue \in Seq(1..written')
        /\ Len(queue) + 1 <= MaxPending
        /\ saving' \subseteq Snapshot /\ disk' \in Snapshot
        /\ saves' \in 0..MaxSaves /\ crashes' \in 0..MaxCrashes
        /\ SnapshotsAreSafe'
    BY ApplyShape
  <1>2. written' \in 1..written'
    BY <1>1
  <1>3. /\ queue' \in Seq(1..written') /\ Len(queue') = Len(queue) + 1
        /\ Range(queue') = Range(queue) \cup {written'}
    BY <1>1, <1>2, RangeAppend, SMTT(30)
  <1>4. queue' # <<>> /\ (queue # <<>> => Head(queue') = Head(queue))
    BY <1>1, <1>2
  <1>5. /\ phase' \in {"idle", "pushing", "sleeping"}
        /\ attempt' \in 0..Attempts - 1
        /\ phase' = "sleeping" => attempt' + 1 < Attempts
        /\ arrived' \in BOOLEAN
        /\ arrived' => arrived /\ phase' = phase
        /\ phase' = "idle" => phase = "idle" /\ refused' = refused \cup {written'}
    <2>1. CASE UNCHANGED pumpVars /\ refused' = refused \cup {written + 1}
      BY <2>1, <1>1 DEF pumpVars, TypeOK
    <2>2. CASE UNCHANGED pumpVars /\ phase # "idle"
      BY <2>2 DEF pumpVars, TypeOK
    <2>3. CASE PumpOrStop(queue') /\ phase = "idle"
      BY <2>3, <1>4, PumpShape
    <2> QED
      BY <2>1, <2>2, <2>3
  <1>6. TypeOK'
    BY <1>1, <1>3, <1>5 DEF TypeOK
  <1>7. NoSilentLoss'
    BY <1>1, <1>3 DEF NoSilentLoss, Upstreamed
  <1>8. QueuedIsApplied'
    BY <1>1, <1>3 DEF QueuedIsApplied
  <1>9. NothingIsStranded'
    BY <1>3, <1>4, <1>5 DEF NothingIsStranded
  <1>10. ArrivedIsUpstream'
    BY <1>4, <1>5 DEF ArrivedIsUpstream, NothingIsStranded, Upstreamed
  <1> QED
    BY <1>1, <1>6, <1>7, <1>8, <1>9, <1>10

\* A step that leaves the numbers, the queue and the snapshots alone.
LEMMA PumpStep ==
  ASSUME Inv,
         UNCHANGED <<graph, queue, diskVars, reported, refused, written, crashes>>,
         phase \in {"pushing", "sleeping"}, phase' \in {"pushing", "sleeping"},
         attempt' \in 0..Attempts - 1, phase' = "sleeping" => attempt' + 1 < Attempts,
         arrived' \in BOOLEAN,
         \/ upstream' = upstream /\ (arrived' => arrived)
         \/ upstream' = Append(upstream, Head(queue))
  PROVE  Inv'
  <1> USE DEF Inv
  <1>1. queue # <<>> /\ Head(queue) \in 1..written
    BY RangeTail DEF NothingIsStranded, TypeOK
  <1>2. /\ upstream' \in Seq(1..written)
        /\ Upstreamed \subseteq Upstreamed'
        /\ arrived' => Head(queue) \in Upstreamed'
    <2>1. upstream \in Seq(1..written) /\ written \in Nat
      BY BoundAssumption DEF TypeOK
    <2>2. CASE upstream' = upstream /\ (arrived' => arrived)
      BY <2>1, <2>2 DEF Upstreamed, ArrivedIsUpstream
    <2>3. CASE upstream' = Append(upstream, Head(queue))
      <3>1. /\ Append(upstream, Head(queue)) \in Seq(1..written)
            /\ Range(Append(upstream, Head(queue))) = Range(upstream) \cup {Head(queue)}
        BY <1>1, <2>1, RangeAppend
      <3>2. Range(upstream') = Range(upstream) \cup {Head(queue)}
        BY <2>3, <3>1
      <3> QED
        BY <2>3, <3>1, <3>2 DEF Upstreamed
    <2> QED
      BY <2>2, <2>3
  <1>3. TypeOK'
    BY <1>2 DEF TypeOK, diskVars
  <1>4. NoSilentLoss' /\ QueuedIsApplied'
    BY <1>2 DEF NoSilentLoss, QueuedIsApplied
  <1>5. NothingIsStranded' /\ ArrivedIsUpstream'
    BY <1>1, <1>2 DEF NothingIsStranded, ArrivedIsUpstream
  <1>6. SnapshotsAreSafe'
    BY <1>2, SafetyGrows, BoundAssumption DEF TypeOK, diskVars
  <1> QED
    BY <1>3, <1>4, <1>5, <1>6

\* A save remembers a state that is itself consistent.
LEMMA SaveStep ==
  ASSUME Inv, Save
  PROVE  Inv'
  <1> USE DEF Inv, Save
  <1> DEFINE s == [graph |-> graph, pending |-> queue]
  <1>1. written \in Nat /\ written <= MaxWrites
    BY BoundAssumption DEF TypeOK
  <1>2. queue \in Seq(Writes) /\ graph \subseteq Writes
    BY <1>1, SeqGrows, BoundAssumption DEF TypeOK, Writes
  <1>3. s \in Snapshot
    BY <1>2 DEF Snapshot
  <1>4. saves' \in 0..MaxSaves
    BY BoundAssumption DEF TypeOK
  <1>5. TypeOK'
    BY <1>3, <1>4 DEF TypeOK, pumpVars
  <1>6. NoSilentLoss' /\ QueuedIsApplied' /\ NothingIsStranded' /\ ArrivedIsUpstream'
    BY DEF NoSilentLoss, QueuedIsApplied, NothingIsStranded, ArrivedIsUpstream,
           Upstreamed, pumpVars
  <1>7. SnapshotsAreSafe'
    <2> SUFFICES ASSUME NEW r \in saving' \cup {disk'}
                 PROVE  /\ r.graph \subseteq 1..written
                        /\ r.pending \in Seq(1..written) /\ Len(r.pending) <= MaxPending
                        /\ r.graph \ refused \subseteq
                             Range(r.pending) \cup Upstreamed \cup reported
                        /\ Range(r.pending) \subseteq r.graph
      BY DEF SnapshotsAreSafe, Upstreamed
    <2>1. CASE r \in saving \cup {disk}
      BY <2>1 DEF SnapshotsAreSafe
    <2>2. CASE r = s
      BY <2>2 DEF TypeOK, NoSilentLoss, QueuedIsApplied
    <2> QED
      BY <2>1, <2>2
  <1> QED
    BY <1>5, <1>6, <1>7

\* A restart goes back to a remembered state.
LEMMA RestartStep ==
  ASSUME Inv, Restart
  PROVE  Inv'
  <1> USE DEF Inv, Restart
  <1>1. /\ disk.graph \subseteq 1..written
        /\ disk.pending \in Seq(1..written) /\ Len(disk.pending) <= MaxPending
        /\ disk.graph \ refused \subseteq Range(disk.pending) \cup Upstreamed \cup reported
        /\ Range(disk.pending) \subseteq disk.graph
    BY DEF SnapshotsAreSafe
  <1>2. /\ phase' \in {"idle", "pushing"}
        /\ attempt' \in 0..Attempts - 1
        /\ arrived' = FALSE
        /\ phase' = "idle" <=> disk.pending = <<>>
    BY PumpShape
  <1>3. Range(<<>>) = {}
    BY DEF Range
  <1>4. crashes' \in 0..MaxCrashes
    BY BoundAssumption DEF TypeOK
  <1>5. TypeOK'
    BY <1>1, <1>2, <1>4 DEF TypeOK
  <1>6. NoSilentLoss' /\ QueuedIsApplied'
    BY <1>1 DEF NoSilentLoss, QueuedIsApplied, Upstreamed
  <1>7. NothingIsStranded' /\ ArrivedIsUpstream'
    BY <1>2, <1>3 DEF NothingIsStranded, ArrivedIsUpstream
  <1>8. SnapshotsAreSafe'
    BY SafetyGrows, BoundAssumption DEF TypeOK, Upstreamed
  <1> QED
    BY <1>5, <1>6, <1>7, <1>8

\* Every step keeps the inductive invariant.
LEMMA NextInv == Inv /\ [Next]_vars => Inv'
  <1> SUFFICES ASSUME Inv, [Next]_vars PROVE Inv'
    OBVIOUS
  <1> USE DEF Inv
  <1>1. CASE Mutate
    BY <1>1, EnqueueStep DEF Mutate
  <1>2. CASE MutateListenerThrows
    <2> USE <1>2 DEF MutateListenerThrows
    <2>1. /\ written \in Nat /\ written' = written + 1 /\ written' \in 0..MaxWrites
          /\ graph' = graph \cup {written'}
          /\ graph' \subseteq 1..written' /\ refused' \subseteq 1..written'
          /\ reported' \subseteq 1..written'
          /\ upstream' \in Seq(1..written') /\ queue \in Seq(1..written')
          /\ Len(queue) + 1 <= MaxPending
          /\ saving' \subseteq Snapshot /\ disk' \in Snapshot
          /\ saves' \in 0..MaxSaves /\ crashes' \in 0..MaxCrashes
          /\ SnapshotsAreSafe'
      BY ApplyShape
    <2>2. TypeOK'
      BY <2>1 DEF TypeOK, pumpVars
    <2>3. NoSilentLoss' /\ QueuedIsApplied'
      BY <2>1 DEF NoSilentLoss, QueuedIsApplied, Upstreamed
    <2>4. NothingIsStranded' /\ ArrivedIsUpstream'
      BY DEF NothingIsStranded, ArrivedIsUpstream, Upstreamed, pumpVars
    <2> QED
      BY <2>1, <2>2, <2>3, <2>4
  <1>3. CASE MutateNotifyThrows
    BY <1>3, EnqueueStep DEF MutateNotifyThrows
  <1>4. CASE Arrive
    BY <1>4, PumpStep DEF Arrive, TypeOK
  <1>5. CASE PushOk
    BY <1>5, ShiftStep DEF PushOk, ArrivedIsUpstream
  <1>6. CASE PushFails
    BY <1>6, PumpStep DEF PushFails, TypeOK
  <1>7. CASE Retry
    <2>1. attempt' \in 0..Attempts - 1
      BY <1>7, RetryAssumption DEF Retry, TypeOK
    <2> QED
      BY <1>7, <2>1, PumpStep DEF Retry
  <1>8. CASE GiveUp
    BY <1>8, ShiftStep DEF GiveUp
  <1>9. CASE Save
    BY <1>9, SaveStep
  <1>10. CASE Saved
    <2> USE <1>10 DEF Saved
    <2>1. saving' \cup {disk'} \subseteq saving \cup {disk}
      OBVIOUS
    <2>2. TypeOK'
      <3>1. saving' \subseteq Snapshot /\ disk' \in Snapshot
        BY <2>1 DEF TypeOK
      <3> QED
        BY <3>1 DEF TypeOK, pumpVars
    <2>3. NoSilentLoss' /\ QueuedIsApplied' /\ NothingIsStranded' /\ ArrivedIsUpstream'
      BY DEF NoSilentLoss, QueuedIsApplied, NothingIsStranded, ArrivedIsUpstream,
             Upstreamed, pumpVars
    <2>4. SnapshotsAreSafe'
      BY <2>1, SafetyGrows, BoundAssumption DEF TypeOK, Upstreamed
    <2> QED
      BY <2>2, <2>3, <2>4
  <1>11. CASE Restart
    BY <1>11, RestartStep
  <1>12. CASE UNCHANGED vars
    BY <1>12 DEF vars, pumpVars, diskVars, TypeOK, NoSilentLoss, QueuedIsApplied,
                 NothingIsStranded, ArrivedIsUpstream, SnapshotsAreSafe, Upstreamed
  <1> QED
    BY <1>1, <1>2, <1>3, <1>4, <1>5, <1>6, <1>7, <1>8, <1>9, <1>10, <1>11, <1>12 DEF Next

\* The engine and every snapshot it may be restored from stay consistent.
THEOREM Invariance == Spec => []Inv
  <1>1. Init => Inv
    BY InitInv
  <1>2. Inv /\ [Next]_vars => Inv'
    BY NextInv
  <1> QED
    BY <1>1, <1>2, PTL DEF Spec

\* mutate() loses no write it accepted without a report, however saves,
\* failures and crashes interleave.
THEOREM NoSilentLossHolds == Spec => []NoSilentLoss
  <1>1. Inv => NoSilentLoss
    BY DEF Inv
  <1> QED
    BY <1>1, Invariance, PTL

\* A queued write whose mutate() did not throw always has a running pump.
THEOREM NothingIsStrandedHolds == Spec => []NothingIsStranded
  <1>1. Inv => NothingIsStranded
    BY DEF Inv
  <1> QED
    BY <1>1, Invariance, PTL

\* The queue of a restored engine never replicates a write its graph lacks.
THEOREM QueuedIsAppliedHolds == Spec => []QueuedIsApplied
  <1>1. Inv => QueuedIsApplied
    BY DEF Inv
  <1> QED
    BY <1>1, Invariance, PTL

----------------------------------------------------------------------------
(* The order upstream *)

Climbs(s) == \A i, j \in 1..Len(s) : i < j => s[i] < s[j]

\* Writes are queued in the order they were made, and so remembered.
QueuesClimb == Climbs(queue) /\ \A s \in saving \cup {disk} : Climbs(s.pending)

\* The writes some snapshot would put back into the queue.
Remembered == UNION {Range(s.pending) : s \in saving \cup {disk}}

\* Those that are no longer queued have been settled: a crash that takes a
\* write from the queue takes the snapshots under way too.
RememberedIsSettled == Remembered \subseteq Range(queue) \cup Upstreamed \cup reported

Waiting == Range(queue) \cup Remembered

\* A write that may still be sent, and that upstream has seen a later one
\* before, was reported or is only sent again.
OvertakenIsExcused ==
  \A v \in Waiting : \A k \in 1..Len(upstream) :
    upstream[k] > v => v \in reported \/ \E l \in 1..(k - 1) : upstream[l] = v

OrderInv == QueuesClimb /\ RememberedIsSettled /\ OvertakenIsExcused /\ UpstreamInOrder

\* The elements of a sequence by their places.
LEMMA RangeIff ==
  ASSUME NEW S, NEW s \in Seq(S), NEW e
  PROVE  e \in Range(s) <=> \E i \in 1..Len(s) : s[i] = e
  <1>1. DOMAIN s = 1..Len(s)
    OBVIOUS
  <1> QED
    BY <1>1 DEF Range

\* A climbing sequence climbs without its head, which is its least element.
LEMMA ClimbingTail ==
  ASSUME NEW s \in Seq(Nat), s # <<>>, Climbs(s)
  PROVE  Climbs(Tail(s)) /\ \A v \in Range(s) : Head(s) <= v
  <1>1. /\ Len(s) \in Nat /\ 1 \in 1..Len(s) /\ Head(s) = s[1]
        /\ Len(Tail(s)) = Len(s) - 1
        /\ \A i \in 1..Len(Tail(s)) : i + 1 \in 1..Len(s) /\ Tail(s)[i] = s[i + 1]
    OBVIOUS
  <1>2. Climbs(Tail(s))
    <2> SUFFICES ASSUME NEW i \in 1..Len(Tail(s)), NEW j \in 1..Len(Tail(s)), i < j
                 PROVE  Tail(s)[i] < Tail(s)[j]
      BY DEF Climbs
    <2>1. i + 1 < j + 1
      BY <1>1
    <2> QED
      BY <1>1, <2>1 DEF Climbs
  <1>3. ASSUME NEW i \in 1..Len(s) PROVE Head(s) <= s[i]
    <2>1. s[i] \in Nat /\ s[1] \in Nat
      BY <1>1
    <2>2. CASE i = 1
      BY <1>1, <2>1, <2>2
    <2>3. CASE i > 1
      BY <1>1, <2>1, <2>3 DEF Climbs
    <2> QED
      BY <1>1, <2>2, <2>3
  <1> QED
    BY <1>2, <1>3, RangeIff

\* A climbing sequence climbs with a greater element at its end.
LEMMA ClimbingAppend ==
  ASSUME NEW s \in Seq(Nat), Climbs(s), NEW e \in Nat, \A i \in 1..Len(s) : s[i] < e
  PROVE  Climbs(Append(s, e))
  <1>1. /\ Len(s) \in Nat /\ Len(Append(s, e)) = Len(s) + 1
        /\ \A i \in 1..Len(s) : Append(s, e)[i] = s[i]
        /\ Append(s, e)[Len(s) + 1] = e
    OBVIOUS
  <1> SUFFICES ASSUME NEW i \in 1..Len(Append(s, e)), NEW j \in 1..Len(Append(s, e)), i < j
               PROVE  Append(s, e)[i] < Append(s, e)[j]
    BY DEF Climbs
  <1>2. i \in 1..Len(s) /\ (j \in 1..Len(s) \/ j = Len(s) + 1)
    BY <1>1
  <1> QED
    BY <1>1, <1>2 DEF Climbs

\* Upstream stands; no write waits that did not, but a new one.
LEMMA OrderStands ==
  ASSUME Inv, OrderInv, upstream' = upstream, reported \subseteq reported',
         \A v \in Waiting' : v \in Waiting \/ v = written + 1
  PROVE  OvertakenIsExcused' /\ UpstreamInOrder'
  <1> USE DEF OrderInv
  <1>1. UpstreamInOrder'
    BY DEF UpstreamInOrder
  <1>2. OvertakenIsExcused'
    <2> SUFFICES ASSUME NEW v \in Waiting', NEW k \in 1..Len(upstream), upstream[k] > v
                 PROVE  v \in reported' \/ \E l \in 1..(k - 1) : upstream[l] = v
      BY DEF OvertakenIsExcused
    <2>1. upstream \in Seq(1..written) /\ written \in Nat
      BY BoundAssumption DEF Inv, TypeOK
    <2>2. upstream[k] \in 1..written
      BY <2>1
    <2>3. v \in Waiting
      BY <2>1, <2>2
    <2> QED
      BY <2>3 DEF OvertakenIsExcused
  <1> QED
    BY <1>1, <1>2

\* Queue and snapshots shrink, or forget only what has been settled.
LEMMA OrderShrinks ==
  ASSUME Inv, OrderInv, upstream' = upstream, reported \subseteq reported',
         saving' \cup {disk'} \subseteq saving \cup {disk},
         Climbs(queue'), Range(queue') \subseteq Waiting,
         Range(queue) \cap Remembered' \subseteq Range(queue') \cup Upstreamed \cup reported'
  PROVE  OrderInv'
  <1> USE DEF OrderInv
  <1>1. Remembered' \subseteq Remembered
    BY DEF Remembered
  <1>2. Waiting' \subseteq Waiting
    BY <1>1 DEF Waiting
  <1>3. QueuesClimb'
    BY DEF QueuesClimb
  <1>4. RememberedIsSettled'
    BY <1>1 DEF RememberedIsSettled, Upstreamed
  <1> QED
    BY <1>2, <1>3, <1>4, OrderStands

\* A push that arrives is the head's, and all that waits behind it is later.
LEMMA ArriveOrder ==
  ASSUME Inv, OrderInv, Arrive
  PROVE  OrderInv'
  <1> USE DEF OrderInv
  <1> DEFINE n == Len(upstream)
             h == Head(queue)
  <1>1. /\ queue # <<>> /\ queue \in Seq(1..written) /\ queue \in Seq(Nat) /\ written \in Nat
        /\ upstream \in Seq(1..written)
        /\ UNCHANGED <<queue, saving, disk, reported>> /\ upstream' = Append(upstream, h)
    <2>1. written \in Nat /\ queue \in Seq(1..written) /\ upstream \in Seq(1..written)
      BY BoundAssumption DEF Inv, TypeOK
    <2>2. queue \in Seq(Nat)
      BY <2>1
    <2> QED
      BY <2>1, <2>2 DEF Inv, Arrive, NothingIsStranded, diskVars
  <1>2. h \in 1..written /\ h \in Range(queue) /\ \A v \in Range(queue) : h <= v
    BY <1>1, RangeTail, ClimbingTail DEF QueuesClimb
  <1>3. /\ n \in Nat /\ Len(upstream') = n + 1 /\ upstream'[n + 1] = h
        /\ \A k \in 1..n : upstream'[k] = upstream[k]
    BY <1>1, <1>2
  <1>4. Upstreamed' = Upstreamed \cup {h}
    <2>1. Range(Append(upstream, h)) = Range(upstream) \cup {h}
      BY <1>1, <1>2, RangeAppend
    <2> QED
      BY <1>1, <2>1 DEF Upstreamed
  <1>5. Remembered' = Remembered /\ Waiting' = Waiting
    BY <1>1 DEF Remembered, Waiting
  <1>6. QueuesClimb' /\ RememberedIsSettled'
    BY <1>1, <1>4, <1>5 DEF QueuesClimb, RememberedIsSettled
  <1> HIDE DEF h
  <1>7. OvertakenIsExcused'
    <2> SUFFICES ASSUME NEW v \in Waiting, NEW k \in 1..(n + 1), upstream'[k] > v
                 PROVE  v \in reported \/ \E l \in 1..(k - 1) : upstream'[l] = v
      BY <1>1, <1>3, <1>5 DEF OvertakenIsExcused
    <2>1. CASE k \in 1..n
      <3>1. v \in reported \/ \E l \in 1..(k - 1) : upstream[l] = v
        BY <1>3, <2>1 DEF OvertakenIsExcused
      <3>2. \A l \in 1..(k - 1) : l \in 1..n
        BY <1>3, <2>1
      <3> QED
        BY <1>3, <3>1, <3>2
    <2>2. CASE k = n + 1
      <3>1. h > v
        BY <1>3, <2>2
      <3>2. v \in Upstreamed \cup reported \cup Range(queue)
        BY DEF Waiting, RememberedIsSettled
      <3>3. CASE v \in Range(queue)
        <4>1. h <= v /\ v \in Nat
          BY <1>1, <1>2, <3>3, RangeIff
        <4> QED
          BY <1>2, <3>1, <4>1
      <3>4. CASE v \in Upstreamed
        <4>1. PICK l \in 1..n : upstream[l] = v
          BY <1>1, <3>4, RangeIff DEF Upstreamed
        <4> QED
          BY <1>3, <2>2, <4>1
      <3> QED
        BY <3>2, <3>3, <3>4
    <2> QED
      BY <1>3, <2>1, <2>2
  <1>8. UpstreamInOrder'
    <2> SUFFICES ASSUME NEW i \in 1..(n + 1), NEW j \in 1..(n + 1), i < j, upstream'[j] < upstream'[i]
                 PROVE  \/ upstream'[j] \in reported
                        \/ \E k \in 1..(i - 1) : upstream'[k] = upstream'[j]
      <3>1. reported' = reported /\ 1..Len(upstream') = 1..(n + 1)
        BY <1>1, <1>3
      <3> QED
        BY <3>1 DEF UpstreamInOrder
    <2>1. i \in 1..n /\ \A k \in 1..(i - 1) : k \in 1..n
      BY <1>3
    <2>2. CASE j \in 1..n
      BY <1>3, <2>1, <2>2 DEF UpstreamInOrder
    <2>3. CASE j = n + 1
      <3>1. upstream[i] > h /\ h \in Waiting
        <4>1. h < upstream[i] /\ upstream[i] \in 1..written
          BY <1>1, <1>3, <2>1, <2>3
        <4> QED
          BY <1>1, <1>2, <4>1 DEF Waiting
      <3>2. h \in reported \/ \E l \in 1..(i - 1) : upstream[l] = h
        BY <2>1, <3>1 DEF OvertakenIsExcused
      <3> QED
        BY <1>3, <2>1, <2>3, <3>2
    <2> QED
      BY <1>3, <2>2, <2>3
  <1> QED
    BY <1>6, <1>7, <1>8

\* A write is queued behind all that were made before it.
LEMMA EnqueueOrder ==
  ASSUME Inv, OrderInv, Apply, queue' = Append(queue, written + 1),
         UNCHANGED <<upstream, saving, disk, reported>>
  PROVE  OrderInv'
  <1> USE DEF OrderInv
  <1>1. /\ written \in Nat /\ queue \in Seq(1..written) /\ queue \in Seq(Nat)
        /\ queue \in Seq(1..(written + 1)) /\ written + 1 \in 1..(written + 1)
        /\ \A i \in 1..Len(queue) : queue[i] < written + 1
    <2>1. written \in Nat /\ queue \in Seq(1..written)
      BY BoundAssumption DEF Inv, TypeOK
    <2>2. \A i \in 1..Len(queue) : queue[i] \in 1..written
      BY <2>1
    <2>3. queue \in Seq(1..(written + 1))
      BY <2>1, SeqGrows
    <2> QED
      BY <2>1, <2>2, <2>3
  <1>2. Climbs(queue')
    BY <1>1, ClimbingAppend DEF QueuesClimb
  <1>3. Range(queue') = Range(queue) \cup {written + 1}
    <2>1. Range(Append(queue, written + 1)) = Range(queue) \cup {written + 1}
      BY <1>1, RangeAppend
    <2> QED
      BY <2>1
  <1>4. Remembered' = Remembered
    BY DEF Remembered
  <1>5. QueuesClimb' /\ RememberedIsSettled'
    BY <1>2, <1>3, <1>4 DEF QueuesClimb, RememberedIsSettled, Upstreamed
  <1>6. \A v \in Waiting' : v \in Waiting \/ v = written + 1
    BY <1>3, <1>4 DEF Waiting
  <1> QED
    BY <1>5, <1>6, OrderStands

\* The head is settled before it leaves.
LEMMA ShiftOrder ==
  ASSUME Inv, OrderInv, phase = "pushing", Shift, UNCHANGED <<upstream, saving, disk>>,
         reported \subseteq reported', Head(queue) \in Upstreamed \cup reported'
  PROVE  OrderInv'
  <1>1. written \in Nat /\ queue \in Seq(1..written) /\ queue # <<>>
    BY BoundAssumption DEF Inv, TypeOK, NothingIsStranded
  <1>2. queue \in Seq(Nat) /\ queue' = Tail(queue)
    BY <1>1 DEF Shift
  <1>3. Climbs(queue') /\ Range(queue) = Range(queue') \cup {Head(queue)}
    <2>1. Climbs(Tail(queue)) /\ Range(queue) = Range(Tail(queue)) \cup {Head(queue)}
      BY <1>1, <1>2, RangeTail, ClimbingTail DEF OrderInv, QueuesClimb
    <2> QED
      BY <1>2, <2>1
  <1> QED
    BY <1>3, OrderShrinks DEF Waiting

\* A snapshot remembers what is queued.
LEMMA SaveOrder ==
  ASSUME Inv, OrderInv, Save
  PROVE  OrderInv'
  <1> USE DEF OrderInv
  <1>1. /\ UNCHANGED <<queue, upstream, disk, reported>>
        /\ saving' = saving \cup {[graph |-> graph, pending |-> queue]}
    BY DEF Save
  <1>2. Remembered' = Remembered \cup Range(queue)
    <2> DEFINE s == [graph |-> graph, pending |-> queue]
    <2>1. s.pending = queue
      OBVIOUS
    <2>2. (saving \cup {disk})' = (saving \cup {disk}) \cup {s}
      BY <1>1
    <2> HIDE DEF s
    <2> QED
      BY <2>1, <2>2 DEF Remembered
  <1>3. Waiting' = Waiting
    BY <1>1, <1>2 DEF Waiting
  <1>4. QueuesClimb' /\ RememberedIsSettled'
    BY <1>1, <1>2 DEF QueuesClimb, RememberedIsSettled, Upstreamed
  <1> QED
    BY <1>1, <1>3, <1>4, OrderStands

\* A restarted engine queues what the snapshot in the storage remembers.
LEMMA RestartOrder ==
  ASSUME Inv, OrderInv, Restart
  PROVE  OrderInv'
  <1> USE DEF OrderInv
  <1>1. queue' = disk.pending /\ UNCHANGED <<upstream, disk, reported>> /\ saving' = {}
    BY DEF Restart
  <1>2. Climbs(queue') /\ Range(queue') \subseteq Waiting
    BY <1>1 DEF QueuesClimb, Waiting, Remembered
  <1>3. Remembered' = Range(queue')
    BY <1>1 DEF Remembered
  <1> QED
    BY <1>1, <1>2, <1>3, OrderShrinks

\* Every step keeps the order.
LEMMA NextOrder ==
  Inv /\ OrderInv /\ [Next]_vars => OrderInv'
  <1> SUFFICES ASSUME Inv, OrderInv, [Next]_vars PROVE OrderInv'
    OBVIOUS
  <1>1. CASE Mutate \/ MutateNotifyThrows
    BY <1>1, EnqueueOrder DEF Mutate, MutateNotifyThrows, diskVars
  <1>2. CASE Arrive
    BY <1>2, ArriveOrder
  <1>3. CASE PushOk
    BY <1>3, ShiftOrder DEF PushOk, Inv, ArrivedIsUpstream, diskVars
  <1>4. CASE GiveUp
    BY <1>4, ShiftOrder DEF GiveUp, diskVars
  <1>5. CASE Save
    BY <1>5, SaveOrder
  <1>6. CASE Restart
    BY <1>6, RestartOrder
  <1>7. CASE MutateListenerThrows \/ PushFails \/ Retry \/ Saved \/ UNCHANGED vars
    <2>1. UNCHANGED <<queue, upstream, reported>> /\ saving' \cup {disk'} \subseteq saving \cup {disk}
      BY <1>7 DEF MutateListenerThrows, PushFails, Retry, Saved, vars, diskVars
    <2> QED
      BY <2>1, OrderShrinks DEF Waiting, OrderInv, QueuesClimb
  <1> QED
    BY <1>1, <1>2, <1>3, <1>4, <1>5, <1>6, <1>7 DEF Next

\* Upstream first sees the writes that were not reported in the order they
\* were made, across failures, retries, crashes and restored queues.
THEOREM UpstreamInOrderHolds == Spec => []UpstreamInOrder
  <1>1. Init => OrderInv
    BY RangeIff DEF Init, OrderInv, QueuesClimb, Climbs, RememberedIsSettled, Remembered, Waiting,
           OvertakenIsExcused, UpstreamInOrder, Range
  <1>2. OrderInv => UpstreamInOrder
    BY DEF OrderInv
  <1> QED
    BY <1>1, <1>2, InitInv, NextInv, NextOrder, PTL DEF Spec
=============================================================================
