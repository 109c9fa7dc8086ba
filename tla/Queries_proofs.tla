--------------------------- MODULE Queries_proofs ---------------------------
(***************************************************************************)
(* Proofs about how the engine answers: what it keeps of parsed statements *)
(* - the table of prepared ones (PreparedSlab), the parse caches           *)
(* (ParseCache) -, the ordered windows it finds without a sort (TopK) and  *)
(* the paths it counts without walking them (TrailCount).  The four share  *)
(* no variable.                                                            *)
(***************************************************************************)
EXTENDS PreparedSlab, ParseCache, TopK, TrailCount, SequenceTheorems, FiniteSetTheorems,
        WellFoundedInduction, TLAPS

(***************************************************************************)
(* The prepared-statement table never confuses two statements, for any set *)
(* of plans and any width of the generation.  The history says how often   *)
(* each slot was freed; the generations are those counts modulo GenSize,   *)
(* and two counts less than GenSize apart have different remainders.       *)
(***************************************************************************)

\* Division with remainder.
LEMMA ModFacts ==
  ASSUME NEW a \in Nat, NEW g \in Nat \ {0}
  PROVE  /\ a % g \in 0 .. g - 1
         /\ a \div g \in Nat
         /\ a = g * (a \div g) + (a % g)
  OBVIOUS

\* Counting modulo g, step by step.
LEMMA ModSucc ==
  ASSUME NEW a \in Nat, NEW g \in Nat \ {0}
  PROVE  ((a % g) + 1) % g = (a + 1) % g
<1> DEFINE q == a \div g
           r == a % g
<1>1. /\ r \in 0 .. g - 1 /\ q \in Nat /\ a = g * q + r
  BY ModFacts
<1> HIDE DEF q, r
<1>2. CASE r + 1 < g
  <2>1. (r + 1) % g = r + 1
    BY <1>1, <1>2
  <2>2. a + 1 = g * q + (r + 1)
    BY <1>1
  <2>3. (a + 1) % g = r + 1
    BY <1>1, <1>2, <2>2
  <2> QED
    BY <2>1, <2>3 DEF r
<1>3. CASE r + 1 = g
  <2>2. a + 1 = g * (q + 1)
    BY <1>1, <1>3
  <2>3. (a + 1) % g = 0
    BY <1>1, <2>2
  <2>4. (r + 1) % g = 0
    BY <1>3
  <2> QED
    BY <2>3, <2>4 DEF r
<1> QED
  BY <1>1, <1>2, <1>3

\* Two counts less than g apart have different remainders.
LEMMA ModDistinct ==
  ASSUME NEW a \in Nat, NEW b \in Nat, NEW g \in Nat \ {0},
         a < b, b - a < g
  PROVE  a % g # b % g
<1> SUFFICES ASSUME a % g = b % g
             PROVE  FALSE
  OBVIOUS
<1> DEFINE q == a \div g
           p == b \div g
<1>1. a = g * q + (a % g) /\ b = g * p + (b % g) /\ q \in Nat /\ p \in Nat
  BY ModFacts
<1> HIDE DEF q, p
<1>2. b - a = g * (p - q)
  BY <1>1
<1>3. p - q \in Int
  BY <1>1
<1>4. CASE p - q <= 0
  <2>1. g * (p - q) <= 0
    BY <1>3, <1>4
  <2> QED
    BY <1>2, <2>1
<1>5. CASE p - q >= 1
  <2>1. g * (p - q) >= g
    BY <1>3, <1>5
  <2> QED
    BY <1>2, <2>1
<1> QED
  BY <1>3, <1>4, <1>5

-----------------------------------------------------------------------------

\* The empty table satisfies the inductive invariant.
LEMMA SlabInitInv == SlabInit => SlabInv
BY GenSizeAssumption
   DEF SlabInit, SlabInv, SlabTypeOK, FreeListIsExact, ErasAgree, EmptySlotsAreNewer

\* A reused slot leaves the free list and keeps its generation.
LEMMA ReuseSlotInv ==
  ASSUME SlabInv, NEW plan \in Plans, ReuseSlot(plan)
  PROVE  SlabInv'
<1> DEFINE i == free[Len(free)]
<1> USE GenSizeAssumption, NoPlanAssumption
<1>1. /\ slots \in Seq(Slot)
      /\ free \in Seq(DOMAIN slots) /\ frees \in Seq(Nat) /\ minted \subseteq Tokens
      /\ Len(frees) = Len(slots)
  BY DEF SlabInv, SlabTypeOK
<1>2. /\ Len(free) \in DOMAIN free
      /\ i \in DOMAIN slots
      /\ i \in Nat \ {0} /\ frees[i] \in Nat
  BY <1>1 DEF ReuseSlot
<1>3. /\ slots' = [slots EXCEPT ![i].plan = plan]
      /\ free' = SubSeq(free, 1, Len(free) - 1)
      /\ minted' = minted \cup {[index |-> i, era |-> frees[i], plan |-> plan]}
      /\ frees' = frees
  BY DEF ReuseSlot, Last, Front
<1>4. /\ DOMAIN slots' = DOMAIN slots /\ Len(slots') = Len(slots)
      /\ \A j \in DOMAIN slots : slots'[j].generation = slots[j].generation
      /\ \A j \in DOMAIN slots : j # i => slots'[j] = slots[j]
      /\ slots'[i].plan = plan
      /\ slots'[i].generation = slots[i].generation
      /\ slots'[i] \in Slot
  <2>1. slots[i] \in Slot
    BY <1>1, <1>2, ElementOfSeq
  <2>2. slots' = [slots EXCEPT ![i] = [slots[i] EXCEPT !.plan = plan]]
    BY <1>3
  <2>3. slots'[i] = [slots[i] EXCEPT !.plan = plan]
    BY <1>1, <1>2, <2>2
  <2>4. /\ slots'[i].plan = plan
        /\ slots'[i].generation = slots[i].generation
        /\ slots'[i] \in Slot
    BY <2>1, <2>3 DEF Slot
  <2>5. \A j \in DOMAIN slots : j # i => slots'[j] = slots[j]
    BY <2>2
  <2>6. DOMAIN slots' = DOMAIN slots /\ Len(slots') = Len(slots)
    BY <1>1, <1>2, <2>2
  <2> QED
    BY <2>4, <2>5, <2>6
<1>5. /\ DOMAIN free' = 1 .. Len(free) - 1
      /\ \A n \in DOMAIN free' : n \in DOMAIN free /\ free'[n] = free[n]
  BY <1>1, <1>2, <1>3
<1>6. slots[i].plan = NoPlan
  BY <1>2 DEF SlabInv, FreeListIsExact
<1> HIDE DEF i
<1>7. SlabTypeOK'
  <2>1. slots' \in Seq(Slot)
    <3>1. slots' = [slots EXCEPT ![i] = slots'[i]]
      BY <1>1, <1>2, <1>3
    <3> QED
      BY <1>1, <1>2, <1>4, <3>1, ExceptSeq, SMTT(30)
  <2>2. free' \in Seq(DOMAIN slots')
    <3>1. \A n \in 1 .. Len(free) : free[n] \in DOMAIN slots
      BY <1>1, ElementOfSeq
    <3>2. free' = [n \in 1 .. Len(free) - 1 |-> free[n]]
      BY <1>1, <1>2, <1>3
    <3> QED
      BY <1>1, <1>2, <1>4, <3>1, <3>2
  <2>3. minted' \subseteq Tokens
    BY <1>1, <1>2, <1>3 DEF Tokens
  <2> QED
    BY <1>1, <1>3, <1>4, <2>1, <2>2, <2>3 DEF SlabTypeOK
<1>8. FreeListIsExact'
  <2>1. \A m, n \in DOMAIN free : free[m] = free[n] => m = n
    BY DEF SlabInv, FreeListIsExact
  <2>2. \A j \in DOMAIN slots : slots[j].plan = NoPlan <=> \E n \in DOMAIN free : free[n] = j
    BY DEF SlabInv, FreeListIsExact
  <2>3. ASSUME NEW j \in DOMAIN slots'
        PROVE  slots'[j].plan = NoPlan <=> \E n \in DOMAIN free' : free'[n] = j
    <3>1. CASE j = i
      <4>1. slots'[j].plan # NoPlan
        BY <1>4, <3>1
      <4>2. \A n \in DOMAIN free' : free'[n] # i
        BY <1>1, <1>2, <1>5, <2>1 DEF i
      <4> QED
        BY <3>1, <4>1, <4>2
    <3>2. CASE j # i
      <4>1. slots'[j].plan = slots[j].plan
        BY <1>4, <2>3, <3>2
      <4>2. \A n \in DOMAIN free : free[n] = j => n \in DOMAIN free'
        <5>1. DOMAIN free = 1 .. Len(free) /\ Len(free) \in Nat
          BY <1>1
        <5> QED
          BY <1>5, <3>2, <5>1 DEF i
      <4> QED
        BY <1>4, <1>5, <2>2, <2>3, <4>1, <4>2
    <3> QED
      BY <3>1, <3>2
  <2> QED
    BY <1>5, <2>1, <2>3 DEF FreeListIsExact
<1>9. ErasAgree' /\ EmptySlotsAreNewer'
  <2>1. \A j \in DOMAIN slots' : slots'[j].generation = frees'[j] % GenSize
    BY <1>3, <1>4 DEF SlabInv, ErasAgree
  <2>2. ASSUME NEW token \in minted'
        PROVE  /\ token.index \in DOMAIN slots'
               /\ token.era <= frees'[token.index]
               /\ Live(token)' => slots'[token.index].plan = token.plan
               /\ slots'[token.index].plan = NoPlan => token.era < frees'[token.index]
    <3>1. CASE token \in minted
      <4>1. /\ token.index \in DOMAIN slots
            /\ token.era <= frees[token.index]
            /\ Live(token) => slots[token.index].plan = token.plan
            /\ slots[token.index].plan = NoPlan => token.era < frees[token.index]
        BY <3>1 DEF SlabInv, ErasAgree, EmptySlotsAreNewer
      <4>2. CASE token.index = i
        <5>1. token.era < frees[i] /\ token.era \in Nat
          BY <1>1, <1>6, <3>1, <4>1, <4>2 DEF Tokens
        <5> QED
          BY <1>2, <1>3, <1>4, <4>1, <4>2, <5>1 DEF Live
      <4>3. CASE token.index # i
        BY <1>3, <1>4, <4>1, <4>3 DEF Live
      <4> QED
        BY <4>2, <4>3
    <3>2. CASE token = [index |-> i, era |-> frees[i], plan |-> plan]
      BY <1>2, <1>3, <1>4, <3>2
    <3> QED
      BY <1>3, <3>1, <3>2
  <2> QED
    BY <2>1, <2>2 DEF ErasAgree, EmptySlotsAreNewer
<1> QED
  BY <1>7, <1>8, <1>9 DEF SlabInv

\* A new slot begins at generation 0 and was never freed.
LEMMA GrowSlabInv ==
  ASSUME SlabInv, NEW plan \in Plans, GrowSlab(plan)
  PROVE  SlabInv'
<1> DEFINE k == Len(slots) + 1
           slot == [generation |-> 0, plan |-> plan]
<1> USE GenSizeAssumption, NoPlanAssumption
<1>1. /\ slots \in Seq(Slot) /\ frees \in Seq(Nat) /\ minted \subseteq Tokens
      /\ Len(frees) = Len(slots) /\ Len(slots) \in Nat
      /\ DOMAIN slots = 1 .. Len(slots)
  BY DEF SlabInv, SlabTypeOK
<1>2. slot \in Slot
  BY DEF Slot
<1>3. /\ slots' = Append(slots, slot)
      /\ frees' = Append(frees, 0)
      /\ minted' = minted \cup {[index |-> k, era |-> 0, plan |-> plan]}
      /\ free = <<>> /\ free' = <<>>
  BY DEF GrowSlab
<1>4. /\ slots' \in Seq(Slot) /\ Len(slots') = k /\ DOMAIN slots' = 1 .. k
      /\ \A j \in DOMAIN slots : slots'[j] = slots[j]
      /\ slots'[k] = slot
  BY <1>1, <1>2, <1>3, AppendProperties
<1>5. /\ frees' \in Seq(Nat) /\ Len(frees') = k
      /\ \A j \in DOMAIN slots : frees'[j] = frees[j]
      /\ frees'[k] = 0
  BY <1>1, <1>3, AppendProperties
<1>6. k \notin DOMAIN slots /\ \A j \in DOMAIN slots' : j \in DOMAIN slots \/ j = k
  BY <1>1, <1>4
<1>7. SlabTypeOK'
  <2>1. minted' \subseteq Tokens
    BY <1>1, <1>3 DEF Tokens
  <2>2. free' \in Seq(DOMAIN slots')
    BY <1>3
  <2> QED
    BY <1>4, <1>5, <2>1, <2>2 DEF SlabTypeOK
<1>8. FreeListIsExact'
  <2>1. \A j \in DOMAIN slots : slots[j].plan # NoPlan
    BY <1>3 DEF SlabInv, FreeListIsExact
  <2>2. \A j \in DOMAIN slots' : slots'[j].plan # NoPlan
    BY <1>4, <1>6, <2>1
  <2> QED
    BY <1>3, <2>2 DEF FreeListIsExact
<1>9. ErasAgree' /\ EmptySlotsAreNewer'
  <2>1. \A j \in DOMAIN slots' : slots'[j].generation = frees'[j] % GenSize
    <3>1. \A j \in DOMAIN slots : slots[j].generation = frees[j] % GenSize
      BY DEF SlabInv, ErasAgree
    <3>2. 0 % GenSize = 0
      OBVIOUS
    <3> QED
      BY <1>4, <1>5, <1>6, <3>1, <3>2
  <2>2. ASSUME NEW token \in minted'
        PROVE  /\ token.index \in DOMAIN slots'
               /\ token.era <= frees'[token.index]
               /\ Live(token)' => slots'[token.index].plan = token.plan
               /\ slots'[token.index].plan = NoPlan => token.era < frees'[token.index]
    <3>1. CASE token \in minted
      <4>1. /\ token.index \in DOMAIN slots
            /\ token.era <= frees[token.index]
            /\ Live(token) => slots[token.index].plan = token.plan
            /\ slots[token.index].plan = NoPlan => token.era < frees[token.index]
        BY <3>1 DEF SlabInv, ErasAgree, EmptySlotsAreNewer
      <4> QED
        BY <1>1, <1>4, <1>5, <4>1 DEF Live
    <3>2. CASE token = [index |-> k, era |-> 0, plan |-> plan]
      BY <1>1, <1>4, <1>5, <3>2
    <3> QED
      BY <1>3, <3>1, <3>2
  <2> QED
    BY <2>1, <2>2 DEF ErasAgree, EmptySlotsAreNewer
<1> QED
  BY <1>7, <1>8, <1>9 DEF SlabInv

\* A free bumps the generation of one slot and puts it on the free list.
LEMMA FreeHandleInv ==
  ASSUME SlabInv, NEW token \in minted, FreeHandle(HandleOf(token))
  PROVE  SlabInv'
<1> DEFINE i == token.index
           slot == [generation |-> (slots[i].generation + 1) % GenSize, plan |-> NoPlan]
<1> USE GenSizeAssumption, NoPlanAssumption
<1>1. /\ slots \in Seq(Slot) /\ frees \in Seq(Nat) /\ minted \subseteq Tokens
      /\ free \in Seq(DOMAIN slots)
      /\ Len(frees) = Len(slots) /\ Len(slots) \in Nat
      /\ DOMAIN slots = 1 .. Len(slots)
  BY DEF SlabInv, SlabTypeOK
<1>2. /\ i \in DOMAIN slots /\ i \in 1 .. Len(slots)
      /\ slots[i] \in Slot /\ frees[i] \in Nat
      /\ slots[i].plan # NoPlan
      /\ slots[i].generation = frees[i] % GenSize
  <2>1. HandleOf(token).index = i
    BY DEF HandleOf
  <2>2. i \in DOMAIN slots /\ slots[i].plan # NoPlan
    BY <2>1 DEF FreeHandle, MayRemove, GetClone
  <2> QED
    BY <1>1, <2>2, ElementOfSeq DEF SlabInv, ErasAgree
<1>3. /\ slots' = [slots EXCEPT ![i] = slot]
      /\ free' = Append(free, i)
      /\ frees' = [frees EXCEPT ![i] = frees[i] + 1]
      /\ minted' = minted
  BY DEF FreeHandle, HandleOf
<1>4. slot \in Slot /\ slot.plan = NoPlan /\ slot.generation = (frees[i] + 1) % GenSize
  <2>1. slots[i].generation \in Nat
    BY <1>2 DEF Slot
  <2>2. (slots[i].generation + 1) % GenSize \in 0 .. GenSize - 1
    <3>1. slots[i].generation + 1 \in Nat
      BY <2>1
    <3> QED
      BY <3>1, ModFacts
  <2> QED
    BY <1>2, <2>2, ModSucc DEF Slot
<1> HIDE DEF i, slot
<1>5. /\ slots' \in Seq(Slot) /\ Len(slots') = Len(slots) /\ DOMAIN slots' = DOMAIN slots
      /\ \A j \in DOMAIN slots : slots'[j] = IF j = i THEN slot ELSE slots[j]
  BY <1>1, <1>2, <1>3, <1>4, ExceptSeq
<1>6. /\ frees' \in Seq(Nat) /\ Len(frees') = Len(slots)
      /\ \A j \in DOMAIN slots : frees'[j] = IF j = i THEN frees[i] + 1 ELSE frees[j]
  BY <1>1, <1>2, <1>3, ExceptSeq
<1>7. /\ free' \in Seq(DOMAIN slots) /\ Len(free') = Len(free) + 1
      /\ DOMAIN free = 1 .. Len(free) /\ DOMAIN free' = 1 .. Len(free) + 1
      /\ \A n \in DOMAIN free : free'[n] = free[n]
      /\ free'[Len(free) + 1] = i /\ Len(free) \in Nat
  BY <1>1, <1>2, <1>3, AppendProperties, SMTT(30)
<1>8. SlabTypeOK'
  BY <1>1, <1>3, <1>5, <1>6, <1>7 DEF SlabTypeOK
<1>9. FreeListIsExact'
  <2>1. \A m, n \in DOMAIN free : free[m] = free[n] => m = n
    BY DEF SlabInv, FreeListIsExact
  <2>2. \A j \in DOMAIN slots : slots[j].plan = NoPlan <=> \E n \in DOMAIN free : free[n] = j
    BY DEF SlabInv, FreeListIsExact
  <2>3. \A n \in DOMAIN free : free[n] # i
    BY <1>2, <2>2
  <2>4. \A n \in DOMAIN free' : n \in DOMAIN free \/ n = Len(free) + 1
    BY <1>7
  <2>5. \A n \in DOMAIN free : n \in DOMAIN free' /\ n # Len(free) + 1
    BY <1>7
  <2>6. Len(free) + 1 \in DOMAIN free'
    BY <1>7
  <2>7. \A m, n \in DOMAIN free' : free'[m] = free'[n] => m = n
    BY <1>7, <2>1, <2>3, <2>4, <2>5
  <2>8. ASSUME NEW j \in DOMAIN slots'
        PROVE  slots'[j].plan = NoPlan <=> \E n \in DOMAIN free' : free'[n] = j
    <3>1. CASE j = i
      BY <1>2, <1>4, <1>5, <1>7, <2>6, <3>1
    <3>2. CASE j # i
      BY <1>5, <1>7, <2>2, <2>4, <2>5, <2>8, <3>2
    <3> QED
      BY <3>1, <3>2
  <2> QED
    BY <2>7, <2>8 DEF FreeListIsExact
<1>10. ErasAgree' /\ EmptySlotsAreNewer'
  <2>1. \A j \in DOMAIN slots' : slots'[j].generation = frees'[j] % GenSize
    <3>1. \A j \in DOMAIN slots : slots[j].generation = frees[j] % GenSize
      BY DEF SlabInv, ErasAgree
    <3>2. \A j \in DOMAIN slots : j # i => slots'[j].generation = frees'[j] % GenSize
      BY <1>5, <1>6, <3>1
    <3>3. slots'[i].generation = frees'[i] % GenSize
      BY <1>2, <1>4, <1>5, <1>6
    <3> QED
      BY <1>5, <3>2, <3>3
  <2>2. ASSUME NEW t \in minted'
        PROVE  /\ t.index \in DOMAIN slots'
               /\ t.era <= frees'[t.index]
               /\ Live(t)' => slots'[t.index].plan = t.plan
               /\ slots'[t.index].plan = NoPlan => t.era < frees'[t.index]
    <3>1. /\ t.index \in DOMAIN slots /\ t.era \in Nat
          /\ t.era <= frees[t.index]
          /\ Live(t) => slots[t.index].plan = t.plan
          /\ slots[t.index].plan = NoPlan => t.era < frees[t.index]
      BY <1>1, <1>3, <2>2 DEF SlabInv, ErasAgree, EmptySlotsAreNewer, Tokens
    <3>2. CASE t.index = i
      BY <1>2, <1>4, <1>5, <1>6, <3>1, <3>2, SMTT(30) DEF Live
    <3>3. CASE t.index # i
      BY <1>2, <1>5, <1>6, <3>1, <3>3 DEF Live
    <3> QED
      BY <3>2, <3>3
  <2> QED
    BY <2>1, <2>2 DEF ErasAgree, EmptySlotsAreNewer
<1> QED
  BY <1>8, <1>9, <1>10 DEF SlabInv

(* The inductive invariant, and with it the exactness of the free list,    *)
(* holds of every run of the table, for any set of plans and any width of  *)
(* the generation.                                                         *)
THEOREM SlabInvariant == SlabSpec => []SlabInv
<1>1. SlabInit => SlabInv
  BY SlabInitInv
<1>2. SlabInv /\ [SlabNext]_slabVars => SlabInv'
  <2> SUFFICES ASSUME SlabInv, [SlabNext]_slabVars
               PROVE  SlabInv'
    OBVIOUS
  <2>1. CASE SlabNext
    BY <2>1, ReuseSlotInv, GrowSlabInv, FreeHandleInv DEF SlabNext
  <2>2. CASE UNCHANGED slabVars
    BY <2>2 DEF slabVars, SlabInv, SlabTypeOK, FreeListIsExact, ErasAgree,
                EmptySlotsAreNewer, Live
  <2> QED
    BY <2>1, <2>2
<1> QED
  BY <1>1, <1>2, PTL DEF SlabSpec

(* prepared.rs: a slot is either occupied or on the free stack, once. *)
THEOREM FreeListExact == SlabSpec => []FreeListIsExact
<1>1. SlabInv => FreeListIsExact
  BY DEF SlabInv
<1> QED
  BY <1>1, SlabInvariant, PTL

(* A handle that was not freed resolves to the plan it was given out for. *)
THEOREM LiveHandles == SlabSpec => []LiveHandlesResolve
<1>1. SlabInv => LiveHandlesResolve
  <2> SUFFICES ASSUME SlabInv, NEW token \in minted, Live(token)
               PROVE  GetClone(HandleOf(token)) = token.plan
    BY DEF LiveHandlesResolve
  <2>1. /\ token.index \in DOMAIN slots
        /\ slots[token.index].plan = token.plan
        /\ slots[token.index].generation = token.era % GenSize
    BY DEF SlabInv, ErasAgree, Live
  <2> QED
    BY <2>1 DEF GetClone, HandleOf
<1> QED
  BY <1>1, SlabInvariant, PTL

(* Use after free and double free are refused while the generation of the  *)
(* slot has not wrapped all the way round.                                 *)
THEOREM FreedHandles == SlabSpec => []FreedHandlesAreRefused
<1>1. SlabInv => FreedHandlesAreRefused
  <2> SUFFICES ASSUME SlabInv, NEW token \in minted, ~Live(token), NotWrapped(token)
               PROVE  ~MayRemove(HandleOf(token))
    BY DEF FreedHandlesAreRefused
  <2> DEFINE i == token.index
  <2>1. /\ i \in DOMAIN slots /\ token.era \in Nat /\ frees[i] \in Nat
        /\ token.era <= frees[i] /\ frees[i] - token.era < GenSize
        /\ slots[i].generation = frees[i] % GenSize
    BY DEF SlabInv, SlabTypeOK, ErasAgree, NotWrapped, Tokens
  <2>2. CASE slots[i].plan = NoPlan
    BY <2>2 DEF MayRemove, GetClone, HandleOf
  <2>3. CASE slots[i].plan # NoPlan
    <3>1. token.era < frees[i]
      BY <2>1, <2>3 DEF Live
    <3>2. token.era % GenSize # frees[i] % GenSize
      BY <2>1, <3>1, ModDistinct, GenSizeAssumption
    <3> QED
      BY <2>1, <3>2 DEF MayRemove, GetClone, HandleOf
  <2> QED
    BY <2>2, <2>3
<1> QED
  BY <1>1, SlabInvariant, PTL

(***************************************************************************)
(* The invariant of the parse caches, for any set of texts, any cap and    *)
(* any hash: what is cached is the prepared plan of its text, a call       *)
(* differs from the uncached path in conditions only, and neither cache    *)
(* outgrows its cap.                                                       *)
(***************************************************************************)

(* Binding the prepared plan of a text that reads no clock answers what    *)
(* the direct parse answers, unless the parser rejects its condition.      *)
LEMMA BoundPlanIsDirect ==
  ASSUME NEW text \in Texts, NEW params \in Params, NEW depth \in Depths,
         ~IsError(PreparedParse(text, depth)), ~TextMayReadClock(text)
  PROVE  \/ Bind(PreparedParse(text, depth), params) = DirectParse(text, params, depth)
         \/ text.param = "condition" /\ DirectParse(text, params, depth) = Error("invalid")
<1>1. text.wellFormed /\ ~(text.depth > depth) /\ text.param # "limit"
  BY DEF PreparedParse, IsError, Error
<1>2. PreparedParse(text, depth) =
        Plan(text, IF text.param = "none" THEN "absent" ELSE Open, "absent")
  BY <1>1 DEF PreparedParse
<1>3. text.clock # "read"
  BY DEF TextMayReadClock
<1>4. CASE text.param = "none"
  BY <1>1, <1>2, <1>3, <1>4 DEF Bind, DirectParse, Plan, Open
<1>5. CASE text.param # "none" /\ params.value = "absent"
  BY <1>1, <1>2, <1>3, <1>5 DEF Bind, DirectParse, Plan, Open
<1>6. CASE text.param # "none" /\ params.value # "absent"
  <2>1. Bind(PreparedParse(text, depth), params) = Plan(text, params.value, "absent")
    BY <1>2, <1>6 DEF Bind, Plan, Open
  <2>2. CASE text.param = "condition"
    BY <1>1, <1>3, <1>6, <2>1, <2>2, TextAssumption DEF DirectParse, Plan, Error
  <2>3. CASE text.param # "condition"
    BY <1>1, <1>3, <1>6, <2>1, <2>3 DEF DirectParse, Plan
  <2> QED
    BY <2>2, <2>3
<1> QED
  BY <1>4, <1>5, <1>6

(* An insertion that follows evict_if_full stays within the cap. *)
LEMMA BoundedInsert ==
  ASSUME NEW S, IsFiniteSet(S), Cardinality(S) <= Cap, NEW t, NEW V,
         (V = {} /\ (Cardinality(S) < Cap \/ t \in S)) \/ \E u \in S : V = {u}
  PROVE  /\ IsFiniteSet((S \ V) \cup {t})
         /\ Cardinality((S \ V) \cup {t}) <= Cap
<1>1. IsFiniteSet(S \ V) /\ Cardinality(S) \in Nat /\ Cardinality(S \ V) \in Nat
  BY FS_Subset, FS_CardinalityType
<1>2. /\ IsFiniteSet((S \ V) \cup {t})
      /\ Cardinality((S \ V) \cup {t}) =
           IF t \in S \ V THEN Cardinality(S \ V) ELSE Cardinality(S \ V) + 1
  BY <1>1, FS_AddElement
<1>3. CASE V = {} /\ (Cardinality(S) < Cap \/ t \in S)
  <2>1. S \ V = S
    BY <1>3
  <2> QED
    BY <1>1, <1>2, <1>3, <2>1, CapAssumption
<1>4. ASSUME NEW u \in S, V = {u}
      PROVE  Cardinality((S \ V) \cup {t}) <= Cap
  <2>1. Cardinality(S \ V) = Cardinality(S) - 1
    BY <1>4, FS_RemoveElement
  <2> QED
    BY <1>1, <1>2, <2>1, CapAssumption
<1> QED
  BY <1>2, <1>3, <1>4

-----------------------------------------------------------------------------

\* Both caches start empty.
LEMMA CacheInitInv == CacheInit => CacheInv
<1> SUFFICES ASSUME CacheInit PROVE CacheInv
  OBVIOUS
<1>1. DOMAIN entries = {} /\ DOMAIN gslots = {} /\ call = NoCall /\ gcall = NoCall
  BY DEF CacheInit, GqlInit, GremlinInit
<1>2. IsFiniteSet({}) /\ Cardinality({}) = 0
  BY FS_EmptySet
<1>3. CacheTypeOK
  BY <1>1, CapAssumption DEF CacheTypeOK, CacheInit, GqlInit, GremlinInit
<1> QED
  BY <1>1, <1>2, <1>3, CapAssumption
  DEF CacheInv, PlansArePrepared, AnswersDifferOnlyInConditions, CachesAreBounded, IsRefused

(* What a call of the GQL cache has to leave, with the Gremlin cache alone *)
LEMMA GqlFrame ==
  ASSUME CacheInv, UNCHANGED gremlinVars,
         clock' \in Nat, ring' \in [0 .. Cap - 1 -> Nat], cursor' \in 0 .. Cap - 1,
         DOMAIN entries' \subseteq Texts, IsFiniteSet(DOMAIN entries'),
         Cardinality(DOMAIN entries') <= Cap,
         \A t \in DOMAIN entries' : entries'[t] # Refused =>
            /\ entries'[t] \in Admitted
            /\ entries'[t].plan = PreparedParse(t, entries'[t].maxDepth)
            /\ ~IsError(entries'[t].plan)
            /\ ~TextMayReadClock(t),
         call' # NoCall =>
            \/ call'.result = DirectParse(call'.text, call'.params, call'.depth)
            \/ /\ call'.text.param = "condition"
               /\ DirectParse(call'.text, call'.params, call'.depth) = Error("invalid")
  PROVE  CacheInv'
<1>1. CacheTypeOK'
  BY DEF CacheInv, CacheTypeOK, IsRefused, gremlinVars
<1> QED
  BY <1>1 DEF CacheInv, PlansArePrepared, AnswersDifferOnlyInConditions, CachesAreBounded,
              IsRefused, gremlinVars

(* The plans the cache holds, as the steps use it *)
LEMMA CachedPlans ==
  ASSUME CacheInv, NEW t \in DOMAIN entries, entries[t] # Refused
  PROVE  /\ entries[t] \in Admitted
         /\ entries[t].plan = PreparedParse(t, entries[t].maxDepth)
         /\ ~IsError(entries[t].plan)
         /\ ~TextMayReadClock(t)
BY DEF CacheInv, CacheTypeOK, PlansArePrepared, IsRefused

\* A hit binds a plan that admission has vetted.
LEMMA HitInv ==
  ASSUME CacheInv, UNCHANGED gremlinVars,
         NEW text \in Texts, NEW params \in Params, NEW depth \in Depths,
         Hit(text, params, depth)
  PROVE  CacheInv'
<1>1. /\ text \in DOMAIN entries /\ entries[text] # Refused /\ entries[text].maxDepth = depth
      /\ entries' = [entries EXCEPT ![text].stamp = clock + 1]
      /\ call' = [text |-> text, params |-> params, depth |-> depth,
                  result |-> Bind(entries[text].plan, params)]
      /\ clock' = clock + 1 /\ ring' = ring /\ cursor' = cursor
  BY DEF Hit, Found, IsRefused, Answer
<1>2. /\ entries[text] \in Admitted
      /\ entries[text].plan = PreparedParse(text, depth)
      /\ ~IsError(PreparedParse(text, depth)) /\ ~TextMayReadClock(text)
  BY <1>1, CachedPlans
<1>3. DOMAIN entries' = DOMAIN entries
  BY <1>1
<1>4. clock \in Nat /\ ring \in [0 .. Cap - 1 -> Nat] /\ cursor \in 0 .. Cap - 1
  BY DEF CacheInv, CacheTypeOK
<1>5. \A t \in DOMAIN entries' : entries'[t] # Refused =>
         /\ entries'[t] \in Admitted
         /\ entries'[t].plan = PreparedParse(t, entries'[t].maxDepth)
         /\ ~IsError(entries'[t].plan)
         /\ ~TextMayReadClock(t)
  <2> SUFFICES ASSUME NEW t \in DOMAIN entries', entries'[t] # Refused
               PROVE  /\ entries'[t] \in Admitted
                      /\ entries'[t].plan = PreparedParse(t, entries'[t].maxDepth)
                      /\ ~IsError(entries'[t].plan)
                      /\ ~TextMayReadClock(t)
    OBVIOUS
  <2>1. CASE t = text
    <3>1. entries'[t] = [entries[t] EXCEPT !.stamp = clock + 1]
      BY <1>1, <2>1
    <3>2. /\ entries'[t] \in Admitted /\ entries'[t].plan = entries[t].plan
          /\ entries'[t].maxDepth = entries[t].maxDepth
      BY <1>2, <1>4, <2>1, <3>1 DEF Admitted
    <3> QED
      BY <1>1, <1>2, <2>1, <3>2
  <2>2. CASE t # text
    BY <1>1, <2>2, CachedPlans
  <2> QED
    BY <2>1, <2>2
<1>6. \/ call'.result = DirectParse(text, params, depth)
      \/ text.param = "condition" /\ DirectParse(text, params, depth) = Error("invalid")
  BY <1>1, <1>2, BoundPlanIsDirect
<1> QED
  BY <1>1, <1>3, <1>4, <1>5, <1>6, GqlFrame DEF CacheInv, CacheTypeOK, CachesAreBounded

(* The ways out that leave the map alone *)
LEMMA MissInv ==
  ASSUME CacheInv, UNCHANGED gremlinVars,
         NEW text \in Texts, NEW params \in Params, NEW depth \in Depths,
         \/ ParseRefused(text, params, depth)
         \/ MissFails(text, params, depth)
         \/ MissFirst(text, params, depth)
  PROVE  CacheInv'
<1>1. /\ entries' = entries /\ clock' = clock + 1
      /\ call' = [text |-> text, params |-> params, depth |-> depth,
                  result |-> DirectParse(text, params, depth)]
      /\ UNCHANGED <<ring, cursor>> \/ Note(text)
  BY DEF ParseRefused, MissFails, MissFirst, Answer
<1>2. /\ clock \in Nat /\ ring \in [0 .. Cap - 1 -> Nat] /\ cursor \in 0 .. Cap - 1
      /\ Hash[text] \in Nat
  BY HashAssumption DEF CacheInv, CacheTypeOK
<1>3. ring' \in [0 .. Cap - 1 -> Nat] /\ cursor' \in 0 .. Cap - 1
  BY <1>1, <1>2, CapAssumption, SMTT(30) DEF Note
<1> QED
  BY <1>1, <1>2, <1>3, GqlFrame, CachedPlans, SMTT(60) DEF CacheInv, CacheTypeOK, CachesAreBounded

\* A repeat admits a vetted plan or refuses its text, and evicts first when
\* the cache is full.
LEMMA MissRepeatInv ==
  ASSUME CacheInv, UNCHANGED gremlinVars,
         NEW text \in Texts, NEW params \in Params, NEW depth \in Depths,
         MissRepeat(text, params, depth)
  PROVE  CacheInv'
<1> DEFINE admitted(n) == [maxDepth |-> depth, stamp |-> n, plan |-> PreparedParse(text, depth)]
<1>1. PICK victims \in Victims(text) :
        IF PreparedEquivalent(text, params, depth)
        THEN /\ Insert(text, admitted(clock + 2), victims)
             /\ clock' = clock + 2
        ELSE /\ Insert(text, Refused, victims)
             /\ clock' = clock + 1
  BY DEF MissRepeat
<1>2. /\ call' = [text |-> text, params |-> params, depth |-> depth,
                  result |-> DirectParse(text, params, depth)]
      /\ Forget(text)
  BY DEF MissRepeat, Answer
<1>3. /\ clock \in Nat /\ ring \in [0 .. Cap - 1 -> Nat] /\ cursor \in 0 .. Cap - 1
      /\ DOMAIN entries \subseteq Texts /\ IsFiniteSet(DOMAIN entries)
      /\ Cardinality(DOMAIN entries) <= Cap
  BY DEF CacheInv, CacheTypeOK, CachesAreBounded
<1>4. ring' \in [0 .. Cap - 1 -> Nat] /\ cursor' \in 0 .. Cap - 1 /\ clock' \in Nat
  BY <1>1, <1>2, <1>3 DEF Forget
<1>5. PICK slot : /\ Insert(text, slot, victims)
                  /\ slot # Refused => /\ PreparedEquivalent(text, params, depth)
                                       /\ slot \in Admitted
                                       /\ slot.plan = PreparedParse(text, depth)
                                       /\ slot.maxDepth = depth
  <2>1. CASE PreparedEquivalent(text, params, depth)
    <3>1. admitted(clock + 2) \in Admitted
      BY <1>3 DEF Admitted
    <3>2. /\ admitted(clock + 2).plan = PreparedParse(text, depth)
          /\ admitted(clock + 2).maxDepth = depth
      OBVIOUS
    <3> HIDE DEF admitted
    <3> QED
      BY <1>1, <2>1, <3>1, <3>2
  <2>2. CASE ~PreparedEquivalent(text, params, depth)
    BY <1>1, <2>2
  <2> QED
    BY <2>1, <2>2
<1>6. \/ victims = {} /\ (Cardinality(DOMAIN entries) < Cap \/ text \in DOMAIN entries)
      \/ \E u \in DOMAIN entries : victims = {u}
  BY <1>1 DEF Victims, RefusedTexts
<1>7. /\ DOMAIN entries' = (DOMAIN entries \ victims) \cup {text}
      /\ entries'[text] = slot
      /\ \A t \in DOMAIN entries' : t # text => t \in DOMAIN entries /\ entries'[t] = entries[t]
  BY <1>5 DEF Insert
<1>8. IsFiniteSet(DOMAIN entries') /\ Cardinality(DOMAIN entries') <= Cap
  <2> DEFINE S == DOMAIN entries
  <2>1. IsFiniteSet(S) /\ Cardinality(S) <= Cap
    BY <1>3
  <2>2. (victims = {} /\ (Cardinality(S) < Cap \/ text \in S)) \/ \E u \in S : victims = {u}
    BY <1>6
  <2> HIDE DEF S
  <2>3. IsFiniteSet((S \ victims) \cup {text}) /\ Cardinality((S \ victims) \cup {text}) <= Cap
    BY <2>1, <2>2, BoundedInsert
  <2> QED
    BY <1>7, <2>3 DEF S
<1>9. \A t \in DOMAIN entries' : entries'[t] # Refused =>
         /\ entries'[t] \in Admitted
         /\ entries'[t].plan = PreparedParse(t, entries'[t].maxDepth)
         /\ ~IsError(entries'[t].plan)
         /\ ~TextMayReadClock(t)
  BY <1>5, <1>7, CachedPlans DEF PreparedEquivalent
<1>10. DOMAIN entries' \subseteq Texts
  BY <1>3, <1>7
<1> QED
  BY <1>2, <1>4, <1>8, <1>9, <1>10, GqlFrame

-----------------------------------------------------------------------------

(* What a call of the Gremlin cache has to leave, with the GQL cache alone *)
LEMMA GremlinFrame ==
  ASSUME CacheInv, UNCHANGED gqlVars,
         gclock' \in Nat, gseen' \in [0 .. Cap - 1 -> Nat],
         DOMAIN gslots' \subseteq Traversals, IsFiniteSet(DOMAIN gslots'),
         Cardinality(DOMAIN gslots') <= Cap,
         \A t \in DOMAIN gslots' : /\ gslots'[t] \in AdmittedTraversal
                                   /\ gslots'[t].plan = GremlinParse(t),
         gcall'.result = GremlinParse(gcall'.text)
  PROVE  CacheInv'
<1>1. CacheTypeOK'
  BY DEF CacheInv, CacheTypeOK, IsRefused, gqlVars
<1> QED
  BY <1>1 DEF CacheInv, PlansArePrepared, AnswersDifferOnlyInConditions, CachesAreBounded,
              IsRefused, gqlVars

\* The steps of the Gremlin cache: its plans have no parameters to bind.
LEMMA GremlinStepInv ==
  ASSUME CacheInv, UNCHANGED gqlVars, NEW text \in Traversals,
         \/ GremlinHit(text)
         \/ GremlinFails(text)
         \/ GremlinFirst(text)
         \/ GremlinAdmit(text)
  PROVE  CacheInv'
<1> DEFINE S == DOMAIN gslots
<1>1. /\ gclock \in Nat /\ gseen \in [0 .. Cap - 1 -> Nat] /\ S \subseteq Traversals
      /\ IsFiniteSet(S) /\ Cardinality(S) <= Cap /\ Hash[text] \in Nat
      /\ \A t \in S : gslots[t] \in AdmittedTraversal /\ gslots[t].plan = GremlinParse(t)
  BY HashAssumption DEF CacheInv, CacheTypeOK, CachesAreBounded, PlansArePrepared
<1>2. CASE GremlinHit(text)
  <2>1. /\ text \in S /\ gslots' = [gslots EXCEPT ![text].stamp = gclock + 1]
        /\ gclock' = gclock + 1 /\ gseen' = gseen
        /\ gcall' = [text |-> text, result |-> gslots[text].plan]
    BY <1>2 DEF GremlinHit
  <2>2. DOMAIN gslots' = S
    BY <2>1
  <2>3. ASSUME NEW t \in S
        PROVE  gslots'[t] \in AdmittedTraversal /\ gslots'[t].plan = GremlinParse(t)
    <3>1. CASE t = text
      <4>1. gslots'[t] = [gslots[t] EXCEPT !.stamp = gclock + 1]
        BY <2>1, <3>1
      <4> QED
        BY <1>1, <4>1 DEF AdmittedTraversal
    <3>2. CASE t # text
      BY <1>1, <2>1, <3>2
    <3> QED
      BY <3>1, <3>2
  <2> QED
    BY <1>1, <2>1, <2>2, <2>3, GremlinFrame
<1>3. CASE GremlinFails(text) \/ GremlinFirst(text)
  <2>1. /\ gslots' = gslots /\ gclock' = gclock + 1
        /\ gcall' = [text |-> text, result |-> GremlinParse(text)]
        /\ gseen' = gseen \/ gseen' = [gseen EXCEPT ![Place(text)] = Hash[text]]
    BY <1>3 DEF GremlinFails, GremlinFirst
  <2> QED
    BY <1>1, <2>1, GremlinFrame
<1>4. CASE GremlinAdmit(text)
  <2> DEFINE slot == [stamp |-> gclock + 2, plan |-> GremlinParse(text)]
  <2>1. PICK V \in GremlinVictims :
          gslots' = [t \in (S \ V) \cup {text} |-> IF t = text THEN slot ELSE gslots[t]]
    BY <1>4 DEF GremlinAdmit
  <2>2. /\ gclock' = gclock + 2 /\ gseen' = [gseen EXCEPT ![Place(text)] = 0]
        /\ gcall' = [text |-> text, result |-> GremlinParse(text)]
    BY <1>4 DEF GremlinAdmit
  <2>3. slot \in AdmittedTraversal /\ slot.plan = GremlinParse(text)
    BY <1>1 DEF AdmittedTraversal
  <2>4. (V = {} /\ Cardinality(S) < Cap) \/ \E u \in S : V = {u}
    BY <2>1 DEF GremlinVictims
  <2> HIDE DEF S, slot
  <2>5. IsFiniteSet((S \ V) \cup {text}) /\ Cardinality((S \ V) \cup {text}) <= Cap
    BY <1>1, <2>4, BoundedInsert
  <2>6. DOMAIN gslots' = (S \ V) \cup {text}
    BY <2>1
  <2>7. \A t \in DOMAIN gslots' : gslots'[t] \in AdmittedTraversal /\ gslots'[t].plan = GremlinParse(t)
    BY <1>1, <2>1, <2>3
  <2>8. gseen' \in [0 .. Cap - 1 -> Nat] /\ gclock' \in Nat /\ DOMAIN gslots' \subseteq Traversals
    <3>1. DOMAIN gslots' \subseteq Traversals
      BY <1>1, <2>6
    <3>2. gseen' \in [0 .. Cap - 1 -> Nat]
      BY <1>1, <2>2
    <3>3. gclock' \in Nat
      BY <1>1, <2>2
    <3> QED
      BY <3>1, <3>2, <3>3
  <2> QED
    BY <2>2, <2>5, <2>6, <2>7, <2>8, GremlinFrame
<1> QED
  BY <1>2, <1>3, <1>4

(* The inductive invariant holds of every run of the two caches. *)
THEOREM CacheInvariant == CacheSpec => []CacheInv
<1>1. CacheInit => CacheInv
  BY CacheInitInv
<1>2. CacheInv /\ [CacheNext]_cacheVars => CacheInv'
  <2> SUFFICES ASSUME CacheInv, [CacheNext]_cacheVars
               PROVE  CacheInv'
    OBVIOUS
  <2>1. CASE GqlStep
    <3>1. UNCHANGED gremlinVars
      BY <2>1 DEF GqlStep
    <3>2. PICK text \in Texts, params \in Params, depth \in Depths :
            \/ Hit(text, params, depth)
            \/ ParseRefused(text, params, depth)
            \/ MissFails(text, params, depth)
            \/ MissFirst(text, params, depth)
            \/ MissRepeat(text, params, depth)
      BY <2>1 DEF GqlStep, GqlNext
    <3> QED
      BY <3>1, <3>2, HitInv, MissInv, MissRepeatInv
  <2>2. CASE GremlinStep
    BY <2>2, GremlinStepInv DEF GremlinStep, GremlinNext
  <2>3. CASE UNCHANGED cacheVars
    BY <2>3 DEF cacheVars, CacheInv, CacheTypeOK, PlansArePrepared, CachesAreBounded,
                AnswersDifferOnlyInConditions, IsRefused
  <2> QED
    BY <2>1, <2>2, <2>3 DEF CacheNext
<1> QED
  BY <1>1, <1>2, PTL DEF CacheSpec

(* parse_cache.rs: a call is answered as the uncached path answers it, but *)
(* for a condition the parser rejects.                                     *)
THEOREM AnswersDirect == CacheSpec => []AnswersDifferOnlyInConditions
<1>1. CacheInv => AnswersDifferOnlyInConditions
  BY DEF CacheInv
<1> QED
  BY <1>1, CacheInvariant, PTL

(* parse_cache.rs: "BOUNDEDNESS is the property this was chosen for". *)
THEOREM CachesBounded == CacheSpec => []CachesAreBounded
<1>1. CacheInv => CachesAreBounded
  BY DEF CacheInv
<1> QED
  BY <1>1, CacheInvariant, PTL

-----------------------------------------------------------------------------
(***************************************************************************)
(* The ordered windows (TopK).  The order of the rows is total, so a row   *)
(* has a rank and the sort has it at that place; rows that are kept are    *)
(* enough if the foremost of all are among them.  A scan keeps that of     *)
(* what it has read, and at its end of all.  Over a hop, where ties may    *)
(* come in any order, what is proved of a place is the key that stands     *)
(* there: as many copies come before it, in every order of the nodes.      *)
(***************************************************************************)

Smaller == OpToRel(<, Nat)
(* Numbers do not go down forever. *)
LEMMA SmallerIsWellFounded == IsWellFoundedOn(Smaller, Nat)
  BY NatLessThanWellFounded, Zenon DEF Smaller
(* A set of numbers that is not empty has a least one. *)
LEMMA LeastNumber ==
  ASSUME NEW T \in SUBSET Nat, T # {}
  PROVE  \E x \in T : \A y \in T : x <= y
<1>1. \A x, y \in Nat : <<y, x>> \in Smaller <=> y < x
  BY Zenon DEF Smaller, OpToRel
<1>2. PICK x \in T : \A y \in T : ~(<<y, x>> \in Smaller)
  BY SmallerIsWellFounded, WFMin, Zenon
<1>3. \A y \in T : ~(y < x)
  BY <1>1, <1>2
<1> QED
  BY <1>3

(* Min on two numbers. *)
LEMMA MinOfTwo ==
  ASSUME NEW a \in Nat, NEW b \in Nat
  PROVE  Min({a, b}) = IF a <= b THEN a ELSE b
<1> DEFINE m == IF a <= b THEN a ELSE b
<1>1. m \in {a, b} /\ \A y \in {a, b} : m <= y
  OBVIOUS
<1>2. \A x \in {a, b} : (\A y \in {a, b} : x <= y) => x = m
  OBVIOUS
<1> QED
  BY <1>1, <1>2 DEF Min

(* The parts of a plea. *)
LEMMA PleaParts ==
  ASSUME plea \in PleaType
  PROVE  /\ plea.column \in {"num", "temporal", "ranked", "hop"}
         /\ plea.cells \in Seq(Nat \cup {Null, Absent}) /\ plea.times \in Seq(Nat)
         /\ plea.top \in Nat /\ plea.filtered \in BOOLEAN
         /\ plea.desc \in BOOLEAN /\ plea.nullsFirst \in BOOLEAN
         /\ plea.skip \in Nat /\ plea.limit \in Nat
  BY DEF PleaType

(* The nodes of a column. *)
Cells == DOMAIN plea.cells

(* A node is a number, and has a key unless it is a hole. *)
LEMMA CellsAre ==
  ASSUME plea \in PleaType
  PROVE  /\ Cells = 1 .. Len(plea.cells) /\ Len(plea.cells) \in Nat
         /\ IsFiniteSet(Cells)
         /\ \A v \in Cells : v \in Nat /\ (IsHole(v) \/ plea.cells[v] \in Nat)
<1>1. plea.cells \in Seq(Nat \cup {Null, Absent})
  BY PleaParts
<1>2. Cells = 1 .. Len(plea.cells) /\ Len(plea.cells) \in Nat
  BY <1>1, LenProperties DEF Cells
<1>3. IsFiniteSet(Cells)
  BY <1>2, FS_Interval
<1>4. ASSUME NEW v \in Cells PROVE v \in Nat /\ (IsHole(v) \/ plea.cells[v] \in Nat)
  <2>1. plea.cells[v] \in Nat \cup {Null, Absent}
    BY <1>1, <1>2, ElementOfSeq
  <2> QED
    BY <1>2, <2>1 DEF IsHole
<1> QED
  BY <1>2, <1>3, <1>4

(* The order of the keys, case by case. *)
LEMMA KeyBeforeIs ==
  ASSUME plea \in PleaType, NEW v, NEW w
  PROVE  KeyBefore(v, w) <=>
           \/ plea.nullsFirst /\ IsHole(v) /\ ~IsHole(w)
           \/ ~plea.nullsFirst /\ ~IsHole(v) /\ IsHole(w)
           \/ ~IsHole(v) /\ ~IsHole(w) /\ plea.desc /\ plea.cells[v] > plea.cells[w]
           \/ ~IsHole(v) /\ ~IsHole(w) /\ ~plea.desc /\ plea.cells[v] < plea.cells[w]
<1>1. plea.nullsFirst \in BOOLEAN /\ plea.desc \in BOOLEAN
  BY PleaParts
<1>2. IsHole(v) \in BOOLEAN /\ IsHole(w) \in BOOLEAN
  BY DEF IsHole
<1> QED
  BY <1>1, <1>2, Zenon DEF KeyBefore

(* The order of the rows is a total one. *)
LEMMA OrderIsTotal ==
  ASSUME plea \in PleaType, NEW u \in Cells, NEW v \in Cells, NEW w \in Cells
  PROVE  /\ ~RowBefore(u, u)
         /\ u # v => (RowBefore(u, v) <=> ~RowBefore(v, u))
         /\ RowBefore(u, v) /\ RowBefore(v, w) => RowBefore(u, w)
<1>1. /\ u \in Nat /\ v \in Nat /\ w \in Nat
      /\ IsHole(u) \/ plea.cells[u] \in Nat
      /\ IsHole(v) \/ plea.cells[v] \in Nat
      /\ IsHole(w) \/ plea.cells[w] \in Nat
  BY CellsAre
<1>2. \A x, y : KeyBefore(x, y) <=>
           \/ plea.nullsFirst /\ IsHole(x) /\ ~IsHole(y)
           \/ ~plea.nullsFirst /\ ~IsHole(x) /\ IsHole(y)
           \/ ~IsHole(x) /\ ~IsHole(y) /\ plea.desc /\ plea.cells[x] > plea.cells[y]
           \/ ~IsHole(x) /\ ~IsHole(y) /\ ~plea.desc /\ plea.cells[x] < plea.cells[y]
  BY KeyBeforeIs
<1>3. ~RowBefore(u, u)
  BY <1>1, <1>2 DEF RowBefore
<1>4. u # v => (RowBefore(u, v) <=> ~RowBefore(v, u))
  BY <1>1, <1>2 DEF RowBefore
<1>5. RowBefore(u, v) /\ RowBefore(v, w) => RowBefore(u, w)
  BY <1>1, <1>2 DEF RowBefore
<1> QED
  BY <1>3, <1>4, <1>5

-----------------------------------------------------------------------------
(* How many of S come before v. *)
Rank(v, S) == Cardinality({w \in S : RowBefore(w, v)})

(* A rank is a number below the size of the set. *)
LEMMA RankBounds ==
  ASSUME plea \in PleaType, NEW S \in SUBSET Cells, NEW v \in Cells
  PROVE  /\ IsFiniteSet(S) /\ Cardinality(S) \in Nat
         /\ Rank(v, S) \in Nat
         /\ v \in S => Rank(v, S) < Cardinality(S)
<1> DEFINE Less1 == {w \in S : RowBefore(w, v)}
<1>1. IsFiniteSet(S) /\ Cardinality(S) \in Nat
  BY CellsAre, FS_Subset, FS_CardinalityType
<1>2. IsFiniteSet(Less1) /\ Cardinality(Less1) \in Nat
  BY <1>1, FS_Subset, FS_CardinalityType
<1>3. ASSUME v \in S PROVE Cardinality(Less1) < Cardinality(S)
  <2>1. Less1 \in SUBSET S /\ Less1 # S
    BY <1>3, OrderIsTotal
  <2>2. Cardinality(Less1) <= Cardinality(S) /\ Cardinality(Less1) # Cardinality(S)
    BY <1>1, <2>1, FS_Subset
  <2> QED
    BY <1>1, <1>2, <2>2
<1> QED
  BY <1>1, <1>2, <1>3 DEF Rank

(* In a larger set there are more before v. *)
LEMMA RankOfMore ==
  ASSUME plea \in PleaType, NEW S \in SUBSET Cells, NEW T \in SUBSET S, NEW v \in Cells
  PROVE  Rank(v, T) <= Rank(v, S)
<1> DEFINE A == {w \in S : RowBefore(w, v)}
           B == {w \in T : RowBefore(w, v)}
<1>1. IsFiniteSet(A)
  BY CellsAre, FS_Subset
<1>2. B \in SUBSET A
  OBVIOUS
<1> QED
  BY <1>1, <1>2, FS_Subset DEF Rank

(* Ranks follow the order. *)
LEMMA RankFollows ==
  ASSUME plea \in PleaType, NEW S \in SUBSET Cells, NEW v \in S, NEW w \in S
  PROVE  /\ RowBefore(v, w) => Rank(v, S) < Rank(w, S)
         /\ Rank(v, S) < Rank(w, S) => RowBefore(v, w)
         /\ Rank(v, S) = Rank(w, S) => v = w
<1>1. ASSUME NEW x \in S, NEW y \in S, RowBefore(x, y)
      PROVE  Rank(x, S) < Rank(y, S)
  <2> DEFINE A == {z \in S : RowBefore(z, x)}
             B == {z \in S : RowBefore(z, y)}
  <2>1. IsFiniteSet(A) /\ IsFiniteSet(B)
    BY CellsAre, FS_Subset
  <2>2. A \in SUBSET B
    BY <1>1, OrderIsTotal
  <2>3. x \in B /\ x \notin A
    BY <1>1, OrderIsTotal
  <2>4. Cardinality(A) <= Cardinality(B) /\ Cardinality(A) # Cardinality(B)
    BY <2>1, <2>2, <2>3, FS_Subset
  <2>5. Cardinality(A) \in Nat /\ Cardinality(B) \in Nat
    BY <2>1, FS_CardinalityType
  <2> QED
    BY <2>4, <2>5 DEF Rank
<1>2. Rank(v, S) \in Nat /\ Rank(w, S) \in Nat
  BY RankBounds
<1>3. v # w => (RowBefore(v, w) <=> ~RowBefore(w, v))
  BY OrderIsTotal
<1>4. RowBefore(v, w) => Rank(v, S) < Rank(w, S)
  BY <1>1
<1>5. RowBefore(w, v) => Rank(w, S) < Rank(v, S)
  BY <1>1
<1> QED
  BY <1>2, <1>3, <1>4, <1>5

(* Every rank below the size of the set is taken. *)
LEMMA RankTaken ==
  ASSUME plea \in PleaType, NEW S \in SUBSET Cells, NEW k \in 0 .. Cardinality(S) - 1
  PROVE  \E v \in S : Rank(v, S) = k
<1> DEFINE n == Cardinality(S)
           K == 0 .. n - 1
           f == [v \in S |-> Rank(v, S)]
<1>1. IsFiniteSet(S) /\ n \in Nat
  BY RankBounds, CellsAre, FS_Subset, FS_CardinalityType
<1>2. IsFiniteSet(K) /\ Cardinality(K) = n
  <2>1. 0 \in Int /\ n - 1 \in Int
    BY <1>1
  <2>2. Cardinality(K) = IF 0 > n - 1 THEN 0 ELSE (n - 1) - 0 + 1
    BY <2>1, FS_Interval
  <2> QED
    BY <1>1, <2>1, <2>2, FS_Interval
<1>3. \A v \in S : Rank(v, S) \in K
  BY <1>1, RankBounds
<1>4. \A v, w \in S : Rank(v, S) = Rank(w, S) => v = w
  BY RankFollows
<1>5. f \in Injection(S, K)
  BY <1>3, <1>4 DEF Injection, IsInjective
<1> HIDE DEF f, K
<1>6. f \in Surjection(S, K)
  BY <1>1, <1>2, <1>5, FS_Injection
<1>7. PICK v \in S : f[v] = k
  BY <1>6 DEF Surjection, K
<1> QED
  BY <1>7 DEF f

(* The sort of a set has at each place the row of that rank. *)
LEMMA InOrderIs ==
  ASSUME plea \in PleaType, NEW S \in SUBSET Cells
  PROVE  /\ InOrder(S) \in Seq(S) /\ Len(InOrder(S)) = Cardinality(S)
         /\ InOrder(S) \in [1 .. Cardinality(S) -> S]
         /\ \A i \in 1 .. Cardinality(S) :
              /\ InOrder(S)[i] \in S /\ Rank(InOrder(S)[i], S) = i - 1
              /\ \A v \in S : Rank(v, S) = i - 1 => v = InOrder(S)[i]
<1> DEFINE n == Cardinality(S)
           At(i) == CHOOSE v \in S : Cardinality({w \in S : RowBefore(w, v)}) = i - 1
<1>1. n \in Nat
  BY CellsAre, FS_Subset, FS_CardinalityType
<1>2. ASSUME NEW i \in 1 .. n
      PROVE  /\ At(i) \in S /\ Rank(At(i), S) = i - 1
             /\ \A v \in S : Rank(v, S) = i - 1 => v = At(i)
  <2>1. i - 1 \in 0 .. n - 1
    BY <1>1
  <2>2. \E v \in S : Rank(v, S) = i - 1
    BY <2>1, RankTaken
  <2>3. At(i) \in S /\ Rank(At(i), S) = i - 1
    BY <2>2, Zenon DEF Rank
  <2> HIDE DEF At
  <2>4. ASSUME NEW v \in S, Rank(v, S) = i - 1 PROVE v = At(i)
    BY <2>3, <2>4, RankFollows
  <2> QED
    BY <2>3, <2>4
<1>3. InOrder(S) = [i \in 1 .. n |-> At(i)]
  BY Zenon DEF InOrder
<1> HIDE DEF At
<1>4. InOrder(S) \in [1 .. n -> S]
  BY <1>2, <1>3
<1>5. InOrder(S) \in Seq(S) /\ Len(InOrder(S)) = n
  BY <1>1, <1>4, IsASeq, LenProperties
<1> QED
  BY <1>2, <1>3, <1>4, <1>5

(* What is foremost, by rank. *)
LEMMA ForemostIs ==
  ASSUME NEW S, NEW n, NEW v
  PROVE  v \in Foremost(S, n) <=> v \in S /\ Rank(v, S) < n
  BY DEF Foremost, Rank

(* A row with n rows of the set before it is not one of the first n. *)
LEMMA RankAtLeast ==
  ASSUME plea \in PleaType, NEW S \in SUBSET Cells, NEW v \in Cells,
         NEW T \in SUBSET S, \A w \in T : RowBefore(w, v)
  PROVE  Cardinality(T) <= Rank(v, S)
<1> DEFINE A == {w \in S : RowBefore(w, v)}
<1>1. IsFiniteSet(A)
  BY CellsAre, FS_Subset
<1>2. T \in SUBSET A
  OBVIOUS
<1> QED
  BY <1>1, <1>2, FS_Subset DEF Rank

(* Two sequences that agree up to m have the same part up to m. *)
LEMMA SameParts ==
  ASSUME NEW s, NEW t, NEW a \in Nat \ {0}, NEW m \in Nat, \A i \in 1 .. m : s[i] = t[i]
  PROVE  SubSeq(s, a, m) = SubSeq(t, a, m)
<1> DEFINE S == {s[i] : i \in a .. m}
           x == SubSeq(s, a, m)
           y == SubSeq(t, a, m)
<1>1. \A i \in a .. m : s[i] \in S /\ t[i] \in S
  OBVIOUS
<1>2. /\ x \in Seq(S) /\ Len(x) = (IF a <= m THEN m - a + 1 ELSE 0)
      /\ \A i \in 1 .. m - a + 1 : x[i] = s[a + i - 1]
  BY <1>1, SubSeqProperties
<1>3. /\ y \in Seq(S) /\ Len(y) = (IF a <= m THEN m - a + 1 ELSE 0)
      /\ \A i \in 1 .. m - a + 1 : y[i] = t[a + i - 1]
  BY <1>1, SubSeqProperties
<1>4. Len(x) = Len(y) /\ \A i \in 1 .. Len(x) : i \in 1 .. m - a + 1 /\ a + i - 1 \in 1 .. m
  BY <1>2, <1>3
<1> HIDE DEF S, x, y
<1>5. \A i \in 1 .. Len(x) : x[i] = y[i]
  BY <1>2, <1>3, <1>4
<1>6. x = y
  BY <1>2, <1>3, <1>4, <1>5, SeqEqual
<1> QED
  BY <1>6 DEF x, y

(* Some rows of a set, the first n of it among them *)
Suffices(some, all, n) == some \in SUBSET all /\ Foremost(all, n) \subseteq some

(* The part of the sort of a set from place a to place n *)
Part(S, a, n) == SubSeq(InOrder(S), a, Min({n, Cardinality(S)}))

(* Of a set, the rows that are foremost are enough: what else is kept does *)
(* not change the window.                                                  *)
LEMMA HeadIsEnough ==
  ASSUME plea \in PleaType, NEW B \in SUBSET Cells, NEW A, NEW n \in Nat,
         Suffices(A, B, n), NEW a \in Nat \ {0}
  PROVE  Part(A, a, n) = Part(B, a, n)
<1>0. A \in SUBSET B /\ Foremost(B, n) \subseteq A
  BY DEF Suffices
<1>1. A \in SUBSET Cells /\ Cardinality(A) \in Nat /\ Cardinality(B) \in Nat
      /\ Cardinality(A) <= Cardinality(B)
  BY <1>0, CellsAre, FS_Subset, FS_CardinalityType
<1> DEFINE ma == IF n <= Cardinality(A) THEN n ELSE Cardinality(A)
           mb == IF n <= Cardinality(B) THEN n ELSE Cardinality(B)
<1>2. Min({n, Cardinality(A)}) = ma /\ Min({n, Cardinality(B)}) = mb
  BY <1>1, MinOfTwo
<1>3. ASSUME NEW i \in 1 .. mb
      PROVE  InOrder(B)[i] \in A /\ Rank(InOrder(B)[i], A) = i - 1
  <2> DEFINE v == InOrder(B)[i]
  <2>1. i \in 1 .. Cardinality(B) /\ i - 1 < n /\ i \in Nat
    BY <1>1
  <2>2. v \in B /\ Rank(v, B) = i - 1
    BY <2>1, InOrderIs
  <2> HIDE DEF v
  <2>3. v \in A
    BY <1>0, <2>1, <2>2, ForemostIs
  <2>4. ASSUME NEW w \in B, RowBefore(w, v) PROVE w \in A
    <3>1. Rank(w, B) < Rank(v, B)
      BY <2>2, <2>4, RankFollows
    <3>2. Rank(w, B) \in Nat
      BY RankBounds
    <3>3. Rank(w, B) < n
      BY <2>1, <2>2, <3>1, <3>2
    <3> QED
      BY <1>0, <3>3, ForemostIs
  <2>5. {w \in A : RowBefore(w, v)} = {w \in B : RowBefore(w, v)}
    BY <1>0, <2>4
  <2>6. Rank(v, A) = Rank(v, B)
    BY <2>5 DEF Rank
  <2> QED
    BY <2>2, <2>3, <2>6 DEF v
<1>4. mb <= Cardinality(A)
  <2>1. CASE mb = 0
    BY <1>1, <2>1
  <2>2. CASE mb # 0
    <3>1. mb \in 1 .. mb /\ mb \in Nat
      BY <1>1, <2>2
    <3> DEFINE v == InOrder(B)[mb]
    <3>2. v \in A /\ Rank(v, A) = mb - 1
      BY <1>3, <3>1
    <3> HIDE DEF v, mb
    <3>3. Rank(v, A) < Cardinality(A) /\ Rank(v, A) \in Nat
      BY <1>0, <1>1, <3>2, RankBounds
    <3> QED
      BY <1>1, <3>1, <3>2, <3>3
  <2> QED
    BY <2>1, <2>2
<1>5. ma = mb /\ mb \in Nat
  BY <1>1, <1>4
<1> HIDE DEF ma, mb
<1>6. ASSUME NEW i \in 1 .. mb PROVE InOrder(A)[i] = InOrder(B)[i]
  <2>1. i \in 1 .. Cardinality(A)
    BY <1>1, <1>4, <1>5
  <2> DEFINE v == InOrder(B)[i]
  <2>2. v \in A /\ Rank(v, A) = i - 1
    BY <1>3
  <2> HIDE DEF v
  <2>3. v = InOrder(A)[i]
    BY <1>0, <1>1, <2>1, <2>2, InOrderIs
  <2> QED
    BY <2>3 DEF v
<1>7. SubSeq(InOrder(A), a, mb) = SubSeq(InOrder(B), a, mb)
  BY <1>5, <1>6, SameParts
<1> QED
  BY <1>2, <1>5, <1>7 DEF Part

-----------------------------------------------------------------------------
(* The scan. *)

Read == {v \in Cells : v < next /\ ~IsHole(v)}
Best == {v \in Read : plea.cells[v] = BestRank}

(* The keys kept are keys that were read, the foremost of them among them. *)
ScanInv ==
    /\ plea.column # "hop"
    /\ plea.column = "temporal" => ~plea.nullsFirst
    /\ next \in 1 .. Len(plea.cells) + 1
    /\ kept \in SUBSET Read
    /\ Foremost(Read, Window) \subseteq kept
    /\ atBest = Cardinality(Best)
    /\ nullsSeen <=> \E v \in Cells : v < next /\ IsHole(v)

(* ORDER BY ... NULLS FIRST over rows without a key, in a scan that stops. *)
HoleWanted == plea.column = "ranked" /\ plea.nullsFirst /\ \E v \in Rows : IsHole(v)

(* The rows are nodes of the column. *)
LEMMA RowsAreCells == Rows \in SUBSET Cells
  BY DEF Rows, Cells

(* The window, in numbers. *)
LEMMA WindowIs ==
  ASSUME plea \in PleaType
  PROVE  Window \in Nat /\ Window = plea.skip + plea.limit /\ plea.skip \in Nat /\ plea.limit \in Nat
  BY PleaParts DEF Window

(* A scan that may end has all the rows that are wanted. *)
LEMMA ScanIsEnough ==
  ASSUME plea \in Pleas, ScanInv, next > Len(plea.cells) \/ Settles, ~NullsMatter, ~HoleWanted
  PROVE  kept \in SUBSET Rows /\ Foremost(Rows, Window) \subseteq kept
<1>1. plea \in PleaType
  BY PleaAssumption
<1>2. Rows \in SUBSET Cells /\ Window \in Nat
  BY <1>1, WindowIs, RowsAreCells
<1>3. Read \in SUBSET Rows
  BY <1>1, CellsAre DEF Read, Rows, IsHole, Cells
<1>4. kept \in SUBSET Rows
  BY <1>3 DEF ScanInv
<1>5. ASSUME NEW v \in Rows, Rank(v, Rows) < Window PROVE v \in kept
  <2>1. v \in Cells /\ v \in Nat /\ next \in Nat
    BY <1>1, <1>2, CellsAre DEF ScanInv
  <2>2. Rank(v, Rows) \in Nat
    BY <1>1, <1>2, <2>1, RankBounds
  <2>3. \A w \in Rows : w \in Nat /\ (IsHole(w) \/ plea.cells[w] \in Nat)
    BY <1>1, <1>2, CellsAre
  <2>4. plea.nullsFirst \in BOOLEAN /\ plea.desc \in BOOLEAN
    BY <1>1, PleaParts
  <2>5. ASSUME NEW T \in SUBSET Rows, \A w \in T : RowBefore(w, v), IsFiniteSet(T)
        PROVE  Cardinality(T) < Window
    <3>1. Cardinality(T) <= Rank(v, Rows) /\ Cardinality(T) \in Nat
      BY <1>1, <1>2, <2>1, <2>5, RankAtLeast, FS_CardinalityType
    <3> QED
      BY <1>2, <1>5, <2>2, <3>1
  <2>6. CASE v \in Read
    <3>1. Rank(v, Read) <= Rank(v, Rows) /\ Rank(v, Read) \in Nat
      <4>1. Read \in SUBSET Cells
        BY <1>2, <1>3
      <4> QED
        BY <1>1, <1>2, <1>3, <2>1, <4>1, RankOfMore, RankBounds
    <3>2. Rank(v, Read) < Window
      BY <1>2, <1>5, <2>2, <3>1
    <3> QED
      BY <2>6, <3>2, ForemostIs DEF ScanInv
  <2>7. CASE v < next /\ IsHole(v)
    <3>1. nullsSeen
      BY <2>1, <2>7 DEF ScanInv
    <3>2. ~plea.nullsFirst /\ ~(Cardinality(kept) < Window)
      BY <3>1 DEF NullsMatter
    <3>3. \A w \in kept : RowBefore(w, v)
      <4> SUFFICES ASSUME NEW w \in kept PROVE KeyBefore(w, v)
        BY DEF RowBefore
      <4>1. ~IsHole(w)
        BY DEF ScanInv, Read
      <4> QED
        BY <1>1, <2>7, <3>2, <4>1, KeyBeforeIs
    <3>4. IsFiniteSet(kept)
      BY <1>1, <1>2, <1>4, CellsAre, FS_Subset
    <3> QED
      BY <1>4, <2>5, <3>2, <3>3, <3>4
  <2>8. CASE ~(v < next)
    <3>1. Settles
      <4>1. v <= Len(plea.cells) /\ Len(plea.cells) \in Nat
        BY <1>1, <2>1, CellsAre
      <4> QED
        BY <2>1, <2>8, <4>1
    <3>2. plea.column = "ranked" /\ atBest >= Window
      BY <3>1 DEF Settles
    <3>3. IsHole(v) => ~plea.nullsFirst
      BY <3>2 DEF HoleWanted
    <3>4. Best \in SUBSET Rows /\ IsFiniteSet(Best)
      <4>1. Best \in SUBSET Rows
        BY <1>3 DEF Best
      <4>2. Best \in SUBSET Cells
        BY <1>2, <4>1
      <4> QED
        BY <1>1, <4>1, <4>2, CellsAre, FS_Subset
    <3>5. ASSUME NEW w \in Best PROVE RowBefore(w, v)
      <4>1. w < v /\ ~IsHole(w) /\ plea.cells[w] = BestRank /\ w \in Rows
        BY <2>1, <2>3, <2>8, <3>4 DEF Best, Read
      <4>2. plea.cells[w] \in Nat
        BY <2>3, <4>1
      <4>3. IsHole(v) => KeyBefore(w, v)
        BY <1>1, <3>3, <4>1, KeyBeforeIs
      <4>4. ~IsHole(v) => ~KeyBefore(v, w)
        <5>1. plea.cells[v] \in (0 .. plea.top) \cup {Null, Absent}
          BY <2>1, <3>2, PleaAssumption DEF Cells
        <5>2. ~IsHole(v) => plea.cells[v] \in 0 .. plea.top
          BY <5>1 DEF IsHole
        <5>3. plea.top \in Nat
          BY <1>1, PleaParts
        <5>4. plea.desc => plea.cells[w] = plea.top
          BY <4>1 DEF BestRank
        <5>5. ~plea.desc => plea.cells[w] = 0
          BY <4>1 DEF BestRank
        <5>6. KeyBefore(v, w) /\ ~IsHole(v) =>
                \/ plea.desc /\ plea.cells[v] > plea.cells[w]
                \/ ~plea.desc /\ plea.cells[v] < plea.cells[w]
          BY <1>1, <4>1, KeyBeforeIs
        <5> QED
          BY <5>2, <5>3, <5>4, <5>5, <5>6
      <4> QED
        BY <4>1, <4>3, <4>4 DEF RowBefore
    <3>6. Cardinality(Best) < Window
      BY <2>5, <3>4, <3>5
    <3>7. atBest = Cardinality(Best) /\ Cardinality(Best) \in Nat
      BY <3>4, FS_CardinalityType DEF ScanInv
    <3> QED
      BY <1>2, <3>2, <3>6, <3>7
  <2> QED
    BY <2>1, <2>6, <2>7, <2>8 DEF Read
<1> QED
  BY <1>4, <1>5, ForemostIs

(* The order is that of the plea, which stays. *)
LEMMA SameOrder ==
  ASSUME plea' = plea
  PROVE  /\ Cells' = Cells /\ Window' = Window /\ BestRank' = BestRank
         /\ Rows' = Rows /\ Reached' = Reached /\ HoleWanted' = HoleWanted
         /\ \A v : IsHole(v)' = IsHole(v) /\ Shown(v)' = Shown(v)
         /\ \A v, w : KeyBefore(v, w)' = KeyBefore(v, w) /\ RowBefore(v, w)' = RowBefore(v, w)
         /\ \A S, n : Foremost(S, n)' = Foremost(S, n)
<1>1. /\ Cells' = Cells /\ Window' = Window /\ BestRank' = BestRank
      /\ Rows' = Rows /\ Reached' = Reached
  BY Zenon DEF Cells, Window, BestRank, Rows, Reached
<1>2. \A v : IsHole(v)' = IsHole(v) /\ Shown(v)' = Shown(v)
  BY Zenon DEF IsHole, Shown
<1>3. \A v, w : KeyBefore(v, w)' = KeyBefore(v, w) /\ RowBefore(v, w)' = RowBefore(v, w)
  BY DEF IsHole, KeyBefore, RowBefore
<1>4. \A S, n : Foremost(S, n)' = Foremost(S, n)
  <2> SUFFICES ASSUME NEW S, NEW n
               PROVE  {v \in S : Cardinality({w \in S : RowBefore(w, v)'}) < n} =
                        {v \in S : Cardinality({w \in S : RowBefore(w, v)}) < n}
    BY Zenon DEF Foremost
  <2>1. \A v : {w \in S : RowBefore(w, v)'} = {w \in S : RowBefore(w, v)}
    BY <1>3
  <2> QED
    BY <2>1, Zenon
<1>6. HoleWanted' = HoleWanted
  BY Zenon DEF HoleWanted, Rows, IsHole
<1> QED
  BY <1>1, <1>2, <1>3, <1>4, <1>6

(* So is the sort of the rows, ... *)
LEMMA SameSort ==
  ASSUME plea \in PleaType, plea' = plea, Rows \in SUBSET Cells
  PROVE  InOrder(Rows)' = InOrder(Rows)
<1> DEFINE At(i) == CHOOSE v \in Rows' : Cardinality({w \in Rows' : RowBefore(w, v)'}) = i - 1
<1>1. /\ \A v, w : RowBefore(v, w)' = RowBefore(v, w)
      /\ Rows' = Rows
  BY SameOrder
<1>2. \A v : {w \in Rows' : RowBefore(w, v)'} = {w \in Rows : RowBefore(w, v)}
  BY <1>1
<1>3. /\ InOrder(Rows) \in [1 .. Cardinality(Rows) -> Rows]
      /\ \A i \in 1 .. Cardinality(Rows) :
              /\ InOrder(Rows)[i] \in Rows /\ Rank(InOrder(Rows)[i], Rows) = i - 1
              /\ \A v \in Rows : Rank(v, Rows) = i - 1 => v = InOrder(Rows)[i]
  BY InOrderIs
<1>4. ASSUME NEW i \in 1 .. Cardinality(Rows) PROVE At(i) = InOrder(Rows)[i]
  <2>1. \E v \in Rows' : Cardinality({w \in Rows' : RowBefore(w, v)'}) = i - 1
    BY <1>1, <1>2, <1>3 DEF Rank
  <2>2. PICK v \in Rows' : v = At(i) /\ Cardinality({w \in Rows' : RowBefore(w, v)'}) = i - 1
    BY <2>1, Zenon
  <2> HIDE DEF At
  <2>3. v \in Rows /\ Rank(v, Rows) = i - 1
    BY <1>1, <1>2, <2>2 DEF Rank
  <2> QED
    BY <1>3, <2>2, <2>3
<1>5. InOrder(Rows)' = [i \in 1 .. Cardinality(Rows') |-> At(i)]
  BY Zenon DEF InOrder
<1> HIDE DEF At
<1> QED
  BY <1>1, <1>3, <1>4, <1>5

(* ... and that of the nodes a hop reaches. *)
LEMMA SameHopSort ==
  ASSUME plea \in PleaType, plea' = plea, Reached \in SUBSET Cells
  PROVE  InOrder(Reached)' = InOrder(Reached)
<1> DEFINE At(i) == CHOOSE v \in Reached' : Cardinality({w \in Reached' : RowBefore(w, v)'}) = i - 1
<1>1. /\ \A v, w : RowBefore(v, w)' = RowBefore(v, w)
      /\ Reached' = Reached
  BY SameOrder
<1>2. \A v : {w \in Reached' : RowBefore(w, v)'} = {w \in Reached : RowBefore(w, v)}
  BY <1>1
<1>3. /\ InOrder(Reached) \in [1 .. Cardinality(Reached) -> Reached]
      /\ \A i \in 1 .. Cardinality(Reached) :
              /\ InOrder(Reached)[i] \in Reached /\ Rank(InOrder(Reached)[i], Reached) = i - 1
              /\ \A v \in Reached : Rank(v, Reached) = i - 1 => v = InOrder(Reached)[i]
  BY InOrderIs
<1>4. ASSUME NEW i \in 1 .. Cardinality(Reached) PROVE At(i) = InOrder(Reached)[i]
  <2>1. \E v \in Reached' : Cardinality({w \in Reached' : RowBefore(w, v)'}) = i - 1
    BY <1>1, <1>2, <1>3 DEF Rank
  <2>2. PICK v \in Reached' : v = At(i) /\ Cardinality({w \in Reached' : RowBefore(w, v)'}) = i - 1
    BY <2>1, Zenon
  <2> HIDE DEF At
  <2>3. v \in Reached /\ Rank(v, Reached) = i - 1
    BY <1>1, <1>2, <2>2 DEF Rank
  <2> QED
    BY <1>3, <2>2, <2>3
<1>5. InOrder(Reached)' = [i \in 1 .. Cardinality(Reached') |-> At(i)]
  BY Zenon DEF InOrder
<1> HIDE DEF At
<1> QED
  BY <1>1, <1>3, <1>4, <1>5

(* The scan begins with nothing read. *)
LEMMA ScanOpens ==
  ASSUME plea \in Pleas, next = 1, kept = {}, atBest = 0, nullsSeen = FALSE, OpenScan, phase' = "scan"
  PROVE  ScanInv'
<1>1. plea \in PleaType
  BY PleaAssumption
<1>2. /\ plea' = plea /\ next' = 1 /\ kept' = {} /\ atBest' = 0 /\ nullsSeen' = FALSE
      /\ plea.column # "hop" /\ (plea.column = "temporal" => ~plea.nullsFirst)
  BY DEF OpenScan
<1>3. Cells' = Cells
  BY <1>2, SameOrder
<1>4. \A v \in Cells : ~(v < 1) /\ v \in Nat
  BY <1>1, CellsAre
<1>5. Read' = {} /\ Best' = {}
  BY <1>2, <1>3, <1>4 DEF Read, Best
<1>6. Foremost(Read, Window)' = {}
  BY <1>5 DEF Foremost
<1>7. Len(plea.cells) \in Nat
  BY <1>1, CellsAre
<1>8. next' \in 1 .. Len(plea'.cells) + 1
  BY <1>2, <1>7
<1>9. atBest' = Cardinality(Best')
  BY <1>2, <1>5, FS_EmptySet
<1>10. nullsSeen' <=> \E v \in Cells' : v < next' /\ IsHole(v)'
  BY <1>2, <1>3, <1>4
<1> QED
  BY <1>2, <1>5, <1>6, <1>8, <1>9, <1>10 DEF ScanInv

(* A row without a key is only noted. *)
LEMMA HoleIsRead ==
  ASSUME plea \in Pleas, ScanInv, ReadHole
  PROVE  ScanInv'
<1>1. plea \in PleaType
  BY PleaAssumption
<1>2. /\ plea' = plea /\ next' = next + 1 /\ kept' = kept /\ atBest' = atBest
      /\ nullsSeen' = TRUE /\ IsHole(next) /\ next <= Len(plea.cells)
  BY DEF ReadHole, Reading
<1>3. /\ next \in Nat /\ next \in Cells /\ next' \in 1 .. Len(plea.cells) + 1
  BY <1>1, <1>2, CellsAre DEF ScanInv
<1>4. Cells' = Cells /\ Window' = Window /\ BestRank' = BestRank /\ \A v : IsHole(v)' = IsHole(v)
  BY <1>2, SameOrder
<1>5. \A v \in Cells : v < next + 1 <=> v < next \/ v = next
  BY <1>1, <1>3, CellsAre
<1>6. Read' = Read
  <2>1. \A v \in Cells : (v < next' /\ ~IsHole(v)') <=> (v < next /\ ~IsHole(v))
    BY <1>2, <1>4, <1>5
  <2> QED
    BY <1>4, <2>1 DEF Read
<1>7. Best' = Best
  BY <1>2, <1>4, <1>6, Zenon DEF Best
<1>8. Foremost(Read, Window)' = Foremost(Read, Window)
  <2>1. \A v, w : RowBefore(v, w)' = RowBefore(v, w)
    BY <1>2, SameOrder
  <2>2. \A v : {w \in Read : RowBefore(w, v)'} = {w \in Read : RowBefore(w, v)}
    BY <2>1
  <2> QED
    BY <1>4, <1>6, <2>2, Zenon DEF Foremost
<1>9. nullsSeen' <=> \E v \in Cells' : v < next' /\ IsHole(v)'
  BY <1>2, <1>3, <1>4
<1> QED
  BY <1>2, <1>3, <1>6, <1>7, <1>8, <1>9, Zenon DEF ScanInv

(* A key is kept with those it may displace, or trims them. *)
LEMMA KeyIsRead ==
  ASSUME plea \in Pleas, ScanInv, ReadKey
  PROVE  ScanInv'
<1>1. plea \in PleaType
  BY PleaAssumption
<1>2. /\ plea' = plea /\ next' = next + 1
      /\ atBest' = (IF plea.cells[next] = BestRank THEN atBest + 1 ELSE atBest)
      /\ nullsSeen' = nullsSeen /\ ~IsHole(next) /\ next <= Len(plea.cells)
      /\ kept' \in {kept \cup {next}, Foremost(kept \cup {next}, Window)}
  BY DEF ReadKey, Reading
<1>3. /\ next \in Nat /\ next \in Cells /\ next' \in 1 .. Len(plea.cells) + 1
  BY <1>1, <1>2, CellsAre DEF ScanInv
<1>4. Cells' = Cells /\ Window' = Window /\ BestRank' = BestRank /\ \A v : IsHole(v)' = IsHole(v)
  BY <1>2, SameOrder
<1>5. \A v \in Cells : v < next + 1 <=> v < next \/ v = next
  BY <1>1, <1>3, CellsAre
<1> DEFINE more == Read \cup {next}
<1>6. Read' = more
  <2>1. \A v \in Cells : (v < next' /\ ~IsHole(v)') <=> (v < next /\ ~IsHole(v)) \/ v = next
    BY <1>2, <1>4, <1>5
  <2>2. Read' = {v \in Cells : v < next' /\ ~IsHole(v)'}
    BY <1>4, Zenon DEF Read
  <2> QED
    BY <1>3, <2>1, <2>2 DEF Read
<1>7. more \in SUBSET Cells /\ Read \in SUBSET more /\ kept \cup {next} \in SUBSET more
  BY <1>3 DEF Read, ScanInv
<1>8. kept' \in SUBSET more
  BY <1>2, <1>7 DEF Foremost
<1>9. Foremost(Read, Window)' = Foremost(more, Window)
  <2>1. \A v, w : RowBefore(v, w)' = RowBefore(v, w)
    BY <1>2, SameOrder
  <2>2. \A v : {w \in more : RowBefore(w, v)'} = {w \in more : RowBefore(w, v)}
    BY <2>1
  <2> HIDE DEF more
  <2> QED
    BY <1>4, <1>6, <2>2, Zenon DEF Foremost
<1>10. Foremost(more, Window) \subseteq kept'
  <2> SUFFICES ASSUME NEW v \in more, Rank(v, more) < Window PROVE v \in kept'
    BY ForemostIs
  <2>1. v \in Cells /\ Window \in Nat
    BY <1>1, <1>7, WindowIs
  <2>2. Rank(v, more) \in Nat
    BY <1>1, <1>7, <2>1, RankBounds
  <2>3. ASSUME v \in Read PROVE v \in kept
    <3>1. Rank(v, Read) <= Rank(v, more) /\ Rank(v, Read) \in Nat
      <4>1. Read \in SUBSET Cells
        BY <1>7
      <4> QED
        BY <1>1, <1>7, <2>1, <4>1, RankOfMore, RankBounds
    <3>2. Rank(v, Read) < Window
      BY <2>1, <2>2, <3>1
    <3> QED
      BY <2>3, <3>2, ForemostIs DEF ScanInv
  <2>4. v \in kept \cup {next}
    BY <2>3
  <2>5. v \in Foremost(kept \cup {next}, Window)
    <3> DEFINE some == kept \cup {next}
    <3>1. some \in SUBSET Cells
      BY <1>7
    <3>2. Rank(v, some) <= Rank(v, more) /\ Rank(v, some) \in Nat
      <4> HIDE DEF more, some
      <4> QED
        BY <1>1, <1>7, <2>1, <3>1, RankOfMore, RankBounds DEF some
    <3>3. Rank(v, some) < Window
      BY <2>1, <2>2, <3>2
    <3> QED
      BY <2>4, <3>3, ForemostIs
  <2> QED
    BY <1>2, <2>4, <2>5
<1>11. atBest' = Cardinality(Best')
  <2>1. Best' = {v \in more : plea.cells[v] = BestRank}
    BY <1>2, <1>4, <1>6, Zenon DEF Best
  <2>2. Best \in SUBSET Cells
    BY <1>7 DEF Best
  <2>3. IsFiniteSet(Best)
    BY <1>1, <2>2, CellsAre, FS_Subset
  <2>4. next \notin Read
    BY <1>3 DEF Read
  <2>5. CASE plea.cells[next] = BestRank
    <3>1. Best' = Best \cup {next}
      BY <2>1, <2>5 DEF Best
    <3>2. next \notin Best
      BY <2>4 DEF Best
    <3>3. Cardinality(Best \cup {next}) = Cardinality(Best) + 1
      BY <2>3, <3>2, FS_AddElement
    <3> QED
      BY <1>2, <2>5, <3>1, <3>3 DEF ScanInv
  <2>6. CASE plea.cells[next] # BestRank
    <3>1. Best' = Best
      BY <2>1, <2>6 DEF Best
    <3> QED
      BY <1>2, <2>6, <3>1 DEF ScanInv
  <2> QED
    BY <2>5, <2>6
<1>12. nullsSeen' <=> \E v \in Cells' : v < next' /\ IsHole(v)'
  <2>1. nullsSeen <=> \E v \in Cells : v < next /\ IsHole(v)
    BY DEF ScanInv
  <2> QED
    BY <1>2, <1>4, <1>5, <2>1
<1> HIDE DEF more
<1>13. kept' \in SUBSET Read' /\ Foremost(Read, Window)' \subseteq kept'
  BY <1>6, <1>8, <1>9, <1>10
<1>14. plea'.column # "hop" /\ (plea'.column = "temporal" => ~plea'.nullsFirst)
       /\ next' \in 1 .. Len(plea'.cells) + 1
  BY <1>2, <1>3 DEF ScanInv
<1> QED
  BY <1>11, <1>12, <1>13, <1>14, Zenon DEF ScanInv

(* What the code returns is the window of the sort. *)
Exact == page = SubSeq(SortedRows, plea.skip + 1, Min({Window, Len(SortedRows)}))

(* An empty window is that of the sort. *)
LEMMA EmptyWindowIsExact ==
  ASSUME plea \in Pleas, plea.column # "hop", Window = 0, page = <<>>
  PROVE  Exact
<1>1. plea \in PleaType
  BY PleaAssumption
<1>2. Window \in Nat /\ Window = plea.skip + plea.limit /\ plea.skip \in Nat /\ plea.limit \in Nat
  BY <1>1, WindowIs
<1>3. Rows \in SUBSET Cells
  BY RowsAreCells
<1>4. SortedRows = InOrder(Rows) /\ Len(SortedRows) \in Nat
  <2>1. SortedRows = InOrder(Rows)
    BY DEF SortedRows
  <2> QED
    BY <1>1, <1>3, <2>1, InOrderIs, RankBounds, CellsAre, FS_Subset, FS_CardinalityType
<1>5. Min({Window, Len(SortedRows)}) = 0
  BY <1>4, MinOfTwo
<1>6. plea.skip + 1 \in Int /\ 0 < plea.skip + 1
  BY <1>2
<1>7. SubSeq(SortedRows, plea.skip + 1, 0) = <<>>
  BY <1>6, SubSeqEmpty
<1> QED
  BY <1>5, <1>7 DEF Exact

(* The page of a scan that ends is the window of the sort. *)
LEMMA ScanCloses ==
  ASSUME plea \in Pleas, ScanInv, CloseScan, phase' = "done", ~HoleWanted
  PROVE  Exact'
<1>1. plea \in PleaType
  BY PleaAssumption
<1>2. /\ next > Len(plea.cells) \/ Settles
      /\ ~NullsMatter /\ plea' = plea
      /\ page' = SubSeq(InOrder(kept), plea.skip + 1, Min({Window, Cardinality(kept)}))
  BY DEF CloseScan
<1>3. Rows \in SUBSET Cells /\ kept \in SUBSET Rows /\ Foremost(Rows, Window) \subseteq kept
  BY <1>2, ScanIsEnough, RowsAreCells
<1>4. Window \in Nat /\ plea.skip + 1 \in Nat \ {0}
  BY <1>1, WindowIs
<1>5. page' = SubSeq(InOrder(Rows), plea.skip + 1, Min({Window, Cardinality(Rows)}))
  <2> DEFINE a == plea.skip + 1
  <2>1. a \in Nat \ {0}
    BY <1>4
  <2>3. plea \in PleaType /\ Rows \in SUBSET Cells /\ kept \in SUBSET Rows
        /\ Window \in Nat /\ Suffices(kept, Rows, Window)
    BY <1>1, <1>3, <1>4 DEF Suffices
  <2> HIDE DEF a
  <2>2. Part(kept, a, Window) = Part(Rows, a, Window)
    BY <2>1, <2>3, HeadIsEnough
  <2> QED
    BY <1>2, <2>2 DEF a, Part
<1>6. SortedRows = InOrder(Rows) /\ Len(InOrder(Rows)) = Cardinality(Rows)
  BY <1>1, <1>3, InOrderIs DEF SortedRows, ScanInv
<1>7. Window' = Window /\ SortedRows' = SortedRows
  <2>1. Window' = Window /\ Rows' = Rows
    BY <1>2, SameOrder
  <2>4. InOrder(Rows)' = InOrder(Rows)
    BY <1>1, <1>2, <1>3, SameSort
  <2>2. plea'.column # "hop"
    BY <1>2 DEF ScanInv
  <2>3. SortedRows' = InOrder(Rows)'
    BY <2>2 DEF SortedRows
  <2> QED
    BY <1>6, <2>1, <2>3, <2>4
<1> QED
  BY <1>2, <1>5, <1>6, <1>7, Zenon DEF Exact

(* The copies of some nodes, as often as the hop reaches them *)
CopiesOf(S) == {c \in S \X Nat : c[2] \in 1 .. plea.times[c[1]]}
Total(S) == Cardinality(CopiesOf(S))

(* The nodes a hop reaches have a cell. *)
LEMMA ReachedAre ==
  ASSUME plea \in Pleas, plea.column = "hop"
  PROVE  /\ plea \in PleaType /\ Reached \in SUBSET Cells /\ IsFiniteSet(Reached)
         /\ \A v \in Reached : plea.times[v] \in Nat \ {0}
<1>1. plea \in PleaType /\ Len(plea.times) = Len(plea.cells)
  BY PleaAssumption
<1>2. plea.times \in Seq(Nat) /\ plea.cells \in Seq(Nat \cup {Null, Absent})
  BY <1>1, PleaParts
<1>3. DOMAIN plea.times = Cells
  BY <1>1, <1>2, LenProperties DEF Cells
<1>4. Reached \in SUBSET Cells
  BY <1>3 DEF Reached
<1>5. ASSUME NEW v \in Reached PROVE plea.times[v] \in Nat \ {0}
  <2>1. v \in DOMAIN plea.times /\ plea.times[v] > 0
    BY DEF Reached
  <2>2. plea.times[v] \in Nat
    BY <1>2, <2>1, LenProperties, ElementOfSeq
  <2> QED
    BY <2>1, <2>2
<1>6. IsFiniteSet(Reached)
  BY <1>1, <1>4, CellsAre, FS_Subset
<1> QED
  BY <1>1, <1>4, <1>5, <1>6

(* They are finitely many. *)
LEMMA CopiesAreFinite ==
  ASSUME plea \in Pleas, plea.column = "hop", NEW S \in SUBSET Reached
  PROVE  IsFiniteSet(CopiesOf(S)) /\ Total(S) \in Nat
<1> DEFINE Of(v) == {v} \X (1 .. plea.times[v])
           f == [v \in S |-> Of(v)]
           All == {Of(v) : v \in S}
<1>1. IsFiniteSet(S)
  BY ReachedAre, FS_Subset
<1>2. ASSUME NEW v \in S PROVE IsFiniteSet(Of(v))
  <2>1. plea.times[v] \in Int /\ 1 \in Int
    BY ReachedAre
  <2>2. IsFiniteSet(1 .. plea.times[v]) /\ IsFiniteSet({v})
    BY <2>1, FS_Interval, FS_Singleton
  <2> QED
    BY <2>2, FS_Product
<1> HIDE DEF Of
<1>3. f \in Surjection(S, All)
  BY DEF Surjection
<1>4. IsFiniteSet(All)
  BY <1>1, <1>3, FS_Surjection
<1>5. \A T \in All : IsFiniteSet(T)
  BY <1>2
<1>6. IsFiniteSet(UNION All)
  BY <1>4, <1>5, FS_UNION
<1>7. CopiesOf(S) \in SUBSET UNION All
  <2> SUFFICES ASSUME NEW c \in CopiesOf(S) PROVE c \in Of(c[1]) /\ c[1] \in S
    OBVIOUS
  <2> QED
    BY DEF CopiesOf, Of
<1>8. IsFiniteSet(CopiesOf(S))
  BY <1>6, <1>7, FS_Subset
<1> QED
  BY <1>8, FS_CardinalityType DEF Total

(* More nodes have more copies. *)
LEMMA MoreCopies ==
  ASSUME plea \in Pleas, plea.column = "hop", NEW S \in SUBSET Reached, NEW T \in SUBSET S
  PROVE  Total(T) <= Total(S)
<1>1. IsFiniteSet(CopiesOf(S))
  BY CopiesAreFinite
<1>2. CopiesOf(T) \in SUBSET CopiesOf(S)
  BY DEF CopiesOf
<1> QED
  BY <1>1, <1>2, FS_Subset DEF Total

(* One node more adds its copies. *)
LEMMA OneMore ==
  ASSUME plea \in Pleas, plea.column = "hop", NEW S \in SUBSET Reached, NEW v \in Reached, v \notin S
  PROVE  Total(S \cup {v}) = Total(S) + plea.times[v]
<1> DEFINE t == plea.times[v]
           own == {v} \X (1 .. t)
<1>1. t \in Nat \ {0}
  BY ReachedAre
<1>2. IsFiniteSet(own) /\ Cardinality(own) = t
  <2> HIDE DEF t
  <2>1. IsFiniteSet(1 .. t) /\ Cardinality(1 .. t) = t
    <3>1. 1 \in Int /\ t \in Int
      BY <1>1
    <3>2. Cardinality(1 .. t) = IF 1 > t THEN 0 ELSE t - 1 + 1
      BY <3>1, FS_Interval
    <3> QED
      BY <1>1, <3>1, <3>2, FS_Interval
  <2>2. IsFiniteSet({v}) /\ Cardinality({v}) = 1
    BY FS_Singleton
  <2>3. Cardinality(own) = Cardinality({v}) * Cardinality(1 .. t)
    BY <2>1, <2>2, FS_Product
  <2>4. IsFiniteSet(own)
    BY <2>1, <2>2, FS_Product
  <2>5. 1 * t = t
    BY <1>1
  <2> QED
    BY <2>1, <2>2, <2>3, <2>4, <2>5
<1>3. CopiesOf(S \cup {v}) = CopiesOf(S) \cup own
  BY <1>1 DEF CopiesOf
<1>4. CopiesOf(S) \cap own = {}
  BY DEF CopiesOf
<1>5. IsFiniteSet(CopiesOf(S)) /\ Total(S) \in Nat
  BY CopiesAreFinite
<1>6. Cardinality(CopiesOf(S) \cup own) = Total(S) + t - 0
  <2>1. Cardinality(CopiesOf(S) \cap own) = 0
    BY <1>4, FS_EmptySet
  <2> HIDE DEF own
  <2> QED
    BY <1>2, <1>5, <2>1, FS_Union DEF Total
<1> HIDE DEF t, own
<1>7. Total(S \cup {v}) = Total(S) + t
  <2>1. Total(S \cup {v}) = Cardinality(CopiesOf(S) \cup own)
    BY <1>3, Zenon DEF Total
  <2> QED
    BY <1>1, <1>5, <1>6, <2>1
<1> QED
  BY <1>7 DEF t

-----------------------------------------------------------------------------
(* An order of the nodes by their keys, tied ones as they may *)
Sorted(s) ==
    /\ s \in [1 .. Cardinality(Reached) -> Reached]
    /\ \A i, j \in 1 .. Cardinality(Reached) : i # j => s[i] # s[j]
    /\ \A i, j \in 1 .. Cardinality(Reached) : i < j => ~KeyBefore(s[j], s[i])
Firsts(s, n) == {s[j] : j \in 1 .. n}

(* It has every node. *)
LEMMA SortedHasAll ==
  ASSUME plea \in Pleas, plea.column = "hop", NEW s, Sorted(s)
  PROVE  /\ Cardinality(Reached) \in Nat /\ s \in Seq(Reached) /\ Len(s) = Cardinality(Reached)
         /\ Firsts(s, Cardinality(Reached)) = Reached
<1> DEFINE N == Cardinality(Reached)
<1>1. N \in Nat /\ IsFiniteSet(Reached)
  BY ReachedAre, FS_CardinalityType
<1>2. IsFiniteSet(1 .. N) /\ Cardinality(1 .. N) = N
  <2>1. 1 \in Int /\ N \in Int
    BY <1>1
  <2>2. Cardinality(1 .. N) = IF 1 > N THEN 0 ELSE N - 1 + 1
    BY <2>1, FS_Interval
  <2> QED
    BY <1>1, <2>1, <2>2, FS_Interval
<1>3. s \in Injection(1 .. N, Reached)
  BY DEF Sorted, Injection, IsInjective
<1>4. s \in Surjection(1 .. N, Reached)
  BY <1>1, <1>2, <1>3, FS_Injection
<1>5. s \in Seq(Reached) /\ Len(s) = N
  BY <1>1, IsASeq, LenProperties DEF Sorted
<1>6. Firsts(s, N) = Reached
  BY <1>4 DEF Firsts, Surjection
<1> QED
  BY <1>1, <1>5, <1>6

(* The copies of the first nodes, place by place *)
LEMMA FirstsAdd ==
  ASSUME plea \in Pleas, plea.column = "hop", NEW s, Sorted(s), NEW i \in 1 .. Cardinality(Reached)
  PROVE  /\ Firsts(s, i) \in SUBSET Reached /\ Firsts(s, i - 1) \in SUBSET Reached
         /\ Total(Firsts(s, i - 1)) \in Nat /\ s[i] \in Reached /\ plea.times[s[i]] \in Nat \ {0}
         /\ Total(Firsts(s, i)) = Total(Firsts(s, i - 1)) + plea.times[s[i]]
<1>1. Cardinality(Reached) \in Nat
  BY SortedHasAll
<1>2. \A j \in 1 .. i : j \in 1 .. Cardinality(Reached)
  BY <1>1
<1>3. Firsts(s, i) \in SUBSET Reached /\ s[i] \in Reached
  BY <1>2 DEF Firsts, Sorted
<1>4. Firsts(s, i) = Firsts(s, i - 1) \cup {s[i]}
  <2>1. \A j : j \in 1 .. i <=> j \in 1 .. i - 1 \/ j = i
    BY <1>1
  <2> QED
    BY <2>1 DEF Firsts
<1>5. s[i] \notin Firsts(s, i - 1)
  <2>1. \A j \in 1 .. i - 1 : j \in 1 .. Cardinality(Reached) /\ j # i
    BY <1>1
  <2> QED
    BY <2>1 DEF Firsts, Sorted
<1>6. Firsts(s, i - 1) \in SUBSET Reached
  BY <1>3, <1>4
<1>7. Total(Firsts(s, i - 1) \cup {s[i]}) = Total(Firsts(s, i - 1)) + plea.times[s[i]]
  BY <1>3, <1>5, <1>6, OneMore
<1>8. plea.times[s[i]] \in Nat \ {0}
  BY <1>3, ReachedAre
<1>9. Total(Firsts(s, i - 1)) \in Nat
  BY <1>6, CopiesAreFinite
<1> QED
  BY <1>3, <1>4, <1>6, <1>7, <1>8, <1>9

(* Of no nodes there is no copy. *)
LEMMA NoCopies == \A s : Firsts(s, 0) = {} /\ Total({}) = 0
<1>1. \A s : Firsts(s, 0) = {}
  BY DEF Firsts
<1>2. CopiesOf({}) = {}
  BY DEF CopiesOf
<1> QED
  BY <1>1, <1>2, FS_EmptySet DEF Total

-----------------------------------------------------------------------------
(* The key x stands at place p of the rows, whatever the order of ties. *)
Ahead(v) == {w \in Reached : KeyBefore(w, v)}
UpTo(v) == {w \in Reached : ~KeyBefore(v, w)}
Placed(p, x) == \E v \in Reached : Total(Ahead(v)) < p /\ p <= Total(UpTo(v)) /\ x = Shown(v)

(* A place has one key. *)
LEMMA PlacedOnce ==
  ASSUME plea \in Pleas, plea.column = "hop", NEW p \in Nat, NEW x, NEW y, Placed(p, x), Placed(p, y)
  PROVE  x = y
<1>1. PICK v \in Reached : Total(Ahead(v)) < p /\ p <= Total(UpTo(v)) /\ x = Shown(v)
  BY Zenon DEF Placed
<1>2. PICK w \in Reached : Total(Ahead(w)) < p /\ p <= Total(UpTo(w)) /\ y = Shown(w)
  BY Zenon DEF Placed
<1>3. /\ plea \in PleaType /\ Reached \in SUBSET Cells
  BY ReachedAre
<1>4. \A u \in Reached : IsHole(u) \/ plea.cells[u] \in Nat
  BY <1>3, CellsAre
<1>5. \A a, b : KeyBefore(a, b) <=>
           \/ plea.nullsFirst /\ IsHole(a) /\ ~IsHole(b)
           \/ ~plea.nullsFirst /\ ~IsHole(a) /\ IsHole(b)
           \/ ~IsHole(a) /\ ~IsHole(b) /\ plea.desc /\ plea.cells[a] > plea.cells[b]
           \/ ~IsHole(a) /\ ~IsHole(b) /\ ~plea.desc /\ plea.cells[a] < plea.cells[b]
  BY <1>3, KeyBeforeIs
<1>6. ASSUME NEW a \in Reached, NEW b \in Reached, KeyBefore(a, b)
      PROVE  Total(UpTo(a)) <= Total(Ahead(b))
  <2>1. \A u \in Reached : ~KeyBefore(a, u) => KeyBefore(u, b)
    BY <1>4, <1>5, <1>6
  <2>2. UpTo(a) \in SUBSET Ahead(b) /\ Ahead(b) \in SUBSET Reached
    BY <2>1 DEF UpTo, Ahead
  <2> QED
    BY <2>2, MoreCopies
<1>7. \A u \in Reached : Total(UpTo(u)) \in Nat /\ Total(Ahead(u)) \in Nat
  <2>1. \A u \in Reached : UpTo(u) \in SUBSET Reached /\ Ahead(u) \in SUBSET Reached
    BY DEF UpTo, Ahead
  <2> QED
    BY <2>1, CopiesAreFinite
<1>8. ~KeyBefore(v, w)
  <2> SUFFICES ASSUME KeyBefore(v, w) PROVE FALSE
    OBVIOUS
  <2>1. Total(UpTo(v)) <= Total(Ahead(w))
    BY <1>6
  <2> QED
    BY <1>1, <1>2, <1>7, <2>1
<1>9. ~KeyBefore(w, v)
  <2> SUFFICES ASSUME KeyBefore(w, v) PROVE FALSE
    OBVIOUS
  <2>1. Total(UpTo(w)) <= Total(Ahead(v))
    BY <1>6
  <2> QED
    BY <1>1, <1>2, <1>7, <2>1
<1>10. plea.nullsFirst \in BOOLEAN /\ plea.desc \in BOOLEAN
  BY <1>3, PleaParts
<1>11. IsHole(v) <=> IsHole(w)
  BY <1>5, <1>8, <1>9, <1>10
<1>12. ~IsHole(v) => plea.cells[v] = plea.cells[w]
  BY <1>4, <1>5, <1>8, <1>9, <1>10, <1>11
<1> QED
  BY <1>1, <1>2, <1>11, <1>12 DEF Shown

(* The copies of one node in an order are placed there. *)
LEMMA PlacesOf ==
  ASSUME plea \in Pleas, plea.column = "hop", NEW s, Sorted(s), NEW i \in 1 .. Cardinality(Reached),
         NEW p \in Nat, Total(Firsts(s, i - 1)) < p, p <= Total(Firsts(s, i))
  PROVE  Placed(p, Shown(s[i]))
<1>1. /\ Firsts(s, i) \in SUBSET Reached /\ Firsts(s, i - 1) \in SUBSET Reached
      /\ s[i] \in Reached /\ Cardinality(Reached) \in Nat
  BY FirstsAdd, SortedHasAll
<1>2. Ahead(s[i]) \in SUBSET Firsts(s, i - 1)
  <2> SUFFICES ASSUME NEW w \in Reached, KeyBefore(w, s[i]) PROVE w \in Firsts(s, i - 1)
    BY DEF Ahead
  <2>1. PICK j \in 1 .. Cardinality(Reached) : w = s[j]
    BY SortedHasAll DEF Firsts
  <2>2. ~(i < j)
    BY <2>1 DEF Sorted
  <2>3. j # i
    <3>1. plea \in PleaType
      BY ReachedAre
    <3>2. s[i] \in Cells
      BY <1>1, ReachedAre
    <3>3. IsHole(s[i]) \/ plea.cells[s[i]] \in Nat
      BY <3>1, <3>2, CellsAre
    <3>4. ~KeyBefore(s[i], s[i])
      BY <3>1, <3>3, KeyBeforeIs
    <3> QED
      BY <2>1, <3>4
  <2>4. j \in 1 .. i - 1
    BY <1>1, <2>2, <2>3
  <2> QED
    BY <2>1, <2>4 DEF Firsts
<1>3. Firsts(s, i) \in SUBSET UpTo(s[i])
  <2> SUFFICES ASSUME NEW j \in 1 .. i PROVE s[j] \in Reached /\ ~KeyBefore(s[i], s[j])
    BY DEF Firsts, UpTo
  <2>1. j \in 1 .. Cardinality(Reached)
    BY <1>1
  <2>2. CASE j = i
    <3>1. plea \in PleaType
      BY ReachedAre
    <3>2. s[i] \in Cells
      BY <1>1, ReachedAre
    <3>3. IsHole(s[i]) \/ plea.cells[s[i]] \in Nat
      BY <3>1, <3>2, CellsAre
    <3>4. ~KeyBefore(s[i], s[i])
      BY <3>1, <3>3, KeyBeforeIs
    <3> QED
      BY <1>1, <2>2, <3>4
  <2>3. CASE j # i
    <3>1. j < i
      BY <1>1, <2>1, <2>3
    <3> QED
      BY <2>1, <3>1 DEF Sorted
  <2> QED
    BY <2>2, <2>3
<1>4. UpTo(s[i]) \in SUBSET Reached /\ Ahead(s[i]) \in SUBSET Reached
  BY DEF UpTo, Ahead
<1>5. Total(Ahead(s[i])) <= Total(Firsts(s, i - 1)) /\ Total(Firsts(s, i)) <= Total(UpTo(s[i]))
  BY <1>1, <1>2, <1>3, <1>4, MoreCopies
<1>6. /\ Total(Ahead(s[i])) \in Nat /\ Total(Firsts(s, i - 1)) \in Nat
      /\ Total(Firsts(s, i)) \in Nat /\ Total(UpTo(s[i])) \in Nat
  BY <1>1, <1>4, CopiesAreFinite
<1>7. Total(Ahead(s[i])) < p /\ p <= Total(UpTo(s[i]))
  BY <1>5, <1>6
<1> QED
  BY <1>1, <1>7, Zenon DEF Placed

Keys == Nat \cup {Null}
Runs == [i \in DOMAIN InOrder(Reached) |->
           [n \in 1 .. plea.times[InOrder(Reached)[i]] |-> Shown(InOrder(Reached)[i])]]

(* What is shown of a node is a key, or a null. *)
LEMMA ShownAre ==
  ASSUME plea \in Pleas, plea.column = "hop", NEW v \in Reached
  PROVE  Shown(v) \in Keys
<1>1. IsHole(v) \/ plea.cells[v] \in Nat
  BY ReachedAre, CellsAre
<1> QED
  BY <1>1 DEF Shown, Keys

(* The sort of the nodes is one of the orders. *)
LEMMA InOrderSorted ==
  ASSUME plea \in Pleas, plea.column = "hop"
  PROVE  Sorted(InOrder(Reached))
<1> DEFINE N == Cardinality(Reached)
           s == InOrder(Reached)
<1>1. plea \in PleaType /\ Reached \in SUBSET Cells /\ N \in Nat
  BY ReachedAre, FS_CardinalityType
<1>2. /\ s \in [1 .. N -> Reached]
      /\ \A i \in 1 .. N : s[i] \in Reached /\ Rank(s[i], Reached) = i - 1
  BY <1>1, InOrderIs
<1> HIDE DEF s
<1>3. \A i, j \in 1 .. N : i # j => s[i] # s[j]
  BY <1>1, <1>2
<1>4. ASSUME NEW i \in 1 .. N, NEW j \in 1 .. N, i < j PROVE ~KeyBefore(s[j], s[i])
  <2>1. Rank(s[i], Reached) < Rank(s[j], Reached)
    BY <1>1, <1>2, <1>4
  <2>2. RowBefore(s[i], s[j])
    BY <1>1, <1>2, <2>1, RankFollows
  <2>3. s[i] \in Cells /\ s[j] \in Cells /\ s[i] # s[j]
    BY <1>1, <1>2, <1>3, <1>4
  <2>4. ~RowBefore(s[j], s[i])
    BY <1>1, <2>2, <2>3, OrderIsTotal
  <2> QED
    BY <2>4 DEF RowBefore
<1> QED
  BY <1>2, <1>3, <1>4, Zenon DEF Sorted, s

(* The rows of the reference, node by node *)
Glue(f) == [i \in 1 .. Len(Runs) |-> IF i = 1 THEN Runs[i] ELSE f[i - 1] \o Runs[i]]

(* What each node brings. *)
LEMMA RowsOfHop ==
  ASSUME plea \in Pleas, plea.column = "hop"
  PROVE  /\ Runs \in Seq(Seq(Keys)) /\ Len(Runs) = Cardinality(Reached)
         /\ Cardinality(Reached) \in Nat
         /\ \A i \in 1 .. Cardinality(Reached) :
              /\ Runs[i] \in Seq(Keys) /\ Len(Runs[i]) = plea.times[InOrder(Reached)[i]]
              /\ \A n \in 1 .. plea.times[InOrder(Reached)[i]] :
                    Runs[i][n] = Shown(InOrder(Reached)[i])
<1> DEFINE N == Cardinality(Reached)
           s == InOrder(Reached)
           row(i) == [n \in 1 .. plea.times[s[i]] |-> Shown(s[i])]
<1>1. N \in Nat /\ s \in [1 .. N -> Reached]
  BY InOrderSorted, SortedHasAll DEF Sorted
<1>2. DOMAIN s = 1 .. N
  BY <1>1
<1>3. ASSUME NEW i \in 1 .. N
      PROVE  /\ row(i) \in Seq(Keys) /\ Len(row(i)) = plea.times[s[i]]
             /\ \A n \in 1 .. plea.times[s[i]] : row(i)[n] = Shown(s[i])
  <2>1. s[i] \in Reached
    BY <1>1
  <2> HIDE DEF s
  <2>2. plea.times[s[i]] \in Nat /\ Shown(s[i]) \in Keys
    BY <2>1, ReachedAre, ShownAre
  <2>3. row(i) \in [1 .. plea.times[s[i]] -> Keys]
    BY <2>2
  <2>4. row(i) \in Seq(Keys)
    BY <2>2, <2>3
  <2> QED
    BY <2>2, <2>3, <2>4, LenProperties
<1>4. Runs = [i \in 1 .. N |-> row(i)]
  BY <1>2, Zenon DEF Runs
<1> HIDE DEF s, row
<1>5. Runs \in [1 .. N -> Seq(Keys)]
  BY <1>3, <1>4
<1>6. Runs \in Seq(Seq(Keys)) /\ Len(Runs) = N
  BY <1>1, <1>5, LenProperties
<1>7. ASSUME NEW i \in 1 .. N
      PROVE  /\ Runs[i] \in Seq(Keys) /\ Len(Runs[i]) = plea.times[s[i]]
             /\ \A n \in 1 .. plea.times[s[i]] : Runs[i][n] = Shown(s[i])
  <2>1. Runs[i] = row(i)
    BY <1>4
  <2> QED
    BY <1>3, <2>1
<1> QED
  BY <1>1, <1>6, <1>7 DEF s

(* A function that glues them together has at every place its key. *)
LEMMA GluedIs ==
  ASSUME plea \in Pleas, plea.column = "hop", NEW f, f = Glue(f), NEW i \in 1 .. Cardinality(Reached)
  PROVE  /\ f[i] \in Seq(Keys) /\ Len(f[i]) = Total(Firsts(InOrder(Reached), i))
         /\ \A p \in 1 .. Total(Firsts(InOrder(Reached), i)) : Placed(p, f[i][p])
<1> DEFINE N == Cardinality(Reached)
           s == InOrder(Reached)
           Good(n) == /\ f[n] \in Seq(Keys) /\ Len(f[n]) = Total(Firsts(s, n))
                      /\ \A p \in 1 .. Total(Firsts(s, n)) : Placed(p, f[n][p])
           Bad == {n \in Nat : n \in 1 .. N /\ ~Good(n)}
<1>1. N \in Nat /\ Len(Runs) = N /\ Sorted(s)
  BY RowsOfHop, InOrderSorted
<1>2. \A n \in 1 .. N : f[n] = IF n = 1 THEN Runs[n] ELSE f[n - 1] \o Runs[n]
  <2>1. f = [n \in 1 .. N |-> IF n = 1 THEN Runs[n] ELSE f[n - 1] \o Runs[n]]
    BY <1>1, Zenon DEF Glue
  <2> QED
    BY <2>1
<1>3. ASSUME NEW n \in 1 .. N, n # 1 => Good(n - 1) PROVE Good(n)
  <2> DEFINE t == plea.times[s[n]]
             c == Total(Firsts(s, n - 1))
             v == s[n]
  <2>1. /\ c \in Nat /\ t \in Nat \ {0} /\ Total(Firsts(s, n)) = c + t
        /\ Firsts(s, n) \in SUBSET Reached
    BY <1>1, FirstsAdd
  <2>2. /\ Runs[n] \in Seq(Keys) /\ Len(Runs[n]) = t
        /\ \A m \in 1 .. t : Runs[n][m] = Shown(v)
    BY RowsOfHop
  <2>3. ASSUME NEW p \in 1 .. c + t, ~(p <= c) PROVE Placed(p, Shown(v))
    <3>1. p \in Nat /\ c < p /\ p <= Total(Firsts(s, n))
      BY <2>1, <2>3
    <3> QED
      BY <1>1, <3>1, PlacesOf
  <2>4. CASE n = 1
    <3>1. c = 0
      BY <2>4, NoCopies
    <3>2. f[n] = Runs[n]
      BY <1>2, <2>4
    <3>3. \A p \in 1 .. t : p \in 1 .. c + t /\ ~(p <= c)
      BY <2>1, <3>1
    <3>4. c + t = t
      BY <2>1, <3>1
    <3> HIDE DEF t, c, v
    <3>5. \A p \in 1 .. t : Placed(p, f[n][p])
      BY <2>2, <2>3, <3>2, <3>3
    <3> QED
      BY <2>1, <2>2, <3>2, <3>4, <3>5
  <2>5. CASE n # 1
    <3>1. f[n] = f[n - 1] \o Runs[n]
      BY <1>2, <2>5
    <3>2. f[n - 1] \in Seq(Keys) /\ Len(f[n - 1]) = c /\ \A p \in 1 .. c : Placed(p, f[n - 1][p])
      BY <1>3, <2>5
    <3> HIDE DEF t, c, v
    <3>3. /\ f[n] \in Seq(Keys) /\ Len(f[n]) = c + t
          /\ \A p \in 1 .. c + t : f[n][p] = IF p <= c THEN f[n - 1][p] ELSE Runs[n][p - c]
      <4> DEFINE a == f[n - 1]
                 b == Runs[n]
      <4>1. a \in Seq(Keys) /\ b \in Seq(Keys) /\ Len(a) = c /\ Len(b) = t /\ f[n] = a \o b
        BY <2>2, <3>1, <3>2
      <4> HIDE DEF a, b
      <4>2. /\ f[n] \in Seq(Keys) /\ Len(f[n]) = c + t
            /\ \A p \in 1 .. c + t : f[n][p] = IF p <= c THEN a[p] ELSE b[p - c]
        <5>1. /\ a \o b \in Seq(Keys) /\ Len(a \o b) = Len(a) + Len(b)
              /\ \A p \in 1 .. Len(a) + Len(b) :
                    (a \o b)[p] = IF p <= Len(a) THEN a[p] ELSE b[p - Len(a)]
          BY <4>1, ConcatProperties
        <5> QED
          BY <4>1, <5>1
      <4> QED
        BY <4>2 DEF a, b
    <3>4. ASSUME NEW p \in 1 .. c + t PROVE Placed(p, f[n][p])
      <4>1. CASE p <= c
        <5>1. p \in 1 .. c
          BY <2>1, <4>1
        <5> QED
          BY <3>2, <3>3, <4>1, <5>1
      <4>2. CASE ~(p <= c)
        <5>1. p - c \in 1 .. t
          BY <2>1, <4>2
        <5>2. f[n][p] = Shown(v)
          BY <2>2, <3>3, <4>2, <5>1
        <5> QED
          BY <2>3, <4>2, <5>2
      <4> QED
        BY <4>1, <4>2
    <3> QED
      BY <2>1, <3>3, <3>4
  <2> QED
    BY <2>4, <2>5
<1> HIDE DEF Good
<1>4. SUFFICES ASSUME Bad # {} PROVE FALSE
  <2>1. i \in Nat
    BY <1>1
  <2>2. Good(i)
    BY <1>4, <2>1
  <2> QED
    BY <2>2 DEF Good
<1>5. Bad \in SUBSET Nat
  OBVIOUS
<1> HIDE DEF Bad
<1>6. PICK n \in Bad : \A m \in Bad : n <= m
  BY <1>4, <1>5, LeastNumber
<1>7. n \in 1 .. N /\ ~Good(n)
  BY <1>6 DEF Bad
<1>8. ASSUME n # 1 PROVE Good(n - 1)
  <2>1. n - 1 \in 1 .. N /\ n - 1 \in Nat /\ ~(n <= n - 1)
    BY <1>1, <1>7, <1>8
  <2> QED
    BY <1>6, <2>1 DEF Bad
<1> QED
  BY <1>3, <1>7, <1>8

(* There is such a function: it has the keys at their places. *)
LEMMA GlueExists ==
  ASSUME plea \in Pleas, plea.column = "hop"
  PROVE  \E f : f = Glue(f)
<1> DEFINE N == Cardinality(Reached)
           s == InOrder(Reached)
           key(p) == CHOOSE x \in Keys : Placed(p, x)
           upto(i) == [p \in 1 .. Total(Firsts(s, i)) |-> key(p)]
           f == [i \in 1 .. N |-> upto(i)]
<1>1. N \in Nat /\ Len(Runs) = N /\ Sorted(s)
  BY RowsOfHop, InOrderSorted
<1>2. ASSUME NEW n \in 1 .. N, NEW p \in Nat, Total(Firsts(s, n - 1)) < p, p <= Total(Firsts(s, n))
      PROVE  key(p) = Shown(s[n])
  <2>1. Placed(p, Shown(s[n])) /\ Shown(s[n]) \in Keys
    BY <1>1, <1>2, PlacesOf, FirstsAdd, ShownAre
  <2>2. Placed(p, key(p))
    BY <2>1, Zenon
  <2> HIDE DEF key
  <2> QED
    BY <2>1, <2>2, PlacedOnce
<1> HIDE DEF key
<1>3. ASSUME NEW n \in 1 .. N
      PROVE  upto(n) = IF n = 1 THEN Runs[n] ELSE upto(n - 1) \o Runs[n]
  <2> DEFINE t == plea.times[s[n]]
             c == Total(Firsts(s, n - 1))
             v == s[n]
  <2>1. c \in Nat /\ t \in Nat \ {0} /\ Total(Firsts(s, n)) = c + t /\ v \in Reached
    BY <1>1, FirstsAdd
  <2>2. /\ Runs[n] \in Seq(Keys) /\ Len(Runs[n]) = t
        /\ \A m \in 1 .. t : Runs[n][m] = Shown(v)
    BY RowsOfHop
  <2>3. \A p \in 1 .. c + t : ~(p <= c) => key(p) = Shown(v)
    BY <1>2, <2>1
  <2>4. upto(n) = [p \in 1 .. c + t |-> key(p)] /\ upto(n - 1) = [p \in 1 .. c |-> key(p)]
    BY <2>1
  <2>5. n = 1 => c = 0
    BY NoCopies
  <2>6. Shown(v) \in Keys
    BY <2>1, ShownAre
  <2> DEFINE Either == Keys \cup {key(p) : p \in 1 .. c + t}
             long == [p \in 1 .. c + t |-> key(p)]
             short == [p \in 1 .. c |-> key(p)]
  <2>7. /\ long \in Seq(Either) /\ Len(long) = c + t
        /\ short \in Seq(Either) /\ Len(short) = c
    <3> HIDE DEF t, c, v
    <3>1. \A p \in 1 .. c : p \in 1 .. c + t
      BY <2>1
    <3>2. long \in [1 .. c + t -> Either] /\ short \in [1 .. c -> Either]
      BY <3>1
    <3>3. c + t \in Nat
      BY <2>1
    <3> HIDE DEF Either, long, short
    <3> QED
      BY <2>1, <3>2, <3>3, LenProperties
  <2>8. Runs[n] \in Seq(Either)
    BY <2>2, <2>6
  <2> HIDE DEF t, c, v, Either
  <2>9. CASE n = 1
    <3>1. \A p \in 1 .. Len(long) : long[p] = Runs[n][p]
      BY <2>1, <2>2, <2>3, <2>5, <2>7, <2>9
    <3>2. Len(long) = Len(Runs[n])
      BY <2>1, <2>2, <2>5, <2>7, <2>9
    <3> HIDE DEF long
    <3>3. long = Runs[n]
      BY <2>7, <2>8, <3>1, <3>2, SeqEqual
    <3> QED
      BY <2>4, <2>9, <3>3 DEF long
  <2>10. CASE n # 1
    <3> DEFINE both == short \o Runs[n]
    <3> HIDE DEF long, short
    <3>1. /\ both \in Seq(Either) /\ Len(both) = c + t
          /\ \A p \in 1 .. c + t : both[p] = IF p <= c THEN short[p] ELSE Runs[n][p - c]
      BY <2>2, <2>7, <2>8, ConcatProperties
    <3> HIDE DEF both
    <3>2. ASSUME NEW p \in 1 .. c + t PROVE long[p] = both[p]
      <4>1. CASE p <= c
        <5>1. p \in 1 .. c
          BY <2>1, <4>1
        <5>2. long[p] = key(p) /\ short[p] = key(p)
          BY <5>1 DEF long, short
        <5> QED
          BY <3>1, <4>1, <5>2
      <4>2. CASE ~(p <= c)
        <5>1. p - c \in 1 .. t
          BY <2>1, <4>2
        <5>2. long[p] = Shown(v)
          BY <2>3, <4>2 DEF long
        <5> QED
          BY <2>2, <3>1, <4>2, <5>1, <5>2
      <4> QED
        BY <4>1, <4>2
    <3>3. long = both
      BY <2>7, <3>1, <3>2, SeqEqual
    <3> QED
      BY <2>4, <2>10, <3>3 DEF long, short, both
  <2> QED
    BY <2>9, <2>10
<1>4. f = [i \in 1 .. N |-> IF i = 1 THEN Runs[i] ELSE f[i - 1] \o Runs[i]]
  <2>1. \A i \in 1 .. N : i # 1 => f[i - 1] = upto(i - 1)
    <3>1. \A i \in 1 .. N : i # 1 => i - 1 \in 1 .. N
      BY <1>1
    <3> QED
      BY <3>1
  <2> HIDE DEF upto
  <2>2. \A i \in 1 .. N : f[i] = IF i = 1 THEN Runs[i] ELSE f[i - 1] \o Runs[i]
    BY <1>3, <2>1
  <2> QED
    BY <2>2
<1> HIDE DEF f
<1>5. f = Glue(f)
  BY <1>1, <1>4, Zenon DEF Glue
<1> QED
  BY <1>5

(* The rows of the reference: as many as there are copies, each in place. *)
LEMMA SortedRowsAre ==
  ASSUME plea \in Pleas, plea.column = "hop"
  PROVE  /\ SortedRows \in Seq(Keys) /\ Len(SortedRows) = Total(Reached)
         /\ \A p \in 1 .. Total(Reached) : Placed(p, SortedRows[p])
<1> DEFINE N == Cardinality(Reached)
           f == CHOOSE g : g = Glue(g)
<1>1. /\ N \in Nat /\ Len(Runs) = N /\ Runs \in Seq(Seq(Keys)) /\ Sorted(InOrder(Reached))
  BY RowsOfHop, InOrderSorted
<1>2. SortedRows = FlattenSeq(Runs)
  BY Zenon DEF SortedRows, Runs
<1>3. Firsts(InOrder(Reached), N) = Reached
  BY <1>1, SortedHasAll
<1>4. CASE N = 0
  <2>1. Runs = <<>>
    BY <1>1, <1>4, EmptySeq
  <2>2. SortedRows = <<>>
    BY <1>1, <1>2, <1>4, <2>1, Zenon DEF FlattenSeq
  <2>3. Total(Reached) = 0
    BY <1>3, <1>4, NoCopies
  <2> QED
    BY <2>2, <2>3, EmptySeq
<1>5. CASE N # 0
  <2>1. FlattenSeq(Runs) = f[Len(Runs)]
    BY <1>1, <1>5, Zenon DEF FlattenSeq, Glue
  <2>2. f = Glue(f)
    BY GlueExists, Zenon
  <2> HIDE DEF f
  <2>3. N \in 1 .. N
    BY <1>1, <1>5
  <2> QED
    BY <1>1, <1>2, <1>3, <2>1, <2>2, <2>3, GluedIs
<1> QED
  BY <1>4, <1>5

(* How much of the window some rows fill *)
Filled(c) == IF c <= plea.skip THEN 0 ELSE IF c - plea.skip <= plea.limit THEN c - plea.skip ELSE plea.limit

(* A page that is filled by all the rows, each in its place, is exact. *)
LEMMA FilledIsExact ==
  ASSUME plea \in Pleas, plea.column = "hop", page \in Seq(Keys), Len(page) = Filled(Total(Reached)),
         \A k \in 1 .. Len(page) : Placed(plea.skip + k, page[k])
  PROVE  Exact
<1> DEFINE T == Total(Reached)
           m == IF Window <= T THEN Window ELSE T
           a == plea.skip
           b == plea.limit
           rows == SortedRows
           cut == SubSeq(rows, a + 1, m)
<1>1. /\ plea \in PleaType /\ T \in Nat
      /\ Window \in Nat /\ Window = a + b /\ a \in Nat /\ b \in Nat
  BY ReachedAre, CopiesAreFinite, WindowIs
<1>2. rows \in Seq(Keys) /\ Len(rows) = T /\ \A p \in 1 .. T : Placed(p, rows[p])
  BY SortedRowsAre
<1>3. Min({Window, Len(rows)}) = m
  BY <1>1, <1>2, MinOfTwo
<1>4. Len(page) = IF T <= a THEN 0 ELSE IF T - a <= b THEN T - a ELSE b
  BY DEF Filled
<1> HIDE DEF T, a, b, rows
<1>5. m \in Nat /\ m <= T /\ Len(page) = IF a + 1 <= m THEN m - (a + 1) + 1 ELSE 0
  BY <1>1, <1>4
<1> HIDE DEF m
<1>6. \A i \in a + 1 .. m : i \in 1 .. Len(rows) /\ rows[i] \in Keys
  BY <1>1, <1>2, <1>5, ElementOfSeq
<1>7. /\ cut \in Seq(Keys) /\ Len(cut) = (IF a + 1 <= m THEN m - (a + 1) + 1 ELSE 0)
      /\ \A i \in 1 .. m - (a + 1) + 1 : cut[i] = rows[(a + 1) + i - 1]
  <2> DEFINE c == a + 1
  <2>1. c \in Int /\ m \in Int /\ \A i \in c .. m : rows[i] \in Keys
    BY <1>1, <1>5, <1>6
  <2> HIDE DEF c
  <2>2. /\ SubSeq(rows, c, m) \in Seq(Keys) /\ Len(SubSeq(rows, c, m)) = (IF c <= m THEN m - c + 1 ELSE 0)
        /\ \A i \in 1 .. m - c + 1 : SubSeq(rows, c, m)[i] = rows[c + i - 1]
    BY <2>1, SubSeqProperties
  <2> QED
    BY <2>2 DEF c
<1> HIDE DEF cut
<1>8. ASSUME NEW k \in 1 .. Len(page) PROVE page[k] = cut[k]
  <2>1. /\ k \in 1 .. m - (a + 1) + 1 /\ (a + 1) + k - 1 = a + k
        /\ a + k \in Nat /\ a + k \in 1 .. T
    BY <1>1, <1>5
  <2>2. cut[k] = rows[a + k]
    BY <1>7, <2>1
  <2>3. Placed(a + k, page[k]) /\ Placed(a + k, rows[a + k])
    BY <1>2, <2>1 DEF a
  <2>4. page[k] = rows[a + k]
    BY <2>1, <2>3, PlacedOnce
  <2> QED
    BY <2>2, <2>4
<1>9. page = cut
  BY <1>5, <1>7, <1>8, SeqEqual
<1> QED
  BY <1>3, <1>9, Zenon DEF Exact, a, cut, rows

-----------------------------------------------------------------------------
(* The candidates, of which the first i - 1 are taken with all their copies *)
Wanted(s) == IF Window <= Len(s) THEN Window ELSE Len(s)
Taking(s, i, c, l, d, p) ==
    /\ Sorted(s) /\ i \in 1 .. Wanted(s) + 1 /\ l = SubSeq(s, i, Wanted(s))
    /\ c = Total(Firsts(s, i - 1)) /\ i - 1 <= c
    /\ d = IF c <= plea.skip THEN c ELSE plea.skip
    /\ p \in Seq(Keys) /\ Len(p) = Filled(c)
    /\ \A k \in 1 .. Len(p) : Placed(plea.skip + k, p[k])
HopInv == plea.column = "hop" /\ \E s : \E i \in Nat : \E c : Taking(s, i, c, line, dropped, page)

(* What stays of it if the plea does *)
LEMMA SameHop ==
  ASSUME plea' = plea
  PROVE  \A s, i, c, l, d, p : Taking(s, i, c, l, d, p) => Taking(s, i, c, l, d, p)'
<1>1. /\ Reached' = Reached /\ Window' = Window
      /\ \A v, w : KeyBefore(v, w)' = KeyBefore(v, w)
      /\ \A v : Shown(v)' = Shown(v)
  BY SameOrder
<1>2. \A S : Total(S)' = Total(S)
  BY Zenon DEF Total, CopiesOf
<1>3. \A v : Ahead(v)' = Ahead(v) /\ UpTo(v)' = UpTo(v)
  <2> SUFFICES ASSUME NEW v
               PROVE  /\ {w \in Reached' : KeyBefore(w, v)'} = {w \in Reached : KeyBefore(w, v)}
                      /\ {w \in Reached' : ~KeyBefore(v, w)'} = {w \in Reached : ~KeyBefore(v, w)}
    BY Zenon DEF Ahead, UpTo
  <2> QED
    BY <1>1
<1>4. \A s, n : Firsts(s, n)' = Firsts(s, n)
  BY Zenon DEF Firsts
<1>5. \A s, n : Total(Firsts(s, n))' = Total(Firsts(s, n))
  BY <1>2, <1>4
<1>6. \A p, x : Placed(p, x)' = Placed(p, x)
  BY <1>1, <1>2, <1>3 DEF Placed
<1>7. \A s : Sorted(s)' = Sorted(s)
  BY <1>1, Zenon DEF Sorted
<1>8. \A s : Wanted(s)' = Wanted(s)
  BY <1>1, Zenon DEF Wanted
<1>9. \A c : Filled(c)' = Filled(c)
  BY Zenon DEF Filled
<1> SUFFICES ASSUME NEW s, NEW i, NEW c, NEW l, NEW d, NEW p, Taking(s, i, c, l, d, p)
             PROVE  Taking(s, i, c, l, d, p)'
  OBVIOUS
<1>10. /\ Sorted(s)' /\ i \in 1 .. Wanted(s)' + 1 /\ l = SubSeq(s, i, Wanted(s)')
       /\ c = Total(Firsts(s, i - 1))' /\ i - 1 <= c
       /\ d = (IF c <= plea'.skip THEN c ELSE plea'.skip)
       /\ p \in Seq(Keys) /\ Len(p) = Filled(c)'
  BY <1>5, <1>7, <1>8, <1>9 DEF Taking
<1>11. \A k \in 1 .. Len(p) : Placed(plea'.skip + k, p[k])
  BY DEF Taking
<1>12. \A k \in 1 .. Len(p) : Placed(plea.skip + k, p[k])'
  BY <1>6, <1>11
<1> QED
  BY <1>10, <1>12, Zenon DEF Taking, Keys

(* The search for it may be left to the next state. *)
LEMMA HopGoesOn ==
  ASSUME plea' = plea, plea.column = "hop", NEW s, NEW i \in Nat, NEW c,
         Taking(s, i, c, line', dropped', page')
  PROVE  HopInv'
<1>1. \A l, d, p : Taking(s, i, c, l, d, p) => Taking(s, i, c, l, d, p)'
  BY SameHop
<1>2. Taking(s, i, c, line, dropped, page)'
  BY <1>1
<1> QED
  BY <1>2, Zenon DEF HopInv

(* Any order of the candidates will do to begin with. *)
LEMMA HopOpens ==
  ASSUME plea \in Pleas, dropped = 0, page = <<>>, OpenHop
  PROVE  HopInv'
<1> DEFINE N == Cardinality(Reached)
<1>1. /\ plea.column = "hop" /\ plea' = plea /\ dropped' = 0 /\ page' = <<>>
  BY DEF OpenHop
<1>2. PICK s \in SetToSeqs(Reached) :
         /\ \A i, j \in DOMAIN s : i < j => ~KeyBefore(s[j], s[i])
         /\ line' = SubSeq(s, 1, Min({Window, Len(s)}))
  BY DEF OpenHop
<1>3. /\ s \in [1 .. N -> Reached]
      /\ \A i, j \in 1 .. N : i # j => s[i] # s[j]
  BY DEF SetToSeqs
<1>4. Sorted(s)
  BY <1>2, <1>3 DEF Sorted
<1>5. /\ N \in Nat /\ Len(s) = N /\ plea \in PleaType
  BY <1>1, <1>4, SortedHasAll, ReachedAre
<1>6. Window \in Nat /\ plea.skip \in Nat
  BY <1>5, WindowIs
<1>7. Min({Window, Len(s)}) = Wanted(s) /\ Wanted(s) \in Nat
  BY <1>5, <1>6, MinOfTwo DEF Wanted
<1>8. Total(Firsts(s, 0)) = 0
  BY NoCopies
<1>9. Filled(0) = 0
  BY <1>6 DEF Filled
<1>10. page' \in Seq(Keys) /\ Len(page') = 0
  BY <1>1, EmptySeq
<1>11. Taking(s, 1, 0, line', dropped', page')
  <2>1. 1 \in 1 .. Wanted(s) + 1 /\ 1 - 1 = 0 /\ 0 <= 0
    BY <1>7
  <2>2. line' = SubSeq(s, 1, Wanted(s))
    BY <1>2, <1>7
  <2>3. \A k \in 1 .. Len(page') : FALSE
    BY <1>10
  <2>4. 0 = Total(Firsts(s, 1 - 1))
    BY <1>8, <2>1
  <2>5. dropped' = IF 0 <= plea.skip THEN 0 ELSE plea.skip
    BY <1>1, <1>6
  <2> QED
    BY <1>4, <1>9, <1>10, <2>1, <2>2, <2>3, <2>4, <2>5 DEF Taking
<1> QED
  BY <1>1, <1>11, HopGoesOn

(* One candidate with its copies: how far the page goes. *)
LEMMA FillMore ==
  ASSUME NEW a \in Nat, NEW b \in Nat, NEW c \in Nat, NEW t \in Nat \ {0}, NEW d, NEW n, NEW off, NEW copies,
         d = IF c <= a THEN c ELSE a,
         n = IF c <= a THEN 0 ELSE IF c - a <= b THEN c - a ELSE b,
         n < b,
         off = IF t <= a - d THEN t ELSE a - d,
         copies = IF t - off <= b - n THEN t - off ELSE b - n
  PROVE  /\ off \in Nat /\ copies \in Nat /\ n \in Nat /\ d \in Nat
         /\ d + off = IF c + t <= a THEN c + t ELSE a
         /\ n + copies = IF c + t <= a THEN 0 ELSE IF c + t - a <= b THEN c + t - a ELSE b
         /\ \A k \in 1 .. copies : c < a + n + k /\ a + n + k <= c + t
<1>1. CASE c <= a
  <2>1. d = c /\ n = 0
    BY <1>1
  <2>2. CASE t <= a - c
    <3>1. off = t /\ copies = 0 /\ c + t <= a
      BY <1>1, <2>1, <2>2
    <3> QED
      BY <1>1, <2>1, <3>1
  <2>3. CASE ~(t <= a - c)
    <3>1. off = a - c /\ off \in Nat /\ t - off \in Nat /\ t - off = c + t - a /\ ~(c + t <= a)
      BY <1>1, <2>1, <2>3
    <3>2. copies = (IF c + t - a <= b THEN c + t - a ELSE b) /\ copies \in Nat /\ copies <= c + t - a
      BY <2>1, <3>1
    <3> QED
      BY <1>1, <2>1, <3>1, <3>2
  <2> QED
    BY <2>2, <2>3
<1>2. CASE ~(c <= a)
  <2>1. d = a /\ n = c - a /\ n \in Nat
    BY <1>2
  <2>2. off = 0
    BY <2>1
  <2>3. copies = (IF t <= b - n THEN t ELSE b - n) /\ copies \in Nat /\ copies <= t
    BY <2>1, <2>2
  <2>4. ~(c + t <= a) /\ c + t - a = n + t /\ a + n = c
    BY <1>2, <2>1
  <2> QED
    BY <2>1, <2>2, <2>3, <2>4
<1> QED
  BY <1>1, <1>2

(* A candidate brings its copies to the page, or to what is skipped. *)
LEMMA HopTakes ==
  ASSUME plea \in Pleas, HopInv, TakeCopies
  PROVE  HopInv'
<1>0. PICK s : \E i \in Nat : \E c : Taking(s, i, c, line, dropped, page)
  BY Zenon DEF HopInv
<1>01. PICK i \in Nat : \E c : Taking(s, i, c, line, dropped, page)
  BY <1>0
<1>1. PICK c : Taking(s, i, c, line, dropped, page)
  BY <1>01
<1> DEFINE N == Cardinality(Reached)
           m == Wanted(s)
           v == Head(line)
           t == plea.times[v]
           off == Min({plea.times[v], plea.skip - dropped})
           copies == Min({plea.times[v] - off, plea.limit - Len(page)})
           x == Shown(v)
           more == [k \in 1 .. copies |-> IF IsHole(v) THEN Null ELSE plea.cells[v]]
<1>2. /\ plea' = plea /\ plea.column = "hop" /\ line # <<>> /\ Len(page) < plea.limit
      /\ dropped' = dropped + off /\ page' = page \o more /\ line' = Tail(line)
  BY DEF TakeCopies, HopInv
<1>3. /\ Sorted(s) /\ i \in 1 .. m + 1 /\ line = SubSeq(s, i, m) /\ i - 1 <= c
      /\ c = Total(Firsts(s, i - 1))
      /\ dropped = (IF c <= plea.skip THEN c ELSE plea.skip)
      /\ page \in Seq(Keys) /\ Len(page) = Filled(c)
      /\ \A k \in 1 .. Len(page) : Placed(plea.skip + k, page[k])
  BY <1>1 DEF Taking
<1>4. /\ N \in Nat /\ Len(s) = N /\ s \in Seq(Reached) /\ plea \in PleaType
      /\ Window \in Nat /\ Window = plea.skip + plea.limit
      /\ plea.skip \in Nat /\ plea.limit \in Nat
  BY <1>2, <1>3, SortedHasAll, ReachedAre, WindowIs
<1>5. m \in Nat /\ m <= N
  BY <1>4 DEF Wanted
<1> HIDE DEF m
<1>6. i <= m
  <2> SUFFICES ASSUME ~(i <= m) PROVE FALSE
    OBVIOUS
  <2>1. m < i /\ i \in Int /\ m \in Int
    BY <1>3, <1>5
  <2>2. SubSeq(s, i, m) = <<>>
    BY <2>1, SubSeqEmpty
  <2> QED
    BY <1>2, <1>3, <2>2
<1>7. v = s[i] /\ Tail(line) = SubSeq(s, i + 1, m)
  <2>1. i \in 1 .. Len(s) /\ m \in i .. Len(s)
    BY <1>3, <1>4, <1>5, <1>6
  <2> QED
    BY <1>3, <1>4, <2>1, HeadTailOfSubSeq
<1>8. i \in 1 .. N
  BY <1>3, <1>4, <1>5, <1>6
<1>9. /\ c \in Nat /\ v \in Reached /\ t \in Nat \ {0} /\ Total(Firsts(s, i)) = c + t
  <2>1. /\ Total(Firsts(s, i - 1)) \in Nat /\ s[i] \in Reached /\ plea.times[s[i]] \in Nat \ {0}
        /\ Total(Firsts(s, i)) = Total(Firsts(s, i - 1)) + plea.times[s[i]]
    BY <1>2, <1>3, <1>8, FirstsAdd
  <2> QED
    BY <1>3, <1>7, <2>1
<1>10. Filled(c) = IF c <= plea.skip THEN 0 ELSE IF c - plea.skip <= plea.limit THEN c - plea.skip ELSE plea.limit
  BY DEF Filled
<1> DEFINE a == plea.skip
           b == plea.limit
           d == dropped
           n == Len(page)
<1>11. /\ a \in Nat /\ b \in Nat /\ d = (IF c <= a THEN c ELSE a)
       /\ n = (IF c <= a THEN 0 ELSE IF c - a <= b THEN c - a ELSE b) /\ n < b
  BY <1>2, <1>3, <1>4, <1>10
<1>12. off = Min({t, a - d}) /\ copies = Min({t - off, b - n})
  OBVIOUS
<1> HIDE DEF t, off, copies, a, b, d, n
<1>13. off = IF t <= a - d THEN t ELSE a - d
  <2>1. a - d \in Nat
    BY <1>9, <1>11
  <2> QED
    BY <1>9, <1>12, <2>1, MinOfTwo
<1>14. copies = IF t - off <= b - n THEN t - off ELSE b - n
  <2>1. t - off \in Nat /\ b - n \in Nat
    BY <1>9, <1>11, <1>13
  <2> QED
    BY <1>12, <2>1, MinOfTwo
<1>15. /\ off \in Nat /\ copies \in Nat /\ n \in Nat /\ d \in Nat
       /\ d + off = IF c + t <= a THEN c + t ELSE a
       /\ n + copies = IF c + t <= a THEN 0 ELSE IF c + t - a <= b THEN c + t - a ELSE b
       /\ \A k \in 1 .. copies : c < a + n + k /\ a + n + k <= c + t
  BY <1>9, <1>11, <1>13, <1>14, FillMore, SMTT(30)
<1>16. x \in Keys
  BY <1>2, <1>9, ShownAre
<1>17. more = [k \in 1 .. copies |-> x]
  BY Zenon DEF Shown
<1> HIDE DEF x, more, v
<1>18. more \in Seq(Keys) /\ Len(more) = copies /\ \A k \in 1 .. copies : more[k] = x
  <2>1. more \in [1 .. copies -> Keys]
    BY <1>16, <1>17
  <2> QED
    BY <1>15, <1>17, <2>1, LenProperties
<1>19. /\ page' \in Seq(Keys) /\ Len(page') = n + copies
       /\ \A k \in 1 .. n + copies : page'[k] = IF k <= n THEN page[k] ELSE more[k - n]
  <2>1. /\ page \o more \in Seq(Keys) /\ Len(page \o more) = Len(page) + Len(more)
        /\ \A k \in 1 .. Len(page) + Len(more) :
              (page \o more)[k] = IF k <= Len(page) THEN page[k] ELSE more[k - Len(page)]
    BY <1>3, <1>18, ConcatProperties
  <2> QED
    BY <1>2, <1>18, <2>1 DEF n
<1>20. ASSUME NEW k \in 1 .. n + copies PROVE Placed(a + k, page'[k])
  <2>1. CASE k <= n
    <3>1. k \in 1 .. Len(page) /\ page'[k] = page[k]
      BY <1>15, <1>19, <2>1 DEF n
    <3> QED
      BY <1>3, <3>1 DEF a
  <2>2. CASE ~(k <= n)
    <3>1. k - n \in 1 .. copies /\ page'[k] = more[k - n]
      BY <1>15, <1>19, <2>2
    <3>2. page'[k] = x
      BY <1>18, <3>1
    <3>3. a + k \in Nat /\ a + n + (k - n) = a + k /\ c < a + k /\ a + k <= c + t
      BY <1>11, <1>15, <3>1
    <3>4. Placed(a + k, Shown(s[i]))
      BY <1>2, <1>3, <1>8, <1>9, <3>3, PlacesOf
    <3> QED
      BY <1>7, <3>2, <3>4 DEF x
  <2> QED
    BY <2>1, <2>2
<1>21. PICK j \in Nat : j = i + 1
  OBVIOUS
<1>22. j \in 1 .. m + 1 /\ j - 1 = i
  BY <1>5, <1>6, <1>8, <1>21
<1>23. PICK e : e = c + t
  OBVIOUS
<1>24. Filled(e) = IF e <= a THEN 0 ELSE IF e - a <= b THEN e - a ELSE b
  BY Zenon DEF Filled, a, b
<1>25. Taking(s, j, e, line', dropped', page')
  <2>1. line' = SubSeq(s, j, m)
    BY <1>2, <1>7, <1>21
  <2>2. dropped' = IF e <= a THEN e ELSE a
    BY <1>2, <1>15, <1>23 DEF d
  <2>3. Len(page') = Filled(e)
    <3>1. n + copies = IF e <= a THEN 0 ELSE IF e - a <= b THEN e - a ELSE b
      BY <1>9, <1>11, <1>15, <1>23
    <3> QED
      BY <1>19, <1>24, <3>1
  <2>4. \A k \in 1 .. Len(page') : Placed(a + k, page'[k])
    BY <1>19, <1>20
  <2>5. e = Total(Firsts(s, j - 1)) /\ j - 1 <= e
    BY <1>3, <1>9, <1>22, <1>23
  <2> QED
    BY <1>3, <1>19, <1>22, <2>1, <2>2, <2>3, <2>4, <2>5 DEF Taking, m, a
<1> QED
  BY <1>2, <1>25, HopGoesOn

(* A page that needs no more candidates is exact. *)
LEMMA HopCloses ==
  ASSUME plea \in Pleas, HopInv, CloseHop
  PROVE  Exact
<1>0. PICK s : \E i \in Nat : \E c : Taking(s, i, c, line, dropped, page)
  BY Zenon DEF HopInv
<1>01. PICK i \in Nat : \E c : Taking(s, i, c, line, dropped, page)
  BY <1>0
<1>1. PICK c : Taking(s, i, c, line, dropped, page)
  BY <1>01
<1> DEFINE N == Cardinality(Reached)
           m == Wanted(s)
           T == Total(Reached)
<1>2. plea.column = "hop" /\ (line = <<>> \/ Len(page) >= plea.limit)
  BY DEF CloseHop, HopInv
<1>3. /\ Sorted(s) /\ i \in 1 .. m + 1 /\ line = SubSeq(s, i, m) /\ i - 1 <= c
      /\ c = Total(Firsts(s, i - 1))
      /\ page \in Seq(Keys) /\ Len(page) = Filled(c)
      /\ \A k \in 1 .. Len(page) : Placed(plea.skip + k, page[k])
  BY <1>1 DEF Taking
<1>4. /\ N \in Nat /\ Len(s) = N /\ s \in Seq(Reached) /\ plea \in PleaType
      /\ Window \in Nat /\ Window = plea.skip + plea.limit
      /\ plea.skip \in Nat /\ plea.limit \in Nat /\ Firsts(s, N) = Reached
  BY <1>2, <1>3, SortedHasAll, ReachedAre, WindowIs
<1>5. m \in Nat /\ m <= N /\ (m = N \/ m = Window)
  BY <1>4 DEF Wanted
<1>6. T \in Nat /\ c \in Nat /\ c <= T
  <2>1. Firsts(s, i - 1) \in SUBSET Firsts(s, N)
    <3>1. \A j \in 1 .. i - 1 : j \in 1 .. N
      BY <1>3, <1>4, <1>5
    <3> QED
      BY <3>1 DEF Firsts
  <2>2. Firsts(s, i - 1) \in SUBSET Reached
    BY <1>4, <2>1
  <2> QED
    BY <1>2, <1>3, <2>2, CopiesAreFinite, MoreCopies
<1> HIDE DEF m, T
<1>7. Filled(c) = IF c <= plea.skip THEN 0 ELSE IF c - plea.skip <= plea.limit THEN c - plea.skip ELSE plea.limit
  BY Zenon DEF Filled
<1>8. Filled(T) = IF T <= plea.skip THEN 0 ELSE IF T - plea.skip <= plea.limit THEN T - plea.skip ELSE plea.limit
  BY Zenon DEF Filled
<1>9. Filled(c) = Filled(T)
  <2>1. CASE Len(page) >= plea.limit
    <3>1. Len(page) = Filled(c)
      BY <1>3, Zenon
    <3>2. Filled(c) >= plea.limit
      BY <2>1, <3>1
    <3>3. plea.limit \in Nat /\ plea.skip \in Nat /\ T \in Nat /\ c \in Nat /\ c <= T
      BY <1>4, <1>6, Zenon
    <3> QED
      BY <1>7, <1>8, <3>2, <3>3
  <2>2. CASE line = <<>>
    <3>1. i = m + 1
      <4> SUFFICES ASSUME i <= m PROVE FALSE
        BY <1>3, <1>5
      <4>1. i \in 1 .. Len(s) /\ m \in i .. Len(s)
        BY <1>3, <1>4, <1>5
      <4>2. \A k \in i .. m : s[k] \in Reached
        BY <1>3, <1>4, <1>5, ElementOfSeq
      <4>3. Len(SubSeq(s, i, m)) = m - i + 1
        <5>1. i \in Int /\ m \in Int
          BY <1>5
        <5> QED
          BY <4>1, <4>2, <5>1, SubSeqProperties
      <4>4. Len(<<>>) = 0
        OBVIOUS
      <4> QED
        BY <1>3, <1>5, <2>2, <4>1, <4>3, <4>4
    <3>2. i - 1 = m
      BY <1>5, <3>1
    <3>3. CASE m = N
      <4>1. c = T
        BY <1>3, <1>4, <3>2, <3>3 DEF T
      <4> QED
        BY <4>1
    <3>4. CASE m = Window
      <4>1. Window <= c
        BY <1>3, <3>2, <3>4
      <4> QED
        BY <1>4, <1>6, <1>7, <1>8, <4>1
    <3> QED
      BY <1>5, <3>3, <3>4
  <2> QED
    BY <1>2, <2>1, <2>2
<1>10. Len(page) = Filled(Total(Reached))
  BY <1>3, <1>9 DEF T
<1> QED
  BY <1>2, <1>3, <1>10, FilledIsExact

(* Exact is about the plea and the page. *)
LEMMA SameExact ==
  ASSUME plea \in Pleas, plea' = plea, page' = page, Exact
  PROVE  Exact'
<1>1. plea \in PleaType /\ Rows \in SUBSET Cells
  BY PleaAssumption, RowsAreCells
<1>2. Rows' = Rows /\ Window' = Window /\ Reached' = Reached
      /\ \A v : Shown(v)' = Shown(v)
  BY SameOrder
<1>3. InOrder(Rows)' = InOrder(Rows)
  BY <1>1, SameSort
<1>4. CASE plea.column # "hop"
  <2>1. SortedRows = InOrder(Rows) /\ SortedRows' = InOrder(Rows)'
    BY <1>4 DEF SortedRows
  <2> QED
    BY <1>2, <1>3, <2>1, Zenon DEF Exact
<1>5. CASE plea.column = "hop"
  <2>1. InOrder(Reached)' = InOrder(Reached)
    BY <1>1, <1>5, ReachedAre, SameHopSort
  <2>2. SortedRows = FlattenSeq(Runs) /\ SortedRows' = FlattenSeq(Runs')
    BY <1>5, Zenon DEF SortedRows, Runs
  <2>3. Runs' = Runs
    BY <1>2, <2>1, Zenon DEF Runs
  <2> QED
    BY <1>2, <2>2, <2>3, Zenon DEF Exact
<1> QED
  BY <1>4, <1>5

(* What holds of a window that is being found. *)
PageInv ==
    /\ plea \in Pleas /\ phase \in {"asked", "scan", "hop", "done", "declined"}
    /\ phase = "asked" =>
         next = 1 /\ kept = {} /\ atBest = 0 /\ nullsSeen = FALSE /\ dropped = 0 /\ page = <<>>
    /\ phase = "scan" => ScanInv
    /\ phase = "hop" => HopInv
    /\ phase = "done" => HoleWanted \/ Exact

(* It holds of a window that is asked for, ... *)
LEMMA PageInitInv == PageInit => PageInv
  BY DEF PageInit, PageInv

(* ... and every step keeps it. *)
LEMMA PageNextInv ==
  ASSUME PageInv, [PageNext]_pageVars
  PROVE  PageInv'
<1> USE DEF PageInv
<1>1. CASE OpenScan
  <2>1. phase = "asked" /\ plea' = plea /\ page' = page /\ plea.column # "hop"
        /\ phase' \in {"declined", "done", "scan"}
    BY <1>1 DEF OpenScan
  <2>2. CASE phase' = "scan"
    BY <1>1, <2>1, <2>2, ScanOpens
  <2>3. CASE phase' = "done"
    <3>1. Window = 0
      BY <1>1, <2>3 DEF OpenScan
    <3>2. Exact
      BY <2>1, <3>1, EmptyWindowIsExact
    <3>3. Exact'
      BY <2>1, <3>2, SameExact
    <3> QED
      BY <2>1, <2>3, <3>3
  <2>4. CASE phase' = "declined"
    BY <2>1, <2>4
  <2> QED
    BY <2>1, <2>2, <2>3, <2>4
<1>2. CASE ReadHole
  BY <1>2, HoleIsRead DEF ReadHole, Reading
<1>3. CASE ReadKey
  BY <1>3, KeyIsRead DEF ReadKey, Reading
<1>4. CASE CloseScan
  <2>1. phase = "scan" /\ plea' = plea /\ phase' \in {"declined", "done"}
    BY <1>4 DEF CloseScan
  <2>2. CASE phase' = "done"
    <3>1. ~HoleWanted => Exact'
      BY <1>4, <2>1, <2>2, ScanCloses
    <3>2. HoleWanted' = HoleWanted
      BY <2>1, SameOrder
    <3> QED
      BY <2>1, <2>2, <3>1, <3>2
  <2>3. CASE phase' = "declined"
    BY <2>1, <2>3
  <2> QED
    BY <2>1, <2>2, <2>3
<1>5. CASE OpenHop
  BY <1>5, HopOpens DEF OpenHop
<1>6. CASE TakeCopies
  BY <1>6, HopTakes DEF TakeCopies
<1>7. CASE CloseHop
  <2>1. phase = "hop" /\ plea' = plea /\ page' = page /\ phase' = "done"
    BY <1>7 DEF CloseHop
  <2>2. Exact
    BY <1>7, <2>1, HopCloses
  <2>3. Exact'
    BY <2>1, <2>2, SameExact
  <2> QED
    BY <2>1, <2>3
<1>8. CASE UNCHANGED pageVars
  <2>1. /\ plea' = plea /\ phase' = phase /\ next' = next /\ kept' = kept /\ atBest' = atBest
        /\ nullsSeen' = nullsSeen /\ line' = line /\ dropped' = dropped /\ page' = page
    BY <1>8 DEF pageVars
  <2>2. ASSUME phase = "scan" PROVE ScanInv'
    <3>1. ScanInv
      BY <2>2
    <3>2. Cells' = Cells /\ Window' = Window /\ BestRank' = BestRank
          /\ \A v : IsHole(v)' = IsHole(v)
      BY <2>1, SameOrder
    <3>3. Read' = Read /\ Best' = Best
      BY <2>1, Zenon DEF Read, Best, Cells, IsHole, BestRank
    <3>4. Foremost(Read, Window)' = Foremost(Read, Window)
      <4>1. \A S, n : Foremost(S, n)' = Foremost(S, n)
        BY <2>1, SameOrder
      <4> QED
        BY <3>2, <3>3, <4>1
    <3>5. nullsSeen' <=> \E v \in Cells' : v < next' /\ IsHole(v)'
      BY <2>1, <3>1, <3>2 DEF ScanInv
    <3> QED
      BY <2>1, <3>1, <3>2, <3>3, <3>4, <3>5, Zenon DEF ScanInv
  <2>3. ASSUME phase = "hop" PROVE HopInv'
    <3>1. PICK s : \E i \in Nat : \E c : Taking(s, i, c, line, dropped, page)
      BY <2>3, Zenon DEF HopInv
    <3>2. PICK i \in Nat : \E c : Taking(s, i, c, line, dropped, page)
      BY <3>1
    <3>3. PICK c : Taking(s, i, c, line, dropped, page)
      BY <3>2
    <3>4. Taking(s, i, c, line', dropped', page') /\ plea.column = "hop"
      BY <2>1, <2>3, <3>3 DEF HopInv
    <3> QED
      BY <2>1, <3>4, HopGoesOn
  <2>4. ASSUME phase = "done", Exact PROVE Exact'
    BY <2>1, <2>4, SameExact
  <2>5. HoleWanted' = HoleWanted
    BY <2>1, SameOrder
  <2> QED
    BY <2>1, <2>2, <2>3, <2>4, <2>5
<1> QED
  BY <1>1, <1>2, <1>3, <1>4, <1>5, <1>6, <1>7, <1>8 DEF PageNext

(* At every step of the code the rows kept, or the copies taken, are those *)
(* of the head of the sort.                                                *)
THEOREM PageInvariant == PageSpec => []PageInv
  BY PageInitInv, PageNextInv, PTL DEF PageSpec

(* The window found on the way is the window of the sort, for any column,  *)
(* order, filter, window and trim, in a scan and over a hop - but where a  *)
(* scan that may stop is asked for nulls first and there are some.         *)
THEOREM PagesAreExactHolds == PageSpec => [](~HoleWanted => PagesAreExact)
<1>1. PageInv => (~HoleWanted => PagesAreExact)
  BY Zenon DEF PageInv, PagesAreExact, Exact
<1> QED
  BY <1>1, PageInvariant, PTL

-----------------------------------------------------------------------------
(***************************************************************************)
(* A path count is the number of paths.  A path is a sequence of edges;    *)
(* all counting is by what a path begins with: the paths that begin with   *)
(* an edge are the shorter ones that may follow it, so a sum over edges    *)
(* counts them, and the closed corrections at two, three and four hops are *)
(* those sums with the paths that use an edge twice taken out, by place.   *)
(***************************************************************************)

(* Induction, over a set of numbers *)
LEMMA EveryNumber ==
  ASSUME NEW B, 0 \in B, \A n \in Nat : n \in B => n + 1 \in B
  PROVE  \A n \in Nat : n \in B
<1> DEFINE Bad == {n \in Nat : n \notin B}
<1> SUFFICES ASSUME Bad # {} PROVE FALSE
  OBVIOUS
<1>1. PICK n \in Bad : \A m \in Bad : n <= m
  <2>1. Bad \in SUBSET Nat
    OBVIOUS
  <2> HIDE DEF Bad
  <2> QED
    BY <2>1, LeastNumber
<1>2. n \in Nat /\ n \notin B /\ n # 0
  BY <1>1
<1>3. n - 1 \in Nat /\ ~(n <= n - 1) /\ (n - 1) + 1 = n
  BY <1>2
<1>4. n - 1 \in B
  BY <1>1, <1>3
<1> QED
  BY <1>2, <1>3, <1>4

(* Induction over the subsets of a finite set, an element at a time        *)
LEMMA EverySubset ==
  ASSUME NEW S, IsFiniteSet(S), NEW B, {} \in B,
         \A T \in SUBSET S : (T # {} /\ \A x \in T : T \ {x} \in B) => T \in B
  PROVE  \A T \in SUBSET S : T \in B
<1> DEFINE N == {n \in Nat : \A T \in SUBSET S : Cardinality(T) = n => T \in B}
<1>0. \A T \in SUBSET S : IsFiniteSet(T) /\ Cardinality(T) \in Nat
  BY FS_Subset, FS_CardinalityType
<1>1. 0 \in N
  BY <1>0, FS_EmptySet
<1>2. ASSUME NEW n \in Nat, n \in N PROVE n + 1 \in N
  <2> SUFFICES ASSUME NEW T \in SUBSET S, Cardinality(T) = n + 1 PROVE T \in B
    OBVIOUS
  <2>1. T # {}
    BY <1>0, FS_EmptySet
  <2>2. ASSUME NEW x \in T PROVE T \ {x} \in B
    <3>1. Cardinality(T \ {x}) = n
      BY <1>0, FS_RemoveElement
    <3> QED
      BY <1>2, <3>1
  <2> QED
    BY <2>1, <2>2
<1>3. \A n \in Nat : n \in N
  <2> HIDE DEF N
  <2> QED
    BY <1>1, <1>2, EveryNumber
<1> QED
  BY <1>0, <1>3

-----------------------------------------------------------------------------
(* The sum of a function, as the function on sets that SumFunction chooses *)
Picked(s) == CHOOSE x \in s : TRUE
SumStep(f, g, s) == IF s = {} THEN 0 ELSE f[Picked(s)] + g[s \ {Picked(s)}]
PartSum(f) == CHOOSE g : g = [s \in SUBSET DOMAIN f |-> SumStep(f, g, s)]

(* The two definitions are one formula.                                    *)
LEMMA SumIs ==
  ASSUME NEW f
  PROVE  SumFunction(f) = PartSum(f)[DOMAIN f]
  BY Zenon DEF SumFunction, SumFunctionOnSet, FoldFunctionOnSet, MapThenFoldSet,
               PartSum, SumStep, Picked

(* A function defined by recursion on a rank exists, ranks being bounded:  *)
(* otherwise there is a least n such that none obeys the definition where  *)
(* ranks are below n, and one that does below n - 1 is corrected at n - 1. *)
Ranked(D, T, rank, N, E, t0) ==
  /\ rank \in [D -> Nat] /\ N \in Nat /\ \A v \in D : rank[v] <= N
  /\ E \in [[D -> T] \X D -> T] /\ t0 \in T
  /\ \A f, g \in [D -> T], v \in D :
       (\A u \in D : rank[u] < rank[v] => f[u] = g[u]) => E[<<f, v>>] = E[<<g, v>>]

(* A recursion that looks only at arguments of lower rank has a solution:  *)
(* for every bound on the rank there is a function that obeys it below the *)
(* bound.                                                                  *)
LEMMA RankedRecursion ==
  ASSUME NEW D, NEW T, NEW rank, NEW N, NEW E, NEW t0, Ranked(D, T, rank, N, E, t0)
  PROVE  \E f \in [D -> T] : f = [v \in D |-> E[<<f, v>>]]
<1>0. /\ rank \in [D -> Nat] /\ N \in Nat /\ \A v \in D : rank[v] <= N
      /\ E \in [[D -> T] \X D -> T] /\ t0 \in T
      /\ \A f, g \in [D -> T], v \in D :
           (\A u \in D : rank[u] < rank[v] => f[u] = g[u]) => E[<<f, v>>] = E[<<g, v>>]
  BY DEF Ranked
<1> DEFINE Obeys(f, n) == \A v \in D : rank[v] < n => f[v] = E[<<f, v>>]
           Bad == {n \in Nat : ~ \E f \in [D -> T] : Obeys(f, n)}
<1>1. Bad = {}
  <2> SUFFICES ASSUME Bad # {} PROVE FALSE
    OBVIOUS
  <2>1. PICK n \in Bad : \A m \in Bad : n <= m
    <3>1. Bad \in SUBSET Nat
      OBVIOUS
    <3> QED
      BY <3>1, LeastNumber
  <2>2. n \in Nat /\ ~ \E f \in [D -> T] : Obeys(f, n)
    BY <2>1
  <2>3. n # 0
    <3> SUFFICES ASSUME n = 0 PROVE FALSE
      OBVIOUS
    <3>1. [v \in D |-> t0] \in [D -> T]
      BY <1>0
    <3>2. Obeys([v \in D |-> t0], 0)
      BY <1>0
    <3> QED
      BY <2>2, <3>1, <3>2
  <2>4. n - 1 \in Nat /\ n - 1 \notin Bad
    <3> HIDE DEF Bad, Obeys
    <3>1. n - 1 \in Nat /\ ~(n <= n - 1)
      BY <2>2, <2>3
    <3> QED
      BY <2>1, <3>1
  <2>5. PICK f \in [D -> T] : Obeys(f, n - 1)
    BY <2>4
  <2> DEFINE g == [v \in D |-> IF rank[v] < n - 1 THEN f[v] ELSE E[<<f, v>>]]
  <2>6. g \in [D -> T]
    BY <1>0
  <2>7. ASSUME NEW v \in D, rank[v] < n
        PROVE  g[v] = E[<<g, v>>]
    <3>1. \A u \in D : rank[u] < rank[v] => f[u] = g[u]
      <4> SUFFICES ASSUME NEW u \in D, rank[u] < rank[v] PROVE f[u] = g[u]
        OBVIOUS
      <4>1. rank[u] < n - 1
        BY <1>0, <2>2, <2>7
      <4> QED
        BY <4>1
    <3>2. E[<<f, v>>] = E[<<g, v>>]
      <4> HIDE DEF g
      <4> QED
        BY <1>0, <2>6, <3>1
    <3>3. g[v] = E[<<f, v>>]
      <4>1. rank[v] < n - 1 => f[v] = E[<<f, v>>]
        BY <2>5
      <4> QED
        BY <4>1
    <3> QED
      BY <3>2, <3>3
  <2> HIDE DEF g
  <2> QED
    BY <2>2, <2>6, <2>7
<1>2. PICK f \in [D -> T] : Obeys(f, N + 1)
  <2>1. N + 1 \in Nat /\ N + 1 \notin Bad
    <3> HIDE DEF Bad
    <3> QED
      BY <1>0, <1>1
  <2> QED
    BY <2>1
<1>3. \A v \in D : f[v] = E[<<f, v>>]
  <2> SUFFICES ASSUME NEW v \in D PROVE rank[v] < N + 1
    BY <1>2
  <2> QED
    BY <1>0
<1>4. f = [v \in D |-> E[<<f, v>>]]
  BY <1>3
<1> QED
  BY <1>4

(* What is picked is a member. *)
LEMMA PickedIs ==
  ASSUME NEW s, s # {}
  PROVE  Picked(s) \in s
  BY DEF Picked

(* ... unfolded once                                                       *)
LEMMA PartSumStep ==
  ASSUME NEW S, IsFiniteSet(S), NEW f \in [S -> Int]
  PROVE  \A s \in SUBSET S : PartSum(f)[s] = SumStep(f, PartSum(f), s)
<1> DEFINE D == SUBSET S
           T == Int
           rank == [s \in D |-> Cardinality(s)]
           E == [x \in [D -> T] \X D |-> SumStep(f, x[1], x[2])]
           G == PartSum(f)
<1>1. ASSUME NEW s \in D, s # {}
      PROVE  Picked(s) \in S /\ s \ {Picked(s)} \in D /\ rank[s \ {Picked(s)}] < rank[s]
  <2>1. Picked(s) \in s
    BY <1>1, PickedIs
  <2>2. IsFiniteSet(s) /\ Cardinality(s) \in Nat
    BY FS_Subset, FS_CardinalityType
  <2>3. Cardinality(s \ {Picked(s)}) = Cardinality(s) - 1
    BY <2>1, <2>2, FS_RemoveElement
  <2>4. s \ {Picked(s)} \in D
    OBVIOUS
  <2>5. rank[s \ {Picked(s)}] = Cardinality(s \ {Picked(s)}) /\ rank[s] = Cardinality(s)
    BY <2>4
  <2> HIDE DEF rank
  <2>6. rank[s \ {Picked(s)}] < rank[s]
    BY <2>2, <2>3, <2>5
  <2> QED
    BY <2>1, <2>4, <2>6
<1>2. \A s \in D : Cardinality(s) \in Nat /\ Cardinality(s) <= Cardinality(S)
  BY FS_Subset, FS_CardinalityType
<1>3. rank \in [D -> Nat] /\ \A s \in D : rank[s] <= Cardinality(S)
  BY <1>2
<1>4. ASSUME NEW g \in [D -> T], NEW s \in D
      PROVE  SumStep(f, g, s) \in T
  <2>1. CASE s = {}
    BY <2>1 DEF SumStep
  <2>2. CASE s # {}
    <3>1. g[s \ {Picked(s)}] \in Int /\ f[Picked(s)] \in Int
      BY <1>1, <2>2
    <3> QED
      BY <2>2, <3>1 DEF SumStep
  <2> QED
    BY <2>1, <2>2
<1>5. ASSUME NEW g, NEW h, NEW s \in D, \A u \in D : rank[u] < rank[s] => g[u] = h[u]
      PROVE  SumStep(f, g, s) = SumStep(f, h, s)
  <2>1. s # {} => g[s \ {Picked(s)}] = h[s \ {Picked(s)}]
    <3> HIDE DEF rank
    <3> QED
      BY <1>1, <1>5
  <2> QED
    BY <2>1 DEF SumStep
<1>0. Cardinality(S) \in Nat
  BY FS_CardinalityType
<1> HIDE DEF D, rank
<1>6. E \in [[D -> T] \X D -> T]
  <2> HIDE DEF T
  <2> QED
    BY <1>4
<1>7. \A g, h \in [D -> T], s \in D :
        (\A u \in D : rank[u] < rank[s] => g[u] = h[u]) => E[<<g, s>>] = E[<<h, s>>]
  <2> SUFFICES ASSUME NEW g \in [D -> T], NEW h \in [D -> T], NEW s \in D,
                      \A u \in D : rank[u] < rank[s] => g[u] = h[u]
               PROVE  E[<<g, s>>] = E[<<h, s>>]
    OBVIOUS
  <2>1. SumStep(f, g, s) = SumStep(f, h, s)
    BY <1>5
  <2> HIDE DEF T
  <2>2. E[<<g, s>>] = SumStep(f, g, s) /\ E[<<h, s>>] = SumStep(f, h, s)
    OBVIOUS
  <2> QED
    BY <2>1, <2>2
<1>8. \E g \in [D -> T] : g = [s \in D |-> E[<<g, s>>]]
  <2>1. 0 \in T
    OBVIOUS
  <2> HIDE DEF T, E
  <2>2. Ranked(D, T, rank, Cardinality(S), E, 0)
    BY <1>0, <1>3, <1>6, <1>7, <2>1 DEF Ranked
  <2> QED
    BY <2>2, RankedRecursion
<1>9. \E g : g = [s \in D |-> SumStep(f, g, s)]
  <2>1. PICK g \in [D -> T] : g = [s \in D |-> E[<<g, s>>]]
    BY <1>8
  <2>2. \A s \in D : E[<<g, s>>] = SumStep(f, g, s)
    <3> HIDE DEF T
    <3> QED
      OBVIOUS
  <2> HIDE DEF E
  <2> QED
    BY <2>1, <2>2
<1>10. G = [s \in D |-> SumStep(f, G, s)]
  <2>1. D = SUBSET DOMAIN f
    BY DEF D
  <2> QED
    BY <1>9, <2>1, Zenon DEF PartSum
<1> HIDE DEF G
<1> QED
  BY <1>10 DEF D, G

(* The sum over a part of the domain does not depend on the order.         *)
SumsUp(S, f) ==
  /\ PartSum(f)[{}] = 0
  /\ \A s \in SUBSET S : PartSum(f)[s] \in Int
  /\ \A s \in SUBSET S : \A x \in s : PartSum(f)[s] = f[x] + PartSum(f)[s \ {x}]

(* ... for every member taken out, whichever one the choice is. *)
LEMMA PartSumInsert ==
  ASSUME NEW S, IsFiniteSet(S), NEW f \in [S -> Int]
  PROVE  SumsUp(S, f)
<1> DEFINE G == PartSum(f)
           B == {s \in SUBSET S : G[s] \in Int}
           C == {s \in SUBSET S : \A x \in s : G[s] = f[x] + G[s \ {x}]}
<1>1. \A s \in SUBSET S : G[s] = SumStep(f, G, s)
  BY PartSumStep
<1> HIDE DEF G
<1>2. G[{}] = 0
  BY <1>1 DEF SumStep
<1>3. \A s \in SUBSET S : s # {} => Picked(s) \in s /\ G[s] = f[Picked(s)] + G[s \ {Picked(s)}]
  BY <1>1, PickedIs DEF SumStep
<1>4. \A s \in SUBSET S : s \in B
  <2>1. {} \in B
    BY <1>2
  <2>2. ASSUME NEW s \in SUBSET S, s # {}, \A x \in s : s \ {x} \in B PROVE s \in B
    <3>1. Picked(s) \in s /\ G[s] = f[Picked(s)] + G[s \ {Picked(s)}]
      BY <1>3, <2>2
    <3>2. G[s \ {Picked(s)}] \in Int /\ f[Picked(s)] \in Int
      BY <2>2, <3>1
    <3> QED
      BY <3>1, <3>2
  <2> HIDE DEF B
  <2> QED
    BY <2>1, <2>2, EverySubset
<1>5. \A s \in SUBSET S : G[s] \in Int
  BY <1>4
<1>6. \A s \in SUBSET S : s \in C
  <2>1. {} \in C
    OBVIOUS
  <2>2. ASSUME NEW s \in SUBSET S, s # {}, \A x \in s : s \ {x} \in C PROVE s \in C
    <3> SUFFICES ASSUME NEW x \in s PROVE G[s] = f[x] + G[s \ {x}]
      OBVIOUS
    <3> DEFINE c == Picked(s)
    <3>1. c \in s /\ G[s] = f[c] + G[s \ {c}]
      BY <1>3, <2>2
    <3> HIDE DEF c
    <3>2. CASE x = c
      BY <3>1, <3>2
    <3>3. CASE x # c
      <4>1. G[s \ {c}] = f[x] + G[(s \ {c}) \ {x}]
        BY <2>2, <3>1, <3>3
      <4>2. G[s \ {x}] = f[c] + G[(s \ {x}) \ {c}]
        BY <2>2, <3>1, <3>3
      <4> DEFINE r == (s \ {c}) \ {x}
      <4>3. (s \ {x}) \ {c} = r /\ r \in SUBSET S
        OBVIOUS
      <4>4. f[x] \in Int /\ f[c] \in Int /\ G[r] \in Int
        BY <1>5, <3>1, <4>3
      <4>5. G[s \ {c}] = f[x] + G[r] /\ G[s \ {x}] = f[c] + G[r]
        BY <4>1, <4>2, <4>3
      <4> HIDE DEF r
      <4> QED
        BY <3>1, <4>4, <4>5
    <3> QED
      BY <3>2, <3>3
  <2> HIDE DEF C
  <2> QED
    BY <2>1, <2>2, EverySubset
<1> QED
  BY <1>2, <1>5, <1>6 DEF G, SumsUp

(* ... and is the sum of the function cut to that part.                    *)
LEMMA PartSumIs ==
  ASSUME NEW S, IsFiniteSet(S), NEW f \in [S -> Int], NEW T \in SUBSET S
  PROVE  SumFunction([x \in T |-> f[x]]) = PartSum(f)[T]
<1> DEFINE h == [x \in T |-> f[x]]
           B == {s \in SUBSET T : PartSum(h)[s] = PartSum(f)[s]}
<1>0. IsFiniteSet(T) /\ h \in [T -> Int] /\ DOMAIN h = T
  BY FS_Subset
<1>1. \A s \in SUBSET T : \A x \in s : h[x] = f[x]
  OBVIOUS
<1> HIDE DEF h
<1>2. /\ PartSum(f)[{}] = 0 /\ PartSum(h)[{}] = 0
      /\ \A s \in SUBSET S : \A x \in s : PartSum(f)[s] = f[x] + PartSum(f)[s \ {x}]
      /\ \A s \in SUBSET T : \A x \in s : PartSum(h)[s] = h[x] + PartSum(h)[s \ {x}]
  <2>1. SumsUp(S, f) /\ SumsUp(T, h)
    BY <1>0, PartSumInsert
  <2> QED
    BY <2>1 DEF SumsUp
<1>3. {} \in B
  BY <1>2
<1>4. ASSUME NEW s \in SUBSET T, s # {}, \A x \in s : s \ {x} \in B PROVE s \in B
  <2>1. PICK x \in s : TRUE
    BY <1>4
  <2>2. s \in SUBSET S
    OBVIOUS
  <2>3. PartSum(h)[s \ {x}] = PartSum(f)[s \ {x}]
    BY <1>4, <2>1
  <2>4. PartSum(f)[s] = f[x] + PartSum(f)[s \ {x}] /\ PartSum(h)[s] = h[x] + PartSum(h)[s \ {x}]
    BY <1>2, <2>1, <2>2
  <2> QED
    BY <1>1, <2>1, <2>3, <2>4
<1>5. \A s \in SUBSET T : s \in B
  <2> HIDE DEF B
  <2> QED
    BY <1>0, <1>3, <1>4, EverySubset
<1>6. PartSum(h)[T] = PartSum(f)[T]
  BY <1>5
<1> QED
  BY <1>0, <1>6, SumIs DEF h

(* ... for a function that agrees with it there. *)
LEMMA CutSum ==
  ASSUME NEW S, IsFiniteSet(S), NEW f \in [S -> Int], NEW T \in SUBSET S,
         NEW g \in [T -> Int], \A x \in T : g[x] = f[x]
  PROVE  SumFunction(g) = PartSum(f)[T]
<1>1. g = [x \in T |-> f[x]]
  OBVIOUS
<1> QED
  BY <1>1, PartSumIs

(* Two finite sets that share nothing add up. *)
LEMMA DisjointUnion ==
  ASSUME NEW S, NEW T, IsFiniteSet(S), IsFiniteSet(T), S \cap T = {}
  PROVE  /\ IsFiniteSet(S \cup T)
         /\ Cardinality(S \cup T) = Cardinality(S) + Cardinality(T)
<1>1. Cardinality(S \cap T) = 0
  BY FS_EmptySet
<1>2. Cardinality(S) \in Nat /\ Cardinality(T) \in Nat
  BY FS_CardinalityType
<1>3. /\ IsFiniteSet(S \cup T)
      /\ Cardinality(S \cup T) = Cardinality(S) + Cardinality(T) - Cardinality(S \cap T)
  BY FS_Union
<1> QED
  BY <1>1, <1>2, <1>3

(* What the sum of a function on a finite set obeys                        *)
LEMMA SumType ==
  ASSUME NEW S, IsFiniteSet(S), NEW f \in [S -> Int]
  PROVE  SumFunction(f) \in Int
  BY SumIs, PartSumInsert DEF SumsUp

Removed(S, f, x, U, g) ==
  /\ IsFiniteSet(S) /\ f \in [S -> Int] /\ x \in S
  /\ U = S \ {x} /\ g \in [U -> Int] /\ \A y \in U : g[y] = f[y]
(* ... a term and the sum of the rest, *)
LEMMA SumWithout ==
  ASSUME NEW S, NEW f, NEW x, NEW U, NEW g, Removed(S, f, x, U, g)
  PROVE  SumFunction(f) = f[x] + SumFunction(g)
<1>9. /\ IsFiniteSet(S) /\ f \in [S -> Int] /\ x \in S
      /\ U = S \ {x} /\ g \in [U -> Int] /\ \A y \in U : g[y] = f[y]
  BY DEF Removed
<1> USE <1>9
<1>1. SumFunction(g) = PartSum(f)[S \ {x}]
  BY CutSum
<1>2. SumFunction(f) = PartSum(f)[S] /\ S \in SUBSET S
  BY SumIs
<1>3. /\ PartSum(f)[{}] = 0
      /\ \A s \in SUBSET S : PartSum(f)[s] \in Int
      /\ \A s \in SUBSET S : \A z \in s : PartSum(f)[s] = f[z] + PartSum(f)[s \ {z}]
  <2>1. SumsUp(S, f)
    BY PartSumInsert
  <2> QED
    BY <2>1 DEF SumsUp
<1>4. PartSum(f)[S] = f[x] + PartSum(f)[S \ {x}]
  BY <1>2, <1>3
<1> QED
  BY <1>1, <1>2, <1>4

Added(S, f, g, h) ==
  /\ IsFiniteSet(S) /\ f \in [S -> Int] /\ g \in [S -> Int] /\ h \in [S -> Int]
  /\ \A x \in S : h[x] = f[x] + g[x]
(* ... of a sum, the sum of the sums, *)
LEMMA SumAdds ==
  ASSUME NEW S, NEW f, NEW g, NEW h, Added(S, f, g, h)
  PROVE  SumFunction(h) = SumFunction(f) + SumFunction(g)
<1>9. /\ IsFiniteSet(S) /\ f \in [S -> Int] /\ g \in [S -> Int] /\ h \in [S -> Int]
      /\ \A x \in S : h[x] = f[x] + g[x]
  BY DEF Added
<1> USE <1>9
<1> DEFINE B == {s \in SUBSET S : PartSum(h)[s] = PartSum(f)[s] + PartSum(g)[s]}
<1>0. h \in [S -> Int] /\ \A x \in S : h[x] = f[x] + g[x]
  OBVIOUS
<1>1. /\ PartSum(f)[{}] = 0 /\ PartSum(g)[{}] = 0 /\ PartSum(h)[{}] = 0
      /\ \A s \in SUBSET S : PartSum(f)[s] \in Int /\ PartSum(g)[s] \in Int /\ PartSum(h)[s] \in Int
      /\ \A s \in SUBSET S : \A x \in s : /\ PartSum(f)[s] = f[x] + PartSum(f)[s \ {x}]
                                          /\ PartSum(g)[s] = g[x] + PartSum(g)[s \ {x}]
                                          /\ PartSum(h)[s] = h[x] + PartSum(h)[s \ {x}]
  <2>1. \A k \in [S -> Int] : SumsUp(S, k)
    BY PartSumInsert
  <2>2. SumsUp(S, f) /\ SumsUp(S, g) /\ SumsUp(S, h)
    BY <2>1
  <2> QED
    BY <2>2 DEF SumsUp
<1>2. {} \in B
  BY <1>1
<1>3. ASSUME NEW s \in SUBSET S, s # {}, \A x \in s : s \ {x} \in B PROVE s \in B
  <2>1. PICK x \in s : TRUE
    BY <1>3
  <2> DEFINE r == s \ {x}
  <2>2. r \in SUBSET S /\ PartSum(h)[r] = PartSum(f)[r] + PartSum(g)[r]
    BY <1>3, <2>1
  <2>3. /\ PartSum(f)[s] = f[x] + PartSum(f)[r] /\ PartSum(g)[s] = g[x] + PartSum(g)[r]
        /\ PartSum(h)[s] = h[x] + PartSum(h)[r]
    BY <1>1, <2>1
  <2>4. f[x] \in Int /\ g[x] \in Int /\ h[x] = f[x] + g[x]
    BY <1>0, <2>1
  <2> HIDE DEF r
  <2>5. PartSum(f)[r] \in Int /\ PartSum(g)[r] \in Int
    BY <1>1, <2>2
  <2>6. PartSum(h)[s] = PartSum(f)[s] + PartSum(g)[s]
    BY <2>2, <2>3, <2>4, <2>5
  <2> QED
    BY <2>6
<1>4. \A s \in SUBSET S : s \in B
  <2> HIDE DEF B
  <2> QED
    BY <1>2, <1>3, EverySubset
<1> QED
  BY <1>4, SumIs

Constant(S, c, f) ==
  /\ IsFiniteSet(S) /\ c \in Int /\ f \in [S -> Int]
  /\ \A x \in S : f[x] = c
(* ... of a constant, so many times it. *)
LEMMA SumConstant ==
  ASSUME NEW S, NEW c, NEW f, Constant(S, c, f)
  PROVE  SumFunction(f) = Cardinality(S) * c
<1>9. /\ IsFiniteSet(S) /\ c \in Int /\ f \in [S -> Int]
      /\ \A x \in S : f[x] = c
  BY DEF Constant
<1> USE <1>9
<1> DEFINE B == {s \in SUBSET S : PartSum(f)[s] = Cardinality(s) * c}
<1>0. f \in [S -> Int] /\ \A x \in S : f[x] = c
  OBVIOUS
<1>1. /\ PartSum(f)[{}] = 0
      /\ \A s \in SUBSET S : PartSum(f)[s] \in Int
      /\ \A s \in SUBSET S : \A x \in s : PartSum(f)[s] = f[x] + PartSum(f)[s \ {x}]
  <2>1. SumsUp(S, f)
    BY <1>0, PartSumInsert
  <2> QED
    BY <2>1 DEF SumsUp
<1>2. {} \in B
  BY <1>1, FS_EmptySet
<1>3. ASSUME NEW s \in SUBSET S, s # {}, \A x \in s : s \ {x} \in B PROVE s \in B
  <2>1. PICK x \in s : TRUE
    BY <1>3
  <2> DEFINE n == Cardinality(s \ {x})
  <2>2. PartSum(f)[s] = c + n * c
    BY <1>0, <1>1, <1>3, <2>1
  <2>3. Cardinality(s) = n + 1 /\ n \in Nat
    <3>1. IsFiniteSet(s) /\ Cardinality(s) \in Nat
      BY FS_Subset, FS_CardinalityType
    <3>2. IsFiniteSet(s \ {x}) /\ n = Cardinality(s) - 1
      BY <2>1, <3>1, FS_RemoveElement
    <3> QED
      BY <3>1, <3>2, FS_CardinalityType
  <2> HIDE DEF n
  <2>4. c + n * c = (n + 1) * c
    BY <2>3
  <2> QED
    BY <2>2, <2>3, <2>4
<1>4. \A s \in SUBSET S : s \in B
  <2> HIDE DEF B
  <2> QED
    BY <1>2, <1>3, EverySubset
<1> QED
  BY <1>4, SumIs

(* A part of the domain and the rest *)
Split(S, f, T, g, U, h) ==
  /\ IsFiniteSet(S) /\ f \in [S -> Int] /\ T \in SUBSET S /\ U = S \ T
  /\ g \in [T -> Int] /\ \A x \in T : g[x] = f[x]
  /\ h \in [U -> Int] /\ \A x \in U : h[x] = f[x]
(* The sum is that of the part and that of the rest. *)
LEMMA SumSplits ==
  ASSUME NEW S, NEW f, NEW T, NEW g, NEW U, NEW h, Split(S, f, T, g, U, h)
  PROVE  SumFunction(f) = SumFunction(g) + SumFunction(h)
<1>9. /\ IsFiniteSet(S) /\ f \in [S -> Int] /\ T \in SUBSET S /\ U = S \ T
      /\ g \in [T -> Int] /\ \A x \in T : g[x] = f[x]
      /\ h \in [U -> Int] /\ \A x \in U : h[x] = f[x]
  BY DEF Split
<1> USE <1>9
<1> DEFINE B == {s \in SUBSET S : PartSum(f)[s] = PartSum(f)[s \cap T] + PartSum(f)[s \ T]}
<1>1. /\ PartSum(f)[{}] = 0
      /\ \A s \in SUBSET S : PartSum(f)[s] \in Int
      /\ \A s \in SUBSET S : \A x \in s : PartSum(f)[s] = f[x] + PartSum(f)[s \ {x}]
  <2>1. SumsUp(S, f)
    BY PartSumInsert
  <2> QED
    BY <2>1 DEF SumsUp
<1>2. {} \in B
  <2>1. {} \cap T = {} /\ {} \ T = {}
    OBVIOUS
  <2> QED
    BY <1>1, <2>1
<1>3. ASSUME NEW s \in SUBSET S, s # {}, \A x \in s : s \ {x} \in B PROVE s \in B
  <2>1. PICK x \in s : TRUE
    BY <1>3
  <2> DEFINE r == s \ {x}
             F(q) == PartSum(f)[q]
  <2>2. F(r) = F(r \cap T) + F(r \ T) /\ F(s) = f[x] + F(r)
    BY <1>1, <1>3, <2>1
  <2>3. f[x] \in Int /\ F(r \cap T) \in Int /\ F(r \ T) \in Int
    BY <1>1, <2>1
  <2>4. CASE x \in T
    <3>1. s \ T = r \ T /\ (s \cap T) \ {x} = r \cap T /\ x \in s \cap T /\ s \cap T \in SUBSET S
      BY <2>1, <2>4
    <3>2. F(s \cap T) = f[x] + F(r \cap T)
      BY <1>1, <3>1
    <3> HIDE DEF F, r
    <3>3. F(s \ T) = F(r \ T)
      BY <3>1
    <3>4. F(s) = F(s \cap T) + F(s \ T)
      BY <2>2, <2>3, <3>2, <3>3
    <3> QED
      BY <3>4 DEF F
  <2>5. CASE x \notin T
    <3>1. s \cap T = r \cap T /\ (s \ T) \ {x} = r \ T /\ x \in s \ T /\ s \ T \in SUBSET S
      BY <2>1, <2>5
    <3>2. F(s \ T) = f[x] + F(r \ T)
      <4> DEFINE w == s \ T
      <4>1. w \in SUBSET S /\ x \in w /\ w \ {x} = r \ T
        BY <3>1
      <4> HIDE DEF w
      <4>2. F(w) = f[x] + F(w \ {x})
        BY <1>1, <4>1
      <4> QED
        BY <4>1, <4>2 DEF w
    <3> HIDE DEF F, r
    <3>3. F(s \cap T) = F(r \cap T)
      BY <3>1
    <3>4. F(s) = F(s \cap T) + F(s \ T)
      BY <2>2, <2>3, <3>2, <3>3
    <3> QED
      BY <3>4 DEF F
  <2> QED
    BY <2>4, <2>5
<1>4. \A s \in SUBSET S : s \in B
  <2> HIDE DEF B
  <2> QED
    BY <1>2, <1>3, EverySubset
<1>5. S \cap T = T /\ S \ T \in SUBSET S /\ S \in SUBSET S
  OBVIOUS
<1>6. PartSum(f)[S] = PartSum(f)[T] + PartSum(f)[S \ T]
  BY <1>4, <1>5
<1>7. SumFunction(g) = PartSum(f)[T] /\ SumFunction(h) = PartSum(f)[S \ T]
  <2>1. SumFunction(g) = PartSum(f)[T]
    BY CutSum
  <2>2. U \in SUBSET S
    OBVIOUS
  <2>3. SumFunction(h) = PartSum(f)[U]
    BY <2>2, CutSum
  <2> QED
    BY <2>1, <2>3
<1> QED
  BY <1>6, <1>7, SumIs

(* A constant where a set is, and nothing elsewhere *)
OnlyWhere(S, T, c, f) ==
  /\ IsFiniteSet(S) /\ T \in SUBSET S /\ c \in Int /\ f \in [S -> Int]
  /\ \A x \in S : f[x] = IF x \in T THEN c ELSE 0
(* ... sums to the constant times the size of that set. *)
LEMMA SumWhere ==
  ASSUME NEW S, NEW T, NEW c, NEW f, OnlyWhere(S, T, c, f)
  PROVE  SumFunction(f) = Cardinality(T) * c
<1>9. /\ IsFiniteSet(S) /\ T \in SUBSET S /\ c \in Int /\ f \in [S -> Int]
      /\ \A x \in S : f[x] = IF x \in T THEN c ELSE 0
  BY DEF OnlyWhere
<1> USE <1>9
<1> DEFINE g == [x \in T |-> c]
           U == S \ T
           h == [x \in U |-> 0]
<1>0. IsFiniteSet(T) /\ IsFiniteSet(U) /\ Cardinality(T) \in Nat /\ Cardinality(U) \in Nat
  BY FS_Subset, FS_CardinalityType
<1>1. /\ g \in [T -> Int] /\ \A x \in T : g[x] = f[x] /\ g[x] = c
      /\ h \in [U -> Int] /\ \A x \in U : h[x] = f[x] /\ h[x] = 0 /\ U = S \ T
  OBVIOUS
<1> HIDE DEF g, h, U
<1>6. U = S \ T /\ (\A x \in T : g[x] = f[x]) /\ \A x \in U : h[x] = f[x]
  <2>1. U = S \ T
    BY DEF U
  <2> QED
    BY <1>1, <2>1
<1>2. SumFunction(f) = SumFunction(g) + SumFunction(h)
  <2>1. Split(S, f, T, g, U, h)
    BY <1>1, <1>6 DEF Split
  <2> QED
    BY <2>1, SumSplits
<1>3. SumFunction(g) = Cardinality(T) * c
  <2>1. Constant(T, c, g)
    BY <1>0, <1>1 DEF Constant
  <2> QED
    BY <2>1, SumConstant
<1>4. SumFunction(h) = Cardinality(U) * 0
  <2>1. Constant(U, 0, h)
    BY <1>0, <1>1 DEF Constant
  <2> QED
    BY <2>1, SumConstant
<1>5. Cardinality(T) * c \in Int
  BY <1>0
<1> QED
  BY <1>0, <1>2, <1>3, <1>4, <1>5

(* Smaller terms, a smaller sum *)
Below(S, f, g) ==
  /\ IsFiniteSet(S) /\ f \in [S -> Int] /\ g \in [S -> Int]
  /\ \A x \in S : f[x] <= g[x]
(* ... term by term. *)
LEMMA SumBounds ==
  ASSUME NEW S, NEW f, NEW g, Below(S, f, g)
  PROVE  SumFunction(f) <= SumFunction(g)
<1>9. /\ IsFiniteSet(S) /\ f \in [S -> Int] /\ g \in [S -> Int]
      /\ \A x \in S : f[x] <= g[x]
  BY DEF Below
<1> USE <1>9
<1> DEFINE B == {s \in SUBSET S : PartSum(f)[s] <= PartSum(g)[s]}
<1>1. /\ PartSum(f)[{}] = 0 /\ PartSum(g)[{}] = 0
      /\ \A s \in SUBSET S : PartSum(f)[s] \in Int /\ PartSum(g)[s] \in Int
      /\ \A s \in SUBSET S : \A x \in s : /\ PartSum(f)[s] = f[x] + PartSum(f)[s \ {x}]
                                          /\ PartSum(g)[s] = g[x] + PartSum(g)[s \ {x}]
  <2>1. SumsUp(S, f) /\ SumsUp(S, g)
    BY PartSumInsert
  <2> QED
    BY <2>1 DEF SumsUp
<1>2. {} \in B
  BY <1>1
<1>3. ASSUME NEW s \in SUBSET S, s # {}, \A x \in s : s \ {x} \in B PROVE s \in B
  <2>1. PICK x \in s : TRUE
    BY <1>3
  <2> DEFINE r == s \ {x}
  <2>2. r \in SUBSET S /\ PartSum(f)[r] <= PartSum(g)[r]
    BY <1>3, <2>1
  <2>3. PartSum(f)[s] = f[x] + PartSum(f)[r] /\ PartSum(g)[s] = g[x] + PartSum(g)[r]
    BY <1>1, <2>1
  <2>4. f[x] \in Int /\ g[x] \in Int /\ f[x] <= g[x]
    BY <2>1
  <2> HIDE DEF r
  <2>5. PartSum(f)[r] \in Int /\ PartSum(g)[r] \in Int
    BY <1>1, <2>2
  <2>6. PartSum(f)[s] <= PartSum(g)[s]
    BY <2>2, <2>3, <2>4, <2>5
  <2> QED
    BY <2>6
<1>4. \A s \in SUBSET S : s \in B
  <2> HIDE DEF B
  <2> QED
    BY <1>2, <1>3, EverySubset
<1> QED
  BY <1>4, SumIs

(* A set is counted by the values of a function on it. *)
Fiber(X, key, s) == {x \in X : key[x] = s}
Fibers(X, key, S) == [s \in S |-> Cardinality(Fiber(X, key, s))]
Keyed(S, X, key) ==
  /\ IsFiniteSet(S) /\ \A x \in X : key[x] \in S
  /\ \A s \in S : IsFiniteSet(Fiber(X, key, s))
(* ... its size is the sum of the sizes of those parts. *)
LEMMA CountedBy ==
  ASSUME NEW S, NEW X, NEW key, Keyed(S, X, key)
  PROVE  /\ IsFiniteSet(X)
         /\ Cardinality(X) = SumFunction(Fibers(X, key, S))
<1>9. /\ IsFiniteSet(S) /\ \A x \in X : key[x] \in S
      /\ \A s \in S : IsFiniteSet(Fiber(X, key, s))
  BY DEF Keyed
<1> USE <1>9
<1> DEFINE Of(T) == {x \in X : key[x] \in T}
           One(s) == Fiber(X, key, s)
           f == [s \in S |-> Cardinality(One(s))]
           B == {T \in SUBSET S : IsFiniteSet(Of(T)) /\ PartSum(f)[T] = Cardinality(Of(T))}
<1>1. \A s \in S : IsFiniteSet(One(s)) /\ Cardinality(One(s)) \in Nat
  <2>1. \A s \in S : IsFiniteSet(One(s))
    BY <1>9
  <2> HIDE DEF One
  <2> QED
    BY <2>1, FS_CardinalityType
<1>2. f \in [S -> Int] /\ \A s \in S : f[s] = Cardinality(One(s))
  <2> HIDE DEF One
  <2> QED
    BY <1>1
<1> HIDE DEF f
<1>3. /\ PartSum(f)[{}] = 0
      /\ \A s \in SUBSET S : PartSum(f)[s] \in Int
      /\ \A s \in SUBSET S : \A x \in s : PartSum(f)[s] = f[x] + PartSum(f)[s \ {x}]
  <2>1. SumsUp(S, f)
    BY <1>2, PartSumInsert
  <2> QED
    BY <2>1 DEF SumsUp
<1>4. {} \in B
  <2>1. Of({}) = {}
    OBVIOUS
  <2> QED
    BY <1>3, <2>1, FS_EmptySet
<1>5. ASSUME NEW T \in SUBSET S, T # {}, \A x \in T : T \ {x} \in B PROVE T \in B
  <2>1. PICK x \in T : TRUE
    BY <1>5
  <2>2. Of(T) = One(x) \cup Of(T \ {x}) /\ One(x) \cap Of(T \ {x}) = {}
    BY <2>1 DEF Fiber
  <2>3. IsFiniteSet(One(x)) /\ IsFiniteSet(Of(T \ {x})) /\ x \in S
    BY <1>1, <1>5, <2>1
  <2>4. PartSum(f)[T] = f[x] + Cardinality(Of(T \ {x}))
    BY <1>3, <1>5, <2>1
  <2> HIDE DEF One, Of
  <2>5. /\ IsFiniteSet(One(x) \cup Of(T \ {x}))
        /\ Cardinality(One(x) \cup Of(T \ {x})) = Cardinality(One(x)) + Cardinality(Of(T \ {x}))
    BY <2>2, <2>3, DisjointUnion
  <2>6. f[x] = Cardinality(One(x))
    BY <1>2, <2>3
  <2> QED
    BY <2>2, <2>4, <2>5, <2>6
<1>6. \A T \in SUBSET S : T \in B
  <2> HIDE DEF B
  <2> QED
    BY <1>4, <1>5, EverySubset
<1>7. Of(S) = X
  OBVIOUS
<1>8. IsFiniteSet(X) /\ PartSum(f)[S] = Cardinality(X)
  BY <1>6, <1>7
<1>10. SumFunction(f) = Cardinality(X)
  BY <1>2, <1>8, SumIs
<1> QED
  BY <1>8, <1>10 DEF f, Fibers

(* Two maps that undo each other *)
Inverses(S, T, f, g) ==
  /\ IsFiniteSet(S) /\ f \in [S -> T] /\ g \in [T -> S]
  /\ \A x \in S : g[f[x]] = x
  /\ \A y \in T : f[g[y]] = y
(* ... carry the size of one set to the other. *)
LEMMA SameSize ==
  ASSUME NEW S, NEW T, NEW f, NEW g, Inverses(S, T, f, g)
  PROVE  IsFiniteSet(T) /\ Cardinality(T) = Cardinality(S)
<1>9. /\ IsFiniteSet(S) /\ f \in [S -> T] /\ g \in [T -> S]
      /\ \A x \in S : g[f[x]] = x
      /\ \A y \in T : f[g[y]] = y
  BY DEF Inverses
<1> USE <1>9
<1>1. f \in Bijection(S, T)
  BY DEF Bijection, Injection, Surjection, IsInjective
<1>2. ExistsBijection(S, T)
  BY <1>1 DEF ExistsBijection
<1> QED
  BY <1>2, FS_Bijection

-----------------------------------------------------------------------------
(* The reference: the paths of a count by their length.                    *)
Edges == DOMAIN goal.graph
Usable(e) == e \in Edges /\ goal.graph[e].to \in goal.body /\ e \notin goal.cut
Chained(p) ==
  /\ \A i \in DOMAIN p : Usable(p[i])
  /\ \A i \in DOMAIN p : i + 1 \in DOMAIN p => goal.graph[p[i + 1]].from = goal.graph[p[i]].to
Once(p) == \A i, j \in DOMAIN p : p[i] = p[j] => i = j
OfLength(n, once) == {p \in [1 .. n -> Edges] : Chained(p) /\ (once => Once(p))}
Routes(n, v, once) ==
  {p \in OfLength(n, once) : goal.graph[p[1]].from = v /\ goal.graph[p[n]].to \in goal.pass}
(* ... of these, the ones that may follow e *)
After(n, v, once, e) == {q \in Routes(n, v, once) : once => \A i \in 1 .. n : q[i] # e}

(* What the type of a count says of its parts. *)
LEMMA GoalFacts ==
  ASSUME goal \in CountType
  PROVE  /\ IsFiniteSet(Edges)
         /\ \A e \in Edges : goal.graph[e].from \in Corners /\ goal.graph[e].to \in Corners
         /\ goal.min \in Nat /\ goal.max \in Nat /\ goal.trail \in BOOLEAN
         /\ Len(goal.src) \in Nat /\ DOMAIN goal.src = 1 .. Len(goal.src)
         /\ \A n \in DOMAIN goal.src : goal.src[n] \in Corners
         /\ IsFiniteSet(DOMAIN goal.src) /\ Cardinality(DOMAIN goal.src) = Len(goal.src)
<1>1. goal.graph \in Seq([from : Corners, to : Corners]) /\ goal.src \in Seq(Corners)
  BY DEF CountType
<1>2. Edges = 1 .. Len(goal.graph) /\ Len(goal.graph) \in Nat
  BY <1>1 DEF Edges
<1>3. IsFiniteSet(1 .. Len(goal.graph))
  BY <1>2, FS_Interval
<1>4. \A e \in Edges : goal.graph[e] \in [from : Corners, to : Corners]
  <2> DEFINE R == [from : Corners, to : Corners]
  <2>1. goal.graph \in Seq(R)
    BY <1>1
  <2> HIDE DEF R
  <2>2. \A e \in 1 .. Len(goal.graph) : goal.graph[e] \in R
    BY <2>1
  <2> QED
    BY <1>2, <2>2 DEF R
<1>5. DOMAIN goal.src = 1 .. Len(goal.src) /\ Len(goal.src) \in Nat
      /\ \A n \in DOMAIN goal.src : goal.src[n] \in Corners
  BY <1>1
<1>6. IsFiniteSet(1 .. Len(goal.src)) /\ Cardinality(1 .. Len(goal.src)) = Len(goal.src)
  BY <1>5, FS_Interval
<1>7. goal.min \in Nat /\ goal.max \in Nat /\ goal.trail \in BOOLEAN
  BY DEF CountType
<1> QED
  BY <1>2, <1>3, <1>4, <1>5, <1>6, <1>7

(* The hops are the usable edges by where they start. *)
LEMMA HopsAre ==
  ASSUME goal \in CountType, NEW v
  PROVE  /\ \A e : e \in HopsFrom(v) <=> Usable(e) /\ goal.graph[e].from = v
         /\ IsFiniteSet(HopsFrom(v)) /\ HopsFrom(v) \in SUBSET Edges
         /\ \A e \in HopsFrom(v) : Landing(e) \in Corners /\ Landing(e) = goal.graph[e].to
<1>1. HopsFrom(v) \in SUBSET Edges
  BY DEF HopsFrom, Edges
<1>2. IsFiniteSet(HopsFrom(v))
  BY <1>1, GoalFacts, FS_Subset
<1> QED
  BY <1>1, <1>2, GoalFacts DEF HopsFrom, Usable, Edges, Landing

(* Functions from an interval to a finite set are finitely many.           *)
LEMMA FinitelyMany ==
  ASSUME NEW E, IsFiniteSet(E)
  PROVE  \A n \in Nat : IsFiniteSet([1 .. n -> E])
<1> DEFINE B == {n \in Nat : IsFiniteSet([1 .. n -> E])}
<1>1. 0 \in B
  <2>1. [1 .. 0 -> E] \in SUBSET {[i \in 1 .. 0 |-> 0]}
    <3>1. 1 .. 0 = {}
      OBVIOUS
    <3>2. \A p \in [{} -> E] : p = [i \in {} |-> 0]
      OBVIOUS
    <3> QED
      BY <3>1, <3>2
  <2>2. IsFiniteSet({[i \in 1 .. 0 |-> 0]})
    BY FS_Singleton
  <2> QED
    BY <2>1, <2>2, FS_Subset
<1>2. ASSUME NEW n \in Nat, n \in B PROVE n + 1 \in B
  <2> DEFINE X == [1 .. n + 1 -> E]
             key == [p \in X |-> p[n + 1]]
             Y == [1 .. n -> E]
  <2>1. \A p \in X : key[p] \in E
    OBVIOUS
  <2>2. ASSUME NEW e \in E PROVE IsFiniteSet(Fiber(X, key, e))
    <3> DEFINE Z == {p \in X : key[p] = e}
               f == [q \in Y |-> [i \in 1 .. n + 1 |-> IF i = n + 1 THEN e ELSE q[i]]]
               g == [p \in Z |-> [i \in 1 .. n |-> p[i]]]
    <3>0. n + 1 \in 1 .. n + 1 /\ \A i \in 1 .. n : i \in 1 .. n + 1 /\ i # n + 1
      OBVIOUS
    <3>00. \A i \in 1 .. n + 1 : i # n + 1 => i \in 1 .. n
      OBVIOUS
    <3>1. f \in [Y -> Z]
      <4> SUFFICES ASSUME NEW q \in Y PROVE [i \in 1 .. n + 1 |-> IF i = n + 1 THEN e ELSE q[i]] \in Z
        OBVIOUS
      <4>1. [i \in 1 .. n + 1 |-> IF i = n + 1 THEN e ELSE q[i]] \in X
        BY <3>00
      <4> QED
        BY <3>0, <4>1
    <3>2. g \in [Z -> Y]
      BY <3>0
    <3>3. \A q \in Y : g[f[q]] = q
      <4> SUFFICES ASSUME NEW q \in Y PROVE g[f[q]] = q
        OBVIOUS
      <4>1. f[q] \in Z /\ f[q] = [i \in 1 .. n + 1 |-> IF i = n + 1 THEN e ELSE q[i]]
        BY <3>1
      <4>2. g[f[q]] = [i \in 1 .. n |-> f[q][i]]
        BY <4>1
      <4>3. \A i \in 1 .. n : f[q][i] = q[i]
        BY <3>0, <4>1
      <4> HIDE DEF f, g
      <4> QED
        BY <4>2, <4>3
    <3>4. \A p \in Z : f[g[p]] = p
      <4> SUFFICES ASSUME NEW p \in Z PROVE f[g[p]] = p
        OBVIOUS
      <4>1. g[p] \in Y /\ g[p] = [i \in 1 .. n |-> p[i]]
        BY <3>2
      <4>2. f[g[p]] = [i \in 1 .. n + 1 |-> IF i = n + 1 THEN e ELSE g[p][i]]
        BY <4>1
      <4>3. \A i \in 1 .. n + 1 : (IF i = n + 1 THEN e ELSE g[p][i]) = p[i]
        BY <3>00, <4>1
      <4>4. p \in [1 .. n + 1 -> E]
        OBVIOUS
      <4> HIDE DEF f, g
      <4> QED
        BY <4>2, <4>3, <4>4
    <3>5. IsFiniteSet(Y)
      BY <1>2
    <3> HIDE DEF f, g, Z, Y
    <3>6. IsFiniteSet(Z)
      <4>1. Inverses(Y, Z, f, g)
        BY <3>1, <3>2, <3>3, <3>4, <3>5 DEF Inverses
      <4> QED
        BY <4>1, SameSize
    <3> QED
      BY <3>6 DEF Z, Fiber
  <2> HIDE DEF X, key
  <2>3. IsFiniteSet(X)
    <3>1. Keyed(E, X, key)
      BY <2>1, <2>2 DEF Keyed
    <3> QED
      BY <3>1, CountedBy
  <2> QED
    BY <2>3 DEF X
<1>3. \A n \in Nat : n \in B
  <2> HIDE DEF B
  <2> QED
    BY <1>1, <1>2, EveryNumber
<1> QED
  BY <1>3

(* So are the paths of a length. *)
LEMMA RoutesAreFinite ==
  ASSUME goal \in CountType, NEW n \in Nat, NEW once
  PROVE  /\ IsFiniteSet(OfLength(n, once))
         /\ \A v : IsFiniteSet(Routes(n, v, once))
<1>1. IsFiniteSet([1 .. n -> Edges])
  BY GoalFacts, FinitelyMany
<1>2. OfLength(n, once) \in SUBSET [1 .. n -> Edges]
  BY DEF OfLength
<1>3. IsFiniteSet(OfLength(n, once))
  BY <1>1, <1>2, FS_Subset
<1>4. \A v : Routes(n, v, once) \in SUBSET OfLength(n, once)
  BY DEF Routes
<1> QED
  BY <1>3, <1>4, FS_Subset

(* A path is an edge, and a path that may follow it. *)
Put(e, n, q) == [i \in 1 .. n + 1 |-> IF i = 1 THEN e ELSE q[i - 1]]
Rest(n, p) == [i \in 1 .. n |-> p[i + 1]]
Beginning(n, v, once, e) == {p \in Routes(n, v, once) : p[1] = e}

(* A path of n hops from v, spelled out *)
LEMMA RouteIs ==
  ASSUME NEW n \in Nat, NEW v, NEW once, NEW p
  PROVE  p \in Routes(n, v, once) <=>
           /\ p \in [1 .. n -> Edges]
           /\ \A i \in 1 .. n : Usable(p[i])
           /\ \A i \in 1 .. n : i + 1 \in 1 .. n => goal.graph[p[i + 1]].from = goal.graph[p[i]].to
           /\ once => \A i, j \in 1 .. n : p[i] = p[j] => i = j
           /\ goal.graph[p[1]].from = v /\ goal.graph[p[n]].to \in goal.pass
<1>1. ASSUME p \in [1 .. n -> Edges]
      PROVE  DOMAIN p = 1 .. n
  BY <1>1
<1> QED
  BY <1>1 DEF Routes, OfLength, Chained, Once

(* ... when it is a trail. *)
LEMMA TrailIs ==
  ASSUME NEW n \in Nat, NEW v, NEW p
  PROVE  p \in Routes(n, v, TRUE) <=>
           /\ p \in [1 .. n -> Edges]
           /\ \A i \in 1 .. n : Usable(p[i])
           /\ \A i \in 1 .. n : i + 1 \in 1 .. n => goal.graph[p[i + 1]].from = goal.graph[p[i]].to
           /\ \A i, j \in 1 .. n : p[i] = p[j] => i = j
           /\ goal.graph[p[1]].from = v /\ goal.graph[p[n]].to \in goal.pass
<1>1. ASSUME p \in [1 .. n -> Edges]
      PROVE  DOMAIN p = 1 .. n
  BY <1>1
<1> QED
  BY <1>1 DEF Routes, OfLength, Chained, Once

(* It starts with a hop from v. *)
LEMMA FirstHop ==
  ASSUME goal \in CountType, NEW n \in Nat, n # 0, NEW v, NEW once, NEW p \in Routes(n, v, once)
  PROVE  p[1] \in HopsFrom(v)
<1>1. 1 \in 1 .. n
  OBVIOUS
<1>2. Usable(p[1]) /\ goal.graph[p[1]].from = v
  BY <1>1, RouteIs
<1> QED
  BY <1>2, HopsAre

(* An edge put before a path that may follow it is a path, *)
LEMMA PutIs ==
  ASSUME goal \in CountType, NEW n \in Nat, n # 0, NEW v, NEW once, NEW e \in HopsFrom(v),
         NEW q \in After(n, Landing(e), once, e)
  PROVE  /\ Put(e, n, q) \in Beginning(n + 1, v, once, e)
         /\ Rest(n, Put(e, n, q)) = q
<1> DEFINE p == Put(e, n, q)
<1>1. Usable(e) /\ goal.graph[e].from = v /\ Landing(e) = goal.graph[e].to /\ e \in Edges
  BY HopsAre
<1>2. /\ q \in [1 .. n -> Edges]
      /\ \A i \in 1 .. n : Usable(q[i])
      /\ \A i \in 1 .. n : i + 1 \in 1 .. n => goal.graph[q[i + 1]].from = goal.graph[q[i]].to
      /\ once => \A i, j \in 1 .. n : q[i] = q[j] => i = j
      /\ goal.graph[q[1]].from = Landing(e) /\ goal.graph[q[n]].to \in goal.pass
      /\ once => \A i \in 1 .. n : q[i] # e
  <2>1. q \in Routes(n, Landing(e), once) /\ (once => \A i \in 1 .. n : q[i] # e)
    BY DEF After
  <2> QED
    BY <2>1, RouteIs
<1>3. /\ \A i \in 1 .. n + 1 : i # 1 => i - 1 \in 1 .. n
      /\ 1 \in 1 .. n + 1 /\ n + 1 \in 1 .. n + 1 /\ n + 1 # 1 /\ (n + 1) - 1 = n
      /\ \A i \in 1 .. n : i + 1 \in 1 .. n + 1 /\ i + 1 # 1 /\ (i + 1) - 1 = i
  OBVIOUS
<1>4. p \in [1 .. n + 1 -> Edges] /\ p[1] = e /\ \A i \in 1 .. n : p[i + 1] = q[i]
  BY <1>1, <1>2, <1>3 DEF Put
<1>5. \A i \in 1 .. n + 1 : i # 1 => i - 1 \in 1 .. n /\ p[i] = q[i - 1]
  BY <1>2, <1>3 DEF Put
<1> HIDE DEF p
<1>6. \A i \in 1 .. n + 1 : Usable(p[i])
  BY <1>1, <1>2, <1>4, <1>5
<1>7. ASSUME NEW i \in 1 .. n + 1, i + 1 \in 1 .. n + 1
      PROVE  goal.graph[p[i + 1]].from = goal.graph[p[i]].to
  <2>0. i \in 1 .. n
    BY <1>7
  <2>1. p[i + 1] = q[i]
    BY <1>4, <2>0
  <2>2. CASE i = 1
    BY <1>1, <1>2, <1>4, <2>1, <2>2
  <2>3. CASE i # 1
    <3>1. i - 1 \in 1 .. n /\ (i - 1) + 1 = i /\ (i - 1) + 1 \in 1 .. n /\ p[i] = q[i - 1]
      BY <1>5, <2>0, <2>3
    <3>2. goal.graph[q[(i - 1) + 1]].from = goal.graph[q[i - 1]].to
      BY <1>2, <3>1
    <3> QED
      BY <2>1, <3>1, <3>2
  <2> QED
    BY <2>2, <2>3
<1>8. ASSUME once, NEW i \in 1 .. n + 1, NEW j \in 1 .. n + 1, p[i] = p[j]
      PROVE  i = j
  <2>1. CASE i = 1 /\ j = 1
    BY <2>1
  <2>2. CASE i = 1 /\ j # 1
    <3>1. j - 1 \in 1 .. n /\ p[j] = q[j - 1]
      BY <1>5, <2>2
    <3> QED
      BY <1>2, <1>4, <1>8, <2>2, <3>1
  <2>3. CASE i # 1 /\ j = 1
    <3>1. i - 1 \in 1 .. n /\ p[i] = q[i - 1]
      BY <1>5, <2>3
    <3> QED
      BY <1>2, <1>4, <1>8, <2>3, <3>1
  <2>4. CASE i # 1 /\ j # 1
    <3>1. /\ i - 1 \in 1 .. n /\ p[i] = q[i - 1] /\ j - 1 \in 1 .. n /\ p[j] = q[j - 1]
      BY <1>5, <2>4
    <3>2. i - 1 = j - 1
      BY <1>2, <1>8, <3>1
    <3> QED
      BY <3>2
  <2> QED
    BY <2>1, <2>2, <2>3, <2>4
<1>9. goal.graph[p[1]].from = v /\ goal.graph[p[n + 1]].to \in goal.pass
  <2>1. n \in 1 .. n
    OBVIOUS
  <2>2. p[n + 1] = q[n]
    BY <1>4, <2>1
  <2> QED
    BY <1>1, <1>2, <1>4, <2>2
<1>10. n + 1 \in Nat
  OBVIOUS
<1>11. p \in Routes(n + 1, v, once)
  BY <1>4, <1>6, <1>7, <1>8, <1>9, <1>10, RouteIs
<1>12. Rest(n, p) = q
  <2>1. Rest(n, p) = [i \in 1 .. n |-> q[i]]
    BY <1>4 DEF Rest
  <2> QED
    BY <1>2, <2>1
<1> QED
  BY <1>4, <1>11, <1>12 DEF Beginning, p

(* and a path without its first hop may follow that hop. *)
LEMMA RestIs ==
  ASSUME goal \in CountType, NEW n \in Nat, n # 0, NEW v, NEW once, NEW e \in HopsFrom(v),
         NEW p \in Beginning(n + 1, v, once, e)
  PROVE  /\ Rest(n, p) \in After(n, Landing(e), once, e)
         /\ Put(e, n, Rest(n, p)) = p
<1> DEFINE q == Rest(n, p)
<1>1. Usable(e) /\ goal.graph[e].from = v /\ Landing(e) = goal.graph[e].to /\ e \in Edges
  BY HopsAre
<1>0. n + 1 \in Nat
  OBVIOUS
<1>2. /\ p \in [1 .. n + 1 -> Edges]
      /\ \A i \in 1 .. n + 1 : Usable(p[i])
      /\ \A i \in 1 .. n + 1 : i + 1 \in 1 .. n + 1 => goal.graph[p[i + 1]].from = goal.graph[p[i]].to
      /\ once => \A i, j \in 1 .. n + 1 : p[i] = p[j] => i = j
      /\ goal.graph[p[1]].from = v /\ goal.graph[p[n + 1]].to \in goal.pass
      /\ p[1] = e
  <2>1. p \in Routes(n + 1, v, once) /\ p[1] = e
    BY DEF Beginning
  <2> HIDE DEF q
  <2> QED
    BY <1>0, <2>1, RouteIs
<1>3. /\ 1 \in 1 .. n + 1 /\ 1 \in 1 .. n /\ n \in 1 .. n /\ 1 + 1 \in 1 .. n + 1
      /\ \A i \in 1 .. n : i \in 1 .. n + 1 /\ i + 1 \in 1 .. n + 1 /\ i + 1 # 1
      /\ \A i \in 1 .. n + 1 : i # 1 => i - 1 \in 1 .. n /\ (i - 1) + 1 = i
  OBVIOUS
<1>4. q \in [1 .. n -> Edges] /\ \A i \in 1 .. n : q[i] = p[i + 1]
  BY <1>2, <1>3 DEF Rest
<1> HIDE DEF q
<1>5. \A i \in 1 .. n : Usable(q[i])
  BY <1>2, <1>3, <1>4
<1>6. ASSUME NEW i \in 1 .. n, i + 1 \in 1 .. n
      PROVE  goal.graph[q[i + 1]].from = goal.graph[q[i]].to
  <2>1. i + 1 \in 1 .. n + 1 /\ (i + 1) + 1 \in 1 .. n + 1
    BY <1>3, <1>6
  <2>2. q[i + 1] = p[(i + 1) + 1] /\ q[i] = p[i + 1]
    BY <1>4, <1>6
  <2> QED
    BY <1>2, <2>1, <2>2
<1>7. ASSUME once, NEW i \in 1 .. n, NEW j \in 1 .. n, q[i] = q[j]
      PROVE  i = j
  <2>1. i + 1 = j + 1
    BY <1>2, <1>3, <1>4, <1>7
  <2> QED
    BY <2>1
<1>8. goal.graph[q[1]].from = Landing(e) /\ goal.graph[q[n]].to \in goal.pass
  <2>1. q[1] = p[1 + 1] /\ q[n] = p[n + 1]
    BY <1>3, <1>4
  <2> QED
    BY <1>1, <1>2, <1>3, <2>1
<1>9. once => \A i \in 1 .. n : q[i] # e
  <2> SUFFICES ASSUME once, NEW i \in 1 .. n, q[i] = e PROVE FALSE
    OBVIOUS
  <2>1. p[i + 1] = p[1] /\ i + 1 \in 1 .. n + 1 /\ i + 1 # 1
    BY <1>2, <1>3, <1>4
  <2> QED
    BY <1>2, <1>3, <2>1
<1>10. q \in Routes(n, Landing(e), once)
  BY <1>4, <1>5, <1>6, <1>7, <1>8, RouteIs
<1>11. Put(e, n, q) = p
  <2>1. \A i \in 1 .. n + 1 : (IF i = 1 THEN e ELSE q[i - 1]) = p[i]
    BY <1>2, <1>3, <1>4
  <2>2. Put(e, n, q) = [i \in 1 .. n + 1 |-> p[i]]
    BY <2>1 DEF Put
  <2> QED
    BY <1>2, <2>2
<1> QED
  BY <1>9, <1>10, <1>11 DEF After, q

(* There are finitely many paths that may follow an edge. *)
LEMMA AfterIsFinite ==
  ASSUME goal \in CountType, NEW n \in Nat, NEW v, NEW once, NEW e
  PROVE  IsFiniteSet(After(n, v, once, e)) /\ Cardinality(After(n, v, once, e)) \in Nat
<1>1. After(n, v, once, e) \in SUBSET Routes(n, v, once)
  BY DEF After
<1>2. IsFiniteSet(After(n, v, once, e))
  BY <1>1, RoutesAreFinite, FS_Subset
<1> QED
  BY <1>2, FS_CardinalityType

(* The paths that begin with an edge are those that may follow it. *)
LEMMA Prefixed ==
  ASSUME goal \in CountType, NEW n \in Nat, n # 0, NEW v, NEW once, NEW e \in HopsFrom(v)
  PROVE  /\ IsFiniteSet(Beginning(n + 1, v, once, e))
         /\ Cardinality(Beginning(n + 1, v, once, e)) = Cardinality(After(n, Landing(e), once, e))
<1> DEFINE Y == After(n, Landing(e), once, e)
           Z == Beginning(n + 1, v, once, e)
           f == [q \in Y |-> Put(e, n, q)]
           g == [p \in Z |-> Rest(n, p)]
<1>1. f \in [Y -> Z] /\ \A q \in Y : Rest(n, f[q]) = q
  BY PutIs
<1>2. g \in [Z -> Y] /\ \A p \in Z : Put(e, n, g[p]) = p
  BY RestIs
<1>3. (\A q \in Y : g[f[q]] = q) /\ (\A p \in Z : f[g[p]] = p)
  <2>1. (\A p \in Z : g[p] = Rest(n, p)) /\ (\A q \in Y : f[q] = Put(e, n, q))
    OBVIOUS
  <2> HIDE DEF f, g, Y, Z
  <2> QED
    BY <1>1, <1>2, <2>1
<1>4. IsFiniteSet(Y)
  BY AfterIsFinite
<1> HIDE DEF f, g, Y, Z
<1>5. IsFiniteSet(Z) /\ Cardinality(Z) = Cardinality(Y)
  <2>1. Inverses(Y, Z, f, g)
    BY <1>1, <1>2, <1>3, <1>4 DEF Inverses
  <2> QED
    BY <2>1, SameSize
<1> QED
  BY <1>5 DEF Y, Z

(* The paths from a node, by their first hop *)
LEMMA Unfolded ==
  ASSUME goal \in CountType, NEW n \in Nat, n # 0, NEW v, NEW once
  PROVE  Cardinality(Routes(n + 1, v, once)) =
           SumFunction([e \in HopsFrom(v) |-> Cardinality(After(n, Landing(e), once, e))])
<1> DEFINE X == Routes(n + 1, v, once)
           key == [p \in X |-> p[1]]
           f == [e \in HopsFrom(v) |-> Cardinality(Fiber(X, key, e))]
<1>1. \A p \in X : key[p] \in HopsFrom(v)
  <2>1. n + 1 \in Nat /\ n + 1 # 0
    OBVIOUS
  <2> QED
    BY <2>1, FirstHop
<1>2. \A e \in HopsFrom(v) :
        /\ IsFiniteSet(Fiber(X, key, e))
        /\ Cardinality(Fiber(X, key, e)) = Cardinality(After(n, Landing(e), once, e))
  <2> SUFFICES ASSUME NEW e \in HopsFrom(v)
               PROVE  /\ IsFiniteSet(Fiber(X, key, e))
                      /\ Cardinality(Fiber(X, key, e)) = Cardinality(After(n, Landing(e), once, e))
    OBVIOUS
  <2>1. Fiber(X, key, e) = Beginning(n + 1, v, once, e)
    BY DEF Fiber, Beginning
  <2> QED
    BY <2>1, Prefixed
<1>3. IsFiniteSet(HopsFrom(v))
  BY HopsAre
<1> HIDE DEF X, key
<1>6. \A e \in HopsFrom(v) : IsFiniteSet(Fiber(X, key, e))
  BY <1>2
<1>4. Cardinality(X) = SumFunction([s \in HopsFrom(v) |-> Cardinality(Fiber(X, key, s))])
  <2> DEFINE H == HopsFrom(v)
  <2>1. IsFiniteSet(H) /\ (\A p \in X : key[p] \in H) /\ \A e \in H : IsFiniteSet(Fiber(X, key, e))
    BY <1>1, <1>3, <1>6
  <2> HIDE DEF H
  <2>2. IsFiniteSet(X) /\ Cardinality(X) = SumFunction(Fibers(X, key, H))
    <3>1. Keyed(H, X, key)
      BY <2>1 DEF Keyed
    <3> QED
      BY <3>1, CountedBy
  <2> QED
    BY <2>2 DEF H, Fibers
<1>5. f = [e \in HopsFrom(v) |-> Cardinality(After(n, Landing(e), once, e))]
  BY <1>2
<1> QED
  BY <1>4, <1>5 DEF X

(* Walks may be followed by anything. *)
LEMMA WalksUnfolded ==
  ASSUME goal \in CountType, NEW n \in Nat, n # 0, NEW v
  PROVE  Cardinality(Routes(n + 1, v, FALSE)) =
           SumFunction([e \in HopsFrom(v) |-> Cardinality(Routes(n, Landing(e), FALSE))])
<1>1. \A e : After(n, Landing(e), FALSE, e) = Routes(n, Landing(e), FALSE)
  BY DEF After
<1>2. Cardinality(Routes(n + 1, v, FALSE)) =
        SumFunction([e \in HopsFrom(v) |-> Cardinality(After(n, Landing(e), FALSE, e))])
  BY Unfolded
<1> QED
  BY <1>1, <1>2

-----------------------------------------------------------------------------
(* Paths of one hop                                                        *)
Ends(v) == {e \in HopsFrom(v) : Landing(e) \in goal.pass}
Single(e) == [i \in 1 .. 1 |-> e]

(* The hops from v that end where the predicate allows *)
LEMMA EndsAre ==
  ASSUME goal \in CountType, NEW v
  PROVE  /\ Ends(v) \in SUBSET HopsFrom(v) /\ IsFiniteSet(Ends(v))
         /\ Cardinality(Ends(v)) = PassDegree(v) /\ PassDegree(v) \in Nat
<1>1. Ends(v) \in SUBSET HopsFrom(v)
  BY DEF Ends
<1>2. IsFiniteSet(Ends(v))
  BY <1>1, HopsAre, FS_Subset
<1>3. Cardinality(Ends(v)) = PassDegree(v)
  BY DEF Ends, PassDegree
<1> QED
  BY <1>1, <1>2, <1>3, FS_CardinalityType

(* A path of one hop is such an edge. *)
LEMMA SinglesAre ==
  ASSUME goal \in CountType, NEW v, NEW once
  PROVE  /\ \A e \in Ends(v) : Single(e) \in Routes(1, v, once) /\ Single(e)[1] = e
         /\ \A q \in Routes(1, v, once) : q[1] \in Ends(v) /\ Single(q[1]) = q
<1>1. 1 \in Nat /\ 1 .. 1 = {1}
  OBVIOUS
<1>2. ASSUME NEW e \in Ends(v)
      PROVE  Single(e) \in Routes(1, v, once) /\ Single(e)[1] = e
  <2>1. Usable(e) /\ goal.graph[e].from = v /\ Landing(e) = goal.graph[e].to /\ Landing(e) \in goal.pass
        /\ e \in Edges
    BY HopsAre DEF Ends
  <2>2. Single(e) \in [1 .. 1 -> Edges] /\ \A i \in 1 .. 1 : Single(e)[i] = e
    BY <2>1 DEF Single
  <2>3. \A i \in 1 .. 1 : i = 1 /\ ~(i + 1 \in 1 .. 1)
    OBVIOUS
  <2>4. Single(e)[1] = e
    BY <1>1, <2>2
  <2>5. Single(e) \in Routes(1, v, once)
    <3> DEFINE p == Single(e)
    <3>1. /\ p \in [1 .. 1 -> Edges]
          /\ \A i \in 1 .. 1 : Usable(p[i])
          /\ \A i \in 1 .. 1 : i + 1 \in 1 .. 1 => goal.graph[p[i + 1]].from = goal.graph[p[i]].to
          /\ once => \A i, j \in 1 .. 1 : p[i] = p[j] => i = j
          /\ goal.graph[p[1]].from = v /\ goal.graph[p[1]].to \in goal.pass
      BY <2>1, <2>2, <2>3, <2>4
    <3> HIDE DEF p
    <3>2. p \in Routes(1, v, once)
      BY <1>1, <3>1, RouteIs
    <3> QED
      BY <3>2 DEF p
  <2> QED
    BY <2>4, <2>5
<1>3. ASSUME NEW q \in Routes(1, v, once)
      PROVE  q[1] \in Ends(v) /\ Single(q[1]) = q
  <2>1. /\ q \in [1 .. 1 -> Edges] /\ Usable(q[1]) /\ goal.graph[q[1]].from = v
        /\ goal.graph[q[1]].to \in goal.pass
    <3>1. /\ q \in [1 .. 1 -> Edges]
          /\ \A i \in 1 .. 1 : Usable(q[i])
          /\ goal.graph[q[1]].from = v /\ goal.graph[q[1]].to \in goal.pass
      <4>1. ASSUME NEW n \in Nat, n = 1
            PROVE  /\ q \in [1 .. n -> Edges]
                   /\ \A i \in 1 .. n : Usable(q[i])
                   /\ goal.graph[q[1]].from = v /\ goal.graph[q[n]].to \in goal.pass
        <5>1. q \in Routes(n, v, once)
          BY <4>1
        <5> QED
          BY <5>1, RouteIs
      <4> QED
        BY <1>1, <4>1
    <3> QED
      BY <1>1, <3>1
  <2>2. q[1] \in Ends(v)
    BY <2>1, HopsAre DEF Ends
  <2>3. \A i \in 1 .. 1 : q[1] = q[i]
    BY <1>1
  <2>4. Single(q[1]) = q
    BY <2>1, <2>3 DEF Single
  <2> QED
    BY <2>2, <2>4
<1> QED
  BY <1>2, <1>3

(* ... as many as the edges they take, of any of the edges                 *)
LEMMA SinglesIn ==
  ASSUME goal \in CountType, NEW v, NEW once, NEW M \in SUBSET Ends(v)
  PROVE  Cardinality({q \in Routes(1, v, once) : q[1] \in M}) = Cardinality(M)
<1> DEFINE X == {q \in Routes(1, v, once) : q[1] \in M}
           f == [e \in M |-> Single(e)]
           g == [q \in X |-> q[1]]
<1>1. f \in [M -> X]
  BY SinglesAre
<1>2. g \in [X -> M]
  OBVIOUS
<1>3. \A e \in M : g[f[e]] = e
  <2> SUFFICES ASSUME NEW e \in M PROVE g[f[e]] = e
    OBVIOUS
  <2>1. f[e] = Single(e) /\ f[e] \in X /\ Single(e)[1] = e
    BY <1>1, SinglesAre
  <2>2. g[f[e]] = f[e][1]
    BY <2>1
  <2> QED
    BY <2>1, <2>2
<1>4. \A q \in X : f[g[q]] = q
  <2> SUFFICES ASSUME NEW q \in X PROVE f[g[q]] = q
    OBVIOUS
  <2>1. g[q] = q[1] /\ q[1] \in M /\ Single(q[1]) = q
    BY SinglesAre
  <2>2. f[q[1]] = Single(q[1])
    BY <2>1
  <2> QED
    BY <2>1, <2>2
<1>5. IsFiniteSet(M)
  BY EndsAre, FS_Subset
<1> HIDE DEF X, f, g
<1>6. Inverses(M, X, f, g)
  BY <1>1, <1>2, <1>3, <1>4, <1>5 DEF Inverses
<1> QED
  BY <1>6, SameSize DEF X

(* ... so the degree counts the paths of one hop, *)
LEMMA SingleCount ==
  ASSUME goal \in CountType, NEW v, NEW once
  PROVE  Cardinality(Routes(1, v, once)) = PassDegree(v)
<1>1. {q \in Routes(1, v, once) : q[1] \in Ends(v)} = Routes(1, v, once)
  BY SinglesAre
<1>2. Ends(v) \in SUBSET Ends(v)
  OBVIOUS
<1>3. Cardinality({q \in Routes(1, v, once) : q[1] \in Ends(v)}) = Cardinality(Ends(v))
  BY <1>2, SinglesIn
<1> QED
  BY <1>1, <1>3, EndsAre

(* and those that may follow an edge. *)
LEMMA SingleAfter ==
  ASSUME goal \in CountType, NEW v, NEW once \in BOOLEAN, NEW e
  PROVE  Cardinality(After(1, v, once, e)) =
           PassDegree(v) - (IF once /\ e \in Ends(v) THEN 1 ELSE 0)
<1>1. CASE ~once
  <2>1. After(1, v, once, e) = Routes(1, v, once)
    BY <1>1 DEF After
  <2> QED
    BY <1>1, <2>1, SingleCount, EndsAre
<1>2. CASE once
  <2>1. After(1, v, once, e) = {q \in Routes(1, v, once) : q[1] \in Ends(v) \ {e}}
    <3>1. 1 .. 1 = {1}
      OBVIOUS
    <3> QED
      BY <1>2, <3>1, SinglesAre DEF After
  <2>2. Ends(v) \ {e} \in SUBSET Ends(v)
    OBVIOUS
  <2>3. Cardinality(After(1, v, once, e)) = Cardinality(Ends(v) \ {e})
    <3> DEFINE M == Ends(v) \ {e}
    <3>1. M \in SUBSET Ends(v)
      BY <2>2
    <3> HIDE DEF M
    <3>2. Cardinality({q \in Routes(1, v, once) : q[1] \in M}) = Cardinality(M)
      BY <3>1, SinglesIn
    <3> QED
      BY <2>1, <3>2 DEF M
  <2>4. Cardinality(Ends(v) \ {e}) =
          IF e \in Ends(v) THEN Cardinality(Ends(v)) - 1 ELSE Cardinality(Ends(v))
    BY EndsAre, FS_RemoveElement
  <2>5. Cardinality(Ends(v)) = PassDegree(v) /\ PassDegree(v) \in Nat
    BY EndsAre
  <2>6. CASE e \in Ends(v)
    BY <1>2, <2>3, <2>4, <2>5, <2>6
  <2>7. CASE e \notin Ends(v)
    <3>1. (IF once /\ e \in Ends(v) THEN 1 ELSE 0) = 0
      BY <2>7
    <3>2. Cardinality(After(1, v, once, e)) = PassDegree(v)
      BY <2>3, <2>4, <2>5, <2>7
    <3> QED
      BY <2>5, <3>1, <3>2
  <2> QED
    BY <2>6, <2>7
<1> QED
  BY <1>1, <1>2

(* The loops of a node *)
Loops(v) == {e \in HopsFrom(v) : Landing(e) = v}
(* The loops of a node are what SelfLoops counts. *)
LEMMA LoopsAre ==
  ASSUME goal \in CountType, NEW v
  PROVE  /\ Loops(v) \in SUBSET HopsFrom(v) /\ IsFiniteSet(Loops(v))
         /\ Cardinality(Loops(v)) = SelfLoops(v) /\ SelfLoops(v) \in Nat
         /\ Mult(v, v) = SelfLoops(v)
<1>1. Loops(v) \in SUBSET HopsFrom(v)
  BY DEF Loops
<1>2. IsFiniteSet(Loops(v))
  BY <1>1, HopsAre, FS_Subset
<1>3. Cardinality(Loops(v)) = SelfLoops(v) /\ Mult(v, v) = SelfLoops(v)
  BY DEF Loops, SelfLoops, Mult
<1> QED
  BY <1>1, <1>2, <1>3, FS_CardinalityType

(* The predicate on the end, as a number *)
LEMMA PassIs == \A v : Pass(v) \in {0, 1} /\ (Pass(v) = 1 <=> v \in goal.pass)
  BY DEF Pass

(* An edge from v that could be taken from the node it reaches is a loop.  *)
LEMMA BackAtOnce ==
  ASSUME goal \in CountType, NEW v, NEW e \in HopsFrom(v)
  PROVE  /\ e \in HopsFrom(Landing(e)) <=> Landing(e) = v
         /\ e \in Ends(Landing(e)) <=> Landing(e) = v /\ v \in goal.pass
<1>1. e \in HopsFrom(Landing(e)) <=> Landing(e) = v
  BY HopsAre
<1> QED
  BY <1>1 DEF Ends

(* Trails of two hops: all walks but a loop taken twice                    *)
LEMMA Trails2 ==
  ASSUME goal \in CountType, NEW v
  PROVE  Cardinality(Routes(2, v, TRUE)) =
           Cardinality(Routes(2, v, FALSE)) - SelfLoops(v) * Pass(v)
<1> DEFINE H == HopsFrom(v)
           f == [e \in H |-> Cardinality(After(1, Landing(e), TRUE, e))]
           g == [e \in H |-> IF e \in Loops(v) THEN Pass(v) ELSE 0]
           h == [e \in H |-> PassDegree(Landing(e))]
<1>1. 1 \in Nat /\ 1 # 0 /\ 1 + 1 = 2
  OBVIOUS
<1>2. Cardinality(Routes(2, v, TRUE)) = SumFunction(f)
  BY <1>1, Unfolded
<1>3. Cardinality(Routes(2, v, FALSE)) = SumFunction(h)
  <2>1. Cardinality(Routes(2, v, FALSE)) = SumFunction([e \in H |-> Cardinality(Routes(1, Landing(e), FALSE))])
    BY <1>1, WalksUnfolded
  <2>2. \A e \in H : Cardinality(Routes(1, Landing(e), FALSE)) = PassDegree(Landing(e))
    BY SingleCount
  <2> QED
    BY <2>1, <2>2
<1>4. ASSUME NEW e \in H
      PROVE  /\ f[e] \in Int /\ g[e] \in Int /\ h[e] \in Int /\ h[e] = f[e] + g[e]
  <2>1. f[e] = PassDegree(Landing(e)) - (IF e \in Ends(Landing(e)) THEN 1 ELSE 0)
    BY SingleAfter
  <2>2. PassDegree(Landing(e)) \in Nat
    BY EndsAre
  <2>3. g[e] = IF Landing(e) = v /\ v \in goal.pass THEN 1 ELSE 0
    BY DEF Loops, Pass
  <2>4. h[e] = PassDegree(Landing(e))
    OBVIOUS
  <2> HIDE DEF f, g, h
  <2> QED
    BY <2>1, <2>2, <2>3, <2>4, BackAtOnce
<1>5. IsFiniteSet(H)
  BY HopsAre
<1>6. f \in [H -> Int] /\ g \in [H -> Int] /\ h \in [H -> Int] /\ \A e \in H : h[e] = f[e] + g[e]
  BY <1>4
<1>7. SumFunction(h) = SumFunction(f) + SumFunction(g)
  <2> HIDE DEF H, f, g, h
  <2>1. Added(H, f, g, h)
    BY <1>5, <1>6 DEF Added
  <2> QED
    BY <2>1, SumAdds
<1>8. SumFunction(g) = Cardinality(Loops(v)) * Pass(v)
  <2>1. Loops(v) \in SUBSET H /\ Pass(v) \in Int /\ \A e \in H : g[e] = IF e \in Loops(v) THEN Pass(v) ELSE 0
    BY LoopsAre, PassIs
  <2> HIDE DEF H, g
  <2>2. OnlyWhere(H, Loops(v), Pass(v), g)
    BY <1>5, <1>6, <2>1 DEF OnlyWhere
  <2> QED
    BY <2>2, SumWhere
<1>9. SumFunction(f) \in Int
  BY <1>5, <1>6, SumType
<1> HIDE DEF f, g, h
<1> DEFINE x == SelfLoops(v) * Pass(v)
<1>10. x \in Int
  BY LoopsAre, PassIs
<1>11. SumFunction(g) = x
  BY <1>8, LoopsAre
<1> HIDE DEF x
<1>12. SumFunction(f) = SumFunction(h) - x
  BY <1>7, <1>9, <1>10, <1>11
<1> QED
  BY <1>2, <1>3, <1>12 DEF x

-----------------------------------------------------------------------------
(* Trails of two hops                                                      *)
Pair(a, b) == [i \in 1 .. 2 |-> IF i = 1 THEN a ELSE b]

(* Two different edges in a row are a trail of two hops, *)
LEMMA PairIs ==
  ASSUME goal \in CountType, NEW v, NEW a \in HopsFrom(v), NEW b \in Ends(Landing(a)), a # b
  PROVE  Pair(a, b) \in Routes(2, v, TRUE) /\ Pair(a, b)[1] = a /\ Pair(a, b)[2] = b
<1> DEFINE p == Pair(a, b)
<1>0. 1 .. 2 = {1, 2} /\ 2 \in Nat /\ 1 + 1 = 2 /\ ~(2 + 1 \in 1 .. 2) /\ 1 # 2
  OBVIOUS
<1>1. /\ Usable(a) /\ goal.graph[a].from = v /\ Landing(a) = goal.graph[a].to /\ a \in Edges
      /\ Usable(b) /\ goal.graph[b].from = Landing(a) /\ Landing(b) = goal.graph[b].to /\ b \in Edges
      /\ Landing(b) \in goal.pass
  <2>1. b \in HopsFrom(Landing(a)) /\ Landing(b) \in goal.pass
    BY DEF Ends
  <2> QED
    BY <2>1, HopsAre
<1>2. p \in [1 .. 2 -> Edges] /\ p[1] = a /\ p[2] = b
  BY <1>0, <1>1 DEF Pair
<1> HIDE DEF p
<1>3. \A i \in 1 .. 2 : Usable(p[i])
  BY <1>0, <1>1, <1>2
<1>4. \A i \in 1 .. 2 : i + 1 \in 1 .. 2 => goal.graph[p[i + 1]].from = goal.graph[p[i]].to
  <2> SUFFICES ASSUME NEW i \in 1 .. 2, i + 1 \in 1 .. 2
               PROVE  goal.graph[p[i + 1]].from = goal.graph[p[i]].to
    OBVIOUS
  <2>1. i = 1
    BY <1>0
  <2> QED
    BY <1>0, <1>1, <1>2, <2>1
<1>5. \A i, j \in 1 .. 2 : p[i] = p[j] => i = j
  BY <1>0, <1>2
<1>6. goal.graph[p[1]].from = v /\ goal.graph[p[2]].to \in goal.pass
  BY <1>1, <1>2
<1>7. ASSUME NEW n \in Nat, n = 2 PROVE p \in Routes(n, v, TRUE)
  <2>1. /\ p \in [1 .. n -> Edges]
        /\ \A i \in 1 .. n : Usable(p[i])
        /\ \A i \in 1 .. n : i + 1 \in 1 .. n => goal.graph[p[i + 1]].from = goal.graph[p[i]].to
        /\ \A i, j \in 1 .. n : p[i] = p[j] => i = j
        /\ goal.graph[p[1]].from = v /\ goal.graph[p[n]].to \in goal.pass
    BY <1>2, <1>3, <1>4, <1>5, <1>6, <1>7
  <2> QED
    BY <1>7, <2>1, TrailIs
<1> QED
  BY <1>0, <1>2, <1>7 DEF p

(* and every trail of two hops is such a pair. *)
LEMMA PairsOnly ==
  ASSUME goal \in CountType, NEW v, NEW q \in Routes(2, v, TRUE)
  PROVE  /\ q[1] \in HopsFrom(v) /\ q[2] \in Ends(Landing(q[1])) /\ q[1] # q[2]
         /\ Pair(q[1], q[2]) = q
<1>0. 1 .. 2 = {1, 2} /\ 2 \in Nat /\ 1 + 1 = 2 /\ 1 # 2
  OBVIOUS
<1>1. ASSUME NEW n \in Nat, n = 2
      PROVE  /\ q \in [1 .. n -> Edges]
             /\ \A i \in 1 .. n : Usable(q[i])
             /\ \A i \in 1 .. n : i + 1 \in 1 .. n => goal.graph[q[i + 1]].from = goal.graph[q[i]].to
             /\ \A i, j \in 1 .. n : q[i] = q[j] => i = j
             /\ goal.graph[q[1]].from = v /\ goal.graph[q[n]].to \in goal.pass
  <2>1. q \in Routes(n, v, TRUE)
    BY <1>1
  <2> QED
    BY <2>1, TrailIs
<1>2. /\ q \in [1 .. 2 -> Edges]
      /\ \A i \in 1 .. 2 : Usable(q[i])
      /\ \A i \in 1 .. 2 : i + 1 \in 1 .. 2 => goal.graph[q[i + 1]].from = goal.graph[q[i]].to
      /\ \A i, j \in 1 .. 2 : q[i] = q[j] => i = j
      /\ goal.graph[q[1]].from = v /\ goal.graph[q[2]].to \in goal.pass
  BY <1>0, <1>1
<1>3. Usable(q[1]) /\ Usable(q[2]) /\ goal.graph[q[2]].from = goal.graph[q[1]].to /\ q[1] # q[2]
  BY <1>0, <1>2
<1>4. q[1] \in HopsFrom(v)
  BY <1>2, <1>3, HopsAre
<1>5. Landing(q[1]) = goal.graph[q[1]].to
  BY <1>4, HopsAre
<1>6. q[2] \in HopsFrom(Landing(q[1]))
  BY <1>3, <1>5, HopsAre
<1>7. q[2] \in Ends(Landing(q[1]))
  <2>1. Landing(q[2]) = goal.graph[q[2]].to
    BY <1>6, HopsAre
  <2> QED
    BY <1>2, <1>6, <2>1 DEF Ends
<1>8. Pair(q[1], q[2]) = q
  <2>1. \A i \in 1 .. 2 : (IF i = 1 THEN q[1] ELSE q[2]) = q[i]
    BY <1>0
  <2> QED
    BY <1>2, <2>1 DEF Pair
<1> QED
  BY <1>3, <1>4, <1>7, <1>8

(* The trails of two hops from b that end with an edge from v to b         *)
LEMMA EndingWith ==
  ASSUME goal \in CountType, NEW v, NEW e \in HopsFrom(v), NEW b, b = Landing(e)
  PROVE  Cardinality({q \in Routes(2, b, TRUE) : q[2] = e}) =
           Pass(b) * Mult(b, v) - (IF b = v THEN Pass(v) ELSE 0)
<1> DEFINE X == {q \in Routes(2, b, TRUE) : q[2] = e}
           W == {g \in HopsFrom(b) : Landing(g) = v}
           M == W \ {e}
           f == [g \in M |-> Pair(g, e)]
           h == [q \in X |-> q[1]]
<1>1. CASE b \notin goal.pass
  <2>1. X = {}
    <3> SUFFICES ASSUME NEW q \in Routes(2, b, TRUE), q[2] = e PROVE FALSE
      OBVIOUS
    <3>1. e \in Ends(Landing(q[1]))
      BY PairsOnly
    <3> QED
      BY <1>1, <3>1 DEF Ends
  <2>2. Cardinality(X) = 0
    BY <2>1, FS_EmptySet
  <2>3. Pass(b) = 0 /\ (b = v => Pass(v) = 0)
    BY <1>1 DEF Pass
  <2>4. Mult(b, v) \in Nat
    BY HopsAre, FS_Subset, FS_CardinalityType DEF Mult
  <2> HIDE DEF X
  <2>5. Pass(b) * Mult(b, v) = 0 /\ (IF b = v THEN Pass(v) ELSE 0) = 0
    BY <2>3, <2>4
  <2> QED
    BY <2>2, <2>5 DEF X
<1>2. CASE b \in goal.pass
  <2>0. e \in HopsFrom(b) <=> b = v
    BY BackAtOnce
  <2>1. f \in [M -> X] /\ \A g \in M : f[g][1] = g
    <3> SUFFICES ASSUME NEW g \in M PROVE Pair(g, e) \in X /\ Pair(g, e)[1] = g
      OBVIOUS
    <3>1. g \in HopsFrom(b) /\ Landing(g) = v /\ g # e
      OBVIOUS
    <3>2. e \in Ends(Landing(g))
      BY <1>2, <3>1 DEF Ends
    <3> QED
      BY <3>1, <3>2, PairIs
  <2>2. h \in [X -> M] /\ \A q \in X : Pair(h[q], e) = q
    <3> SUFFICES ASSUME NEW q \in X PROVE q[1] \in M /\ Pair(q[1], e) = q
      OBVIOUS
    <3>1. /\ q[1] \in HopsFrom(b) /\ e \in Ends(Landing(q[1])) /\ q[1] # e /\ Pair(q[1], e) = q
      BY PairsOnly
    <3>2. e \in HopsFrom(Landing(q[1]))
      BY <3>1 DEF Ends
    <3>3. Landing(q[1]) = v
      BY <3>2, HopsAre
    <3> QED
      BY <3>1, <3>3
  <2>3. (\A g \in M : h[f[g]] = g) /\ \A q \in X : f[h[q]] = q
    <3>1. (\A q \in X : h[q] = q[1]) /\ \A g \in M : f[g] = Pair(g, e)
      OBVIOUS
    <3> HIDE DEF X, M, f, h
    <3> QED
      BY <2>1, <2>2, <3>1
  <2>4. IsFiniteSet(W) /\ Cardinality(W) = Mult(b, v) /\ Mult(b, v) \in Nat
    <3>1. IsFiniteSet(W)
      BY HopsAre, FS_Subset
    <3> QED
      BY <3>1, FS_CardinalityType DEF Mult
  <2>5. IsFiniteSet(M) /\ Cardinality(M) = IF e \in W THEN Mult(b, v) - 1 ELSE Mult(b, v)
    <3> HIDE DEF W
    <3> QED
      BY <2>4, FS_RemoveElement
  <2>6. e \in W <=> b = v
    BY <2>0
  <2>7. Cardinality(X) = Cardinality(M)
    <3> HIDE DEF X, M, f, h
    <3>1. Inverses(M, X, f, h)
      BY <2>1, <2>2, <2>3, <2>5 DEF Inverses
    <3> QED
      BY <3>1, SameSize
  <2>8. Pass(b) = 1
    BY <1>2 DEF Pass
  <2> HIDE DEF X, M, W
  <2>9. Pass(b) * Mult(b, v) = Mult(b, v)
    BY <2>4, <2>8
  <2>10. CASE b = v
    BY <2>4, <2>5, <2>6, <2>7, <2>8, <2>9, <2>10 DEF X
  <2>11. CASE b # v
    <3>1. (IF b = v THEN Pass(v) ELSE 0) = 0
      BY <2>11
    <3>2. Cardinality(X) = Mult(b, v)
      BY <2>5, <2>6, <2>7, <2>11
    <3> QED
      BY <2>4, <2>9, <3>1, <3>2 DEF X
  <2> QED
    BY <2>10, <2>11
<1> QED
  BY <1>1, <1>2

(* ... and that begin with it                                              *)
LEMMA BeginningWith ==
  ASSUME goal \in CountType, NEW v, NEW e \in HopsFrom(v), NEW b, b = Landing(e)
  PROVE  Cardinality(Beginning(2, b, TRUE, e)) = IF b = v THEN PassDegree(v) - Pass(v) ELSE 0
<1>0. 1 \in Nat /\ 1 # 0 /\ 1 + 1 = 2 /\ 2 \in Nat /\ 2 # 0
  OBVIOUS
<1>1. CASE b = v
  <2>1. e \in HopsFrom(b)
    BY <1>1
  <2>2. Cardinality(Beginning(2, b, TRUE, e)) = Cardinality(After(1, Landing(e), TRUE, e))
    BY <1>0, <2>1, Prefixed
  <2>3. Cardinality(After(1, b, TRUE, e)) = PassDegree(b) - (IF e \in Ends(b) THEN 1 ELSE 0)
    BY SingleAfter
  <2>4. (IF e \in Ends(b) THEN 1 ELSE 0) = Pass(v)
    BY <1>1, BackAtOnce DEF Pass
  <2>5. Cardinality(Beginning(2, b, TRUE, e)) = PassDegree(v) - Pass(v)
    BY <1>1, <2>2, <2>3, <2>4
  <2> QED
    BY <1>1, <2>5
<1>2. CASE b # v
  <2>1. Beginning(2, b, TRUE, e) = {}
    <3> SUFFICES ASSUME NEW q \in Routes(2, b, TRUE), q[1] = e PROVE FALSE
      BY DEF Beginning
    <3>1. e \in HopsFrom(b)
      BY <1>0, FirstHop
    <3> QED
      BY <1>2, <3>1, BackAtOnce
  <2>2. Cardinality(Beginning(2, b, TRUE, e)) = 0
    BY <2>1, FS_EmptySet
  <2> QED
    BY <1>2, <2>2
<1> QED
  BY <1>1, <1>2

(* A set less two parts that share nothing *)
LEMMA LessTwo ==
  ASSUME NEW X, IsFiniteSet(X), NEW A \in SUBSET X, NEW B \in SUBSET X, A \cap B = {}
  PROVE  Cardinality(X \ (A \cup B)) = Cardinality(X) - Cardinality(A) - Cardinality(B)
<1> DEFINE C == X \ (A \cup B)
<1>1. IsFiniteSet(A) /\ IsFiniteSet(B) /\ IsFiniteSet(C) /\ IsFiniteSet(A \cup B)
  BY FS_Subset
<1>2. /\ Cardinality(A) \in Nat /\ Cardinality(B) \in Nat /\ Cardinality(C) \in Nat
      /\ Cardinality(X) \in Nat
  <2> HIDE DEF C
  <2> QED
    BY <1>1, FS_CardinalityType
<1>3. Cardinality(A \cup B) = Cardinality(A) + Cardinality(B)
  BY <1>1, DisjointUnion
<1>4. X = (A \cup B) \cup C /\ (A \cup B) \cap C = {}
  OBVIOUS
<1>5. Cardinality(X) = Cardinality(A \cup B) + Cardinality(C)
  <2> DEFINE Y == A \cup B
  <2>1. X = Y \cup C /\ Y \cap C = {} /\ IsFiniteSet(Y)
    BY <1>1, <1>4
  <2> HIDE DEF Y, C
  <2>2. Cardinality(Y \cup C) = Cardinality(Y) + Cardinality(C)
    BY <1>1, <2>1, DisjointUnion
  <2> QED
    BY <2>1, <2>2 DEF Y
<1> HIDE DEF C
<1>6. Cardinality(C) = Cardinality(X) - Cardinality(A) - Cardinality(B)
  BY <1>2, <1>3, <1>5
<1> QED
  BY <1>6 DEF C

(* The trails of two hops that may follow an edge *)
LEMMA TwoAfter ==
  ASSUME goal \in CountType, NEW v, NEW e \in HopsFrom(v), NEW b, b = Landing(e)
  PROVE  Cardinality(After(2, b, TRUE, e)) =
           Cardinality(Routes(2, b, TRUE))
           - (IF b = v THEN PassDegree(v) - Pass(v) ELSE 0)
           - (Pass(b) * Mult(b, v) - (IF b = v THEN Pass(v) ELSE 0))
<1> DEFINE X == Routes(2, b, TRUE)
           A == Beginning(2, b, TRUE, e)
           B == {q \in X : q[2] = e}
<1>1. After(2, b, TRUE, e) = X \ (A \cup B)
  <2>1. 1 .. 2 = {1, 2}
    OBVIOUS
  <2> QED
    BY <2>1 DEF After, Beginning
<1>2. A \in SUBSET X /\ B \in SUBSET X
  BY DEF Beginning
<1>3. A \cap B = {}
  BY PairsOnly DEF Beginning
<1>4. IsFiniteSet(X)
  BY RoutesAreFinite
<1>5. Cardinality(A) = IF b = v THEN PassDegree(v) - Pass(v) ELSE 0
  BY BeginningWith
<1>6. Cardinality(B) = Pass(b) * Mult(b, v) - (IF b = v THEN Pass(v) ELSE 0)
  BY EndingWith
<1>7. Cardinality(X \ (A \cup B)) = Cardinality(X) - Cardinality(A) - Cardinality(B)
  <2> HIDE DEF X, A, B
  <2> QED
    BY <1>2, <1>3, <1>4, LessTwo
<1> HIDE DEF A, B
<1> QED
  BY <1>1, <1>5, <1>6, <1>7

(* Terms that are nothing outside a part do not count. *)
LEMMA SumInside ==
  ASSUME NEW S, NEW f, NEW T, NEW g,
         IsFiniteSet(S) /\ f \in [S -> Int] /\ T \in SUBSET S /\ g \in [T -> Int],
         \A x \in T : g[x] = f[x], \A x \in S \ T : f[x] = 0
  PROVE  SumFunction(f) = SumFunction(g)
<1> DEFINE U == S \ T
           h == [x \in U |-> 0]
<1>1. IsFiniteSet(U) /\ U = S \ T /\ h \in [U -> Int] /\ (\A x \in U : h[x] = f[x]) /\ \A x \in U : h[x] = 0
  BY FS_Subset
<1> HIDE DEF U, h
<1>2. Split(S, f, T, g, U, h)
  BY <1>1 DEF Split
<1>3. SumFunction(f) = SumFunction(g) + SumFunction(h)
  BY <1>2, SumSplits
<1>4. Constant(U, 0, h)
  BY <1>1 DEF Constant
<1>5. SumFunction(h) = Cardinality(U) * 0 /\ Cardinality(U) \in Nat
  BY <1>1, <1>4, SumConstant, FS_CardinalityType
<1>6. SumFunction(h) = 0
  BY <1>5
<1>7. IsFiniteSet(T)
  BY FS_Subset
<1>8. SumFunction(g) \in Int
  BY <1>7, SumType
<1> QED
  BY <1>3, <1>6, <1>8

(* The parallel edges between two nodes are a number. *)
LEMMA MultIs ==
  ASSUME goal \in CountType, NEW v, NEW w
  PROVE  Mult(v, w) \in Nat
<1>1. {e \in HopsFrom(v) : Landing(e) = w} \in SUBSET HopsFrom(v)
  OBVIOUS
<1>2. IsFiniteSet({e \in HopsFrom(v) : Landing(e) = w})
  BY <1>1, HopsAre, FS_Subset
<1> QED
  BY <1>2, FS_CardinalityType DEF Mult

(* The paths of a length are a number. *)
LEMMA RouteCountType ==
  ASSUME goal \in CountType, NEW n \in Nat, NEW v, NEW once
  PROVE  Cardinality(Routes(n, v, once)) \in Nat
  BY RoutesAreFinite, FS_CardinalityType

(* What the first hop of a trail of three forbids to the other two         *)
LEMMA ThreeParts ==
  ASSUME goal \in CountType, NEW v, NEW e \in HopsFrom(v)
  PROVE  Cardinality(Routes(2, Landing(e), FALSE)) =
           Cardinality(After(2, Landing(e), TRUE, e))
           + ((IF e \in Loops(v) THEN PassDegree(v) - 2 * Pass(v) ELSE 0)
              + (IF e \in Ends(v) THEN SelfLoops(Landing(e)) + Mult(Landing(e), v) ELSE 0))
<1> DEFINE b == Landing(e)
           A == Cardinality(After(2, b, TRUE, e))
           T == Cardinality(Routes(2, b, TRUE))
           W == Cardinality(Routes(2, b, FALSE))
           L == SelfLoops(b)
           M == Mult(b, v)
           D == PassDegree(v)
<1>1. A = T - (IF b = v THEN D - Pass(v) ELSE 0) - (Pass(b) * M - (IF b = v THEN Pass(v) ELSE 0))
  <2> HIDE DEF b
  <2>1. b = Landing(e)
    BY DEF b
  <2> QED
    BY <2>1, TwoAfter
<1>2. T = W - L * Pass(b)
  BY Trails2
<1>3. /\ A \in Nat /\ T \in Nat /\ W \in Nat /\ L \in Nat /\ M \in Nat /\ D \in Nat
      /\ Pass(b) \in {0, 1} /\ Pass(v) \in {0, 1}
  <2>1. 2 \in Nat
    OBVIOUS
  <2> QED
    BY <2>1, AfterIsFinite, RouteCountType, LoopsAre, MultIs, EndsAre, PassIs
<1>4. (e \in Loops(v) <=> b = v) /\ (e \in Ends(v) <=> Pass(b) = 1)
  BY PassIs DEF Loops, Ends
<1> HIDE DEF A, T, W, L, M, D
<1> DEFINE P == Pass(b)
           Q == Pass(v)
<1>5. L * P = (IF P = 1 THEN L ELSE 0) /\ P * M = (IF P = 1 THEN M ELSE 0)
  BY <1>3
<1> HIDE DEF P, Q
<1>6. W = A + ((IF b = v THEN D - 2 * Q ELSE 0) + (IF P = 1 THEN L + M ELSE 0))
  <2>1. A = W - (IF P = 1 THEN L ELSE 0) - (IF b = v THEN D - Q ELSE 0)
              - ((IF P = 1 THEN M ELSE 0) - (IF b = v THEN Q ELSE 0))
    BY <1>1, <1>2, <1>5 DEF P, Q
  <2>2. Q \in Int
    BY <1>3 DEF Q
  <2> HIDE DEF b
  <2>3. CASE b = v /\ P = 1
    BY <1>3, <2>1, <2>2, <2>3
  <2>4. CASE b = v /\ P # 1
    BY <1>3, <2>1, <2>2, <2>4
  <2>5. CASE b # v /\ P = 1
    BY <1>3, <2>1, <2>2, <2>5
  <2>6. CASE b # v /\ P # 1
    BY <1>3, <2>1, <2>2, <2>6
  <2> QED
    BY <2>3, <2>4, <2>5, <2>6
<1>7. /\ (IF e \in Loops(v) THEN D - 2 * Q ELSE 0) = (IF b = v THEN D - 2 * Q ELSE 0)
      /\ (IF e \in Ends(v) THEN L + M ELSE 0) = (IF P = 1 THEN L + M ELSE 0)
  BY <1>4 DEF P
<1> QED
  BY <1>6, <1>7 DEF A, W, L, M, D, Q

(* reused_trails_at_3 is the number of walks of three hops that use an edge twice. *)
LEMMA Trails3 ==
  ASSUME goal \in CountType, NEW v
  PROVE  Cardinality(Routes(3, v, TRUE)) = Cardinality(Routes(3, v, FALSE)) - Reused3(v)
<1> DEFINE H == HopsFrom(v)
           a == [e \in H |-> Cardinality(Routes(2, Landing(e), FALSE))]
           f == [e \in H |-> Cardinality(After(2, Landing(e), TRUE, e))]
           z == [e \in H |-> IF e \in Loops(v) THEN PassDegree(v) - 2 * Pass(v) ELSE 0]
           w == [e \in H |-> IF e \in Ends(v) THEN SelfLoops(Landing(e)) + Mult(Landing(e), v) ELSE 0]
           g == [e \in Ends(v) |-> SelfLoops(Landing(e)) + Mult(Landing(e), v)]
           y == [e \in H |-> z[e] + w[e]]
<1>1. 2 \in Nat /\ 2 # 0 /\ 2 + 1 = 3
  OBVIOUS
<1>2. Cardinality(Routes(3, v, TRUE)) = SumFunction(f)
  BY <1>1, Unfolded
<1>3. Cardinality(Routes(3, v, FALSE)) = SumFunction(a)
  BY <1>1, WalksUnfolded
<1>4. IsFiniteSet(H) /\ Ends(v) \in SUBSET H /\ Loops(v) \in SUBSET H
  BY HopsAre, EndsAre, LoopsAre
<1>0. PassDegree(v) - 2 * Pass(v) \in Int
  BY EndsAre, PassIs
<1>5. ASSUME NEW e \in H
      PROVE  /\ a[e] \in Int /\ f[e] \in Int /\ z[e] \in Int /\ w[e] \in Int /\ y[e] \in Int
             /\ SelfLoops(Landing(e)) + Mult(Landing(e), v) \in Int
             /\ y[e] = z[e] + w[e] /\ a[e] = f[e] + y[e]
  <2>1. SelfLoops(Landing(e)) + Mult(Landing(e), v) \in Int
    BY LoopsAre, MultIs
  <2>2. a[e] \in Int /\ f[e] \in Int
    <3>1. Cardinality(Routes(2, Landing(e), FALSE)) \in Nat
      BY <1>1, RouteCountType
    <3>2. Cardinality(After(2, Landing(e), TRUE, e)) \in Nat
      BY <1>1, AfterIsFinite
    <3>3. /\ a[e] = Cardinality(Routes(2, Landing(e), FALSE))
          /\ f[e] = Cardinality(After(2, Landing(e), TRUE, e))
      OBVIOUS
    <3> HIDE DEF a, f
    <3>4. a[e] \in Nat
      BY <3>1, <3>3, Zenon
    <3>5. f[e] \in Nat
      BY <3>2, <3>3, Zenon
    <3> QED
      BY <3>4, <3>5
  <2>3. z[e] \in Int /\ w[e] \in Int
    BY <1>0, <2>1
  <2>4. y[e] = z[e] + w[e]
    OBVIOUS
  <2>5. a[e] = f[e] + (z[e] + w[e])
    BY ThreeParts
  <2> HIDE DEF a, f, y, z, w
  <2> QED
    BY <2>1, <2>2, <2>3, <2>4, <2>5
<1>6. /\ a \in [H -> Int] /\ f \in [H -> Int] /\ z \in [H -> Int] /\ w \in [H -> Int] /\ y \in [H -> Int]
      /\ \A e \in H : y[e] = z[e] + w[e] /\ a[e] = f[e] + y[e]
  <2>1. \A e \in H : a[e] \in Int /\ f[e] \in Int /\ z[e] \in Int /\ w[e] \in Int /\ y[e] \in Int
    BY <1>5
  <2>2. \A e \in H : y[e] = z[e] + w[e] /\ a[e] = f[e] + y[e]
    BY <1>5
  <2> QED
    BY <2>1, <2>2
<1>7. SumFunction(a) = SumFunction(f) + SumFunction(y) /\ SumFunction(y) = SumFunction(z) + SumFunction(w)
  <2> HIDE DEF H, a, f, y, z, w
  <2>1. Added(H, f, y, a) /\ Added(H, z, w, y)
    BY <1>4, <1>6 DEF Added
  <2> QED
    BY <2>1, SumAdds
<1>8. SumFunction(z) = Cardinality(Loops(v)) * (PassDegree(v) - 2 * Pass(v))
  <2> DEFINE c == PassDegree(v) - 2 * Pass(v)
  <2>1. \A e \in H : z[e] = IF e \in Loops(v) THEN c ELSE 0
    OBVIOUS
  <2>2. c \in Int
    BY <1>0
  <2> HIDE DEF H, z, c
  <2>3. OnlyWhere(H, Loops(v), c, z)
    BY <1>4, <1>6, <2>1, <2>2 DEF OnlyWhere
  <2>4. SumFunction(z) = Cardinality(Loops(v)) * c
    BY <2>3, SumWhere
  <2> QED
    BY <2>4 DEF c
<1>9. SumFunction(w) = SumFunction(g)
  <2>1. (\A e \in Ends(v) : g[e] = w[e]) /\ \A e \in H \ Ends(v) : w[e] = 0
    BY <1>4
  <2>2. g \in [Ends(v) -> Int]
    BY <1>4, <1>5
  <2> HIDE DEF H, w, g
  <2> QED
    BY <1>4, <1>6, <2>1, <2>2, SumInside
<1>10. Reused3(v) = SelfLoops(v) * PassDegree(v) + SumFunction(g) - 2 * SelfLoops(v) * Pass(v)
  BY DEF Reused3, Ends
<1>11. SumFunction(f) \in Int /\ SumFunction(w) \in Int
  BY <1>4, <1>6, SumType
<1> HIDE DEF a, f, z, w, g, y
<1>12. SelfLoops(v) * (PassDegree(v) - 2 * Pass(v)) = SelfLoops(v) * PassDegree(v) - 2 * SelfLoops(v) * Pass(v)
  <2> DEFINE l == SelfLoops(v)
             d == PassDegree(v)
  <2>1. l \in Nat /\ d \in Nat /\ Pass(v) \in {0, 1}
    BY LoopsAre, EndsAre, PassIs
  <2> HIDE DEF l, d
  <2>2. l * (d - 2 * Pass(v)) = l * d - 2 * l * Pass(v)
    BY <2>1
  <2> QED
    BY <2>2 DEF l, d
<1> DEFINE x1 == SelfLoops(v) * PassDegree(v)
           x2 == 2 * SelfLoops(v) * Pass(v)
<1>13. x1 \in Int /\ x2 \in Int
  BY LoopsAre, EndsAre, PassIs
<1>14. SumFunction(z) = x1 - x2
  BY <1>8, <1>12, LoopsAre
<1>15. Reused3(v) = x1 + SumFunction(w) - x2
  BY <1>9, <1>10
<1> HIDE DEF x1, x2
<1>16. SumFunction(f) = SumFunction(a) - Reused3(v)
  BY <1>7, <1>11, <1>13, <1>14, <1>15
<1> QED
  BY <1>2, <1>3, <1>16

-----------------------------------------------------------------------------
(* Trails of three hops *)
Triple(a, b, c) == [i \in 1 .. 3 |-> IF i = 1 THEN a ELSE IF i = 2 THEN b ELSE c]

(* Three different edges in a row are a trail of three hops, *)
LEMMA TripleIs ==
  ASSUME goal \in CountType, NEW v, NEW a \in HopsFrom(v), NEW b \in HopsFrom(Landing(a)),
         NEW c \in Ends(Landing(b)), a # b, b # c, a # c
  PROVE  /\ Triple(a, b, c) \in Routes(3, v, TRUE)
         /\ Triple(a, b, c)[1] = a /\ Triple(a, b, c)[2] = b /\ Triple(a, b, c)[3] = c
<1> DEFINE p == Triple(a, b, c)
<1>0. 1 .. 3 = {1, 2, 3} /\ 3 \in Nat /\ 1 + 1 = 2 /\ 2 + 1 = 3 /\ ~(3 + 1 \in 1 .. 3)
  OBVIOUS
<1>1. /\ Usable(a) /\ goal.graph[a].from = v /\ Landing(a) = goal.graph[a].to /\ a \in Edges
      /\ Usable(b) /\ goal.graph[b].from = Landing(a) /\ Landing(b) = goal.graph[b].to /\ b \in Edges
      /\ Usable(c) /\ goal.graph[c].from = Landing(b) /\ Landing(c) = goal.graph[c].to /\ c \in Edges
      /\ Landing(c) \in goal.pass
  <2>1. c \in HopsFrom(Landing(b)) /\ Landing(c) \in goal.pass
    BY DEF Ends
  <2> QED
    BY <2>1, HopsAre
<1>2. p \in [1 .. 3 -> Edges] /\ p[1] = a /\ p[2] = b /\ p[3] = c
  BY <1>0, <1>1 DEF Triple
<1> HIDE DEF p
<1>3. \A i \in 1 .. 3 : Usable(p[i])
  BY <1>0, <1>1, <1>2
<1>4. \A i \in 1 .. 3 : i + 1 \in 1 .. 3 => goal.graph[p[i + 1]].from = goal.graph[p[i]].to
  <2> SUFFICES ASSUME NEW i \in 1 .. 3, i + 1 \in 1 .. 3
               PROVE  goal.graph[p[i + 1]].from = goal.graph[p[i]].to
    OBVIOUS
  <2>1. i = 1 \/ i = 2
    BY <1>0
  <2>2. CASE i = 1
    BY <1>0, <1>1, <1>2, <2>2
  <2>3. CASE i = 2
    BY <1>0, <1>1, <1>2, <2>3
  <2> QED
    BY <2>1, <2>2, <2>3
<1>5. \A i, j \in 1 .. 3 : p[i] = p[j] => i = j
  BY <1>0, <1>2
<1>6. goal.graph[p[1]].from = v /\ goal.graph[p[3]].to \in goal.pass
  BY <1>1, <1>2
<1>7. ASSUME NEW n \in Nat, n = 3 PROVE p \in Routes(n, v, TRUE)
  <2>1. /\ p \in [1 .. n -> Edges]
        /\ \A i \in 1 .. n : Usable(p[i])
        /\ \A i \in 1 .. n : i + 1 \in 1 .. n => goal.graph[p[i + 1]].from = goal.graph[p[i]].to
        /\ \A i, j \in 1 .. n : p[i] = p[j] => i = j
        /\ goal.graph[p[1]].from = v /\ goal.graph[p[n]].to \in goal.pass
    BY <1>2, <1>3, <1>4, <1>5, <1>6, <1>7
  <2> QED
    BY <1>7, <2>1, TrailIs
<1> QED
  BY <1>0, <1>2, <1>7 DEF p

(* and every trail of three hops is such a triple. *)
LEMMA TriplesOnly ==
  ASSUME goal \in CountType, NEW v, NEW q \in Routes(3, v, TRUE)
  PROVE  /\ q[1] \in HopsFrom(v) /\ q[2] \in HopsFrom(Landing(q[1])) /\ q[3] \in Ends(Landing(q[2]))
         /\ q[1] # q[2] /\ q[2] # q[3] /\ q[1] # q[3]
         /\ Triple(q[1], q[2], q[3]) = q
<1>0. 1 .. 3 = {1, 2, 3} /\ 3 \in Nat /\ 1 + 1 = 2 /\ 2 + 1 = 3 /\ 1 # 2 /\ 2 # 3 /\ 1 # 3
  OBVIOUS
<1>1. ASSUME NEW n \in Nat, n = 3
      PROVE  /\ q \in [1 .. n -> Edges]
             /\ \A i \in 1 .. n : Usable(q[i])
             /\ \A i \in 1 .. n : i + 1 \in 1 .. n => goal.graph[q[i + 1]].from = goal.graph[q[i]].to
             /\ \A i, j \in 1 .. n : q[i] = q[j] => i = j
             /\ goal.graph[q[1]].from = v /\ goal.graph[q[n]].to \in goal.pass
  <2>1. q \in Routes(n, v, TRUE)
    BY <1>1
  <2> QED
    BY <2>1, TrailIs
<1>2. /\ q \in [1 .. 3 -> Edges]
      /\ \A i \in 1 .. 3 : Usable(q[i])
      /\ \A i \in 1 .. 3 : i + 1 \in 1 .. 3 => goal.graph[q[i + 1]].from = goal.graph[q[i]].to
      /\ \A i, j \in 1 .. 3 : q[i] = q[j] => i = j
      /\ goal.graph[q[1]].from = v /\ goal.graph[q[3]].to \in goal.pass
  BY <1>0, <1>1
<1>3. /\ Usable(q[1]) /\ Usable(q[2]) /\ Usable(q[3])
      /\ goal.graph[q[2]].from = goal.graph[q[1]].to /\ goal.graph[q[3]].from = goal.graph[q[2]].to
      /\ q[1] # q[2] /\ q[2] # q[3] /\ q[1] # q[3]
  BY <1>0, <1>2
<1>4. q[1] \in HopsFrom(v)
  BY <1>2, <1>3, HopsAre
<1>5. Landing(q[1]) = goal.graph[q[1]].to
  BY <1>4, HopsAre
<1>6. q[2] \in HopsFrom(Landing(q[1]))
  BY <1>3, <1>5, HopsAre
<1>7. Landing(q[2]) = goal.graph[q[2]].to
  BY <1>6, HopsAre
<1>8. q[3] \in HopsFrom(Landing(q[2]))
  BY <1>3, <1>7, HopsAre
<1>9. q[3] \in Ends(Landing(q[2]))
  <2>1. Landing(q[3]) = goal.graph[q[3]].to
    BY <1>8, HopsAre
  <2> QED
    BY <1>2, <1>8, <2>1 DEF Ends
<1>10. Triple(q[1], q[2], q[3]) = q
  <2>1. \A i \in 1 .. 3 : (IF i = 1 THEN q[1] ELSE IF i = 2 THEN q[2] ELSE q[3]) = q[i]
    BY <1>0
  <2> QED
    BY <1>2, <2>1 DEF Triple
<1> QED
  BY <1>3, <1>4, <1>6, <1>9, <1>10

(* Four hops are counted where every predicate lets everything through.    *)
Unmasked == goal.cut = {} /\ goal.pass = Corners /\ goal.body = Corners /\ goal.seed = Corners
Degree(v) == Cardinality(HopsFrom(v))

(* There every hop ends a path, and every node is an end. *)
LEMMA UnmaskedFacts ==
  ASSUME goal \in CountType, Unmasked
  PROVE  /\ \A v : Ends(v) = HopsFrom(v) /\ PassDegree(v) = Degree(v) /\ Degree(v) \in Nat
         /\ \A v \in Corners : Pass(v) = 1
<1>1. ASSUME NEW v PROVE Ends(v) = HopsFrom(v)
  BY HopsAre DEF Ends, Unmasked
<1>2. ASSUME NEW v PROVE PassDegree(v) = Degree(v) /\ Degree(v) \in Nat
  BY <1>1, EndsAre DEF Degree
<1>3. \A v \in Corners : Pass(v) = 1
  BY DEF Pass, Unmasked
<1> QED
  BY <1>1, <1>2, <1>3

(* The trails of three hops with an edge f from a to b first, second, third *)
LEMMA UsedFirst ==
  ASSUME goal \in CountType, Unmasked, NEW a, NEW f \in HopsFrom(a), NEW b, b = Landing(f),
         ways2[b] = Cardinality(Routes(2, b, FALSE))
  PROVE  Cardinality(Beginning(3, b, TRUE, f)) =
           IF a = b THEN ways2[b] - 2 * SelfLoops(b) - Degree(b) + 2 ELSE 0
<1>0. 1 \in Nat /\ 2 \in Nat /\ 2 # 0 /\ 2 + 1 = 3 /\ 3 \in Nat /\ 3 # 0
  OBVIOUS
<1>1. CASE a = b
  <2>1. f \in HopsFrom(b)
    BY <1>1
  <2>2. Cardinality(Beginning(3, b, TRUE, f)) = Cardinality(After(2, b, TRUE, f))
    <3>1. ASSUME NEW n \in Nat, n = 2
          PROVE  Cardinality(Beginning(n + 1, b, TRUE, f)) = Cardinality(After(n, Landing(f), TRUE, f))
      <4>1. n # 0
        BY <3>1
      <4> QED
        BY <2>1, <4>1, Prefixed, Zenon
    <3> QED
      BY <1>0, <3>1
  <2>3. Cardinality(After(2, b, TRUE, f)) =
          Cardinality(Routes(2, b, TRUE)) - (IF b = a THEN PassDegree(a) - Pass(a) ELSE 0)
          - (Pass(b) * Mult(b, a) - (IF b = a THEN Pass(a) ELSE 0))
    BY TwoAfter
  <2>4. Cardinality(Routes(2, b, TRUE)) = ways2[b] - SelfLoops(b) * Pass(b)
    BY Trails2
  <2>5. /\ Pass(b) = 1 /\ Pass(a) = 1 /\ PassDegree(a) = Degree(b) /\ Degree(b) \in Nat
        /\ Mult(b, a) = SelfLoops(b) /\ SelfLoops(b) \in Nat /\ ways2[b] \in Nat
    <3>1. b \in Corners
      BY HopsAre
    <3>2. ways2[b] \in Nat
      BY <1>0, RouteCountType
    <3> QED
      BY <1>1, <3>1, <3>2, UnmaskedFacts, LoopsAre
  <2> DEFINE A == Cardinality(After(2, b, TRUE, f))
             T == Cardinality(Routes(2, b, TRUE))
             l == SelfLoops(b)
             d == Degree(b)
             u == ways2[b]
  <2>6. T = u - l * 1 /\ A = T - (d - 1) - (1 * l - 1)
    BY <1>1, <2>3, <2>4, <2>5
  <2>7. l \in Nat /\ d \in Nat /\ u \in Nat
    BY <2>5
  <2> HIDE DEF A, T, l, d, u
  <2>8. A = u - 2 * l - d + 2
    BY <2>6, <2>7
  <2> QED
    BY <1>1, <2>2, <2>8 DEF A, l, d, u
<1>2. CASE a # b
  <2>1. Beginning(3, b, TRUE, f) = {}
    <3> SUFFICES ASSUME NEW q \in Routes(3, b, TRUE), q[1] = f PROVE FALSE
      BY DEF Beginning
    <3>1. f \in HopsFrom(b)
      BY TriplesOnly
    <3> QED
      BY <1>2, <3>1, HopsAre
  <2>2. Cardinality(Beginning(3, b, TRUE, f)) = 0
    BY <2>1, FS_EmptySet
  <2> QED
    BY <1>2, <2>2
<1> QED
  BY <1>1, <1>2

Threes(v, a, b, c) ==
  /\ a \in HopsFrom(v) /\ b \in HopsFrom(Landing(a)) /\ c \in Ends(Landing(b))
  /\ a # b /\ b # c /\ a # c
StartsWith(v, a, b) == {p \in Routes(3, v, TRUE) : p[1] = a /\ p[2] = b}
Bounded(v, a, c) == {p \in Routes(3, v, TRUE) : p[1] = a /\ p[3] = c}
Between(a, c) == {b \in HopsFrom(Landing(a)) : c \in Ends(Landing(b))}

(* Three different edges in a row, as one condition *)
LEMMA ThreesAre ==
  ASSUME goal \in CountType, NEW v, NEW a, NEW b, NEW c, Threes(v, a, b, c)
  PROVE  Triple(a, b, c) \in Routes(3, v, TRUE)
  BY TripleIs, Zenon DEF Threes

(* The trails of three hops with two of them given: the third is free.     *)
LEMMA FirstTwo ==
  ASSUME goal \in CountType, NEW v, NEW a \in HopsFrom(v), NEW b \in HopsFrom(Landing(a)), a # b
  PROVE  /\ IsFiniteSet(StartsWith(v, a, b))
         /\ Cardinality(StartsWith(v, a, b)) = Cardinality(Ends(Landing(b)) \ {a, b})
<1> DEFINE M == Ends(Landing(b)) \ {a, b}
           Z == StartsWith(v, a, b)
           f == [c \in M |-> Triple(a, b, c)]
           h == [q \in Z |-> q[3]]
<1>1. f \in [M -> Z] /\ \A c \in M : f[c][3] = c
  <2> SUFFICES ASSUME NEW c \in M PROVE Triple(a, b, c) \in Z /\ Triple(a, b, c)[3] = c
    OBVIOUS
  <2>1. Threes(v, a, b, c)
    BY DEF Threes
  <2>2. /\ Triple(a, b, c) \in Routes(3, v, TRUE)
        /\ Triple(a, b, c)[1] = a /\ Triple(a, b, c)[2] = b /\ Triple(a, b, c)[3] = c
    <3>1. Triple(a, b, c) \in Routes(3, v, TRUE)
      BY <2>1, ThreesAre, Zenon
    <3>2. Triple(a, b, c)[1] = a /\ Triple(a, b, c)[2] = b /\ Triple(a, b, c)[3] = c
      BY DEF Triple
    <3> QED
      BY <3>1, <3>2
  <2> QED
    BY <2>2 DEF StartsWith
<1>2. h \in [Z -> M] /\ \A q \in Z : Triple(a, b, h[q]) = q
  <2> SUFFICES ASSUME NEW q \in Z PROVE q[3] \in M /\ Triple(a, b, q[3]) = q
    OBVIOUS
  <2> QED
    BY TriplesOnly DEF StartsWith
<1>3. (\A c \in M : h[f[c]] = c) /\ \A q \in Z : f[h[q]] = q
  <2>1. (\A q \in Z : h[q] = q[3]) /\ \A c \in M : f[c] = Triple(a, b, c)
    OBVIOUS
  <2> HIDE DEF f, h
  <2> QED
    BY <1>1, <1>2, <2>1
<1>4. IsFiniteSet(M)
  BY EndsAre, FS_Subset
<1> HIDE DEF f, h, M, Z
<1>5. Inverses(M, Z, f, h)
  BY <1>1, <1>2, <1>3, <1>4 DEF Inverses
<1> QED
  BY <1>5, SameSize DEF M, Z

(* ... or the one in the middle is. *)
LEMMA FirstAndLast ==
  ASSUME goal \in CountType, NEW v, NEW a \in HopsFrom(v), NEW c, a # c
  PROVE  /\ IsFiniteSet(Bounded(v, a, c))
         /\ Cardinality(Bounded(v, a, c)) = Cardinality(Between(a, c) \ {a, c})
<1> DEFINE M == Between(a, c) \ {a, c}
           Z == Bounded(v, a, c)
           f == [b \in M |-> Triple(a, b, c)]
           h == [q \in Z |-> q[2]]
<1>1. f \in [M -> Z] /\ \A b \in M : f[b][2] = b
  <2> SUFFICES ASSUME NEW b \in M PROVE Triple(a, b, c) \in Z /\ Triple(a, b, c)[2] = b
    OBVIOUS
  <2>1. Threes(v, a, b, c)
    BY DEF Threes, Between
  <2>2. /\ Triple(a, b, c) \in Routes(3, v, TRUE)
        /\ Triple(a, b, c)[1] = a /\ Triple(a, b, c)[2] = b /\ Triple(a, b, c)[3] = c
    <3>1. Triple(a, b, c) \in Routes(3, v, TRUE)
      BY <2>1, ThreesAre, Zenon
    <3>2. Triple(a, b, c)[1] = a /\ Triple(a, b, c)[2] = b /\ Triple(a, b, c)[3] = c
      BY DEF Triple
    <3> QED
      BY <3>1, <3>2
  <2> QED
    BY <2>2 DEF Bounded
<1>2. h \in [Z -> M] /\ \A q \in Z : Triple(a, h[q], c) = q
  <2> SUFFICES ASSUME NEW q \in Z PROVE q[2] \in M /\ Triple(a, q[2], c) = q
    OBVIOUS
  <2> QED
    BY TriplesOnly DEF Bounded, Between
<1>3. (\A b \in M : h[f[b]] = b) /\ \A q \in Z : f[h[q]] = q
  <2>1. (\A q \in Z : h[q] = q[2]) /\ \A b \in M : f[b] = Triple(a, b, c)
    OBVIOUS
  <2> HIDE DEF f, h
  <2> QED
    BY <1>1, <1>2, <2>1
<1>4. IsFiniteSet(M)
  BY HopsAre, FS_Subset DEF Between
<1> HIDE DEF f, h, M, Z
<1>5. Inverses(M, Z, f, h)
  BY <1>1, <1>2, <1>3, <1>4 DEF Inverses
<1> QED
  BY <1>5, SameSize DEF M, Z

(* A set less two of its members, or what of them it has *)
LEMMA LessMembers ==
  ASSUME NEW X, IsFiniteSet(X), NEW a, NEW b, a # b
  PROVE  /\ IsFiniteSet(X \ {a, b})
         /\ Cardinality(X \ {a, b}) =
              Cardinality(X) - (IF a \in X THEN 1 ELSE 0) - (IF b \in X THEN 1 ELSE 0)
<1>1. IsFiniteSet(X \ {a}) /\ Cardinality(X \ {a}) = IF a \in X THEN Cardinality(X) - 1 ELSE Cardinality(X)
  BY FS_RemoveElement
<1> DEFINE Y == X \ {a}
<1>2. IsFiniteSet(Y \ {b}) /\ Cardinality(Y \ {b}) = IF b \in Y THEN Cardinality(Y) - 1 ELSE Cardinality(Y)
  <2>1. IsFiniteSet(Y)
    BY <1>1
  <2> HIDE DEF Y
  <2> QED
    BY <2>1, FS_RemoveElement
<1>3. Y \ {b} = X \ {a, b} /\ (b \in Y <=> b \in X)
  OBVIOUS
<1>4. Cardinality(X) \in Nat /\ Cardinality(Y) = Cardinality(X \ {a})
  BY FS_CardinalityType
<1>5. /\ Cardinality(X) \in Nat
      /\ Cardinality(Y) = IF a \in X THEN Cardinality(X) - 1 ELSE Cardinality(X)
      /\ Cardinality(X \ {a, b}) = IF b \in X THEN Cardinality(Y) - 1 ELSE Cardinality(Y)
  BY <1>1, <1>2, <1>3, <1>4
<1> HIDE DEF Y
<1>6. IsFiniteSet(X \ {a, b})
  BY <1>2, <1>3
<1>7. Cardinality(X \ {a, b}) = Cardinality(X) - (IF a \in X THEN 1 ELSE 0) - (IF b \in X THEN 1 ELSE 0)
  <2>1. CASE a \in X /\ b \in X
    BY <1>5, <2>1
  <2>2. CASE a \in X /\ b \notin X
    BY <1>5, <2>2
  <2>3. CASE a \notin X /\ b \in X
    BY <1>5, <2>3
  <2>4. CASE a \notin X /\ b \notin X
    BY <1>5, <2>4
  <2> QED
    BY <2>1, <2>2, <2>3, <2>4
<1> QED
  BY <1>6, <1>7

Second(v, e) == {p \in Routes(3, v, TRUE) : p[2] = e}
Third(v, e) == {p \in Routes(3, v, TRUE) : p[3] = e}

(* ... and with f in the second place, *)
LEMMA UsedSecond ==
  ASSUME goal \in CountType, Unmasked, NEW a, NEW f \in HopsFrom(a), NEW b, b = Landing(f)
  PROVE  Cardinality(Second(b, f)) =
           IF a = b THEN (SelfLoops(b) - 1) * (Degree(b) - 2) ELSE Mult(b, a) * (Degree(b) - 1)
<1> DEFINE Z == Second(b, f)
           W == {g \in HopsFrom(b) : Landing(g) = a}
           S == W \ {f}
           key == [p \in Z |-> p[1]]
           c == IF a = b THEN Degree(b) - 2 ELSE Degree(b) - 1
<1>1. f \in HopsFrom(b) <=> a = b
  BY HopsAre
<1>2. b \in Corners /\ Degree(b) \in Nat /\ Ends(b) = HopsFrom(b)
  BY HopsAre, UnmaskedFacts
<1>3. IsFiniteSet(W) /\ Cardinality(W) = Mult(b, a) /\ Mult(b, a) \in Nat
  <2>1. IsFiniteSet(W)
    BY HopsAre, FS_Subset
  <2> QED
    BY <2>1, FS_CardinalityType DEF Mult
<1>4. IsFiniteSet(S) /\ Cardinality(S) = IF a = b THEN Mult(b, a) - 1 ELSE Mult(b, a)
  <2>1. f \in W <=> a = b
    BY <1>1
  <2> HIDE DEF W
  <2> QED
    BY <1>3, <2>1, FS_RemoveElement
<1>5. \A p \in Z : key[p] \in S
  <2> SUFFICES ASSUME NEW p \in Z PROVE p[1] \in S
    OBVIOUS
  <2>1. p[1] \in HopsFrom(b) /\ f \in HopsFrom(Landing(p[1])) /\ p[1] # f
    BY TriplesOnly DEF Second
  <2>2. Landing(p[1]) = a
    BY <2>1, HopsAre
  <2> QED
    BY <2>1, <2>2
<1>6. ASSUME NEW g \in S
      PROVE  IsFiniteSet(Fiber(Z, key, g)) /\ Cardinality(Fiber(Z, key, g)) = c
  <2>1. g \in HopsFrom(b) /\ Landing(g) = a /\ g # f /\ f \in HopsFrom(Landing(g))
    OBVIOUS
  <2>2. Fiber(Z, key, g) = StartsWith(b, g, f)
    BY DEF Fiber, StartsWith, Second
  <2>3. /\ IsFiniteSet(Fiber(Z, key, g))
        /\ Cardinality(Fiber(Z, key, g)) = Cardinality(Ends(b) \ {g, f})
    <3> HIDE DEF key, S
    <3> QED
      BY <2>1, <2>2, FirstTwo
  <2>4. Cardinality(HopsFrom(b) \ {g, f}) =
          Degree(b) - (IF g \in HopsFrom(b) THEN 1 ELSE 0) - (IF f \in HopsFrom(b) THEN 1 ELSE 0)
    <3>1. IsFiniteSet(HopsFrom(b))
      BY HopsAre
    <3> QED
      BY <2>1, <3>1, LessMembers DEF Degree
  <2>5. Cardinality(HopsFrom(b) \ {g, f}) = c
    <3>1. CASE a = b
      BY <1>1, <1>2, <2>1, <2>4, <3>1
    <3>2. CASE a # b
      BY <1>1, <1>2, <2>1, <2>4, <3>2
    <3> QED
      BY <3>1, <3>2
  <2> HIDE DEF c
  <2> QED
    BY <1>2, <2>3, <2>5
<1>7. c \in Int
  BY <1>2
<1> HIDE DEF key, c
<1>8. Cardinality(Z) = SumFunction(Fibers(Z, key, S))
  <2>1. Keyed(S, Z, key)
    <3> HIDE DEF S
    <3> QED
      BY <1>4, <1>5, <1>6 DEF Keyed
  <2> HIDE DEF S
  <2> QED
    BY <2>1, CountedBy
<1>9. SumFunction(Fibers(Z, key, S)) = Cardinality(S) * c
  <2> HIDE DEF S
  <2>1. Constant(S, c, Fibers(Z, key, S))
    BY <1>4, <1>6, <1>7 DEF Constant, Fibers
  <2> QED
    BY <2>1, SumConstant
<1>10. Cardinality(Z) = Cardinality(S) * c
  BY <1>8, <1>9
<1> HIDE DEF S
<1>11. CASE a = b
  <2>1. Cardinality(S) = SelfLoops(b) - 1
    BY <1>4, <1>11, LoopsAre
  <2>2. c = Degree(b) - 2
    BY <1>11 DEF c
  <2> QED
    BY <1>10, <1>11, <2>1, <2>2
<1>12. CASE a # b
  BY <1>4, <1>10, <1>12 DEF c
<1> QED
  BY <1>11, <1>12

(* ... and in the third. *)
LEMMA UsedThird ==
  ASSUME goal \in CountType, Unmasked, NEW a, NEW f \in HopsFrom(a), NEW b, b = Landing(f)
  PROVE  Cardinality(Third(b, f)) =
           IF a = b
           THEN SumFunction([g \in HopsFrom(b) |->
                               IF Landing(g) = b THEN SelfLoops(b) - 2 ELSE Mult(Landing(g), b)])
                - (SelfLoops(b) - 2)
           ELSE SumFunction([g \in HopsFrom(b) |-> Mult(Landing(g), a)])
<1> DEFINE Z == Third(b, f)
           H == HopsFrom(b)
           S == H \ {f}
           key == [p \in Z |-> p[1]]
           back == [g \in H |-> IF Landing(g) = b THEN SelfLoops(b) - 2 ELSE Mult(Landing(g), b)]
           far == [g \in H |-> Mult(Landing(g), a)]
           F == Fibers(Z, key, S)
<1>1. f \in H <=> a = b
  BY HopsAre
<1>2. IsFiniteSet(H) /\ IsFiniteSet(S)
  BY HopsAre, FS_Subset
<1>3. b \in Corners /\ \A g \in H : Landing(g) \in Corners /\ Ends(Landing(g)) = HopsFrom(Landing(g))
  BY HopsAre, UnmaskedFacts
<1>4. \A p \in Z : key[p] \in S
  <2> SUFFICES ASSUME NEW p \in Z PROVE p[1] \in S
    OBVIOUS
  <2> QED
    BY TriplesOnly DEF Third
<1>5. ASSUME NEW g \in S
      PROVE  /\ IsFiniteSet(Fiber(Z, key, g))
             /\ Cardinality(Fiber(Z, key, g)) =
                  Mult(Landing(g), a) - (IF g \in Between(g, f) THEN 1 ELSE 0)
                                      - (IF f \in Between(g, f) THEN 1 ELSE 0)
  <2>1. g \in HopsFrom(b) /\ g # f
    OBVIOUS
  <2>2. Fiber(Z, key, g) = Bounded(b, g, f)
    BY DEF Fiber, Bounded, Third
  <2>3. IsFiniteSet(Bounded(b, g, f)) /\ Cardinality(Bounded(b, g, f)) = Cardinality(Between(g, f) \ {g, f})
    BY <2>1, FirstAndLast
  <2>4. Between(g, f) = {e \in HopsFrom(Landing(g)) : Landing(e) = a}
    <3>1. \A e \in HopsFrom(Landing(g)) : Ends(Landing(e)) = HopsFrom(Landing(e))
      BY UnmaskedFacts
    <3>2. \A w : f \in HopsFrom(w) <=> w = a
      BY HopsAre
    <3> QED
      BY <3>1, <3>2 DEF Between
  <2>5. IsFiniteSet(Between(g, f)) /\ Cardinality(Between(g, f)) = Mult(Landing(g), a)
    <3>1. Between(g, f) \in SUBSET HopsFrom(Landing(g))
      BY DEF Between
    <3> QED
      BY <2>4, <3>1, HopsAre, FS_Subset DEF Mult
  <2>6. Cardinality(Between(g, f) \ {g, f}) =
          Cardinality(Between(g, f)) - (IF g \in Between(g, f) THEN 1 ELSE 0)
                                     - (IF f \in Between(g, f) THEN 1 ELSE 0)
    BY <2>1, <2>5, LessMembers
  <2> QED
    BY <2>2, <2>3, <2>5, <2>6
<1>6. ASSUME NEW g \in S
      PROVE  /\ g \in Between(g, f) <=> a = b /\ Landing(g) = b
             /\ f \in Between(g, f) <=> a = b /\ Landing(g) = b
  <2>1. Between(g, f) = {e \in HopsFrom(Landing(g)) : f \in HopsFrom(Landing(e))}
    <3>1. \A e \in HopsFrom(Landing(g)) : Ends(Landing(e)) = HopsFrom(Landing(e))
      BY UnmaskedFacts
    <3> QED
      BY <3>1 DEF Between
  <2>2. \A w : (f \in HopsFrom(w) <=> w = a) /\ (g \in HopsFrom(w) <=> w = b)
    BY HopsAre
  <2> QED
    BY <2>1, <2>2
<1>7. Cardinality(Z) = SumFunction(F)
  <2>1. IsFiniteSet(S) /\ (\A p \in Z : key[p] \in S) /\ \A g \in S : IsFiniteSet(Fiber(Z, key, g))
    BY <1>2, <1>4, <1>5
  <2> HIDE DEF S, key
  <2>2. Keyed(S, Z, key)
    BY <2>1 DEF Keyed
  <2> QED
    BY <2>2, CountedBy
<1>8. SelfLoops(b) \in Nat /\ Mult(b, b) = SelfLoops(b) /\ \A g \in H : Mult(Landing(g), a) \in Nat
  BY LoopsAre, MultIs
<1>9. CASE a = b
  <2>1. \A g \in S : Cardinality(Fiber(Z, key, g)) = IF Landing(g) = b THEN SelfLoops(b) - 2 ELSE Mult(Landing(g), b)
    <3> SUFFICES ASSUME NEW g \in S
                 PROVE  Cardinality(Fiber(Z, key, g)) = IF Landing(g) = b THEN SelfLoops(b) - 2 ELSE Mult(Landing(g), b)
      OBVIOUS
    <3> HIDE DEF key
    <3>0. Mult(Landing(g), a) \in Nat
      BY MultIs
    <3>1. CASE Landing(g) = b
      <4>1. g \in Between(g, f) /\ f \in Between(g, f)
        BY <1>6, <1>9, <3>1
      <4>2. Cardinality(Fiber(Z, key, g)) = Mult(Landing(g), a) - 1 - 1
        BY <1>5, <4>1
      <4>3. Mult(Landing(g), a) = SelfLoops(b)
        BY <1>8, <1>9, <3>1
      <4> QED
        BY <1>8, <3>1, <4>2, <4>3
    <3>2. CASE Landing(g) # b
      <4>1. g \notin Between(g, f) /\ f \notin Between(g, f)
        BY <1>6, <3>2
      <4>2. Cardinality(Fiber(Z, key, g)) = Mult(Landing(g), a) - 0 - 0
        BY <1>5, <4>1
      <4> QED
        BY <1>9, <3>0, <3>2, <4>2
    <3> QED
      BY <3>1, <3>2
  <2>2. \A g \in H : back[g] \in Int
    BY <1>8, <1>9
  <2>3. \A g \in S : F[g] = back[g]
    BY <2>1 DEF Fibers
  <2>4. F \in [S -> Int] /\ back \in [H -> Int]
    BY <2>2, <2>3 DEF Fibers
  <2>5. back[f] = SelfLoops(b) - 2
    BY <1>1, <1>9
  <2>6. SumFunction(back) = back[f] + SumFunction(F)
    <3>1. f \in H /\ S = H \ {f}
      BY <1>1, <1>9
    <3> HIDE DEF H, S, back, F
    <3>2. Removed(H, back, f, S, F)
      BY <1>2, <2>3, <2>4, <3>1 DEF Removed
    <3> QED
      BY <3>2, SumWithout
  <2>7. SumFunction(F) \in Int
    BY <1>2, <2>4, SumType
  <2> HIDE DEF F, back
  <2>8. SumFunction(F) = SumFunction(back) - (SelfLoops(b) - 2)
    BY <1>8, <2>5, <2>6, <2>7
  <2> QED
    BY <1>7, <1>9, <2>8 DEF back
<1>10. CASE a # b
  <2>1. S = H
    BY <1>1, <1>10
  <2>2. \A g \in S : Cardinality(Fiber(Z, key, g)) = Mult(Landing(g), a)
    <3> SUFFICES ASSUME NEW g \in S PROVE Cardinality(Fiber(Z, key, g)) = Mult(Landing(g), a)
      OBVIOUS
    <3> HIDE DEF key
    <3>1. Mult(Landing(g), a) \in Nat
      BY MultIs
    <3>2. g \notin Between(g, f) /\ f \notin Between(g, f)
      BY <1>6, <1>10
    <3>3. Cardinality(Fiber(Z, key, g)) = Mult(Landing(g), a) - 0 - 0
      BY <1>5, <3>2
    <3> QED
      BY <3>1, <3>3
  <2>3. F = far
    BY <2>1, <2>2 DEF Fibers
  <2> QED
    BY <1>7, <1>10, <2>3
<1> HIDE DEF F, back, far, H, S, key
<1> QED
  BY <1>9, <1>10

(* A set less three parts that share nothing pairwise *)
LEMMA LessThree ==
  ASSUME NEW X, IsFiniteSet(X), NEW A \in SUBSET X, NEW B \in SUBSET X, NEW C \in SUBSET X,
         A \cap B = {}, A \cap C = {}, B \cap C = {}
  PROVE  /\ Cardinality(X \ (A \cup B \cup C)) =
              Cardinality(X) - (Cardinality(A) + Cardinality(B) + Cardinality(C))
         /\ Cardinality(A) \in Nat /\ Cardinality(B) \in Nat /\ Cardinality(C) \in Nat
<1>1. /\ Cardinality(A) \in Nat /\ Cardinality(B) \in Nat /\ Cardinality(C) \in Nat /\ Cardinality(X) \in Nat
      /\ IsFiniteSet(A) /\ IsFiniteSet(B)
  BY FS_Subset, FS_CardinalityType
<1> DEFINE D == A \cup B
<1>2. Cardinality(D) = Cardinality(A) + Cardinality(B)
  BY <1>1, DisjointUnion
<1>3. D \in SUBSET X /\ D \cap C = {} /\ X \ (A \cup B \cup C) = X \ (D \cup C)
  OBVIOUS
<1> HIDE DEF D
<1>4. Cardinality(X \ (D \cup C)) = Cardinality(X) - Cardinality(D) - Cardinality(C)
  BY <1>3, LessTwo
<1>5. Cardinality(X \ (A \cup B \cup C)) = Cardinality(X) - (Cardinality(A) + Cardinality(B)) - Cardinality(C)
  BY <1>2, <1>3, <1>4
<1> QED
  BY <1>1, <1>5

(* used_trails_at_3 is the number of trails of three hops that use the edge. *)
LEMMA UsedIs ==
  ASSUME goal \in CountType, Unmasked, NEW a, NEW f \in HopsFrom(a), NEW b, b = Landing(f),
         ways2[b] = Cardinality(Routes(2, b, FALSE))
  PROVE  Cardinality(After(3, b, TRUE, f)) = Less(Cardinality(Routes(3, b, TRUE)), Used3(b, a))
<1> DEFINE X == Routes(3, b, TRUE)
           A == Beginning(3, b, TRUE, f)
           B == Second(b, f)
           C == Third(b, f)
           l == SelfLoops(b)
           d == Degree(b)
           w == ways2[b]
           m == Mult(b, a)
           s1 == SumFunction([e \in HopsFrom(b) |-> IF Landing(e) = b THEN l - 2 ELSE Mult(Landing(e), b)])
           s2 == SumFunction([e \in HopsFrom(b) |-> Mult(Landing(e), a)])
           uses == IF a = b
                   THEN (w - l * d + (l - 1) * (d - 2)) + (l - 1) * (d - 2) + (s1 - (l - 2))
                   ELSE m * (d - 1) + s2
<1>1. Used3(b, a) = IF uses > 0 THEN uses ELSE 0
  BY Zenon DEF Used3, Degree
<1>2. After(3, b, TRUE, f) = X \ (A \cup B \cup C)
  <2>1. 1 .. 3 = {1, 2, 3}
    OBVIOUS
  <2> QED
    BY <2>1 DEF After, Beginning, Second, Third
<1>3. A \in SUBSET X /\ B \in SUBSET X /\ C \in SUBSET X
  BY DEF Beginning, Second, Third
<1>4. A \cap B = {} /\ A \cap C = {} /\ B \cap C = {}
  BY TriplesOnly DEF Beginning, Second, Third
<1>5. IsFiniteSet(X) /\ Cardinality(X) \in Nat
  BY RoutesAreFinite, FS_CardinalityType
<1>6. Cardinality(A) = IF a = b THEN w - 2 * l - d + 2 ELSE 0
  BY UsedFirst
<1>7. Cardinality(B) = IF a = b THEN (l - 1) * (d - 2) ELSE m * (d - 1)
  BY UsedSecond
<1>8. Cardinality(C) = IF a = b THEN s1 - (l - 2) ELSE s2
  BY UsedThird
<1>9. /\ Cardinality(X \ (A \cup B \cup C)) =
           Cardinality(X) - (Cardinality(A) + Cardinality(B) + Cardinality(C))
      /\ Cardinality(A) \in Nat /\ Cardinality(B) \in Nat /\ Cardinality(C) \in Nat
  <2> HIDE DEF X, A, B, C
  <2> QED
    BY <1>3, <1>4, <1>5, LessThree
<1>10. l \in Nat /\ d \in Nat /\ m \in Nat /\ w \in Nat /\ s1 \in Int /\ s2 \in Int
  <2>1. l \in Nat /\ d \in Nat /\ m \in Nat /\ \A e \in HopsFrom(b) : Mult(Landing(e), b) \in Nat /\ Mult(Landing(e), a) \in Nat
    BY LoopsAre, UnmaskedFacts, MultIs
  <2>2. w \in Nat
    BY RouteCountType
  <2>3. IsFiniteSet(HopsFrom(b))
    BY HopsAre
  <2> DEFINE H == HopsFrom(b)
             f1 == [e \in H |-> IF Landing(e) = b THEN l - 2 ELSE Mult(Landing(e), b)]
             f2 == [e \in H |-> Mult(Landing(e), a)]
  <2>4. f1 \in [H -> Int] /\ f2 \in [H -> Int]
    BY <2>1
  <2>5. SumFunction(f1) \in Int /\ SumFunction(f2) \in Int
    <3> HIDE DEF f1, f2
    <3> QED
      BY <2>3, <2>4, SumType
  <2> QED
    BY <2>1, <2>2, <2>5
<1> HIDE DEF X, A, B, C, l, d, w, m, s1, s2
<1>11. uses = Cardinality(A) + Cardinality(B) + Cardinality(C)
  <2>1. CASE a = b
    <3>1. (l - 1) * (d - 2) = l * d - 2 * l - d + 2 /\ l * d \in Int
      BY <1>10
    <3> DEFINE y == l * d
    <3>2. Cardinality(A) = w - 2 * l - d + 2 /\ Cardinality(B) = y - 2 * l - d + 2 /\ Cardinality(C) = s1 - (l - 2) /\ y \in Int
      BY <1>6, <1>7, <1>8, <2>1, <3>1
    <3>3. uses = (w - y + (y - 2 * l - d + 2)) + (y - 2 * l - d + 2) + (s1 - (l - 2))
      BY <2>1, <3>1
    <3> HIDE DEF y, uses
    <3> QED
      BY <1>10, <3>2, <3>3
  <2>2. CASE a # b
    <3>1. Cardinality(A) = 0 /\ Cardinality(B) = m * (d - 1) /\ Cardinality(C) = s2 /\ uses = m * (d - 1) + s2
      BY <1>6, <1>7, <1>8, <2>2
    <3> HIDE DEF uses
    <3> QED
      BY <1>9, <3>1
  <2> QED
    BY <2>1, <2>2
<1> HIDE DEF uses
<1>12. uses \in Nat /\ Used3(b, a) = uses
  BY <1>1, <1>9, <1>11
<1>13. Cardinality(After(3, b, TRUE, f)) = Cardinality(X) - uses
  BY <1>2, <1>9, <1>11
<1>14. Cardinality(After(3, b, TRUE, f)) \in Nat
  <2>1. 3 \in Nat
    OBVIOUS
  <2> QED
    BY <2>1, AfterIsFinite
<1>15. Less(Cardinality(X), uses) = Cardinality(X) - uses
  <2> DEFINE x == Cardinality(X)
  <2>1. x \in Nat /\ x - uses \in Nat
    BY <1>5, <1>13, <1>14
  <2> HIDE DEF x
  <2>2. Less(x, uses) = x - uses
    BY <1>12, <2>1 DEF Less
  <2> QED
    BY <2>2 DEF x
<1> QED
  BY <1>12, <1>13, <1>15 DEF X

(* trails_at_4_from is the number of trails of four hops. *)
LEMMA Trails4AreExact ==
  ASSUME goal \in CountType, Unmasked, NEW s,
         \A v \in Corners : ways2[v] = Cardinality(Routes(2, v, FALSE)),
         \A v \in Corners : trails3[v] = Cardinality(Routes(3, v, TRUE))
  PROVE  Cardinality(Routes(4, s, TRUE)) = Trails4(s)
<1>1. \A e \in HopsFrom(s) :
        Cardinality(After(3, Landing(e), TRUE, e)) = Less(trails3[Landing(e)], Used3(Landing(e), s))
  <2> SUFFICES ASSUME NEW e \in HopsFrom(s)
               PROVE  Cardinality(After(3, Landing(e), TRUE, e)) =
                        Less(trails3[Landing(e)], Used3(Landing(e), s))
    OBVIOUS
  <2>1. Landing(e) \in Corners
    BY HopsAre
  <2>2. ways2[Landing(e)] = Cardinality(Routes(2, Landing(e), FALSE))
    BY <2>1
  <2>3. trails3[Landing(e)] = Cardinality(Routes(3, Landing(e), TRUE))
    BY <2>1
  <2>4. Cardinality(After(3, Landing(e), TRUE, e)) =
          Less(Cardinality(Routes(3, Landing(e), TRUE)), Used3(Landing(e), s))
    BY <2>2, UsedIs
  <2> QED
    BY <2>3, <2>4
<1>2. ASSUME NEW n \in Nat, n = 3
      PROVE  Cardinality(Routes(n + 1, s, TRUE)) =
               SumFunction([e \in HopsFrom(s) |-> Cardinality(After(n, Landing(e), TRUE, e))])
  <2>1. n # 0
    BY <1>2
  <2> QED
    BY <2>1, Unfolded, Zenon
<1>3. Cardinality(Routes(4, s, TRUE)) =
        SumFunction([e \in HopsFrom(s) |-> Cardinality(After(3, Landing(e), TRUE, e))])
  <2>1. 3 \in Nat /\ 3 + 1 = 4
    OBVIOUS
  <2> QED
    BY <1>2, <2>1
<1>4. [e \in HopsFrom(s) |-> Cardinality(After(3, Landing(e), TRUE, e))] =
      [e \in HopsFrom(s) |-> Less(trails3[Landing(e)], Used3(Landing(e), s))]
  BY <1>1
<1> QED
  BY <1>3, <1>4 DEF Trails4

(* The paths of so many hops, as the reference builds them *)
GrownPaths(once) ==
  CHOOSE g : g = [n \in 0 .. goal.max |->
                    IF n = 0 THEN {<<>>} ELSE UNION {Longer(path, once) : path \in g[n - 1]}]

(* The two definitions are one formula. *)
LEMMA PathsAreGrown ==
  ASSUME NEW lengths, NEW once
  PROVE  Paths(lengths, once) = UNION {GrownPaths(once)[n] : n \in lengths}
  BY Zenon DEF Paths, GrownPaths

(* A path of n hops, spelled out *)
LEMMA PathIs ==
  ASSUME NEW n \in Nat, NEW once, NEW p
  PROVE  p \in OfLength(n, once) <=>
           /\ p \in [1 .. n -> Edges]
           /\ \A i \in 1 .. n : Usable(p[i])
           /\ \A i \in 1 .. n : i + 1 \in 1 .. n => goal.graph[p[i + 1]].from = goal.graph[p[i]].to
           /\ once => \A i, j \in 1 .. n : p[i] = p[j] => i = j
<1>1. ASSUME p \in [1 .. n -> Edges]
      PROVE  DOMAIN p = 1 .. n
  BY <1>1
<1> QED
  BY <1>1 DEF OfLength, Chained, Once

(* The path of no hops is the empty sequence. *)
LEMMA EmptyPath ==
  ASSUME NEW once
  PROVE  OfLength(0, once) = {<<>>}
<1>1. 1 .. 0 = {} /\ 0 \in Nat
  OBVIOUS
<1>2. ASSUME NEW p \in [1 .. 0 -> Edges] PROVE p = <<>>
  BY <1>1
<1>3. <<>> \in [1 .. 0 -> Edges]
  BY <1>1
<1>4. \A p : p \in OfLength(0, once) => p \in [1 .. 0 -> Edges]
  BY DEF OfLength
<1>5. <<>> \in OfLength(0, once)
  BY <1>1, <1>3, PathIs
<1> QED
  BY <1>2, <1>4, <1>5

(* A path one longer is a path and an edge that may follow it. *)
LEMMA AppendIs ==
  ASSUME NEW n \in Nat, NEW p \in [1 .. n -> Edges], NEW e \in Edges
  PROVE  /\ Append(p, e) \in [1 .. n + 1 -> Edges]
         /\ \A i \in 1 .. n : Append(p, e)[i] = p[i]
         /\ Append(p, e)[n + 1] = e
         /\ (p # <<>> <=> n # 0) /\ Last(p) = p[n] /\ DOMAIN p = 1 .. n
<1>1. p \in Seq(Edges) /\ Len(p) = n /\ DOMAIN p = 1 .. n
  BY SeqDef
<1>2. Append(p, e) \in Seq(Edges) /\ Len(Append(p, e)) = n + 1
  BY <1>1
<1>3. Append(p, e) \in [1 .. n + 1 -> Edges]
  <2> DEFINE q == Append(p, e)
  <2>1. q \in Seq(Edges) /\ Len(q) = n + 1
    BY <1>2
  <2> HIDE DEF q
  <2>2. q \in [1 .. Len(q) -> Edges]
    BY <2>1
  <2> QED
    BY <2>1, <2>2 DEF q
<1>4. (\A i \in 1 .. n : Append(p, e)[i] = p[i]) /\ Append(p, e)[n + 1] = e
  BY <1>1
<1>5. p # <<>> <=> n # 0
  BY <1>1
<1>6. Last(p) = p[n]
  BY <1>1 DEF Last
<1> QED
  BY <1>1, <1>3, <1>4, <1>5, <1>6

(* The reference makes a path longer by an edge that may follow it. *)
LEMMA LongerIs ==
  ASSUME NEW n \in Nat, NEW once \in BOOLEAN, NEW p \in OfLength(n, once), NEW q
  PROVE  q \in Longer(p, once) <=>
           \E e \in Edges :
             /\ q = Append(p, e) /\ Usable(e)
             /\ n # 0 => goal.graph[e].from = goal.graph[p[n]].to
             /\ once => \A i \in 1 .. n : p[i] # e
<1>1. p \in [1 .. n -> Edges]
  BY DEF OfLength
<1>2. \A e \in Edges : (p # <<>> <=> n # 0) /\ Last(p) = p[n] /\ DOMAIN p = 1 .. n
  BY <1>1, AppendIs
<1> QED
  BY <1>2, Zenon DEF Longer, Usable, Edges

(* What it makes is a path of one hop more, *)
LEMMA GrownAtEnd ==
  ASSUME NEW n \in Nat, NEW once \in BOOLEAN, NEW p \in OfLength(n, once), NEW q \in Longer(p, once)
  PROVE  q \in OfLength(n + 1, once)
<1>1. p \in [1 .. n -> Edges]
  BY DEF OfLength
<1>2. PICK e \in Edges :
        /\ q = Append(p, e) /\ Usable(e)
        /\ n # 0 => goal.graph[e].from = goal.graph[p[n]].to
        /\ once => \A i \in 1 .. n : p[i] # e
  BY LongerIs
<1>3. q \in [1 .. n + 1 -> Edges] /\ (\A i \in 1 .. n : q[i] = p[i]) /\ q[n + 1] = e
  BY <1>1, <1>2, AppendIs
<1>4. /\ \A i \in 1 .. n : Usable(p[i])
      /\ \A i \in 1 .. n : i + 1 \in 1 .. n => goal.graph[p[i + 1]].from = goal.graph[p[i]].to
      /\ once => \A i, j \in 1 .. n : p[i] = p[j] => i = j
  BY PathIs
<1>5. \A i : i \in 1 .. n + 1 <=> i \in 1 .. n \/ i = n + 1
  OBVIOUS
<1>6. \A i \in 1 .. n + 1 : Usable(q[i])
  BY <1>2, <1>3, <1>4, <1>5
<1>7. ASSUME NEW i \in 1 .. n + 1, i + 1 \in 1 .. n + 1
      PROVE  goal.graph[q[i + 1]].from = goal.graph[q[i]].to
  <2>1. CASE i = n
    <3>1. n # 0 /\ n \in 1 .. n /\ q[i + 1] = e /\ q[i] = p[n]
      BY <1>3, <1>7, <2>1
    <3> QED
      BY <1>2, <3>1
  <2>2. CASE i # n
    <3>1. i \in 1 .. n /\ i + 1 \in 1 .. n
      BY <1>7, <2>2
    <3> QED
      BY <1>3, <1>4, <3>1
  <2> QED
    BY <2>1, <2>2
<1>8. ASSUME once, NEW i \in 1 .. n + 1, NEW j \in 1 .. n + 1, q[i] = q[j]
      PROVE  i = j
  <2>1. \A k \in 1 .. n : q[k] # q[n + 1]
    BY <1>2, <1>3, <1>8
  <2>2. CASE i \in 1 .. n /\ j \in 1 .. n
    BY <1>3, <1>4, <1>8, <2>2
  <2> QED
    BY <1>5, <1>8, <2>1, <2>2
<1>9. n + 1 \in Nat
  OBVIOUS
<1> QED
  BY <1>3, <1>6, <1>7, <1>8, <1>9, PathIs

(* and every path of one hop more is made so. *)
LEMMA CutAtEnd ==
  ASSUME NEW n \in Nat, NEW once \in BOOLEAN, NEW q \in OfLength(n + 1, once)
  PROVE  \E p \in OfLength(n, once) : q \in Longer(p, once)
<1> DEFINE p == [i \in 1 .. n |-> q[i]]
           e == q[n + 1]
<1>0. n + 1 \in Nat
  OBVIOUS
<1>1. /\ q \in [1 .. n + 1 -> Edges]
      /\ \A i \in 1 .. n + 1 : Usable(q[i])
      /\ \A i \in 1 .. n + 1 : i + 1 \in 1 .. n + 1 => goal.graph[q[i + 1]].from = goal.graph[q[i]].to
      /\ once => \A i, j \in 1 .. n + 1 : q[i] = q[j] => i = j
  <2>1. ASSUME NEW m \in Nat, m = n + 1
        PROVE  /\ q \in [1 .. m -> Edges]
               /\ \A i \in 1 .. m : Usable(q[i])
               /\ \A i \in 1 .. m : i + 1 \in 1 .. m => goal.graph[q[i + 1]].from = goal.graph[q[i]].to
               /\ once => \A i, j \in 1 .. m : q[i] = q[j] => i = j
    <3>1. q \in OfLength(m, once)
      BY <2>1
    <3> QED
      BY <3>1, PathIs
  <2> QED
    BY <1>0, <2>1
<1>2. \A i : i \in 1 .. n + 1 <=> i \in 1 .. n \/ i = n + 1
  OBVIOUS
<1>3. p \in [1 .. n -> Edges] /\ e \in Edges /\ Usable(e) /\ \A i \in 1 .. n : p[i] = q[i]
  BY <1>1, <1>2
<1>4. q = Append(p, e)
  <2>1. Append(p, e) \in [1 .. n + 1 -> Edges] /\ (\A i \in 1 .. n : Append(p, e)[i] = p[i]) /\ Append(p, e)[n + 1] = e
    <3> HIDE DEF p, e
    <3> QED
      BY <1>3, AppendIs
  <2>2. \A i \in 1 .. n + 1 : q[i] = Append(p, e)[i]
    BY <1>2, <1>3, <2>1
  <2> HIDE DEF p, e
  <2> QED
    BY <1>1, <2>1, <2>2
<1> HIDE DEF p
<1>5. p \in OfLength(n, once)
  <2>1. \A i \in 1 .. n : Usable(p[i])
    BY <1>1, <1>2, <1>3
  <2>2. \A i \in 1 .. n : i + 1 \in 1 .. n => goal.graph[p[i + 1]].from = goal.graph[p[i]].to
    BY <1>1, <1>2, <1>3
  <2>3. once => \A i, j \in 1 .. n : p[i] = p[j] => i = j
    BY <1>1, <1>2, <1>3
  <2> QED
    BY <1>3, <2>1, <2>2, <2>3, PathIs
<1>6. n # 0 => goal.graph[e].from = goal.graph[p[n]].to
  <2>1. n # 0 => n \in 1 .. n /\ n \in 1 .. n + 1 /\ n + 1 \in 1 .. n + 1
    OBVIOUS
  <2> QED
    BY <1>1, <1>3, <2>1
<1>7. once => \A i \in 1 .. n : p[i] # e
  <2>1. \A i \in 1 .. n : i \in 1 .. n + 1 /\ n + 1 \in 1 .. n + 1 /\ i # n + 1
    OBVIOUS
  <2> QED
    BY <1>1, <1>3, <2>1
<1> HIDE DEF e
<1>8. q \in Longer(p, once)
  BY <1>3, <1>4, <1>5, <1>6, <1>7, LongerIs
<1> QED
  BY <1>5, <1>8

(* So the paths of one hop more are all it makes of the paths of a length. *)
LEMMA OneLonger ==
  ASSUME NEW n \in Nat, NEW once \in BOOLEAN
  PROVE  OfLength(n + 1, once) = UNION {Longer(path, once) : path \in OfLength(n, once)}
<1>1. ASSUME NEW p \in OfLength(n, once), NEW q \in Longer(p, once) PROVE q \in OfLength(n + 1, once)
  BY GrownAtEnd
<1>2. ASSUME NEW q \in OfLength(n + 1, once) PROVE \E p \in OfLength(n, once) : q \in Longer(p, once)
  BY CutAtEnd
<1> QED
  BY <1>1, <1>2

(* The reference builds the paths of every length up to the bound. *)
LEMMA GrownPathsAre ==
  ASSUME goal \in CountType, NEW once \in BOOLEAN
  PROVE  \A n \in 0 .. goal.max : GrownPaths(once)[n] = OfLength(n, once)
<1> DEFINE m == goal.max
           ok(g) == g = [n \in 0 .. m |->
                           IF n = 0 THEN {<<>>} ELSE UNION {Longer(path, once) : path \in g[n - 1]}]
           g0 == [n \in 0 .. m |-> OfLength(n, once)]
<1>1. m \in Nat
  BY GoalFacts
<1>2. ok(g0)
  <2>1. ASSUME NEW n \in 0 .. m
        PROVE  g0[n] = IF n = 0 THEN {<<>>} ELSE UNION {Longer(path, once) : path \in g0[n - 1]}
    <3>1. CASE n = 0
      BY <3>1, EmptyPath
    <3>2. CASE n # 0
      <4>1. n - 1 \in Nat /\ n - 1 \in 0 .. m /\ (n - 1) + 1 = n
        BY <1>1, <3>2
      <4>2. g0[n - 1] = OfLength(n - 1, once) /\ g0[n] = OfLength(n, once)
        BY <4>1
      <4>3. OfLength((n - 1) + 1, once) = UNION {Longer(path, once) : path \in OfLength(n - 1, once)}
        BY <4>1, OneLonger
      <4> HIDE DEF g0
      <4> QED
        BY <3>2, <4>1, <4>2, <4>3
    <3> QED
      BY <3>1, <3>2
  <2>2. g0 = [n \in 0 .. m |-> g0[n]]
    OBVIOUS
  <2> HIDE DEF g0
  <2> QED
    BY <2>1, <2>2
<1> DEFINE g == GrownPaths(once)
<1>3. ok(g)
  <2>1. \E h : ok(h)
    BY <1>2
  <2>2. g = CHOOSE h : ok(h)
    BY DEF GrownPaths
  <2> HIDE DEF ok, g
  <2> QED
    BY <2>1, <2>2
<1>4. \A n \in 0 .. m : g[n] = IF n = 0 THEN {<<>>} ELSE UNION {Longer(path, once) : path \in g[n - 1]}
  <2> HIDE DEF g
  <2> QED
    BY <1>3
<1> HIDE DEF g, ok, m
<1> DEFINE B == {n \in Nat : n <= m => g[n] = OfLength(n, once)}
<1>5. 0 \in B
  <2>1. 0 \in 0 .. m
    BY <1>1
  <2>2. g[0] = {<<>>}
    BY <1>4, <2>1
  <2> QED
    BY <2>2, EmptyPath
<1>6. ASSUME NEW n \in Nat, n \in B PROVE n + 1 \in B
  <2> SUFFICES ASSUME n + 1 <= m PROVE g[n + 1] = OfLength(n + 1, once)
    OBVIOUS
  <2>1. n + 1 \in 0 .. m /\ n <= m /\ (n + 1) - 1 = n /\ n + 1 # 0
    BY <1>1
  <2>2. g[n + 1] = UNION {Longer(path, once) : path \in g[(n + 1) - 1]}
    BY <1>4, <2>1
  <2>3. g[n] = OfLength(n, once)
    BY <1>6, <2>1
  <2>4. OfLength(n + 1, once) = UNION {Longer(path, once) : path \in OfLength(n, once)}
    BY OneLonger
  <2> QED
    BY <2>1, <2>2, <2>3, <2>4
<1>7. \A n \in Nat : n \in B
  <2> HIDE DEF B
  <2> QED
    BY <1>5, <1>6, EveryNumber
<1> QED
  BY <1>1, <1>7 DEF g, m

(* ... so its paths are the paths of the lengths it is asked for. *)
LEMMA PathsAre ==
  ASSUME goal \in CountType, NEW once \in BOOLEAN, NEW lengths \in SUBSET (0 .. goal.max)
  PROVE  Paths(lengths, once) = UNION {OfLength(n, once) : n \in lengths}
<1>1. \A n \in lengths : GrownPaths(once)[n] = OfLength(n, once)
  BY GrownPathsAre
<1> QED
  BY <1>1, PathsAreGrown

(* Terms added over the input rows *)
Terms == [Corners -> Int]

OverRows(term) == [n \in DOMAIN goal.src |-> term[goal.src[n]]]

(* The sum over the input rows is a sum of a function on the rows. *)
LEMMA RowsAre ==
  ASSUME goal \in CountType, NEW t \in Terms
  PROVE  /\ OverRows(t) \in [DOMAIN goal.src -> Int]
         /\ OverSources(t) = SumFunction(OverRows(t)) /\ OverSources(t) \in Int
<1>1. OverRows(t) \in [DOMAIN goal.src -> Int]
  BY GoalFacts DEF OverRows, Terms
<1>2. OverSources(t) = SumFunction(OverRows(t))
  BY DEF OverSources, OverRows
<1> QED
  BY <1>1, <1>2, GoalFacts, SumType

Summed(t, u, w) ==
  /\ t \in Terms /\ u \in Terms /\ w \in Terms
  /\ \A s \in Corners : w[s] = t[s] + u[s]
(* Sums over the input rows add, *)
LEMMA SourcesAdd ==
  ASSUME goal \in CountType, NEW t, NEW u, NEW w, Summed(t, u, w)
  PROVE  OverSources(w) = OverSources(t) + OverSources(u)
<1> DEFINE D == DOMAIN goal.src
<1>1. IsFiniteSet(D) /\ \A n \in D : goal.src[n] \in Corners
  BY GoalFacts
<1>2. /\ OverRows(t) \in [D -> Int] /\ OverRows(u) \in [D -> Int] /\ OverRows(w) \in [D -> Int]
      /\ OverSources(t) = SumFunction(OverRows(t)) /\ OverSources(u) = SumFunction(OverRows(u))
      /\ OverSources(w) = SumFunction(OverRows(w))
  BY RowsAre DEF Summed
<1>3. \A n \in D : OverRows(w)[n] = OverRows(t)[n] + OverRows(u)[n]
  BY <1>1 DEF OverRows, Summed
<1> HIDE DEF D
<1>4. Added(D, OverRows(t), OverRows(u), OverRows(w))
  BY <1>1, <1>2, <1>3 DEF Added
<1> QED
  BY <1>2, <1>4, SumAdds

(* ... at most so much a row                                               *)
AtMost(t, c) == t \in Terms /\ c \in Int /\ \A s \in Corners : t[s] <= c
(* are bounded by so many rows times the bound, *)
LEMMA SourcesBound ==
  ASSUME goal \in CountType, NEW t, NEW c, AtMost(t, c)
  PROVE  OverSources(t) <= Len(goal.src) * c
<1> DEFINE D == DOMAIN goal.src
           u == [n \in D |-> c]
<1>1. IsFiniteSet(D) /\ (\A n \in D : goal.src[n] \in Corners) /\ Cardinality(D) = Len(goal.src)
  BY GoalFacts
<1>2. OverRows(t) \in [D -> Int] /\ OverSources(t) = SumFunction(OverRows(t))
  BY RowsAre DEF AtMost
<1>3. \A n \in D : OverRows(t)[n] <= u[n]
  BY <1>1 DEF OverRows, AtMost
<1>4. u \in [D -> Int] /\ (\A n \in D : u[n] = c) /\ c \in Int
  BY DEF AtMost
<1> HIDE DEF D, u
<1>5. Below(D, OverRows(t), u) /\ Constant(D, c, u)
  BY <1>1, <1>2, <1>3, <1>4 DEF Below, Constant
<1> QED
  BY <1>1, <1>2, <1>5, SumBounds, SumConstant

(* ... and no less than nothing                                            *)
LEMMA SourcesCount ==
  ASSUME goal \in CountType, NEW t \in [Corners -> Nat]
  PROVE  OverSources(t) \in Nat
<1> DEFINE D == DOMAIN goal.src
           u == [n \in D |-> 0]
<1>0. t \in Terms
  BY DEF Terms
<1>1. IsFiniteSet(D) /\ (\A n \in D : goal.src[n] \in Corners) /\ Cardinality(D) \in Int
  BY GoalFacts
<1>2. OverRows(t) \in [D -> Int] /\ OverSources(t) = SumFunction(OverRows(t)) /\ OverSources(t) \in Int
  BY <1>0, RowsAre
<1>3. \A n \in D : u[n] <= OverRows(t)[n]
  BY <1>1 DEF OverRows
<1>4. u \in [D -> Int] /\ (\A n \in D : u[n] = 0) /\ 0 \in Int
  OBVIOUS
<1> HIDE DEF D, u
<1>5. Below(D, u, OverRows(t)) /\ Constant(D, 0, u)
  BY <1>1, <1>2, <1>3, <1>4 DEF Below, Constant
<1>6. SumFunction(u) = Cardinality(D) * 0 /\ SumFunction(u) <= SumFunction(OverRows(t))
  BY <1>5, SumBounds, SumConstant
<1>7. SumFunction(u) = 0
  BY <1>1, <1>6
<1> QED
  BY <1>2, <1>6, <1>7

-----------------------------------------------------------------------------
(* The rows the reference counts for a source, of up to k hops *)
RowsWanted(k, s) == UNION {Routes(n, s, goal.trail) : n \in {m \in 1 .. k : goal.min <= m}}
Zero(s) == IF goal.min = 0 THEN Pass(s) ELSE 0
Expected(k, s) == Zero(s) + IF Seeded(s) THEN Cardinality(RowsWanted(k, s)) ELSE 0

(* Of no hops there is none. *)
LEMMA NoneYet ==
  ASSUME NEW s
  PROVE  RowsWanted(0, s) = {} /\ IsFiniteSet(RowsWanted(0, s)) /\ Cardinality(RowsWanted(0, s)) = 0
<1>1. RowsWanted(0, s) = {}
  BY DEF RowsWanted
<1> QED
  BY <1>1, FS_EmptySet

(* One more hop adds the paths of that length, if they are asked for. *)
LEMMA OneHopMore ==
  ASSUME goal \in CountType, NEW s, NEW k \in Nat, IsFiniteSet(RowsWanted(k, s))
  PROVE  /\ IsFiniteSet(RowsWanted(k + 1, s))
         /\ Cardinality(RowsWanted(k + 1, s)) =
              Cardinality(RowsWanted(k, s))
              + IF goal.min <= k + 1 THEN Cardinality(Routes(k + 1, s, goal.trail)) ELSE 0
<1> DEFINE R == Routes(k + 1, s, goal.trail)
<1>1. Cardinality(RowsWanted(k, s)) \in Nat
  BY FS_CardinalityType
<1>2. goal.min \in Nat /\ k + 1 \in Nat
  BY GoalFacts
<1>3. CASE goal.min <= k + 1
  <2>1. {m \in 1 .. k + 1 : goal.min <= m} = {m \in 1 .. k : goal.min <= m} \cup {k + 1}
    BY <1>2, <1>3
  <2>2. RowsWanted(k + 1, s) = RowsWanted(k, s) \cup R
    BY <2>1 DEF RowsWanted
  <2>3. RowsWanted(k, s) \cap R = {}
    <3> SUFFICES ASSUME NEW p \in R, NEW n \in 1 .. k, p \in Routes(n, s, goal.trail) PROVE FALSE
      BY DEF RowsWanted
    <3>1. p \in [1 .. k + 1 -> Edges] /\ p \in [1 .. n -> Edges]
      BY DEF Routes, OfLength
    <3>2. k + 1 \in 1 .. k + 1 /\ ~(k + 1 \in 1 .. n)
      OBVIOUS
    <3> QED
      BY <3>1, <3>2
  <2>4. IsFiniteSet(R)
    BY <1>2, RoutesAreFinite
  <2> HIDE DEF R
  <2>5. IsFiniteSet(RowsWanted(k, s) \cup R) /\ Cardinality(RowsWanted(k, s) \cup R) = Cardinality(RowsWanted(k, s)) + Cardinality(R)
    BY <2>3, <2>4, DisjointUnion
  <2> QED
    BY <1>3, <2>2, <2>5 DEF R
<1>4. CASE ~(goal.min <= k + 1)
  <2>1. {m \in 1 .. k + 1 : goal.min <= m} = {m \in 1 .. k : goal.min <= m}
    BY <1>2, <1>4
  <2>2. RowsWanted(k + 1, s) = RowsWanted(k, s)
    BY <2>1 DEF RowsWanted
  <2> QED
    BY <1>1, <1>4, <2>2
<1> QED
  BY <1>3, <1>4

(* They are finitely many. *)
LEMMA WantedIsFinite ==
  ASSUME goal \in CountType, NEW s
  PROVE  \A k \in Nat : IsFiniteSet(RowsWanted(k, s)) /\ Cardinality(RowsWanted(k, s)) \in Nat
<1> DEFINE B == {k \in Nat : IsFiniteSet(RowsWanted(k, s))}
<1>1. 0 \in B
  BY NoneYet
<1>2. \A k \in Nat : k \in B => k + 1 \in B
  BY OneHopMore
<1>3. \A k \in Nat : k \in B
  <2> HIDE DEF B
  <2> QED
    BY <1>1, <1>2, EveryNumber
<1> QED
  BY <1>3, FS_CardinalityType

(* What is expected of a source, by the hops. *)
LEMMA ExpectedIs ==
  ASSUME goal \in CountType, NEW s, NEW k \in Nat
  PROVE  /\ Expected(k, s) \in Nat
         /\ Expected(0, s) = Zero(s)
         /\ Expected(k + 1, s) =
              Expected(k, s)
              + IF Seeded(s) /\ goal.min <= k + 1
                THEN Cardinality(Routes(k + 1, s, goal.trail)) ELSE 0
<1>1. Zero(s) \in Nat
  BY PassIs DEF Zero
<1>2. IsFiniteSet(RowsWanted(k, s)) /\ Cardinality(RowsWanted(k, s)) \in Nat
  BY WantedIsFinite
<1>3. Cardinality(RowsWanted(0, s)) = 0
  BY NoneYet
<1>4. Cardinality(RowsWanted(k + 1, s)) =
        Cardinality(RowsWanted(k, s))
        + IF goal.min <= k + 1 THEN Cardinality(Routes(k + 1, s, goal.trail)) ELSE 0
  BY <1>2, OneHopMore
<1>5. k + 1 \in Nat
  OBVIOUS
<1>6. Cardinality(Routes(k + 1, s, goal.trail)) \in Nat
  BY <1>5, RouteCountType
<1> DEFINE w == Cardinality(RowsWanted(k, s))
           r == Cardinality(Routes(k + 1, s, goal.trail))
           x == Cardinality(RowsWanted(k + 1, s))
           z == Zero(s)
           y == Cardinality(RowsWanted(0, s))
<1>7. /\ Expected(k, s) = z + IF Seeded(s) THEN w ELSE 0
      /\ Expected(0, s) = z + IF Seeded(s) THEN y ELSE 0
      /\ Expected(k + 1, s) = z + IF Seeded(s) THEN x ELSE 0
  BY DEF Expected
<1>8. x = w + IF goal.min <= k + 1 THEN r ELSE 0
  BY <1>4
<1>9. w \in Nat /\ r \in Nat /\ z \in Nat /\ y = 0
  BY <1>1, <1>2, <1>3, <1>6
<1> HIDE DEF w, r, x, y, z
<1>10. CASE Seeded(s)
  <2>1. CASE goal.min <= k + 1
    BY <1>7, <1>8, <1>9, <1>10, <2>1 DEF r, z
  <2>2. CASE ~(goal.min <= k + 1)
    BY <1>7, <1>8, <1>9, <1>10, <2>2 DEF r, z
  <2> QED
    BY <2>1, <2>2
<1>11. CASE ~Seeded(s)
  BY <1>7, <1>9, <1>11 DEF z
<1> QED
  BY <1>10, <1>11

(* The reference adds what is expected of every source. *)
LEMMA EnumeratedIs ==
  ASSUME goal \in CountType, goal.min <= goal.max
  PROVE  Enumerated = OverSources([s \in Corners |-> Expected(goal.max, s)])
<1> DEFINE paths == {path \in Paths(goal.min .. goal.max, goal.trail) \ {<<>>} :
                       goal.graph[Last(path)].to \in goal.pass}
           from(s) == {path \in paths : goal.graph[path[1]].from = s}
<1>1. goal.min \in Nat /\ goal.max \in Nat /\ goal.trail \in BOOLEAN
  BY GoalFacts
<1>2. Paths(goal.min .. goal.max, goal.trail) = UNION {OfLength(n, goal.trail) : n \in goal.min .. goal.max}
  <2> DEFINE L == goal.min .. goal.max
             o == goal.trail
  <2>1. L \in SUBSET (0 .. goal.max) /\ o \in BOOLEAN
    BY <1>1
  <2> HIDE DEF L, o
  <2>2. Paths(L, o) = UNION {OfLength(n, o) : n \in L}
    BY <2>1, PathsAre
  <2> QED
    BY <2>2 DEF L, o
<1>3. ASSUME NEW n \in Nat, NEW p \in OfLength(n, goal.trail)
      PROVE  (p # <<>> <=> n # 0) /\ (n # 0 => Last(p) = p[n])
  <2>1. p \in [1 .. n -> Edges]
    BY DEF OfLength
  <2>2. CASE n = 0
    BY <2>1, <2>2
  <2>3. CASE n # 0
    <3>1. p[1] \in Edges
      BY <2>1, <2>3
    <3> QED
      BY <2>1, <2>3, <3>1, AppendIs
  <2> QED
    BY <2>2, <2>3
<1>4. ASSUME NEW s PROVE from(s) = RowsWanted(goal.max, s)
  <2>1. ASSUME NEW p \in from(s) PROVE p \in RowsWanted(goal.max, s)
    <3>1. /\ p \in Paths(goal.min .. goal.max, goal.trail) /\ p # <<>>
          /\ goal.graph[Last(p)].to \in goal.pass /\ goal.graph[p[1]].from = s
      OBVIOUS
    <3>2. PICK n \in goal.min .. goal.max : p \in OfLength(n, goal.trail)
      BY <1>2, <3>1
    <3>3. n \in Nat /\ n # 0 /\ Last(p) = p[n]
      BY <1>1, <1>3, <3>1, <3>2
    <3>4. p \in Routes(n, s, goal.trail)
      BY <3>1, <3>2, <3>3 DEF Routes
    <3>5. n \in 1 .. goal.max /\ goal.min <= n
      BY <1>1, <3>3
    <3> QED
      BY <3>4, <3>5 DEF RowsWanted
  <2>2. ASSUME NEW p \in RowsWanted(goal.max, s) PROVE p \in from(s)
    <3>1. PICK n \in 1 .. goal.max : goal.min <= n /\ p \in Routes(n, s, goal.trail)
      BY DEF RowsWanted
    <3>2. n \in Nat /\ n # 0 /\ n \in goal.min .. goal.max
      BY <1>1, <3>1
    <3>3. p \in OfLength(n, goal.trail) /\ goal.graph[p[1]].from = s /\ goal.graph[p[n]].to \in goal.pass
      BY <3>1 DEF Routes
    <3>4. p # <<>> /\ Last(p) = p[n]
      BY <1>3, <3>2, <3>3
    <3>5. p \in Paths(goal.min .. goal.max, goal.trail)
      BY <1>2, <3>2, <3>3
    <3> QED
      BY <3>3, <3>4, <3>5
  <2> HIDE DEF from
  <2> QED
    BY <2>1, <2>2
<1>5. Enumerated = OverSources([s \in Corners |-> (IF goal.min = 0 THEN Pass(s) ELSE 0)
                                + (IF Seeded(s) THEN Cardinality(from(s)) ELSE 0)])
  BY Zenon DEF Enumerated
<1>6. [s \in Corners |-> (IF goal.min = 0 THEN Pass(s) ELSE 0)
                         + (IF Seeded(s) THEN Cardinality(from(s)) ELSE 0)]
      = [s \in Corners |-> Expected(goal.max, s)]
  <2>1. \A s : Cardinality(from(s)) = Cardinality(RowsWanted(goal.max, s))
    BY <1>4
  <2> HIDE DEF from
  <2> QED
    BY <2>1 DEF Expected, Zero
<1> HIDE DEF from
<1> QED
  BY <1>5, <1>6

(* The recurrence counts the walks. *)
WaysAre ==
  \A v \in Corners : ways[v] = IF level = 0 THEN Pass(v) ELSE Cardinality(Routes(level, v, FALSE))

(* One level of the recurrence counts the walks of one more hop. *)
LEMMA NextWaysAre ==
  ASSUME goal \in CountType, level \in Nat, WaysAre, NEW v \in Corners
  PROVE  NextWays[v] = Cardinality(Routes(level + 1, v, FALSE))
<1>1. NextWays[v] = SumFunction([e \in HopsFrom(v) |-> ways[Landing(e)]])
  BY DEF NextWays
<1>2. \A e \in HopsFrom(v) : Landing(e) \in Corners
  BY HopsAre
<1>3. CASE level = 0
  <2> DEFINE H == HopsFrom(v)
             f == [e \in H |-> ways[Landing(e)]]
  <2>1. \A e \in H : f[e] = IF e \in Ends(v) THEN 1 ELSE 0
    <3>1. \A e \in H : f[e] = Pass(Landing(e)) /\ (e \in Ends(v) <=> Landing(e) \in goal.pass)
      BY <1>2, <1>3 DEF WaysAre, Ends
    <3> HIDE DEF f, H
    <3> QED
      BY <3>1, PassIs
  <2>2. IsFiniteSet(H) /\ Ends(v) \in SUBSET H /\ Cardinality(Ends(v)) = PassDegree(v) /\ PassDegree(v) \in Nat
    BY HopsAre, EndsAre
  <2>3. f \in [H -> Int]
    BY <2>1
  <2>4. SumFunction(f) = Cardinality(Ends(v)) * 1
    <3> HIDE DEF H, f
    <3>1. 1 \in Int
      OBVIOUS
    <3>2. OnlyWhere(H, Ends(v), 1, f)
      BY <2>1, <2>2, <2>3, <3>1 DEF OnlyWhere
    <3> QED
      BY <3>2, SumWhere
  <2> HIDE DEF f
  <2>5. NextWays[v] = PassDegree(v)
    BY <1>1, <2>2, <2>4 DEF f
  <2>6. Cardinality(Routes(1, v, FALSE)) = PassDegree(v)
    BY SingleCount, Zenon
  <2>7. level + 1 = 1
    BY <1>3
  <2> QED
    BY <2>5, <2>6, <2>7
<1>4. CASE level # 0
  <2>1. \A e \in HopsFrom(v) : ways[Landing(e)] = Cardinality(Routes(level, Landing(e), FALSE))
    BY <1>2, <1>4 DEF WaysAre
  <2>2. Cardinality(Routes(level + 1, v, FALSE)) =
          SumFunction([e \in HopsFrom(v) |-> Cardinality(Routes(level, Landing(e), FALSE))])
    BY <1>4, WalksUnfolded, Zenon
  <2>3. [e \in HopsFrom(v) |-> Cardinality(Routes(level, Landing(e), FALSE))] =
        [e \in HopsFrom(v) |-> ways[Landing(e)]]
    BY <2>1
  <2> QED
    BY <1>1, <2>2, <2>3
<1> QED
  BY <1>3, <1>4

(* The corrections are the walks that are no trails. *)
Kept ==
  /\ level >= 2 => \A v \in Corners : ways2[v] = Cardinality(Routes(2, v, FALSE))
  /\ level >= 3 => \A v \in Corners : trails3[v] = Cardinality(Routes(3, v, TRUE))

(* A trail is a walk. *)
LEMMA FewerTrails ==
  ASSUME goal \in CountType, NEW n \in Nat, NEW v
  PROVE  /\ Cardinality(Routes(n, v, TRUE)) <= Cardinality(Routes(n, v, FALSE))
         /\ Cardinality(Routes(n, v, TRUE)) \in Nat /\ Cardinality(Routes(n, v, FALSE)) \in Nat
<1>1. Routes(n, v, TRUE) \subseteq Routes(n, v, FALSE)
  BY Zenon DEF Routes, OfLength
<1>2. IsFiniteSet(Routes(n, v, FALSE))
  BY RoutesAreFinite, Zenon
<1>3. Cardinality(Routes(n, v, TRUE)) <= Cardinality(Routes(n, v, FALSE))
  BY <1>1, <1>2, FS_Subset, Zenon
<1>4. Cardinality(Routes(n, v, TRUE)) \in Nat
  BY RouteCountType, Zenon
<1>5. Cardinality(Routes(n, v, FALSE)) \in Nat
  BY RouteCountType, Zenon
<1> QED
  BY <1>3, <1>4, <1>5

(* At every level the correction is exact. *)
LEMMA ReusedIs ==
  ASSUME goal \in CountType, NEW s \in Corners, NEW len \in 1 .. 4, level + 1 = len, level \in Nat,
         len = 4 => Unmasked /\ Kept
  PROVE  Cardinality(Routes(len, s, TRUE)) =
           Cardinality(Routes(len, s, FALSE)) - Reused(s, Cardinality(Routes(len, s, FALSE)), len)
<1> DEFINE w == Cardinality(Routes(len, s, FALSE))
           t == Cardinality(Routes(len, s, TRUE))
<1>1. t <= w /\ t \in Nat /\ w \in Nat
  <2>1. len \in Nat
    OBVIOUS
  <2> QED
    BY <2>1, FewerTrails, Zenon
<1>2. CASE len = 1
  <2>1. Cardinality(Routes(1, s, TRUE)) = PassDegree(s) /\ Cardinality(Routes(1, s, FALSE)) = PassDegree(s)
    BY SingleCount, Zenon
  <2>2. Reused(s, w, len) = 0
    BY <1>2 DEF Reused
  <2>3. t = w
    BY <1>2, <2>1
  <2> HIDE DEF t, w
  <2>4. t = w - Reused(s, w, len)
    BY <1>1, <2>2, <2>3
  <2> QED
    BY <2>4 DEF t, w
<1>3. CASE len = 2
  <2>1. Cardinality(Routes(2, s, TRUE)) = Cardinality(Routes(2, s, FALSE)) - SelfLoops(s) * Pass(s)
    BY Trails2
  <2>2. Reused(s, w, len) = SelfLoops(s) * Pass(s)
    BY <1>3 DEF Reused
  <2> QED
    BY <1>3, <2>1, <2>2
<1>4. CASE len = 3
  <2>1. Cardinality(Routes(3, s, TRUE)) = Cardinality(Routes(3, s, FALSE)) - Reused3(s)
    BY Trails3
  <2>2. Reused(s, w, len) = Reused3(s)
    BY <1>4 DEF Reused
  <2> QED
    BY <1>4, <2>1, <2>2
<1>5. CASE len = 4
  <2>1. Unmasked /\ level >= 2 /\ level >= 3 /\ Kept
    BY <1>5
  <2>2. Cardinality(Routes(4, s, TRUE)) = Trails4(s)
    <3>1. \A v \in Corners : ways2[v] = Cardinality(Routes(2, v, FALSE))
      BY <2>1 DEF Kept
    <3>2. \A v \in Corners : trails3[v] = Cardinality(Routes(3, v, TRUE))
      BY <2>1 DEF Kept
    <3> QED
      BY <2>1, <3>1, <3>2, Trails4AreExact
  <2>3. Reused(s, w, len) = Less(w, Trails4(s))
    <3> HIDE DEF w
    <3> QED
      BY <1>5 DEF Reused
  <2>4. t = Trails4(s)
    BY <1>5, <2>2
  <2> HIDE DEF t, w
  <2>5. t = w - Less(w, t)
    BY <1>1 DEF Less
  <2> QED
    BY <2>3, <2>4, <2>5 DEF t, w
<1>6. len = 1 \/ len = 2 \/ len = 3 \/ len = 4
  OBVIOUS
<1> QED
  BY <1>2, <1>3, <1>4, <1>5, <1>6

(* The code gives up only where there are too many walks. *)
AllWalks == UNION {OfLength(n, FALSE) : n \in 0 .. goal.max}
TooMany ==
  LET walks == Cardinality(AllWalks) IN walks > Widest \/ Len(goal.src) * walks > Widest

(* They are what the reference builds, and finitely many. *)
LEMMA AllWalksAre ==
  ASSUME goal \in CountType
  PROVE  /\ AllWalks = UNION {OfLength(n, FALSE) : n \in 0 .. goal.max}
         /\ Paths(0 .. goal.max, FALSE) = AllWalks
         /\ IsFiniteSet(AllWalks) /\ Cardinality(AllWalks) \in Nat
<1>1. goal.max \in Nat
  BY GoalFacts
<1>2. /\ AllWalks = UNION {OfLength(n, FALSE) : n \in 0 .. goal.max}
      /\ Paths(0 .. goal.max, FALSE) = AllWalks
  <2> DEFINE L == 0 .. goal.max
  <2>1. L \in SUBSET (0 .. goal.max) /\ FALSE \in BOOLEAN
    OBVIOUS
  <2> HIDE DEF L
  <2>2. Paths(L, FALSE) = UNION {OfLength(n, FALSE) : n \in L}
    BY <2>1, PathsAre, Zenon
  <2> QED
    BY <2>2, Zenon DEF L, AllWalks
<1> DEFINE U(k) == UNION {OfLength(n, FALSE) : n \in 0 .. k}
           B == {k \in Nat : IsFiniteSet(U(k))}
<1>3. \A n \in Nat : IsFiniteSet(OfLength(n, FALSE))
  BY RoutesAreFinite, Zenon
<1>4. 0 \in B
  <2>1. U(0) = OfLength(0, FALSE)
    <3>1. 0 .. 0 = {0}
      OBVIOUS
    <3> QED
      BY <3>1, Zenon
  <2> QED
    BY <1>3, <2>1
<1>5. ASSUME NEW k \in Nat, k \in B PROVE k + 1 \in B
  <2>1. 0 .. k + 1 = (0 .. k) \cup {k + 1} /\ k + 1 \in Nat
    OBVIOUS
  <2>2. U(k + 1) = U(k) \cup OfLength(k + 1, FALSE)
    BY <2>1, Zenon
  <2>3. IsFiniteSet(U(k)) /\ IsFiniteSet(OfLength(k + 1, FALSE))
    BY <1>3, <1>5, <2>1
  <2> HIDE DEF U
  <2>4. IsFiniteSet(U(k) \cup OfLength(k + 1, FALSE))
    <3> DEFINE X == U(k)
               Y == OfLength(k + 1, FALSE)
    <3>1. IsFiniteSet(X) /\ IsFiniteSet(Y)
      BY <2>3
    <3> HIDE DEF X, Y
    <3>2. IsFiniteSet(X \cup Y)
      BY <3>1, FS_Union
    <3> QED
      BY <3>2 DEF X, Y
  <2>5. IsFiniteSet(U(k + 1))
    BY <2>2, <2>4, Zenon
  <2> QED
    BY <2>1, <2>5
<1>6. \A k \in Nat : k \in B
  <2> HIDE DEF B
  <2> QED
    BY <1>4, <1>5, EveryNumber
<1>7. IsFiniteSet(AllWalks)
  BY <1>1, <1>2, <1>6
<1> QED
  BY <1>2, <1>7, FS_CardinalityType

(* The walks of a length from a node are some of them. *)
LEMMA WalksAmong ==
  ASSUME goal \in CountType, NEW n \in 0 .. goal.max, NEW v
  PROVE  Cardinality(Routes(n, v, FALSE)) <= Cardinality(AllWalks)
<1>1. Routes(n, v, FALSE) \subseteq AllWalks
  BY AllWalksAre, Zenon DEF Routes
<1>2. IsFiniteSet(AllWalks)
  BY AllWalksAre
<1> QED
  BY <1>1, <1>2, FS_Subset, Zenon

(* What is expected of a source and the walks of one more hop are walks.   *)
LEMMA ExpectedAmong ==
  ASSUME goal \in CountType, NEW k \in Nat, k + 1 <= goal.max, NEW s
  PROVE  Expected(k, s) + (IF Seeded(s) THEN Cardinality(Routes(k + 1, s, FALSE)) ELSE 0)
           <= Cardinality(AllWalks)
<1> DEFINE W == RowsWanted(k, s)
           R == Routes(k + 1, s, FALSE)
           E == {<<>>}
<1>0. goal.max \in Nat /\ goal.trail \in BOOLEAN /\ k + 1 \in Nat
  BY GoalFacts
<1>1. \A n \in Nat : \A p : p \in OfLength(n, FALSE) => p \in [1 .. n -> Edges]
  BY Zenon DEF OfLength
<1>2. \A p \in W : \E n \in 1 .. k : p \in OfLength(n, FALSE)
  <2> SUFFICES ASSUME NEW n \in 1 .. k, NEW p \in Routes(n, s, goal.trail)
               PROVE  p \in OfLength(n, FALSE)
    BY DEF RowsWanted
  <2> QED
    BY Zenon DEF Routes, OfLength
<1>3. \A p \in R : p \in OfLength(k + 1, FALSE)
  BY Zenon DEF Routes
<1>4. <<>> \in OfLength(0, FALSE)
  BY EmptyPath, Zenon
<1>5. W \cap R = {}
  <2> SUFFICES ASSUME NEW p, p \in W, p \in R PROVE FALSE
    OBVIOUS
  <2>1. PICK n \in 1 .. k : p \in OfLength(n, FALSE)
    BY <1>2
  <2>2. p \in [1 .. n -> Edges]
    <3>1. n \in Nat
      OBVIOUS
    <3> QED
      BY <1>1, <2>1, <3>1, Zenon
  <2>3. p \in [1 .. k + 1 -> Edges]
    BY <1>0, <1>1, <1>3
  <2>4. k + 1 \in 1 .. k + 1 /\ ~(k + 1 \in 1 .. n)
    OBVIOUS
  <2> QED
    BY <2>2, <2>3, <2>4
<1>6. E \cap (W \cup R) = {}
  <2> SUFFICES ASSUME <<>> \in W \cup R PROVE FALSE
    OBVIOUS
  <2>1. PICK n \in 1 .. k + 1 : <<>> \in OfLength(n, FALSE)
    <3>1. CASE <<>> \in W
      <4>1. PICK n \in 1 .. k : <<>> \in OfLength(n, FALSE)
        BY <1>2, <3>1
      <4>2. n \in 1 .. k + 1
        OBVIOUS
      <4> QED
        BY <4>1, <4>2, Zenon
    <3>2. CASE <<>> \in R
      <4>1. k + 1 \in 1 .. k + 1
        OBVIOUS
      <4> QED
        BY <1>3, <3>2, <4>1
    <3> QED
      BY <3>1, <3>2
  <2>2. <<>> \in [1 .. n -> Edges]
    <3>1. n \in Nat
      OBVIOUS
    <3> QED
      BY <1>1, <2>1, <3>1, Zenon
  <2>3. 1 \in 1 .. n
    OBVIOUS
  <2> QED
    BY <2>2, <2>3
<1>7. IsFiniteSet(W) /\ IsFiniteSet(R) /\ IsFiniteSet(E) /\ Cardinality(E) = 1
  <2>1. IsFiniteSet(W)
    BY WantedIsFinite
  <2>2. IsFiniteSet(R)
    BY <1>0, RoutesAreFinite, Zenon
  <2> QED
    BY <2>1, <2>2, FS_Singleton
<1>8. E \cup (W \cup R) \subseteq AllWalks
  <2>0. AllWalks = UNION {OfLength(n, FALSE) : n \in 0 .. goal.max}
    BY AllWalksAre
  <2>1. 0 \in 0 .. goal.max /\ k + 1 \in 0 .. goal.max /\ \A n \in 1 .. k : n \in 0 .. goal.max
    BY <1>0
  <2> HIDE DEF W, R
  <2>2. <<>> \in AllWalks
    BY <1>4, <2>0, <2>1, Zenon
  <2>3. \A p \in W : p \in AllWalks
    BY <1>2, <2>0, <2>1, Zenon
  <2>4. \A p \in R : p \in AllWalks
    BY <1>3, <2>0, <2>1, Zenon
  <2> QED
    BY <2>2, <2>3, <2>4
<1>9. IsFiniteSet(AllWalks) /\ Cardinality(AllWalks) \in Nat
  BY AllWalksAre
<1> HIDE DEF W, R, E
<1> DEFINE V == W \cup R
<1>10. IsFiniteSet(V) /\ Cardinality(V) = Cardinality(W) + Cardinality(R)
  BY <1>5, <1>7, DisjointUnion
<1>11. Cardinality(E \cup V) = Cardinality(E) + Cardinality(V)
  <2>1. E \cap V = {}
    BY <1>6
  <2> HIDE DEF V
  <2> QED
    BY <1>7, <1>10, <2>1, DisjointUnion
<1>12. Cardinality(E \cup V) <= Cardinality(AllWalks)
  <2>1. E \cup V \subseteq AllWalks
    BY <1>8
  <2> HIDE DEF V
  <2> QED
    BY <1>9, <2>1, FS_Subset
<1>13. Cardinality(W) \in Nat /\ Cardinality(R) \in Nat
  BY <1>7, FS_CardinalityType
<1>14. 1 + (Cardinality(W) + Cardinality(R)) <= Cardinality(AllWalks)
  BY <1>7, <1>10, <1>11, <1>12
<1>15. Zero(s) \in {0, 1}
  BY PassIs DEF Zero
<1>16. Expected(k, s) = Zero(s) + IF Seeded(s) THEN Cardinality(W) ELSE 0
  BY DEF Expected, W
<1> DEFINE w == Cardinality(W)
           r == Cardinality(R)
           a == Cardinality(AllWalks)
           z == Zero(s)
<1>17. w \in Nat /\ r \in Nat /\ a \in Nat /\ z \in {0, 1} /\ 1 + (w + r) <= a
  BY <1>9, <1>13, <1>14, <1>15
<1>18. Expected(k, s) = z + IF Seeded(s) THEN w ELSE 0
  BY <1>16
<1> HIDE DEF w, r, a, z
<1>19. Expected(k, s) + (IF Seeded(s) THEN r ELSE 0) <= a
  <2>1. CASE Seeded(s)
    BY <1>17, <1>18, <2>1
  <2>2. CASE ~Seeded(s)
    BY <1>17, <1>18, <2>2
  <2> QED
    BY <2>1, <2>2
<1> QED
  BY <1>19 DEF r, a, R

(* The correction at three hops is an integer. *)
LEMMA Reused3Type ==
  ASSUME goal \in CountType, NEW v
  PROVE  Reused3(v) \in Int
<1> DEFINE g == [e \in Ends(v) |-> SelfLoops(Landing(e)) + Mult(Landing(e), v)]
           l == SelfLoops(v)
           d == PassDegree(v)
           p == Pass(v)
           x == SumFunction(g)
<1>1. g \in [Ends(v) -> Int] /\ IsFiniteSet(Ends(v))
  BY LoopsAre, MultIs, EndsAre
<1>2. x \in Int
  <2> HIDE DEF g
  <2> QED
    BY <1>1, SumType
<1>3. Reused3(v) = l * d + x - 2 * l * p
  BY DEF Reused3, Ends
<1>4. l \in Nat /\ d \in Nat /\ p \in {0, 1}
  BY LoopsAre, EndsAre, PassIs
<1> HIDE DEF l, d, p, x
<1>5. l * d \in Int /\ 2 * l * p \in Int
  BY <1>4
<1> QED
  BY <1>2, <1>3, <1>5

(* The trails of three hops kept for the fourth level are exact. *)
LEMMA Kept3 ==
  ASSUME goal \in CountType, NEW v
  PROVE  Less(Cardinality(Routes(3, v, FALSE)), Reused3(v)) = Cardinality(Routes(3, v, TRUE))
<1> DEFINE w == Cardinality(Routes(3, v, FALSE))
           t == Cardinality(Routes(3, v, TRUE))
<1>1. t <= w /\ t \in Nat /\ w \in Nat
  <2>1. 3 \in Nat
    OBVIOUS
  <2> QED
    BY <2>1, FewerTrails, Zenon
<1>2. t = w - Reused3(v) /\ Reused3(v) \in Int
  BY Trails3, Reused3Type
<1> HIDE DEF w, t
<1>3. Less(w, Reused3(v)) = t
  BY <1>1, <1>2 DEF Less
<1> QED
  BY <1>3 DEF w, t

(* What one level adds *)
Gained(n) == [s \in Corners |-> IF Seeded(s) THEN Cardinality(Routes(n, s, goal.trail)) ELSE 0]
WalksGained == [s \in Corners |-> IF Seeded(s) THEN NextWays[s] ELSE 0]
ReusedGained(n) == [s \in Corners |-> IF Seeded(s) THEN Reused(s, NextWays[s], n) ELSE 0]
Gated ==
  goal.trail => \/ goal.max <= 3
                \/ goal.max = 4 /\ Unmasked /\ Kept

(* ... is the paths of that length from the sources. *)
LEMMA GainIs ==
  ASSUME goal \in CountType, level \in Nat, level < goal.max, WaysAre, Gated
  PROVE  /\ OverSources(WalksGained) - (IF goal.trail THEN OverSources(ReusedGained(level + 1)) ELSE 0)
              = OverSources(Gained(level + 1))
         /\ OverSources(Gained(level + 1)) \in Nat
         /\ OverSources(WalksGained) \in Nat
         /\ Gained(level + 1) \in [Corners -> Nat] /\ WalksGained \in [Corners -> Nat]
<1> DEFINE len == level + 1
           F == Gained(len)
           W == WalksGained
           R == ReusedGained(len)
<1>0. goal.max \in Nat /\ goal.trail \in BOOLEAN /\ len \in Nat
  BY GoalFacts
<1>1. \A s \in Corners : NextWays[s] = Cardinality(Routes(len, s, FALSE))
  BY NextWaysAre
<1>2. \A s \in Corners : Cardinality(Routes(len, s, FALSE)) \in Nat
  BY <1>0, RouteCountType, Zenon
<1>3. \A s \in Corners : Cardinality(Routes(len, s, goal.trail)) \in Nat
  BY <1>0, RouteCountType
<1>4. F \in [Corners -> Nat]
  BY <1>3 DEF Gained
<1>5. W \in [Corners -> Nat]
  <2>1. \A s \in Corners : NextWays[s] \in Nat
    BY <1>1, <1>2, Zenon
  <2> QED
    BY <2>1 DEF WalksGained
<1>6. OverSources(F) \in Nat /\ OverSources(W) \in Nat
  <2> HIDE DEF F, W
  <2> QED
    BY <1>4, <1>5, SourcesCount
<1>7. CASE goal.trail
  <2>1. goal.max <= 3 \/ (goal.max = 4 /\ Unmasked /\ Kept)
    BY <1>7 DEF Gated
  <2>2. len \in 1 .. 4 /\ (len = 4 => Unmasked /\ Kept)
    BY <1>0, <2>1
  <2>3. \A s \in Corners :
          Cardinality(Routes(len, s, TRUE)) = NextWays[s] - Reused(s, NextWays[s], len)
    <3> SUFFICES ASSUME NEW s \in Corners
                 PROVE  Cardinality(Routes(len, s, TRUE)) = NextWays[s] - Reused(s, NextWays[s], len)
      OBVIOUS
    <3>1. Cardinality(Routes(len, s, TRUE)) =
            Cardinality(Routes(len, s, FALSE)) - Reused(s, Cardinality(Routes(len, s, FALSE)), len)
      BY <2>2, ReusedIs, Zenon
    <3>2. NextWays[s] = Cardinality(Routes(len, s, FALSE))
      BY <1>1, Zenon
    <3> QED
      BY <3>1, <3>2, Zenon
  <2>4. goal.trail = TRUE
    BY <1>0, <1>7
  <2>5. \A s \in Corners : Cardinality(Routes(len, s, goal.trail)) = NextWays[s] - Reused(s, NextWays[s], len)
    BY <2>3, <2>4, Zenon
  <2>6. \A s \in Corners : Reused(s, NextWays[s], len) \in Int
    <3> SUFFICES ASSUME NEW s \in Corners PROVE Reused(s, NextWays[s], len) \in Int
      OBVIOUS
    <3>1. NextWays[s] \in Nat
      BY <1>1, <1>2, Zenon
    <3>2. CASE len = 1
      BY <3>2 DEF Reused
    <3>3. CASE len = 2
      <4>1. SelfLoops(s) * Pass(s) \in Int
        BY LoopsAre, PassIs
      <4> QED
        BY <3>3, <4>1 DEF Reused
    <3>4. CASE len = 3
      BY <3>4, Reused3Type DEF Reused
    <3>5. CASE len = 4
      <4>1. Unmasked /\ Kept /\ level >= 2 /\ level >= 3
        BY <2>2, <3>5
      <4>2. Cardinality(Routes(4, s, TRUE)) = Trails4(s)
        <5>1. \A v \in Corners : ways2[v] = Cardinality(Routes(2, v, FALSE))
          BY <4>1 DEF Kept
        <5>2. \A v \in Corners : trails3[v] = Cardinality(Routes(3, v, TRUE))
          BY <4>1 DEF Kept
        <5> QED
          BY <4>1, <5>1, <5>2, Trails4AreExact
      <4>3. Trails4(s) \in Nat
        <5>1. 4 \in Nat
          OBVIOUS
        <5>2. Cardinality(Routes(4, s, TRUE)) \in Nat
          BY <5>1, RouteCountType, Zenon
        <5> QED
          BY <4>2, <5>2
      <4>4. Reused(s, NextWays[s], len) = Less(NextWays[s], Trails4(s))
        BY <3>5 DEF Reused
      <4>5. Less(NextWays[s], Trails4(s)) \in Int
        BY <3>1, <4>3 DEF Less
      <4> QED
        BY <4>4, <4>5
    <3> QED
      BY <2>2, <3>2, <3>3, <3>4, <3>5
  <2>7. R \in Terms
    BY <2>6 DEF ReusedGained, Terms
  <2>8. F \in Terms /\ W \in Terms
    BY <1>4, <1>5 DEF Terms
  <2>9. \A s \in Corners : W[s] = F[s] + R[s]
    <3> SUFFICES ASSUME NEW s \in Corners PROVE W[s] = F[s] + R[s]
      OBVIOUS
    <3> DEFINE n == NextWays[s]
               r == Reused(s, NextWays[s], len)
               c == Cardinality(Routes(len, s, goal.trail))
    <3>1. c = n - r /\ r \in Int
      BY <2>5, <2>6
    <3>2. n \in Nat
      BY <1>1, <1>2, Zenon
    <3>3. /\ W[s] = IF Seeded(s) THEN n ELSE 0
          /\ F[s] = IF Seeded(s) THEN c ELSE 0
          /\ R[s] = IF Seeded(s) THEN r ELSE 0
      BY DEF WalksGained, Gained, ReusedGained
    <3> HIDE DEF n, r, c, W, F, R
    <3>4. CASE Seeded(s)
      BY <3>1, <3>2, <3>3, <3>4
    <3>5. CASE ~Seeded(s)
      BY <3>3, <3>5
    <3> QED
      BY <3>4, <3>5
  <2> HIDE DEF F, W, R
  <2>10. Summed(F, R, W)
    BY <2>7, <2>8, <2>9 DEF Summed
  <2>11. OverSources(W) = OverSources(F) + OverSources(R)
    BY <2>10, SourcesAdd
  <2>12. OverSources(R) \in Int
    BY <2>7, RowsAre
  <2>13. OverSources(W) - OverSources(R) = OverSources(F)
    BY <1>6, <2>11, <2>12
  <2> QED
    BY <1>4, <1>5, <1>6, <1>7, <2>13 DEF F, W, R
<1>8. CASE ~goal.trail
  <2>1. goal.trail = FALSE
    BY <1>0, <1>8
  <2>2. \A s \in Corners : NextWays[s] = Cardinality(Routes(len, s, goal.trail))
    BY <1>1, <2>1, Zenon
  <2>3. W = F
    BY <2>2 DEF WalksGained, Gained
  <2> HIDE DEF F, W
  <2>4. OverSources(W) - 0 = OverSources(F)
    BY <1>6, <2>3
  <2> QED
    BY <1>4, <1>5, <1>6, <1>8, <2>4 DEF F, W
<1> QED
  BY <1>0, <1>7, <1>8

ExpectedOf(k) == [s \in Corners |-> Expected(k, s)]

(* ... and takes what is expected to one hop more. *)
LEMMA NextExpected ==
  ASSUME goal \in CountType, NEW k \in Nat, Gained(k + 1) \in [Corners -> Nat]
  PROVE  /\ ExpectedOf(k) \in [Corners -> Nat] /\ OverSources(ExpectedOf(k)) \in Nat
         /\ OverSources(ExpectedOf(k + 1)) =
              OverSources(ExpectedOf(k)) + IF goal.min <= k + 1 THEN OverSources(Gained(k + 1)) ELSE 0
<1> DEFINE X == ExpectedOf(k)
           Y == ExpectedOf(k + 1)
           F == Gained(k + 1)
<1>1. X \in [Corners -> Nat] /\ Y \in [Corners -> Nat]
  <2>1. k + 1 \in Nat
    OBVIOUS
  <2> QED
    BY <2>1, ExpectedIs DEF ExpectedOf
<1>2. \A s \in Corners : Y[s] = X[s] + IF goal.min <= k + 1 THEN F[s] ELSE 0
  <2> SUFFICES ASSUME NEW s \in Corners PROVE Y[s] = X[s] + IF goal.min <= k + 1 THEN F[s] ELSE 0
    OBVIOUS
  <2> DEFINE c == Cardinality(Routes(k + 1, s, goal.trail))
  <2>1. Y[s] = X[s] + IF Seeded(s) /\ goal.min <= k + 1 THEN c ELSE 0
    BY ExpectedIs DEF ExpectedOf
  <2>2. F[s] = IF Seeded(s) THEN c ELSE 0
    BY DEF Gained
  <2> HIDE DEF X, Y, F, c
  <2>3. CASE goal.min <= k + 1
    BY <2>1, <2>2, <2>3
  <2>4. CASE ~(goal.min <= k + 1)
    BY <2>1, <2>4
  <2> QED
    BY <2>3, <2>4
<1> HIDE DEF X, Y, F
<1>3. OverSources(X) \in Nat
  BY <1>1, SourcesCount
<1>4. CASE goal.min <= k + 1
  <2>1. X \in Terms /\ Y \in Terms /\ F \in Terms
    BY <1>1 DEF Terms, F
  <2>2. Summed(X, F, Y)
    BY <1>2, <1>4, <2>1 DEF Summed
  <2>3. OverSources(Y) = OverSources(X) + OverSources(F)
    BY <2>2, SourcesAdd
  <2> QED
    BY <1>1, <1>3, <1>4, <2>3 DEF X, Y, F
<1>5. CASE ~(goal.min <= k + 1)
  <2>1. \A s \in Corners : Y[s] = X[s]
    BY <1>1, <1>2, <1>5
  <2>2. Y = X
    BY <1>1, <2>1
  <2>3. OverSources(Y) = OverSources(X) + 0
    BY <1>3, <2>2
  <2> QED
    BY <1>1, <1>3, <1>5, <2>3 DEF X, Y
<1> QED
  BY <1>4, <1>5

(* A level that leaves the width has too many walks. *)
LEMMA WideEnough ==
  ASSUME goal \in CountType, level \in Nat, level < goal.max, WaysAre, Gated,
         \/ \E v \in Corners : NextWays[v] > Widest
         \/ OverSources(ExpectedOf(level)) + OverSources(WalksGained) > Widest
  PROVE  TooMany
<1> DEFINE a == Cardinality(AllWalks)
           n == Len(goal.src)
<1>0. goal.max \in Nat /\ n \in Nat /\ a \in Nat /\ Widest \in Nat /\ level + 1 \in 0 .. goal.max /\ level + 1 <= goal.max
  <2>1. a \in Nat
    BY AllWalksAre
  <2> QED
    BY <2>1, GoalFacts, WidestAssumption
<1>1. \A s \in Corners : NextWays[s] = Cardinality(Routes(level + 1, s, FALSE))
  BY NextWaysAre
<1>2. CASE \E v \in Corners : NextWays[v] > Widest
  <2>1. PICK v \in Corners : NextWays[v] > Widest
    BY <1>2
  <2> DEFINE w == NextWays[v]
  <2>2. w <= a
    <3>1. Cardinality(Routes(level + 1, v, FALSE)) <= a
      BY <1>0, WalksAmong, Zenon
    <3> QED
      BY <1>1, <3>1, Zenon
  <2>3. w > Widest
    BY <2>1
  <2>4. w \in Nat
    <3>1. level + 1 \in Nat
      OBVIOUS
    <3> QED
      BY <1>1, <3>1, RouteCountType, Zenon
  <2> HIDE DEF w, a
  <2>5. a > Widest
    BY <1>0, <2>2, <2>3, <2>4
  <2> QED
    BY <2>5 DEF TooMany, a
<1>3. CASE OverSources(ExpectedOf(level)) + OverSources(WalksGained) > Widest
  <2> DEFINE X == ExpectedOf(level)
             W == WalksGained
             Y == [s \in Corners |-> X[s] + W[s]]
  <2>1. X \in [Corners -> Nat] /\ W \in [Corners -> Nat]
    BY GainIs, NextExpected
  <2>2. \A s \in Corners : X[s] + W[s] <= a
    <3> SUFFICES ASSUME NEW s \in Corners PROVE X[s] + W[s] <= a
      OBVIOUS
    <3>1. Expected(level, s) + (IF Seeded(s) THEN Cardinality(Routes(level + 1, s, FALSE)) ELSE 0) <= a
      BY <1>0, ExpectedAmong, Zenon
    <3>2. X[s] = Expected(level, s)
      BY DEF ExpectedOf
    <3>3. W[s] = IF Seeded(s) THEN NextWays[s] ELSE 0
      BY DEF WalksGained
    <3>4. W[s] = IF Seeded(s) THEN Cardinality(Routes(level + 1, s, FALSE)) ELSE 0
      BY <1>1, <3>3, Zenon
    <3> HIDE DEF X, W, a
    <3> QED
      BY <3>1, <3>2, <3>4, Zenon
  <2> HIDE DEF X, W, a
  <2>3. X \in Terms /\ W \in Terms /\ Y \in Terms
    BY <2>1 DEF Terms
  <2>4. \A s \in Corners : Y[s] = X[s] + W[s] /\ Y[s] <= a
    BY <2>2
  <2> HIDE DEF Y
  <2>5. Summed(X, W, Y) /\ AtMost(Y, a)
    BY <1>0, <2>3, <2>4 DEF Summed, AtMost
  <2>6. OverSources(Y) = OverSources(X) + OverSources(W) /\ OverSources(Y) <= n * a
    BY <2>5, SourcesAdd, SourcesBound
  <2>7. OverSources(Y) > Widest
    BY <1>3, <2>6 DEF X, W
  <2>8. OverSources(Y) \in Int
    BY <2>3, RowsAre
  <2> DEFINE y == OverSources(Y)
             na == n * a
  <2>9. na \in Int
    BY <1>0
  <2>10. y > Widest /\ y <= na /\ y \in Int
    BY <2>6, <2>7, <2>8
  <2> HIDE DEF y, na
  <2>11. na > Widest
    BY <1>0, <2>9, <2>10
  <2> QED
    BY <2>11 DEF na, a, TooMany
<1> QED
  BY <1>2, <1>3

-----------------------------------------------------------------------------
(* At most two hops, in one term of the edges of a source *)
OneHop(e) == IF goal.min <= 1 THEN Pass(Landing(e)) ELSE 0
TwoHops(e, s) ==
  IF goal.max < 2 THEN 0
  ELSE PassDegree(Landing(e)) - (IF goal.trail /\ Landing(e) = s /\ s \in goal.pass THEN 1 ELSE 0)
AtOnce ==
  [s \in Corners |->
     IF Seeded(s) THEN SumFunction([e \in HopsFrom(s) |-> OneHop(e) + TwoHops(e, s)]) ELSE 0]

(* The first terms add up to the paths of one hop, *)
LEMMA OneHopSum ==
  ASSUME goal \in CountType, NEW s, NEW f, f = [e \in HopsFrom(s) |-> OneHop(e)]
  PROVE  /\ f \in [HopsFrom(s) -> Int]
         /\ SumFunction(f) = IF goal.min <= 1 THEN Cardinality(Routes(1, s, goal.trail)) ELSE 0
<1> DEFINE H == HopsFrom(s)
           c == IF goal.min <= 1 THEN 1 ELSE 0
<1>1. \A e \in H : f[e] = IF e \in Ends(s) THEN c ELSE 0
  <2>1. \A e \in H : f[e] = OneHop(e) /\ (e \in Ends(s) <=> Landing(e) \in goal.pass)
    BY DEF Ends
  <2>2. \A e \in H : Pass(Landing(e)) \in {0, 1} /\ (Pass(Landing(e)) = 1 <=> Landing(e) \in goal.pass)
    BY PassIs
  <2> QED
    BY <2>1, <2>2 DEF OneHop
<1>2. IsFiniteSet(H) /\ Ends(s) \in SUBSET H /\ Cardinality(Ends(s)) = PassDegree(s) /\ PassDegree(s) \in Nat
  BY HopsAre, EndsAre
<1>3. f \in [H -> Int]
  BY <1>1
<1>4. SumFunction(f) = Cardinality(Ends(s)) * c
  <2>1. c \in Int
    OBVIOUS
  <2> HIDE DEF H, c
  <2>2. OnlyWhere(H, Ends(s), c, f)
    BY <1>1, <1>2, <1>3, <2>1 DEF OnlyWhere
  <2> QED
    BY <2>2, SumWhere
<1>5. Cardinality(Routes(1, s, goal.trail)) = PassDegree(s)
  BY SingleCount
<1>6. SumFunction(f) = IF goal.min <= 1 THEN PassDegree(s) ELSE 0
  <2>1. CASE goal.min <= 1
    BY <1>2, <1>4, <2>1
  <2>2. CASE ~(goal.min <= 1)
    BY <1>2, <1>4, <2>2
  <2> QED
    BY <2>1, <2>2
<1> QED
  BY <1>3, <1>5, <1>6

(* the second ones to the paths of two, *)
LEMMA TwoHopsSum ==
  ASSUME goal \in CountType, goal.max = 2, NEW s, NEW f, f = [e \in HopsFrom(s) |-> TwoHops(e, s)]
  PROVE  /\ f \in [HopsFrom(s) -> Int]
         /\ SumFunction(f) = Cardinality(Routes(2, s, goal.trail))
<1>1. goal.trail \in BOOLEAN
  BY GoalFacts
<1>2. \A e \in HopsFrom(s) : TwoHops(e, s) = Cardinality(After(1, Landing(e), goal.trail, e))
  <2> SUFFICES ASSUME NEW e \in HopsFrom(s)
               PROVE  TwoHops(e, s) = Cardinality(After(1, Landing(e), goal.trail, e))
    OBVIOUS
  <2>1. Cardinality(After(1, Landing(e), goal.trail, e)) =
          PassDegree(Landing(e)) - (IF goal.trail /\ e \in Ends(Landing(e)) THEN 1 ELSE 0)
    BY <1>1, SingleAfter
  <2>2. e \in Ends(Landing(e)) <=> Landing(e) = s /\ s \in goal.pass
    BY BackAtOnce
  <2>3. TwoHops(e, s) =
          PassDegree(Landing(e)) - (IF goal.trail /\ Landing(e) = s /\ s \in goal.pass THEN 1 ELSE 0)
    BY DEF TwoHops
  <2> QED
    BY <2>1, <2>2, <2>3
<1>3. ASSUME NEW n \in Nat, n = 1
      PROVE  Cardinality(Routes(n + 1, s, goal.trail)) =
               SumFunction([e \in HopsFrom(s) |-> Cardinality(After(n, Landing(e), goal.trail, e))])
  <2>1. n # 0
    BY <1>3
  <2> QED
    BY <2>1, Unfolded, Zenon
<1>4. Cardinality(Routes(2, s, goal.trail)) =
        SumFunction([e \in HopsFrom(s) |-> Cardinality(After(1, Landing(e), goal.trail, e))])
  <2>1. 1 \in Nat /\ 1 + 1 = 2
    OBVIOUS
  <2> QED
    BY <1>3, <2>1
<1>5. f = [e \in HopsFrom(s) |-> Cardinality(After(1, Landing(e), goal.trail, e))]
  BY <1>2
<1>6. \A e \in HopsFrom(s) : Cardinality(After(1, Landing(e), goal.trail, e)) \in Int
  <2>1. 1 \in Nat
    OBVIOUS
  <2> QED
    BY <2>1, AfterIsFinite
<1> QED
  BY <1>4, <1>5, <1>6

(* and so the closed form to what is expected. *)
LEMMA AtOnceIs ==
  ASSUME goal \in CountType, goal.max \in {1, 2}, goal.min <= goal.max
  PROVE  /\ AtOnce \in [Corners -> Int]
         /\ \A s \in Corners : Expected(goal.max, s) = Expected(0, s) + AtOnce[s]
<1> SUFFICES ASSUME NEW s \in Corners
             PROVE  /\ AtOnce[s] \in Int
                    /\ Expected(goal.max, s) = Expected(0, s) + AtOnce[s]
  BY DEF AtOnce
<1> DEFINE H == HopsFrom(s)
           f == [e \in H |-> OneHop(e)]
           g == [e \in H |-> TwoHops(e, s)]
           h == [e \in H |-> OneHop(e) + TwoHops(e, s)]
           r1 == Cardinality(Routes(1, s, goal.trail))
           r2 == Cardinality(Routes(2, s, goal.trail))
           q == SumFunction(h)
<1>1. IsFiniteSet(H)
  BY HopsAre
<1>2. f \in [H -> Int] /\ SumFunction(f) = IF goal.min <= 1 THEN r1 ELSE 0
  BY OneHopSum
<1>3. r1 \in Nat /\ r2 \in Nat /\ goal.min \in Nat
  <2>1. 1 \in Nat /\ 2 \in Nat
    OBVIOUS
  <2> QED
    BY <2>1, RouteCountType, GoalFacts
<1>4. q = (IF goal.min <= 1 THEN r1 ELSE 0) + (IF goal.max = 2 THEN r2 ELSE 0)
  <2>1. CASE goal.max = 1
    <3>1. \A e \in H : TwoHops(e, s) = 0 /\ f[e] = OneHop(e) /\ f[e] \in Int
      BY <1>2, <2>1 DEF TwoHops
    <3>2. h = f
      BY <3>1
    <3> HIDE DEF f, h, r1, r2
    <3> QED
      BY <1>2, <1>3, <2>1, <3>2
  <2>2. CASE goal.max = 2
    <3>1. g \in [H -> Int] /\ SumFunction(g) = r2
      BY <2>2, TwoHopsSum
    <3>2. \A e \in H : h[e] = f[e] + g[e] /\ h[e] \in Int
      <4>1. \A e \in H : f[e] \in Int /\ g[e] \in Int /\ f[e] = OneHop(e) /\ g[e] = TwoHops(e, s)
        BY <1>2, <3>1
      <4> QED
        BY <4>1
    <3>3. h \in [H -> Int] /\ \A e \in H : h[e] = f[e] + g[e]
      BY <3>2
    <3> HIDE DEF f, g, h, H, r1, r2
    <3>4. Added(H, f, g, h)
      BY <1>1, <1>2, <3>1, <3>3 DEF Added
    <3>5. SumFunction(h) = SumFunction(f) + SumFunction(g)
      BY <3>4, SumAdds
    <3> QED
      BY <1>2, <2>2, <3>1, <3>5
  <2> QED
    BY <2>1, <2>2
<1>5. AtOnce[s] = IF Seeded(s) THEN q ELSE 0
  BY DEF AtOnce
<1> DEFINE e0 == Expected(0, s)
           e1 == Expected(1, s)
           e2 == Expected(2, s)
<1>6. e0 \in Nat /\ e1 = e0 + IF Seeded(s) /\ goal.min <= 1 THEN r1 ELSE 0
  <2>1. ASSUME NEW k \in Nat, k = 0
        PROVE  /\ Expected(k, s) \in Nat
               /\ Expected(k + 1, s) = Expected(k, s) + IF Seeded(s) /\ goal.min <= k + 1
                                       THEN Cardinality(Routes(k + 1, s, goal.trail)) ELSE 0
    BY ExpectedIs
  <2>2. 0 \in Nat /\ 0 + 1 = 1
    OBVIOUS
  <2> QED
    BY <2>1, <2>2
<1>7. e2 = e1 + IF Seeded(s) /\ goal.min <= 2 THEN r2 ELSE 0
  <2>1. ASSUME NEW k \in Nat, k = 1
        PROVE  Expected(k + 1, s) = Expected(k, s) + IF Seeded(s) /\ goal.min <= k + 1
                                    THEN Cardinality(Routes(k + 1, s, goal.trail)) ELSE 0
    BY ExpectedIs
  <2>2. 1 \in Nat /\ 1 + 1 = 2
    OBVIOUS
  <2> QED
    BY <2>1, <2>2
<1>8. Expected(goal.max, s) = IF goal.max = 1 THEN e1 ELSE e2
  OBVIOUS
<1> HIDE DEF q, r1, r2, e1, e2, H, f, g, h
<1>9. e0 = Expected(0, s)
  OBVIOUS
<1> HIDE DEF e0
<1>10. AtOnce[s] \in Int /\ Expected(goal.max, s) = e0 + AtOnce[s]
  <2>1. CASE ~Seeded(s)
    <3>1. AtOnce[s] = 0 /\ e1 = e0 + 0 /\ e2 = e1 + 0
      BY <1>5, <1>6, <1>7, <2>1
    <3> QED
      BY <1>6, <1>8, <3>1
  <2>2. CASE Seeded(s) /\ goal.max = 1
    <3>1. goal.min <= 1
      BY <2>2
    <3>2. AtOnce[s] = r1 + 0 /\ e1 = e0 + r1
      BY <1>4, <1>5, <1>6, <2>2, <3>1
    <3> QED
      BY <1>3, <1>6, <1>8, <2>2, <3>2
  <2>3. CASE Seeded(s) /\ goal.max = 2
    <3>1. goal.min <= 2
      BY <2>3
    <3>2. AtOnce[s] = (IF goal.min <= 1 THEN r1 ELSE 0) + r2 /\ e2 = e1 + r2
      BY <1>4, <1>5, <1>7, <2>3, <3>1
    <3>3. e1 = e0 + IF goal.min <= 1 THEN r1 ELSE 0
      BY <1>6, <2>3
    <3>4. Expected(goal.max, s) = e2
      BY <1>8, <2>3
    <3> DEFINE x == IF goal.min <= 1 THEN r1 ELSE 0
    <3>5. x \in Nat
      BY <1>3
    <3>6. AtOnce[s] = x + r2 /\ e2 = e1 + r2 /\ e1 = e0 + x
      BY <3>2, <3>3
    <3> HIDE DEF x
    <3> QED
      BY <1>3, <1>6, <3>4, <3>5, <3>6
  <2> QED
    BY <2>1, <2>2, <2>3
<1> QED
  BY <1>9, <1>10

-----------------------------------------------------------------------------
(* The inductive invariant: the levels taken so far have counted the paths *)
(* of those lengths, the tables are counts of walks and trails, and the    *)
(* code has given up only on too many walks.                               *)
CountInv ==
  /\ goal \in Counts
  /\ level \in 0 .. goal.max
  /\ goal.max <= 2 => total # Declined /\ level \in {0, goal.max}
  /\ goal.max >= 3 => WaysAre
  /\ Gated
  /\ total = Declined => TooMany
  /\ total # Declined => total = OverSources(ExpectedOf(level))

(* What the gate says of a count that is asked for. *)
LEMMA GoalIsOne ==
  ASSUME goal \in Counts
  PROVE  /\ goal \in CountType /\ goal.min <= goal.max
         /\ goal.trail => \/ goal.max <= 3
                          \/ (goal.max = 4 /\ Unmasked)
<1>1. goal \in CountType /\ goal.min <= goal.max
  BY CountAssumption
<1>2. goal.trail => \/ goal.max <= 3
                    \/ (goal.max = 4 /\ goal.cut = {} /\ goal.pass = Corners
                        /\ goal.body = Corners /\ goal.seed = Corners)
  BY CountAssumption
<1> QED
  BY <1>1, <1>2 DEF Unmasked

(* Before the first level the paths of no hops are counted. *)
LEMMA CountInitInv == CountInit => CountInv
<1> SUFFICES ASSUME CountInit PROVE CountInv
  OBVIOUS
<1>1. goal \in Counts /\ level = 0 /\ ways = [v \in Corners |-> Pass(v)] /\ total = ZeroLength
  BY DEF CountInit
<1>2. goal \in CountType /\ goal.max \in Nat /\ goal.min \in Nat
  BY <1>1, GoalIsOne, GoalFacts
<1>3. WaysAre
  BY <1>1 DEF WaysAre
<1>4. Gated
  <2>1. Kept
    BY <1>1 DEF Kept
  <2> QED
    BY <1>1, <2>1, GoalIsOne DEF Gated
<1>5. ExpectedOf(0) \in [Corners -> Nat] /\ \A s \in Corners : ExpectedOf(0)[s] = Zero(s)
  <2>1. 0 \in Nat
    OBVIOUS
  <2>2. \A s \in Corners : Expected(0, s) \in Nat /\ Expected(0, s) = Zero(s)
    BY <1>2, <2>1, ExpectedIs
  <2> QED
    BY <2>2 DEF ExpectedOf
<1>6. OverSources(ExpectedOf(0)) \in Nat
  <2> DEFINE t == ExpectedOf(0)
  <2> HIDE DEF t
  <2> QED
    BY <1>2, <1>5, SourcesCount DEF t
<1>7. total = OverSources(ExpectedOf(0))
  <2>1. CASE goal.min = 0
    <3>1. \A s \in Corners : ExpectedOf(0)[s] = Pass(s)
      BY <1>5, <2>1 DEF Zero
    <3>2. ExpectedOf(0) = [s \in Corners |-> Pass(s)]
      BY <1>5, <3>1
    <3> QED
      BY <1>1, <2>1, <3>2 DEF ZeroLength
  <2>2. CASE goal.min # 0
    <3>1. \A s \in Corners : ExpectedOf(0)[s] = 0
      BY <1>5, <2>2 DEF Zero
    <3> DEFINE t == ExpectedOf(0)
    <3>2. t \in Terms /\ 0 \in Int /\ \A s \in Corners : t[s] <= 0
      BY <1>5, <3>1 DEF Terms
    <3>3. OverSources(t) \in Nat
      BY <1>6
    <3> HIDE DEF t
    <3>4. AtMost(t, 0)
      BY <3>2 DEF AtMost
    <3>5. OverSources(t) <= Len(goal.src) * 0
      BY <1>2, <3>4, SourcesBound
    <3>6. OverSources(t) = 0
      BY <1>2, <3>3, <3>5, GoalFacts
    <3> QED
      BY <1>1, <2>2, <3>6 DEF ZeroLength, t
  <2> QED
    BY <2>1, <2>2
<1>8. total \in Nat
  BY <1>6, <1>7
<1> QED
  BY <1>1, <1>2, <1>3, <1>4, <1>7, <1>8 DEF CountInv, Declined

(* What is asked does not change, nor what it is answered with.            *)
LEMMA AskedOnce ==
  ASSUME goal' = goal
  PROVE  /\ \A n, v, once : Routes(n, v, once)' = Routes(n, v, once)
         /\ \A v : Pass(v)' = Pass(v)
         /\ \A s : Seeded(s)' <=> Seeded(s)
         /\ \A k, s : Expected(k, s)' = Expected(k, s)
         /\ \A k : ExpectedOf(k)' = ExpectedOf(k)
         /\ \A t : OverSources(t)' = OverSources(t)
         /\ Unmasked' <=> Unmasked
         /\ TooMany' <=> TooMany
<1>1. \A n, once : OfLength(n, once)' = OfLength(n, once)
  <2>1. Edges' = Edges
    BY DEF Edges
  <2>2. \A e : Usable(e)' <=> Usable(e)
    BY DEF Usable, Edges
  <2>3. \A p : Chained(p)' <=> Chained(p)
    BY <2>2 DEF Chained
  <2>4. \A p : Once(p)' <=> Once(p)
    BY DEF Once
  <2> QED
    BY <2>1, <2>3, <2>4 DEF OfLength
<1>2. \A n, v, once : Routes(n, v, once)' = Routes(n, v, once)
  BY <1>1 DEF Routes
<1>3. (\A v : Pass(v)' = Pass(v)) /\ \A s : Seeded(s)' <=> Seeded(s)
  BY DEF Pass, Seeded
<1>4. \A k, s : RowsWanted(k, s)' = RowsWanted(k, s)
  BY <1>2 DEF RowsWanted
<1>5. \A k, s : Expected(k, s)' = Expected(k, s)
  BY <1>3, <1>4 DEF Expected, Zero
<1>6. \A k : ExpectedOf(k)' = ExpectedOf(k)
  BY <1>5 DEF ExpectedOf
<1>7. \A t : OverSources(t)' = OverSources(t)
  BY Zenon DEF OverSources
<1>8. Unmasked' <=> Unmasked
  BY DEF Unmasked
<1>9. AllWalks' = AllWalks
  BY <1>1 DEF AllWalks
<1>10. TooMany' <=> TooMany
  BY <1>9 DEF TooMany
<1> QED
  BY <1>2, <1>3, <1>5, <1>6, <1>7, <1>8, <1>10

(* What holds when a level is taken. *)
LEMMA LevelFacts ==
  ASSUME CountInv, Level
  PROVE  /\ goal \in CountType /\ level \in Nat /\ level < goal.max /\ goal.max \in Nat /\ goal.max >= 3
         /\ WaysAre /\ Gated /\ total = OverSources(ExpectedOf(level))
         /\ goal' = goal /\ level' = level + 1 /\ ways' = NextWays
<1>1. level < goal.max /\ goal.max >= 3 /\ total # Declined /\ goal' = goal /\ level' = level + 1 /\ ways' = NextWays
  BY DEF Level
<1>2. goal \in Counts
  BY DEF CountInv
<1>3. goal \in CountType
  BY <1>2, GoalIsOne
<1>4. goal.max \in Nat
  BY <1>3, GoalFacts
<1>5. level \in Nat
  BY <1>4 DEF CountInv
<1> QED
  BY <1>1, <1>3, <1>4, <1>5 DEF CountInv

(* A level keeps the counts the next ones need. *)
LEMMA LevelKeeps ==
  ASSUME CountInv, Level
  PROVE  WaysAre' /\ Gated'
<1>0. /\ goal \in CountType /\ level \in Nat /\ level < goal.max /\ goal.max \in Nat /\ goal.max >= 3
      /\ WaysAre /\ Gated /\ goal' = goal /\ level' = level + 1 /\ ways' = NextWays
  BY LevelFacts
<1>1. \A v \in Corners : NextWays[v] = Cardinality(Routes(level + 1, v, FALSE))
  BY <1>0, NextWaysAre
<1>2. \A n, v, once : Routes(n, v, once)' = Routes(n, v, once)
  BY <1>0, AskedOnce
<1>3. \A v : Pass(v)' = Pass(v)
  BY <1>0, AskedOnce
<1>4. WaysAre'
  <2>1. \A v \in Corners : ways'[v] = Cardinality(Routes(level', v, FALSE))
    BY <1>0, <1>1, Zenon
  <2>2. \A v, once : Routes(level, v, once)' = Routes(level', v, once)
    BY <1>2
  <2>3. level' # 0
    BY <1>0
  <2>4. \A v \in Corners : ways'[v] = Cardinality(Routes(level, v, FALSE))'
    BY <2>1, <2>2, Zenon
  <2> QED
    BY <2>3, <2>4, Zenon DEF WaysAre
<1>5. Gated'
  <2> SUFFICES ASSUME goal.trail, ~(goal.max <= 3) PROVE goal.max = 4 /\ Unmasked' /\ Kept'
    BY <1>0 DEF Gated
  <2>1. goal.max = 4 /\ Unmasked /\ Kept
    BY <1>0 DEF Gated
  <2>2. Unmasked'
    BY <1>0, <2>1, AskedOnce
  <2>3. /\ ways2' = IF level + 1 = 2 THEN NextWays ELSE ways2
        /\ trails3' = IF level + 1 = 3 THEN [v \in Corners |-> Less(NextWays[v], Reused3(v))] ELSE trails3
    BY <2>1 DEF Level
  <2>4. level' >= 2 => \A v \in Corners : ways2'[v] = Cardinality(Routes(2, v, FALSE))
    <3>1. CASE level + 1 = 2
      <4>1. ways2' = NextWays
        BY <2>3, <3>1
      <4>2. \A v \in Corners : NextWays[v] = Cardinality(Routes(2, v, FALSE))
        BY <1>1, <3>1, Zenon
      <4> QED
        BY <4>1, <4>2, Zenon
    <3>2. CASE level + 1 # 2
      <4>1. ways2' = ways2
        BY <2>3, <3>2
      <4>2. level' >= 2 => level >= 2
        BY <1>0, <3>2
      <4>3. level >= 2 => \A v \in Corners : ways2[v] = Cardinality(Routes(2, v, FALSE))
        BY <2>1 DEF Kept
      <4> QED
        BY <4>1, <4>2, <4>3, Zenon
    <3> QED
      BY <3>1, <3>2
  <2>5. level' >= 3 => \A v \in Corners : trails3'[v] = Cardinality(Routes(3, v, TRUE))
    <3>1. CASE level + 1 = 3
      <4> SUFFICES ASSUME NEW v \in Corners PROVE trails3'[v] = Cardinality(Routes(3, v, TRUE))
        OBVIOUS
      <4>1. trails3'[v] = Less(NextWays[v], Reused3(v))
        BY <2>3, <3>1
      <4>2. NextWays[v] = Cardinality(Routes(3, v, FALSE))
        BY <1>1, <3>1, Zenon
      <4>3. Less(Cardinality(Routes(3, v, FALSE)), Reused3(v)) = Cardinality(Routes(3, v, TRUE))
        BY <1>0, Kept3
      <4> QED
        BY <4>1, <4>2, <4>3, Zenon
    <3>2. CASE level + 1 # 3
      <4>1. trails3' = trails3
        BY <2>3, <3>2
      <4>2. level' >= 3 => level >= 3
        BY <1>0, <3>2
      <4>3. level >= 3 => \A v \in Corners : trails3[v] = Cardinality(Routes(3, v, TRUE))
        BY <2>1 DEF Kept
      <4> QED
        BY <4>1, <4>2, <4>3, Zenon
    <3> QED
      BY <3>1, <3>2
  <2>6. Kept'
    <3>1. level' >= 2 => \A v \in Corners : ways2'[v] = Cardinality(Routes(2, v, FALSE)')
      BY <1>2, <2>4, Zenon
    <3>2. level' >= 3 => \A v \in Corners : trails3'[v] = Cardinality(Routes(3, v, TRUE)')
      BY <1>2, <2>5, Zenon
    <3> QED
      BY <3>1, <3>2, Zenon DEF Kept
  <2> QED
    BY <2>1, <2>2, <2>6
<1> QED
  BY <1>4, <1>5

(* It counts the paths of its length, or gives up on too many walks. *)
LEMMA LevelCounts ==
  ASSUME CountInv, Level
  PROVE  /\ total' = Declined => TooMany
         /\ total' # Declined => total' = OverSources(ExpectedOf(level + 1))
<1>0. /\ goal \in CountType /\ level \in Nat /\ level < goal.max /\ goal.max \in Nat /\ goal.max >= 3
      /\ WaysAre /\ Gated /\ total = OverSources(ExpectedOf(level))
  BY LevelFacts
<1> DEFINE len == level + 1
           w == OverSources(WalksGained)
           g == OverSources(Gained(len))
           e == OverSources(ExpectedOf(level))
           n == OverSources(ExpectedOf(len))
           wide == \E v \in Corners : NextWays[v] > Widest
           r == IF goal.trail THEN OverSources(ReusedGained(len)) ELSE 0
<1>1. w - r = g /\ g \in Nat /\ w \in Nat /\ Gained(len) \in [Corners -> Nat]
  BY <1>0, GainIs
<1>2. e \in Nat /\ n = e + IF goal.min <= len THEN g ELSE 0
  BY <1>0, <1>1, NextExpected
<1>3. wide \/ e + w > Widest => TooMany
  BY <1>0, WideEnough
<1>4. total' = IF wide \/ (len >= goal.min /\ (total + w > Widest \/ total + (w - r) < 0))
               THEN Declined
               ELSE IF len >= goal.min THEN total + (w - r) ELSE total
  BY Zenon DEF Level, WalksGained, ReusedGained
<1>5. goal.min \in Nat /\ len \in Nat
  BY <1>0, GoalFacts
<1> HIDE DEF w, g, e, n, wide, r, len
<1>6. total = e
  BY <1>0 DEF e
<1>7. total' = IF wide \/ (len >= goal.min /\ (e + w > Widest \/ e + g < 0))
               THEN Declined
               ELSE IF len >= goal.min THEN e + g ELSE e
  BY <1>1, <1>4, <1>6
<1>8. ~(e + g < 0)
  BY <1>1, <1>2
<1>9. CASE wide \/ (len >= goal.min /\ e + w > Widest)
  <2>1. TooMany /\ total' = Declined
    BY <1>3, <1>7, <1>9
  <2> QED
    BY <2>1
<1>10. CASE ~(wide \/ (len >= goal.min /\ e + w > Widest))
  <2>1. total' = IF len >= goal.min THEN e + g ELSE e
    BY <1>7, <1>8, <1>10
  <2>2. total' = n
    <3>1. CASE goal.min <= len
      BY <1>1, <1>2, <1>5, <2>1, <3>1
    <3>2. CASE ~(goal.min <= len)
      BY <1>1, <1>2, <1>5, <2>1, <3>2
    <3> QED
      BY <3>1, <3>2
  <2>3. n \in Nat
    BY <1>1, <1>2
  <2>4. total' # Declined
    BY <2>2, <2>3 DEF Declined
  <2> QED
    BY <2>2, <2>4 DEF n, len
<1> QED
  BY <1>9, <1>10

(* So it keeps the invariant, *)
LEMMA LevelInv == CountInv /\ Level => CountInv'
<1> SUFFICES ASSUME CountInv, Level PROVE CountInv'
  OBVIOUS
<1>1. /\ level \in Nat /\ level < goal.max /\ goal.max \in Nat /\ goal.max >= 3
      /\ goal' = goal /\ level' = level + 1
  BY LevelFacts
<1>2. goal' \in Counts /\ level' \in 0 .. goal'.max /\ ~(goal'.max <= 2)
  BY <1>1 DEF CountInv
<1>3. WaysAre' /\ Gated'
  BY LevelKeeps
<1>4. total' = Declined => TooMany'
  BY <1>1, AskedOnce, LevelCounts
<1>5. total' # Declined => total' = OverSources(ExpectedOf(level))'
  <2>1. total' # Declined => total' = OverSources(ExpectedOf(level'))
    BY <1>1, LevelCounts, Zenon
  <2>2. OverSources(ExpectedOf(level))' = OverSources(ExpectedOf(level'))
    BY <1>1, AskedOnce
  <2> QED
    BY <2>1, <2>2
<1> QED
  BY <1>2, <1>3, <1>4, <1>5 DEF CountInv

(* as the closed form does. *)
LEMMA ClosedFormInv == CountInv /\ ClosedForm => CountInv'
<1> SUFFICES ASSUME CountInv, ClosedForm PROVE CountInv'
  OBVIOUS
<1>1. /\ level < goal.max /\ goal.max <= 2 /\ goal' = goal /\ level' = goal.max /\ ways' = ways
      /\ ways2' = ways2 /\ trails3' = trails3
  BY DEF ClosedForm
<1>2. goal \in Counts /\ total # Declined /\ level = 0 /\ total = OverSources(ExpectedOf(level))
  BY <1>1 DEF CountInv
<1>3. goal \in CountType /\ goal.min <= goal.max /\ goal.max \in Nat
  BY <1>2, GoalIsOne, GoalFacts
<1>4. goal.max \in {1, 2}
  BY <1>1, <1>2, <1>3
<1>5. total' = total + OverSources(AtOnce)
  BY Zenon DEF ClosedForm, AtOnce, OneHop, TwoHops
<1>6. AtOnce \in [Corners -> Int] /\ \A s \in Corners : Expected(goal.max, s) = Expected(0, s) + AtOnce[s]
  BY <1>3, <1>4, AtOnceIs
<1> DEFINE X == ExpectedOf(0)
           Y == ExpectedOf(goal.max)
<1>7. X \in [Corners -> Nat] /\ Y \in [Corners -> Nat]
  <2>1. 0 \in Nat
    OBVIOUS
  <2> QED
    BY <1>3, <2>1, ExpectedIs DEF ExpectedOf
<1>8. \A s \in Corners : Y[s] = X[s] + AtOnce[s]
  BY <1>6 DEF ExpectedOf
<1> HIDE DEF X, Y
<1>9. X \in Terms /\ Y \in Terms /\ AtOnce \in Terms
  BY <1>6, <1>7 DEF Terms
<1>10. Summed(X, AtOnce, Y)
  BY <1>8, <1>9 DEF Summed
<1>11. OverSources(Y) = OverSources(X) + OverSources(AtOnce)
  BY <1>3, <1>10, SourcesAdd
<1>12. OverSources(Y) \in Nat
  BY <1>3, <1>7, SourcesCount
<1>13. total' = OverSources(ExpectedOf(goal.max)) /\ total' \in Nat
  BY <1>2, <1>5, <1>11, <1>12 DEF X, Y
<1>14. goal' \in Counts /\ level' \in 0 .. goal'.max /\ level' \in {0, goal'.max} /\ ~(goal'.max >= 3)
  BY <1>1, <1>2, <1>3, <1>4
<1>15. Gated'
  <2>1. goal.max <= 3
    BY <1>4
  <2> QED
    BY <1>1, <2>1 DEF Gated
<1>16. total' # Declined
  BY <1>13 DEF Declined
<1>17. total' = OverSources(ExpectedOf(level))'
  <2>1. OverSources(ExpectedOf(level))' = OverSources(ExpectedOf(level'))
    BY <1>1, AskedOnce
  <2> QED
    BY <1>1, <1>13, <2>1
<1> QED
  BY <1>14, <1>15, <1>16, <1>17 DEF CountInv

(* Counts that are what is expected are what the reference counts. *)
LEMMA CountIsExact == CountInv => TotalsAreExact
<1> SUFFICES ASSUME CountInv PROVE TotalsAreExact
  OBVIOUS
<1>1. goal \in CountType /\ goal.min <= goal.max
  BY GoalIsOne DEF CountInv
<1>2. ASSUME level = goal.max, total # Declined PROVE total = Enumerated
  <2>1. total = OverSources(ExpectedOf(level))
    BY <1>2 DEF CountInv
  <2>2. Enumerated = OverSources(ExpectedOf(goal.max))
    BY <1>1, EnumeratedIs, Zenon DEF ExpectedOf
  <2> QED
    BY <1>2, <2>1, <2>2
<1>3. ASSUME total = Declined
      PROVE  LET walks == Cardinality(Paths(0 .. goal.max, FALSE)) IN
             walks > Widest \/ Len(goal.src) * walks > Widest
  <2>1. TooMany
    BY <1>3 DEF CountInv
  <2>2. Paths(0 .. goal.max, FALSE) = AllWalks
    BY <1>1, AllWalksAre
  <2> QED
    BY <2>1, <2>2, Zenon DEF TooMany
<1> QED
  BY <1>2, <1>3 DEF TotalsAreExact

(* For any graph, sources, bounds and predicates the total of the degree   *)
(* algebra is the number of paths: of walks, and of trails the walks that  *)
(* use no edge twice, at two, three and four hops.  It gives up only when  *)
(* the walks of the graph, or of all the input rows, leave the width.      *)
THEOREM TotalsAreExactHolds == CountSpec => []TotalsAreExact
<1>1. CountInit => CountInv
  BY CountInitInv
<1>2. CountInv /\ [CountNext]_countVars => CountInv'
  <2>1. CountInv /\ UNCHANGED countVars => CountInv'
    <3> SUFFICES ASSUME CountInv, UNCHANGED countVars PROVE CountInv'
      OBVIOUS
    <3>1. goal' = goal /\ level' = level /\ ways' = ways /\ ways2' = ways2 /\ trails3' = trails3 /\ total' = total
      BY DEF countVars
    <3>2. WaysAre' <=> WaysAre
      <4>1. \A v, once : Routes(level, v, once)' = Routes(level, v, once)
        BY <3>1, AskedOnce
      <4>2. \A v : Pass(v)' = Pass(v)
        BY <3>1, AskedOnce
      <4> QED
        BY <3>1, <4>1, <4>2, Zenon DEF WaysAre
    <3>3. Gated' <=> Gated
      <4>1. \A n, v, once : Routes(n, v, once)' = Routes(n, v, once)
        BY <3>1, AskedOnce
      <4>2. Kept' <=> Kept
        BY <3>1, <4>1, Zenon DEF Kept
      <4> QED
        BY <3>1, <4>2, AskedOnce, Zenon DEF Gated
    <3>4. OverSources(ExpectedOf(level))' = OverSources(ExpectedOf(level)) /\ (TooMany' <=> TooMany)
      BY <3>1, AskedOnce
    <3> QED
      BY <3>1, <3>2, <3>3, <3>4 DEF CountInv
  <2> QED
    BY <2>1, ClosedFormInv, LevelInv DEF CountNext
<1>3. CountInv => TotalsAreExact
  BY CountIsExact
<1> QED
  BY <1>1, <1>2, <1>3, PTL DEF CountSpec
=============================================================================
