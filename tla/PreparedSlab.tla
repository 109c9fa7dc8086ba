---------------------------- MODULE PreparedSlab ----------------------------
(***************************************************************************)
(* The table of prepared statements behind the "prepare", "prepared_run"   *)
(* and "prepared_free" commands (crates/lenke-engine/src/prepared.rs).  A  *)
(* handle packs a slot index with the generation of that slot; freeing a   *)
(* slot bumps its generation so that handles given out before stop         *)
(* resolving.  The generation is a u32 that wraps: GenSize is 2^32 in the  *)
(* code and small in the runs.                                             *)
(*                                                                         *)
(* `minted' and `frees' are history variables: they remember every handle  *)
(* ever given out, as <<index, era, plan>> where the era counts the frees  *)
(* of the slot without wrapping.  No action reads them.                    *)
(***************************************************************************)
EXTENDS Naturals, Sequences, SequencesExt

CONSTANTS
    Plans,      \* the prepared plans a client may ask to keep
    NoPlan,     \* what an empty slot holds
    GenSize,    \* how many generations a handle can tell apart
    MaxSlots,   \* bound of the runs: slots the table grows to
    MaxEra      \* bound of the runs: times one slot is freed

ASSUME GenSizeAssumption == GenSize \in Nat \ {0}
ASSUME NoPlanAssumption == NoPlan \notin Plans

VARIABLES
    slots,      \* PreparedSlab::slots, [generation, plan] each
    free,       \* PreparedSlab::free, a stack of slot indices
    minted,     \* history: the tokens given out
    frees       \* history: how often each slot was freed

slabVars == <<slots, free, minted, frees>>

Slot == [generation : 0 .. GenSize - 1, plan : Plans \cup {NoPlan}]
Tokens == [index : Nat \ {0}, era : Nat, plan : Plans]

(* pack(index, generation), of the handle a token stands for *)
HandleOf(token) == [index |-> token.index, generation |-> token.era % GenSize]

(* get_clone(handle) *)
GetClone(handle) ==
    IF /\ handle.index \in DOMAIN slots
       /\ slots[handle.index].generation = handle.generation
    THEN slots[handle.index].plan
    ELSE NoPlan

(* the test remove(handle) makes before it frees anything *)
MayRemove(handle) == GetClone(handle) # NoPlan

-----------------------------------------------------------------------------

SlabInit ==
    /\ slots = <<>>
    /\ free = <<>>
    /\ minted = {}
    /\ frees = <<>>

(* Mutant: the index is read from the stack and left on it. *)
ReuseSlotPeeks(plan) ==
    LET i == Last(free) IN
    /\ free # <<>>
    /\ frees[i] < MaxEra
    /\ slots' = [slots EXCEPT ![i].plan = plan]
    /\ minted' = minted \cup {[index |-> i, era |-> frees[i], plan |-> plan]}
    /\ UNCHANGED <<free, frees>>

(* insert(plan) when a freed slot waits on the stack *)
ReuseSlot(plan) ==
    LET i == Last(free) IN
    /\ free # <<>>
    /\ frees[i] < MaxEra
    /\ slots' = [slots EXCEPT ![i].plan = plan]
    /\ free' = Front(free)
    /\ minted' = minted \cup {[index |-> i, era |-> frees[i], plan |-> plan]}
    /\ UNCHANGED frees

(* insert(plan) when none does: the table grows *)
GrowSlab(plan) ==
    /\ free = <<>>
    /\ Len(slots) < MaxSlots
    /\ slots' = Append(slots, [generation |-> 0, plan |-> plan])
    /\ minted' = minted \cup {[index |-> Len(slots) + 1, era |-> 0, plan |-> plan]}
    /\ frees' = Append(frees, 0)
    /\ UNCHANGED free

(* Mutant: the generation stays, so a handle outlives its statement. *)
FreeHandleOnly(handle) ==
    LET i == handle.index IN
    /\ MayRemove(handle)
    /\ slots' = [slots EXCEPT ![i].plan = NoPlan]
    /\ free' = Append(free, i)
    /\ frees' = [frees EXCEPT ![i] = @ + 1]
    /\ UNCHANGED minted

(* remove(handle), called with any handle ever given out: also one that    *)
(* was freed already, which the test refuses.                              *)
FreeHandle(handle) ==
    LET i == handle.index IN
    /\ MayRemove(handle)
    /\ slots' = [slots EXCEPT ![i] = [generation |-> (@.generation + 1) % GenSize,
                                      plan |-> NoPlan]]
    /\ free' = Append(free, i)
    /\ frees' = [frees EXCEPT ![i] = @ + 1]
    /\ UNCHANGED minted

SlabNext ==
    \/ \E plan \in Plans : ReuseSlot(plan) \/ GrowSlab(plan)
    \/ \E token \in minted : FreeHandle(HandleOf(token))

SlabSpec == SlabInit /\ [][SlabNext]_slabVars

-----------------------------------------------------------------------------

(* A token is live until its handle is freed: it belongs to the current    *)
(* era of its slot, and the slot is occupied.                              *)
Live(token) ==
    /\ token.era = frees[token.index]
    /\ slots[token.index].plan # NoPlan

(* The slot of a token has not been through all the generations a handle   *)
(* can tell apart since the token was given out.                           *)
NotWrapped(token) == frees[token.index] - token.era < GenSize

(* Type invariant of the table and its history. *)
SlabTypeOK ==
    /\ slots \in Seq(Slot)
    /\ free \in Seq(DOMAIN slots)
    /\ minted \subseteq Tokens
    /\ frees \in Seq(Nat)
    /\ Len(frees) = Len(slots)

(* A handle answers with the plan it was given out for as long as it is    *)
(* not freed, whatever else was prepared and freed in between, and even    *)
(* when generations wrap.                                                  *)
LiveHandlesResolve ==
    \A token \in minted : Live(token) => GetClone(HandleOf(token)) = token.plan

(* Use after free and double free: a freed handle neither runs another     *)
(* statement's plan nor frees another statement, until its slot has been   *)
(* freed GenSize times more.                                               *)
FreedHandlesAreRefused ==
    \A token \in minted :
        ~Live(token) /\ NotWrapped(token) => ~MayRemove(HandleOf(token))

(* The stack of free slots holds exactly the empty slots, each once: no    *)
(* slot is lost, and none is handed to two statements.                     *)
FreeListIsExact ==
    /\ \A i \in DOMAIN slots :
         slots[i].plan = NoPlan <=> \E n \in DOMAIN free : free[n] = i
    /\ \A m, n \in DOMAIN free : free[m] = free[n] => m = n

(* What ties the slots to the history. *)
ErasAgree ==
    /\ \A i \in DOMAIN slots : slots[i].generation = frees[i] % GenSize
    /\ \A token \in minted :
         /\ token.index \in DOMAIN slots
         /\ token.era <= frees[token.index]
         /\ Live(token) => slots[token.index].plan = token.plan

(* An empty slot was emptied by a free: its era is newer than every token  *)
(* given out for it.                                                       *)
EmptySlotsAreNewer ==
    \A token \in minted :
        slots[token.index].plan = NoPlan => token.era < frees[token.index]

(* The inductive invariant of the proofs. *)
SlabInv == SlabTypeOK /\ FreeListIsExact /\ ErasAgree /\ EmptySlotsAreNewer
=============================================================================
