----------------------------- MODULE ParseCache -----------------------------
(***************************************************************************)
(* The two caches in front of the parsers of lnk_query                     *)
(* (crates/lenke-engine/src/parse_cache.rs): a text seen twice earns a     *)
(* slot, a full cache evicts, and what a call answers should not depend on *)
(* any of it.  The GQL cache keeps plans with open parameters and binds    *)
(* them per call; a text whose bound plan differs from the direct parse is *)
(* remembered as refused.  The Gremlin cache keeps the plan of its text.   *)
(*                                                                         *)
(* A GQL text is what the parser can tell about it: whether it is well     *)
(* formed, how deep its expressions are, where it has a parameter, and     *)
(* whether it names a now-function.  A plan is its text with the values    *)
(* the parser or the binder filled in.                                     *)
(***************************************************************************)
EXTENDS Naturals, FiniteSets, Functions

CONSTANTS
    Texts,          \* GQL texts
    Traversals,     \* Gremlin texts
    Depths,         \* the maxOperatorChain of the graphs that call
    Values,         \* parameter values
    Truths,         \* the values that may stand as a condition
    Clocks,         \* readings of the host's clock, $__now
    Cap,            \* CAP
    Hash            \* hash_of, a positive number for every text

ASSUME CapAssumption == Cap \in Nat \ {0}
ASSUME TextAssumption ==
    /\ Texts \subseteq [wellFormed : BOOLEAN, depth : Nat, clock : {"no", "named", "read"},
                        param : {"none", "value", "condition", "limit"}, id : Nat]
    /\ Traversals \subseteq [wellFormed : BOOLEAN, id : Nat]
    /\ Truths \subseteq Values
    /\ "absent" \notin Values /\ "open" \notin Values
ASSUME HashAssumption == Hash \in [Texts \cup Traversals -> Nat \ {0}]

VARIABLES
    entries,      \* Cache::slots, refused or [maxDepth, stamp, plan] by text
    ring,       \* Filter::hashes
    cursor,     \* Filter::cursor
    clock,      \* Cache::clock
    call,       \* the last parse_for_run: its arguments and its answer
    gslots,     \* GremlinCache::slots, [stamp, plan] by text
    gseen,      \* SightingSlots::hashes
    gclock,     \* GremlinCache::clock
    gcall       \* the last parse_gremlin_for_run

gqlVars == <<entries, ring, cursor, clock, call>>
gremlinVars == <<gslots, gseen, gclock, gcall>>
cacheVars == <<entries, ring, cursor, clock, call, gslots, gseen, gclock, gcall>>

(* The parameters of a call: a value for the text's one parameter, and the *)
(* clock the host injects; either may be absent.                           *)
Params == [value : Values \cup {"absent"}, now : Clocks \cup {"absent"}]

Plan(text, value, now) == [text |-> text, value |-> value, now |-> now]
Error(code) == [error |-> code]
IsError(result) == DOMAIN result = {"error"}

NoCall == <<>>
Open == "open"      \* Expr::Param: a parameter that is not bound yet
Refused == [refused |-> TRUE]

IsRefused(t) == entries[t] = Refused
RefusedTexts == {t \in DOMAIN entries : IsRefused(t)}

-----------------------------------------------------------------------------
(* The parser, as far as the cache depends on it. *)

(* parse_internal(text, params, prepared = false, max_depth): a parameter  *)
(* becomes its value, a condition that is not a truth value is rejected    *)
(* (check_bool_ctx), a now-function reads the clock.                       *)
DirectParse(text, params, depth) ==
    LET now == IF text.clock = "read" THEN params.now ELSE "absent"
    IN  IF ~text.wellFormed THEN Error("syntax")
        ELSE IF text.depth > depth THEN Error("exhausted")
        ELSE IF text.param = "none" THEN Plan(text, "absent", now)
        ELSE IF params.value = "absent" THEN Error("missing")
        ELSE IF text.param = "condition" /\ params.value \notin Truths
        THEN Error("invalid")
        ELSE Plan(text, params.value, now)

(* parse_internal(text, [], prepared = true, max_depth): a parameter stays *)
(* open, is not allowed in LIMIT, and no clock is there to read.           *)
PreparedParse(text, depth) ==
    IF ~text.wellFormed THEN Error("syntax")
    ELSE IF text.depth > depth THEN Error("exhausted")
    ELSE IF text.param = "limit" THEN Error("syntax")
    ELSE Plan(text, IF text.param = "none" THEN "absent" ELSE Open, "absent")

(* bind_params(plan, params), with the code the caller prefixes *)
Bind(plan, params) ==
    IF plan.value # Open THEN plan
    ELSE IF params.value = "absent" THEN Error("missing")
    ELSE [plan EXCEPT !.value = params.value]

(* text_may_read_clock(text): a substring test, so it also holds of a text *)
(* that only names such a function                                         *)
TextMayReadClock(text) == text.clock # "no"

(* Mutant: the clock test is forgotten; a call without a clock admits.  *)
PreparedEquivalentNow(text, params, depth) ==
    LET prepared == PreparedParse(text, depth)
    IN  /\ ~IsError(prepared)
        /\ Bind(prepared, params) = DirectParse(text, params, depth)

(* prepared_equivalent(text, params, max_depth, direct) *)
PreparedEquivalent(text, params, depth) ==
    LET prepared == PreparedParse(text, depth)
    IN  /\ ~TextMayReadClock(text)
        /\ ~IsError(prepared)
        /\ Bind(prepared, params) = DirectParse(text, params, depth)

-----------------------------------------------------------------------------
(* The admission filter and the eviction. *)

Sighted(text) == Hash[text] \in Range(ring)

(* Filter::note of a first sighting *)
Note(text) ==
    /\ ring' = [ring EXCEPT ![cursor] = Hash[text]]
    /\ cursor' = (cursor + 1) % Cap

(* Filter::forget *)
Forget(text) ==
    /\ ring' = [i \in DOMAIN ring |-> IF ring[i] = Hash[text] THEN 0 ELSE ring[i]]
    /\ UNCHANGED cursor

(* Mutant: the cache counts as full one entry late. *)
VictimsLate(text) ==
    IF Cardinality(DOMAIN entries) <= Cap \/ text \in DOMAIN entries THEN {{}}
    ELSE IF RefusedTexts # {} THEN {{t} : t \in RefusedTexts}
    ELSE {{t} : t \in DOMAIN entries}

(* evict_if_full(text): nobody, any refused text, or the plan used least   *)
(* recently                                                                *)
Victims(text) ==
    IF Cardinality(DOMAIN entries) < Cap \/ text \in DOMAIN entries THEN {{}}
    ELSE IF RefusedTexts # {} THEN {{t} : t \in RefusedTexts}
    ELSE {{t} : t \in {u \in DOMAIN entries :
                         \A w \in DOMAIN entries : entries[u].stamp <= entries[w].stamp}}

(* what insert(text, slot) leaves of the map once the victims are gone *)
Insert(text, slot, victims) ==
    entries' = [t \in (DOMAIN entries \ victims) \cup {text} |->
                IF t = text THEN slot ELSE entries[t]]

-----------------------------------------------------------------------------
(* parse_for_run(text, params, max_depth).  Each of its ways out is an     *)
(* action; every call ticks the clock of the cache first.                  *)

Answer(text, params, depth, result) ==
    call' = [text |-> text, params |-> params, depth |-> depth, result |-> result]

Found(text, depth) ==
    text \in DOMAIN entries /\ (~IsRefused(text) => entries[text].maxDepth = depth)

(* Lookup::Hit *)
Hit(text, params, depth) ==
    /\ Found(text, depth) /\ ~IsRefused(text)
    /\ entries' = [entries EXCEPT ![text].stamp = clock + 1]
    /\ clock' = clock + 1
    /\ Answer(text, params, depth, Bind(entries[text].plan, params))
    /\ UNCHANGED <<ring, cursor>>

(* Lookup::Refused *)
ParseRefused(text, params, depth) ==
    /\ Found(text, depth) /\ IsRefused(text)
    /\ clock' = clock + 1
    /\ Answer(text, params, depth, DirectParse(text, params, depth))
    /\ UNCHANGED <<entries, ring, cursor>>

(* Lookup::Miss: the direct parse fails, and stores nothing *)
MissFails(text, params, depth) ==
    /\ ~Found(text, depth)
    /\ IsError(DirectParse(text, params, depth))
    /\ clock' = clock + 1
    /\ Answer(text, params, depth, DirectParse(text, params, depth))
    /\ UNCHANGED <<entries, ring, cursor>>

(* Lookup::Miss of a text the filter has not seen *)
MissFirst(text, params, depth) ==
    /\ ~Found(text, depth)
    /\ ~IsError(DirectParse(text, params, depth))
    /\ ~Sighted(text)
    /\ Note(text)
    /\ clock' = clock + 1
    /\ Answer(text, params, depth, DirectParse(text, params, depth))
    /\ UNCHANGED entries

(* Lookup::Miss of a repeat: admit or refuse *)
MissRepeat(text, params, depth) ==
    /\ ~Found(text, depth)
    /\ ~IsError(DirectParse(text, params, depth))
    /\ Sighted(text)
    /\ Forget(text)
    /\ \E victims \in Victims(text) :
         IF PreparedEquivalent(text, params, depth)
         THEN /\ Insert(text, [maxDepth |-> depth, stamp |-> clock + 2,
                               plan |-> PreparedParse(text, depth)], victims)
              /\ clock' = clock + 2
         ELSE /\ Insert(text, Refused, victims)
              /\ clock' = clock + 1
    /\ Answer(text, params, depth, DirectParse(text, params, depth))

GqlInit ==
    /\ entries = <<>>
    /\ ring = [i \in 0 .. Cap - 1 |-> 0]
    /\ cursor = 0
    /\ clock = 0
    /\ call = NoCall

GqlNext ==
    \E text \in Texts, params \in Params, depth \in Depths :
        \/ Hit(text, params, depth)
        \/ ParseRefused(text, params, depth)
        \/ MissFails(text, params, depth)
        \/ MissFirst(text, params, depth)
        \/ MissRepeat(text, params, depth)

-----------------------------------------------------------------------------
(* parse_gremlin_for_run(text).  A traversal has no parameters and no      *)
(* limits, so its plan is a function of its text; the filter has one place *)
(* per residue of the hash.                                                *)

GremlinParse(text) == IF text.wellFormed THEN [plan |-> text] ELSE Error("syntax")

Place(text) == Hash[text] % Cap

(* look_up finds the plan and renews its stamp *)
GremlinHit(text) ==
    /\ text \in DOMAIN gslots
    /\ gslots' = [gslots EXCEPT ![text].stamp = gclock + 1]
    /\ gclock' = gclock + 1
    /\ gcall' = [text |-> text, result |-> gslots[text].plan]
    /\ UNCHANGED gseen

(* look_up finds nothing, and the parse fails *)
GremlinFails(text) ==
    /\ text \notin DOMAIN gslots
    /\ IsError(GremlinParse(text))
    /\ gclock' = gclock + 1
    /\ gcall' = [text |-> text, result |-> GremlinParse(text)]
    /\ UNCHANGED <<gslots, gseen>>

(* look_up finds nothing, and SightingSlots::note says it is the first time *)
GremlinFirst(text) ==
    /\ text \notin DOMAIN gslots
    /\ ~IsError(GremlinParse(text))
    /\ gseen[Place(text)] # Hash[text]
    /\ gseen' = [gseen EXCEPT ![Place(text)] = Hash[text]]
    /\ gclock' = gclock + 1
    /\ gcall' = [text |-> text, result |-> GremlinParse(text)]
    /\ UNCHANGED gslots

GremlinVictims ==
    IF Cardinality(DOMAIN gslots) < Cap THEN {{}}
    ELSE {{t} : t \in {u \in DOMAIN gslots :
                         \A w \in DOMAIN gslots : gslots[u].stamp <= gslots[w].stamp}}

(* a repeat: forget the sighting, evict if full, insert *)
GremlinAdmit(text) ==
    /\ text \notin DOMAIN gslots
    /\ ~IsError(GremlinParse(text))
    /\ gseen[Place(text)] = Hash[text]
    /\ gseen' = [gseen EXCEPT ![Place(text)] = 0]
    /\ \E victims \in GremlinVictims :
         gslots' = [t \in (DOMAIN gslots \ victims) \cup {text} |->
                      IF t = text THEN [stamp |-> gclock + 2, plan |-> GremlinParse(text)]
                                  ELSE gslots[t]]
    /\ gclock' = gclock + 2
    /\ gcall' = [text |-> text, result |-> GremlinParse(text)]

GremlinInit ==
    /\ gslots = <<>>
    /\ gseen = [i \in 0 .. Cap - 1 |-> 0]
    /\ gclock = 0
    /\ gcall = NoCall

GremlinNext ==
    \E text \in Traversals :
        GremlinHit(text) \/ GremlinFails(text) \/ GremlinFirst(text) \/ GremlinAdmit(text)

-----------------------------------------------------------------------------
(* The caches are two thread_locals: a call touches one of them. *)

CacheInit == GqlInit /\ GremlinInit

GqlStep == GqlNext /\ UNCHANGED gremlinVars
GremlinStep == GremlinNext /\ UNCHANGED gqlVars
CacheNext == GqlStep \/ GremlinStep

CacheSpec == CacheInit /\ [][CacheNext]_cacheVars

-----------------------------------------------------------------------------

Admitted ==
    [maxDepth : Depths, stamp : Nat,
     plan : {PreparedParse(t, d) : t \in Texts, d \in Depths}]
AdmittedTraversal == [stamp : Nat, plan : {GremlinParse(t) : t \in Traversals}]

(* Type invariant. *)
CacheTypeOK ==
    /\ DOMAIN entries \subseteq Texts
    /\ \A t \in DOMAIN entries : IsRefused(t) \/ entries[t] \in Admitted
    /\ ring \in [0 .. Cap - 1 -> Nat]
    /\ cursor \in 0 .. Cap - 1
    /\ clock \in Nat
    /\ DOMAIN gslots \subseteq Traversals
    /\ \A t \in DOMAIN gslots : gslots[t] \in AdmittedTraversal
    /\ gseen \in [0 .. Cap - 1 -> Nat]
    /\ gclock \in Nat

(* "Equivalent to parse_with_params_limited in every case": the answer of  *)
(* every call, hit or miss, is what the uncached path answers to the same  *)
(* text, parameters and depth.  The header of parse_cache.rs promises it   *)
(* of every text; it fails where the parameter is itself a condition.      *)
AnswersAreDirect ==
    call # NoCall => call.result = DirectParse(call.text, call.params, call.depth)

(* What does hold: admission compares one set of parameters, the parser    *)
(* rejects some values of a condition that the binder does not, and that   *)
(* is the only difference a caller can ever see, in either cache.          *)
AnswersDifferOnlyInConditions ==
    /\ call # NoCall =>
         LET direct == DirectParse(call.text, call.params, call.depth)
         IN  \/ call.result = direct
             \/ call.text.param = "condition" /\ direct = Error("invalid")
    /\ gcall # NoCall => gcall.result = GremlinParse(gcall.text)

(* Neither cache outgrows its cap, whatever is refused, admitted again at  *)
(* another depth, or evicted.                                              *)
CachesAreBounded ==
    /\ Cardinality(DOMAIN entries) <= Cap
    /\ Cardinality(DOMAIN gslots) <= Cap

(* What a cached plan is: the prepared plan of its text at its depth, of a *)
(* text that reads no clock; and a cached traversal is its own parse.      *)
PlansArePrepared ==
    /\ \A t \in DOMAIN entries : ~IsRefused(t) =>
         /\ entries[t].plan = PreparedParse(t, entries[t].maxDepth)
         /\ ~IsError(entries[t].plan)
         /\ ~TextMayReadClock(t)
    /\ \A t \in DOMAIN gslots : gslots[t].plan = GremlinParse(t)

(* The inductive invariant of the proofs. *)
CacheInv ==
    /\ CacheTypeOK
    /\ IsFiniteSet(DOMAIN entries) /\ IsFiniteSet(DOMAIN gslots)
    /\ PlansArePrepared
    /\ AnswersDifferOnlyInConditions
    /\ CachesAreBounded
=============================================================================
