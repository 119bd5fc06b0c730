----------------------------- MODULE ExpertCache -----------------------------
(***************************************************************************)
(* The byte-budget cache of expert weight planes: src/src/expert_cache.c.  *)
(*                                                                         *)
(* Every cached expert owns a base plane and, after a promotion, a         *)
(* residual plane.  Payloads are opaque handles: a successful admission    *)
(* hands one to the cache, the release callback hands it back.  The API is *)
(* sequential, so calls do not overlap; but one call may release many      *)
(* planes, and each release runs the caller's callback, so a call that     *)
(* reclaims is modelled as a Begin action, one action per release (one     *)
(* iteration of the loops of make_room, ecache_apply_pressure and          *)
(* ecache_destroy) and a Finish action.                                    *)
(*                                                                         *)
(* Left out: the hit, miss and I/O telemetry of ecache_stats (it decides   *)
(* nothing) and the hash index, which is module ExpertIndex.               *)
(***************************************************************************)
EXTENDS Integers, FiniteSets, FiniteSetsExt, Functions

CONSTANTS
    Layers,         \* layer_count layers
    Experts,        \* expert numbers within a layer
    Payloads,       \* handles the caller may pass in
    NoPayload,      \* NULL
    Sizes,          \* logical sizes the caller may pass in
    Targets,        \* pressure targets the caller may pass in
    MaxEntries,     \* config.max_entries
    Budget,         \* config.budget_bytes
    Alignment,      \* config.payload_alignment
    TwoQ,           \* config.policy = ECACHE_POLICY_2Q (FALSE: LRU)
    MinBaseBytes,   \* floor.min_base_bytes of each layer
    MinBaseEntries, \* floor.min_base_entries of each layer
    ClockMax,       \* UINT64_MAX, the value at which next_clock halves all stamps
    PinMax          \* UINT32_MAX, the value at which ecache_pin refuses

Keys  == Layers \X Experts
Slots == 0 .. MaxEntries - 1
NoSlot == -1
NoKey == <<>>

ASSUME ConfigAssumption ==
    /\ MaxEntries \in Nat \ {0}
    /\ Budget \in Nat
    /\ Alignment \in Nat \ {0}
    /\ TwoQ \in BOOLEAN
    /\ MinBaseBytes \in [Layers -> Nat]
    /\ MinBaseEntries \in [Layers -> Nat]
    /\ Sizes \subseteq Nat \ {0}
    /\ Targets \subseteq Nat
    /\ ClockMax \in Nat /\ ClockMax >= 3
    /\ PinMax \in Nat \ {0}
    /\ NoPayload \notin Payloads
    /\ NoKey \notin Keys

VARIABLES
    entries,        \* the entry slots
    clock,          \* the recency counter
    entry_count,    \* occupied slots, as counted incrementally
    payload_bytes,  \* stats.payload_bytes, as counted incrementally
    peak,           \* stats.peak_payload_bytes
    layers,         \* per-layer counters
    call,           \* the API call in progress
    held            \* handles the caller has given away and not got back

vars == <<entries, clock, entry_count, payload_bytes, peak, layers, call, held>>

(***************************************************************************)
(* Representation.                                                         *)
(***************************************************************************)
Blank == [occupied |-> FALSE, key |-> NoKey, base |-> NoPayload,
          residual |-> NoPayload, base_charge |-> 0, residual_charge |-> 0,
          last_access |-> 0, admission_order |-> 0, hot |-> FALSE, pins |-> 0]

Entries == [occupied : BOOLEAN, key : Keys \cup {NoKey},
            base : Payloads \cup {NoPayload},
            residual : Payloads \cup {NoPayload},
            base_charge : Nat, residual_charge : Nat,
            last_access : Nat, admission_order : Nat,
            hot : BOOLEAN, pins : Nat]

LayerCounters == [base_bytes : Int, residual_bytes : Int,
                  base_entries : Int, residual_entries : Int]

Ops == {"none", "insert", "promote", "warn", "critical", "destroy", "dead"}

Calls == [op : Ops, key : Keys \cup {NoKey}, payload : Payloads \cup {NoPayload},
          amount : Nat, slot : Slots \cup {NoSlot}]

Request(op, key, payload, amount, slot) ==
    [op |-> op, key |-> key, payload |-> payload, amount |-> amount, slot |-> slot]

Idle == Request("none", NoKey, NoPayload, 0, NoSlot)

occupied(s) == entries[s].occupied
has_residual(s) == entries[s].residual # NoPayload

\* hash_find as module ExpertIndex shows it to behave: the slot of a resident key.
Resident(key) == {s \in Slots : occupied(s) /\ entries[s].key = key}

\* Mutant of payload_in_use: residual planes are not compared.
payload_in_use_bases_only(p) == \E s \in Slots : occupied(s) /\ entries[s].base = p

payload_in_use(p) ==
    \E s \in Slots : /\ occupied(s)
                     /\ entries[s].base = p \/ (has_residual(s) /\ entries[s].residual = p)

payload_charge(logical) ==
    LET remainder == logical % Alignment
    IN  logical + (IF remainder = 0 THEN 0 ELSE Alignment - remainder)

(***************************************************************************)
(* next_clock: at ClockMax every stamp is halved, rounding so that the new *)
(* stamp still exceeds all of them.                                        *)
(***************************************************************************)
Wrapping == clock = ClockMax

\* Mutant of Aged: the stamps are not halved when the clock is.
Aged_not_halved(e) == e

Aged(e) ==
    IF Wrapping /\ e.occupied
      THEN [e EXCEPT !.last_access = @ \div 2 + 1, !.admission_order = @ \div 2 + 1]
      ELSE e

\* Mutant of next_clock: no wrap.
next_clock_unbounded == clock + 1

next_clock == (IF Wrapping THEN ClockMax \div 2 + 1 ELSE clock) + 1

(***************************************************************************)
(* Reclaim policy.                                                         *)
(***************************************************************************)
candidate_precedes(a, b) ==
    LET ea == entries[a]
        eb == entries[b]
        stamp(e) == IF TwoQ /\ ~e.hot THEN e.admission_order ELSE e.last_access
    IN  IF TwoQ /\ ea.hot # eb.hot THEN ~ea.hot
        ELSE IF stamp(ea) # stamp(eb) THEN stamp(ea) < stamp(eb)
        ELSE a < b

First(C) == CHOOSE a \in C : \A b \in C \ {a} : candidate_precedes(a, b)

\* Mutant of EligibleResiduals: pins are ignored.
EligibleResiduals_pinned_too == {s \in Slots : occupied(s) /\ has_residual(s)}

EligibleResiduals == {s \in Slots : occupied(s) /\ has_residual(s) /\ entries[s].pins = 0}

choose_residual == IF EligibleResiduals = {} THEN NoSlot ELSE First(EligibleResiduals)

BaseCharges == [s \in Slots |-> entries[s].base_charge]
ResidualCharges == [s \in Slots |-> entries[s].residual_charge]
BaseBytes(S) == SumFunctionOnSet(BaseCharges, S)
ResidualBytes(S) == SumFunctionOnSet(ResidualCharges, S)
InLayer(S, l) == {s \in S : entries[s].occupied /\ entries[s].key[1] = l}

\* Mutant of base_floor_allows: the plan forgets the bases it already gave up.
base_floor_allows_forgetful(s, planned) ==
    /\ occupied(s) /\ s \notin planned /\ entries[s].pins = 0
    /\ LET l == entries[s].key[1]
       IN  /\ layers[l].base_entries - 1 >= MinBaseEntries[l]
           /\ layers[l].base_bytes - entries[s].base_charge >= MinBaseBytes[l]

\* Mutant of base_floor_allows: the entry floor is off by one.
base_floor_allows_off_by_one(s, planned) ==
    /\ occupied(s) /\ s \notin planned /\ entries[s].pins = 0
    /\ LET l == entries[s].key[1]
           gone == InLayer(planned, l)
       IN  layers[l].base_entries - Cardinality(gone) >= MinBaseEntries[l]

\* base_floor_allows against the layer counters less what is already planned.
base_floor_allows(s, planned) ==
    /\ occupied(s)
    /\ s \notin planned
    /\ entries[s].pins = 0
    /\ LET l     == entries[s].key[1]
           gone  == InLayer(planned, l)
           bytes == layers[l].base_bytes - BaseBytes(gone)
           count == layers[l].base_entries - Cardinality(gone)
       IN  /\ count > 0
           /\ bytes >= entries[s].base_charge
           /\ count - 1 >= MinBaseEntries[l]
           /\ bytes - entries[s].base_charge >= MinBaseBytes[l]

Evictable(protected, planned) ==
    {s \in Slots \ {protected} : base_floor_allows(s, planned)}

choose_base(protected, planned) ==
    IF Evictable(protected, planned) = {} THEN NoSlot
    ELSE First(Evictable(protected, planned))

required_reclaim(incoming) ==
    LET available == Budget - payload_bytes
    IN  IF incoming > available THEN incoming - available ELSE 0

\* Mutant of can_make_room: pinned residuals are counted as reclaimable.
can_make_room_counts_pinned(incoming, need_entry_slot, protected) ==
    /\ incoming <= Budget
    /\ ~(need_entry_slot /\ entry_count >= MaxEntries)
    /\ ResidualBytes({s \in Slots : has_residual(s)}) >= required_reclaim(incoming)

\* The non-mutating admission proof: plan evictions until enough is freed.
can_make_room(incoming, need_entry_slot, protected) ==
    LET needed == required_reclaim(incoming)
        residuals == ResidualBytes(EligibleResiduals)
        plan[planned \in SUBSET Slots] ==
            \/ /\ residuals + BaseBytes(planned) >= needed
               /\ need_entry_slot => planned # {}
            \/ LET s == choose_base(protected, planned)
               IN  s # NoSlot /\ plan[planned \cup {s}]
    IN  /\ incoming <= Budget
        /\ \/ /\ ~(need_entry_slot /\ entry_count >= MaxEntries)
              /\ residuals >= needed
           \/ plan[{}]

(***************************************************************************)
(* Releasing a plane: bookkeeping, then the callback.                      *)
(***************************************************************************)
\* Mutant of release_residual: the plane is accounted for and stays in its entry.
release_residual_keeps_plane(s) ==
    LET e == entries[s]
    IN  /\ payload_bytes' = payload_bytes - e.residual_charge
        /\ layers' = [layers EXCEPT ![e.key[1]].residual_bytes = @ - e.residual_charge,
                                    ![e.key[1]].residual_entries = @ - 1]
        /\ held' = held \ {e.residual}
        /\ UNCHANGED <<entries, clock, entry_count, peak>>

release_residual(s) ==
    LET e == entries[s]
    IN  /\ entries' = [entries EXCEPT ![s].residual = NoPayload,
                                      ![s].residual_charge = 0]
        /\ payload_bytes' = payload_bytes - e.residual_charge
        /\ layers' = [layers EXCEPT ![e.key[1]].residual_bytes = @ - e.residual_charge,
                                    ![e.key[1]].residual_entries = @ - 1]
        /\ held' = held \ {e.residual}
        /\ UNCHANGED <<clock, entry_count, peak>>

\* Mutant of release_base: a residual plane is dropped without being released.
release_base_leaks_residual(s) ==
    LET e == entries[s]
    IN  /\ entries' = [entries EXCEPT ![s] = Blank]
        /\ payload_bytes' = payload_bytes - e.base_charge
        /\ layers' = [layers EXCEPT ![e.key[1]].base_bytes = @ - e.base_charge,
                                    ![e.key[1]].base_entries = @ - 1]
        /\ entry_count' = entry_count - 1
        /\ held' = held \ {e.base}
        /\ UNCHANGED <<clock, peak>>

\* release_base releases the residual plane first when there still is one.
release_base(s) ==
    LET e == entries[s]
        residuals == IF has_residual(s) THEN 1 ELSE 0
    IN  /\ entries' = [entries EXCEPT ![s] = Blank]
        /\ payload_bytes' = payload_bytes - e.residual_charge - e.base_charge
        /\ layers' = [layers EXCEPT ![e.key[1]] =
                         [base_bytes |-> @.base_bytes - e.base_charge,
                          residual_bytes |-> @.residual_bytes - e.residual_charge,
                          base_entries |-> @.base_entries - 1,
                          residual_entries |-> @.residual_entries - residuals]]
        /\ entry_count' = entry_count - 1
        /\ held' = held \ {e.residual, e.base}
        /\ UNCHANGED <<clock, peak>>

(***************************************************************************)
(* Calls that release nothing.                                             *)
(***************************************************************************)
NoEntries == [s \in Slots |-> Blank]
NoCounters == [l \in Layers |-> [base_bytes |-> 0, residual_bytes |-> 0,
                                 base_entries |-> 0, residual_entries |-> 0]]

Init ==
    /\ entries = NoEntries
    /\ clock = 0
    /\ entry_count = 0
    /\ payload_bytes = 0
    /\ peak = 0
    /\ layers = NoCounters
    /\ call = Idle
    /\ held = {}

\* After ecache_destroy the caller may initialise a new cache in the same workspace.
ecache_init ==
    /\ call.op = "dead"
    /\ entries' = NoEntries
    /\ clock' = 0
    /\ entry_count' = 0
    /\ payload_bytes' = 0
    /\ peak' = 0
    /\ layers' = NoCounters
    /\ call' = Idle
    /\ UNCHANGED held

\* A demand lookup that finds its key; a miss changes telemetry only.
ecache_get(key) ==
    /\ call = Idle
    /\ \E s \in Resident(key) :
          entries' = [t \in Slots |->
              IF t = s THEN [Aged(entries[s]) EXCEPT !.last_access = next_clock,
                                                     !.hot = TwoQ \/ @]
                       ELSE Aged(entries[t])]
    /\ clock' = next_clock
    /\ UNCHANGED <<entry_count, payload_bytes, peak, layers, call, held>>

ecache_pin(key) ==
    /\ call = Idle
    /\ \E s \in Resident(key) : /\ entries[s].pins < PinMax
                                /\ entries' = [entries EXCEPT ![s].pins = @ + 1]
    /\ UNCHANGED <<clock, entry_count, payload_bytes, peak, layers, call, held>>

ecache_unpin(key) ==
    /\ call = Idle
    /\ \E s \in Resident(key) : /\ entries[s].pins > 0
                                /\ entries' = [entries EXCEPT ![s].pins = @ - 1]
    /\ UNCHANGED <<clock, entry_count, payload_bytes, peak, layers, call, held>>

\* Explicit removal refuses a pinned entry and ignores the floors.
ecache_remove(key) ==
    /\ call = Idle
    /\ \E s \in Resident(key) : entries[s].pins = 0 /\ release_base(s)
    /\ UNCHANGED call

(***************************************************************************)
(* Admissions: the checks up to can_make_room (a refusal changes nothing), *)
(* the make_room loop, and the admission itself.                           *)
(***************************************************************************)
InsertBegin(key, p, logical) ==
    /\ call = Idle
    /\ Resident(key) = {}
    /\ ~payload_in_use(p)
    /\ can_make_room(payload_charge(logical), TRUE, NoSlot)
    /\ call' = Request("insert", key, p, payload_charge(logical), NoSlot)
    /\ UNCHANGED <<entries, clock, entry_count, payload_bytes, peak, layers, held>>

PromoteBegin(key, p, logical) ==
    /\ call = Idle
    /\ \E s \in Resident(key) :
          /\ ~has_residual(s)
          /\ ~payload_in_use(p)
          /\ can_make_room(payload_charge(logical), FALSE, s)
          /\ call' = Request("promote", key, p, payload_charge(logical), s)
    /\ UNCHANGED <<entries, clock, entry_count, payload_bytes, peak, layers, held>>

\* What the loop of the call in progress still has to reclaim.
SlotNeeded == call.op = "insert" /\ entry_count >= MaxEntries

Wanting ==
    CASE call.op \in {"insert", "promote"} -> required_reclaim(call.amount) > 0 \/ SlotNeeded
      [] call.op \in {"warn", "critical"}  -> payload_bytes > call.amount
      [] OTHER                             -> FALSE

\* Mutant of MayEvictBase: WARN goes on to the bases as CRITICAL does.
MayEvictBase_on_warn == call.op \in {"insert", "promote", "warn", "critical"}

MayEvictBase == call.op \in {"insert", "promote", "critical"}

\* One iteration of make_room or of a pressure loop: residuals go first.
ReclaimResidual ==
    /\ Wanting
    /\ choose_residual # NoSlot
    /\ release_residual(choose_residual)
    /\ UNCHANGED call

ReclaimBase ==
    /\ Wanting
    /\ MayEvictBase
    /\ choose_residual = NoSlot
    /\ choose_base(call.slot, {}) # NoSlot
    /\ release_base(choose_base(call.slot, {}))
    /\ UNCHANGED call

\* The loop leaves when nothing more is wanted, or when no candidate is left.
LoopDone ==
    \/ ~Wanting
    \/ /\ choose_residual = NoSlot
       /\ MayEvictBase => choose_base(call.slot, {}) = NoSlot

Raise(n) == IF n > peak THEN n ELSE peak

free_slots == {s \in Slots : ~occupied(s)}

InsertFinish ==
    /\ call.op = "insert"
    /\ LoopDone
    /\ free_slots # {}
    /\ entries' = [t \in Slots |->
           IF t = Min(free_slots)
             THEN [Blank EXCEPT !.occupied = TRUE, !.key = call.key,
                                !.base = call.payload, !.base_charge = call.amount,
                                !.last_access = next_clock,
                                !.admission_order = next_clock]
             ELSE Aged(entries[t])]
    /\ clock' = next_clock
    /\ entry_count' = entry_count + 1
    /\ payload_bytes' = payload_bytes + call.amount
    /\ peak' = Raise(payload_bytes')
    /\ layers' = [layers EXCEPT ![call.key[1]].base_bytes = @ + call.amount,
                                ![call.key[1]].base_entries = @ + 1]
    /\ held' = held \cup {call.payload}
    /\ call' = Idle

PromoteFinish ==
    /\ call.op = "promote"
    /\ LoopDone
    /\ entries' = [entries EXCEPT ![call.slot].residual = call.payload,
                                  ![call.slot].residual_charge = call.amount]
    /\ payload_bytes' = payload_bytes + call.amount
    /\ peak' = Raise(payload_bytes')
    /\ layers' = [layers EXCEPT ![call.key[1]].residual_bytes = @ + call.amount,
                                ![call.key[1]].residual_entries = @ + 1]
    /\ held' = held \cup {call.payload}
    /\ call' = Idle
    /\ UNCHANGED <<clock, entry_count>>

(***************************************************************************)
(* Memory pressure and destruction.                                        *)
(***************************************************************************)
PressureBegin(level, target) ==
    /\ call = Idle
    /\ target <= Budget
    /\ call' = Request(level, NoKey, NoPayload, target, NoSlot)
    /\ UNCHANGED <<entries, clock, entry_count, payload_bytes, peak, layers, held>>

PressureFinish ==
    /\ call.op \in {"warn", "critical"}
    /\ LoopDone
    /\ call' = Idle
    /\ UNCHANGED <<entries, clock, entry_count, payload_bytes, peak, layers, held>>

DestroyBegin ==
    /\ call = Idle
    /\ \A s \in Slots : occupied(s) => entries[s].pins = 0
    /\ call' = Request("destroy", NoKey, NoPayload, 0, NoSlot)
    /\ UNCHANGED <<entries, clock, entry_count, payload_bytes, peak, layers, held>>

DestroySlot ==
    /\ call.op = "destroy"
    /\ Slots \ free_slots # {}
    /\ release_base(Min(Slots \ free_slots))
    /\ UNCHANGED call

DestroyFinish ==
    /\ call.op = "destroy"
    /\ free_slots = Slots
    /\ call' = Request("dead", NoKey, NoPayload, 0, NoSlot)
    /\ UNCHANGED <<entries, clock, entry_count, payload_bytes, peak, layers, held>>

Step == \/ ReclaimResidual \/ ReclaimBase \/ InsertFinish \/ PromoteFinish
        \/ PressureFinish \/ DestroySlot \/ DestroyFinish

Next ==
    \/ \E key \in Keys : \/ ecache_get(key) \/ ecache_pin(key) \/ ecache_unpin(key)
                         \/ ecache_remove(key)
    \/ \E key \in Keys, p \in Payloads, n \in Sizes :
          InsertBegin(key, p, n) \/ PromoteBegin(key, p, n)
    \/ \E level \in {"warn", "critical"}, target \in Targets : PressureBegin(level, target)
    \/ DestroyBegin
    \/ Step
    \/ ecache_init

Spec == Init /\ [][Next]_vars

-----------------------------------------------------------------------------
(***************************************************************************)
(* Properties.                                                             *)
(***************************************************************************)
\* Every variable has its type.
TypeOK ==
    /\ entries \in [Slots -> Entries]
    /\ clock \in 0 .. ClockMax
    /\ entry_count \in Int
    /\ payload_bytes \in Int
    /\ peak \in Int
    /\ layers \in [Layers -> LayerCounters]
    /\ call \in Calls
    /\ held \subseteq Payloads

Used == {s \in Slots : occupied(s)}
Residuals == {s \in Used : has_residual(s)}

\* What ecache_validate checks of the byte totals, at every callback and between
\* calls: the incrementally kept counters equal what the entries add up to.
CountersExact ==
    /\ entry_count = Cardinality(Used)
    /\ payload_bytes = BaseBytes(Used) + ResidualBytes(Residuals)
    /\ \A l \in Layers :
          layers[l] = [base_bytes |-> BaseBytes(InLayer(Used, l)),
                       residual_bytes |-> ResidualBytes(InLayer(Residuals, l)),
                       base_entries |-> Cardinality(InLayer(Used, l)),
                       residual_entries |-> Cardinality(InLayer(Residuals, l))]

\* The budget is a hard limit: no admission, whatever it had to evict first, takes
\* the charged bytes (or their recorded peak) above config.budget_bytes.
BudgetHeld == payload_bytes <= peak /\ peak <= Budget

\* "can_make_room proved this cannot happen": once an admission has passed the plan,
\* make_room always finds a victim for what it still needs, and the promoted entry
\* is still there to receive its residual.
PlanHonoured ==
    /\ (call.op \in {"insert", "promote"} /\ Wanting) =>
          choose_residual # NoSlot \/ choose_base(call.slot, {}) # NoSlot
    /\ call.op = "promote" =>
          /\ occupied(call.slot)
          /\ entries[call.slot].key = call.key
          /\ ~has_residual(call.slot)

\* A key is cached at most once and a handle is owned by at most one plane
\* (ecache_validate's pairwise checks).
NoAliases ==
    \A s, t \in Used :
        /\ entries[s].base # NoPayload
        /\ has_residual(t) => entries[s].base # entries[t].residual
        /\ s # t => /\ entries[s].key # entries[t].key
                    /\ entries[s].base # entries[t].base
                    /\ has_residual(s) => entries[s].residual # entries[t].residual

\* Ownership: the handles the caller has given away and not got back through the
\* release callback are exactly the resident planes.  So nothing leaks and no
\* handle is released twice.
OwnershipExact ==
    held = {entries[s].base : s \in Used} \cup {entries[s].residual : s \in Residuals}

\* A pinned entry keeps its key and both planes through every step: no eviction,
\* pressure, removal or destruction frees bytes a lazy computation may still read.
PinnedKeepPlanes ==
    \A s \in Slots : (occupied(s) /\ entries[s].pins > 0) =>
        /\ entries'[s].occupied
        /\ entries'[s].key = entries[s].key
        /\ entries'[s].base = entries[s].base
        /\ has_residual(s) => entries'[s].residual = entries[s].residual

PinsProtect == [][PinnedKeepPlanes]_vars

\* A layer's resident base planes, counted from the entries.
LayerBases(l) == Cardinality(InLayer(Used, l))
LayerBaseBytes(l) == BaseBytes(InLayer(Used, l))

\* Automatic reclaim never takes a layer below its floors: a step of an admission or
\* of a pressure call that removes a base leaves its layer at or above both.
FloorsKept ==
    (call.op \in {"insert", "promote", "critical"} /\ call'.op = call.op) =>
        \A l \in Layers : LayerBases(l)' < LayerBases(l) =>
            LayerBases(l)' >= MinBaseEntries[l] /\ LayerBaseBytes(l)' >= MinBaseBytes[l]

FloorsProtect == [][FloorsKept]_vars

\* "WARN is guaranteed not to release a base", and no reclaim evicts a base while an
\* unpinned residual could go instead.
BasesLeaveLast ==
    LET gone == {s \in Used : ~entries'[s].occupied}
    IN  /\ call.op = "warn" => gone = {}
        /\ (call.op \in {"insert", "promote", "critical"} /\ gone # {}) => EligibleResiduals = {}

ResidualsFirst == [][BasesLeaveLast]_vars

\* Recency survives the wrap of the clock: the entry just used or admitted is newer
\* than all others, and no step inverts the order of two entries it does not touch.
RecencyKept ==
    \A s, t \in Used :
        (s # t /\ entries'[s].occupied /\ entries'[t].occupied) =>
            /\ (entries[s].last_access < entries[t].last_access
                  /\ entries'[s].last_access # next_clock)
                  => entries'[s].last_access <= entries'[t].last_access
            /\ (clock' # clock /\ entries'[t].last_access = clock')
                  => entries'[s].last_access < clock'

RecencyProtect == [][RecencyKept]_vars

\* The reclaim loops of admission, pressure and destruction end: every turn of one gives
\* up a plane and none comes in meanwhile.  That a call is never stuck between its turns is
\* the absence of deadlock.
Planes == Cardinality(Used) + Cardinality(Residuals)
TurnsShrink == call.op # "none" /\ call' = call => Planes' < Planes
LoopsEnd == [][TurnsShrink]_vars
=============================================================================
