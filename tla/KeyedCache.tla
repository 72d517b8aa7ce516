----------------------------- MODULE KeyedCache -----------------------------
(***************************************************************************)
(* `KeyedCache` (src/cache.rs): the bounded family of cache slots behind   *)
(* the finder, picks and staging pages, keyed by quantized (capital, risk) *)
(* and used through `read_through` (src/server.rs).                        *)
(*                                                                         *)
(* A slot is an Arc: requests and scans keep it alive after the map has    *)
(* evicted it. The inside of one slot (flag, store, abort, cancelled       *)
(* requests) is SwrCache; here looking at a slot and claiming it is one    *)
(* step, and a slot has a guard exactly while a scan of it runs.           *)
(***************************************************************************)
EXTENDS SeqFilter, FiniteSets

CONSTANTS
    Requests,        \* concurrent requests, scheduler and warm thread included
    Budgets,         \* [cap, risk] pairs; cap in units of Rs 500
    Cap,             \* slots kept in the map (16 in the code)
    Slots,           \* bound: Arcs alive at once
    MayFail          \* budgets whose scan may end without a value

ASSUME CapAssumption == Cap \in Nat \ {0}
ASSUME SlotsAssumption == IsFiniteSet(Slots)
ASSUME BudgetsAssumption ==
    Budgets \subseteq [cap : Nat, risk : Nat] /\ MayFail \subseteq Budgets

VARIABLES
    map,    \* HashMap<CapRiskKey, Arc<Cached>>
    value,  \* per slot: the budget its value was computed for
    order,  \* populated slots by built_at, oldest first
    scans,  \* running scans: the slot claimed and the budget scanned for
    lock,   \* eviction in progress under the map's write lock
    req     \* per request: where it is, its budget, its slot, its answer

vars == <<map, value, order, scans, lock, req>>

\* CapRiskKey::new: capital to the nearest Rs 1,000 (halves away from zero).
Key(b) == [bucket |-> (b.cap + 1) \div 2, risk |-> b.risk]

Keys == {Key(b) : b \in Budgets}

\* The write lock's holder and the key it is about to evict. Auxiliary, named by
\* a property only: the victim's slot has been rebuilt since it was chosen.
Lock == [by : Requests, victim : Keys, rebuilt : BOOLEAN]
Free == <<>>

NoSlot == "no slot"
NoBudget == [cap |-> -1, risk |-> -1]

ASSUME NoSlotAssumption == NoSlot \notin Slots

MaybeSlot == Slots \cup {NoSlot}
MaybeBudget == Budgets \cup {NoBudget}

ReqPc == {"idle", "missed", "got", "awaiting", "polling", "answered", "failed"}

Populated(s) == value[s] # NoBudget
Scanned(s) == \E x \in scans : x.slot = s
Mapped == {k \in Keys : map[k] # NoSlot}

TypeOK ==
    /\ map \in [Keys -> MaybeSlot]
    /\ value \in [Slots -> MaybeBudget]
    /\ {order[i] : i \in DOMAIN order} = {s \in Slots : Populated(s)}
    /\ scans \subseteq [slot : Slots, budget : Budgets]
    /\ lock \in Lock \cup {Free}
    /\ req \in [Requests -> [pc : ReqPc, budget : MaybeBudget, slot : MaybeSlot,
                             sized : MaybeBudget]]
    /\ \A r \in Requests : req[r].pc = "answered" => req[r].sized \in Budgets

\* A request that has no answer yet, and one that holds nothing.
At(pc, b, s) == [pc |-> pc, budget |-> b, slot |-> s, sized |-> NoBudget]
Idle == At("idle", NoBudget, NoSlot)
Failed == At("failed", NoBudget, NoSlot)

Init ==
    /\ map = [k \in Keys |-> NoSlot]
    /\ value = [s \in Slots |-> NoBudget]
    /\ order = <<>>
    /\ scans = {}
    /\ lock = Free
    /\ req = [r \in Requests |-> Idle]

-----------------------------------------------------------------------------
\* KeyedCache::slot.

\* A new request; the one before it has ended, or its client has given up while
\* it waited. Fast path: the slot is in the map under the read lock.
Ask(r, b) ==
    /\ lock = Free
    /\ req[r].pc \notin {"missed", "got"}
    /\ req' = [req EXCEPT ![r] =
                 At(IF map[Key(b)] # NoSlot THEN "got" ELSE "missed", b, map[Key(b)])]
    /\ UNCHANGED <<map, value, order, scans, lock>>

\* Position of a populated slot in build order.
Age(s) == CHOOSE i \in DOMAIN order : order[i] = s

\* Mutant: max_by_key.
VictimsNewest ==
    LET built == {k \in Mapped : Populated(map[k])}
    IN  IF built = {} THEN Mapped
        ELSE {k \in built : \A j \in built : Age(map[k]) >= Age(map[j])}

\* The populated slot built longest ago, or any when none is populated.
Victims ==
    LET built == {k \in Mapped : Populated(map[k])}
    IN  IF built = {} THEN Mapped
        ELSE {k \in built : \A j \in built : Age(map[k]) <= Age(map[j])}

\* Allocation picks an Arc nobody refers to any more.
Referenced(s) ==
    \/ \E k \in Keys : map[k] = s
    \/ \E r \in Requests : req[r].slot = s
    \/ Scanned(s)

\* Inserting a new slot for request r's key, after dropping the keys in `gone`,
\* and releasing the lock.
Insert(r, gone) ==
    \E s \in Slots :
        /\ ~Referenced(s)
        /\ map' = [k \in Keys |-> IF k = Key(req[r].budget) THEN s
                                  ELSE IF k \in gone THEN NoSlot ELSE map[k]]
        /\ value' = [value EXCEPT ![s] = NoBudget]
        /\ order' = Filter(order, Slots \ {s})
        /\ req' = [req EXCEPT ![r] = At("got", req[r].budget, s)]
        /\ lock' = Free
        /\ UNCHANGED scans

\* Mutant: no second look under the write lock.
CreateUnchecked(r) ==
    /\ lock = Free
    /\ req[r].pc = "missed"
    /\ Cardinality(Mapped) < Cap
    /\ Insert(r, {})

\* Slow path, the key still absent under the write lock, and room for it.
Create(r) ==
    /\ lock = Free
    /\ req[r].pc = "missed"
    /\ map[Key(req[r].budget)] = NoSlot
    /\ Cardinality(Mapped) < Cap
    /\ Insert(r, {})

\* No room: read every slot's built_at and choose the victim. The write lock
\* stops other callers of slot(), but not a scan that stores into a slot.
ChooseVictim(r) ==
    /\ lock = Free
    /\ req[r].pc = "missed"
    /\ map[Key(req[r].budget)] = NoSlot
    /\ Cardinality(Mapped) >= Cap
    /\ \E k \in Victims : lock' = [by |-> r, victim |-> k, rebuilt |-> FALSE]
    /\ UNCHANGED <<map, value, order, scans, req>>

\* Drop the victim and insert the new slot.
Evict(r) ==
    /\ lock # Free
    /\ lock.by = r
    /\ Insert(r, {lock.victim})

\* Slow path, the key inserted by another request since the read lock was freed.
Recheck(r) ==
    /\ lock = Free
    /\ req[r].pc = "missed"
    /\ map[Key(req[r].budget)] # NoSlot
    /\ req' = [req EXCEPT ![r] = At("got", req[r].budget, map[Key(req[r].budget)])]
    /\ UNCHANGED <<map, value, order, scans, lock>>

-----------------------------------------------------------------------------
\* read_through on the slot obtained.

\* The response leaves with a copy of the value; the Arc is dropped.
Answered(r, sized) ==
    [pc |-> "answered", budget |-> req[r].budget, slot |-> NoSlot, sized |-> sized]

Claim(r) == scans' = scans \cup {[slot |-> req[r].slot, budget |-> req[r].budget]}

\* A value is there; if it is stale and unguarded this request starts a refresh.
Hit(r) ==
    /\ req[r].pc = "got"
    /\ Populated(req[r].slot)
    /\ req' = [req EXCEPT ![r] = Answered(r, value[req[r].slot])]
    /\ \/ ~Scanned(req[r].slot) /\ Claim(r)
       \/ UNCHANGED scans
    /\ UNCHANGED <<map, value, order, lock>>

\* A cold slot: win the guard and await the scan, or wait for whoever has it.
Miss(r) ==
    /\ req[r].pc = "got"
    /\ ~Populated(req[r].slot)
    /\ \/ ~Scanned(req[r].slot) /\ Claim(r) /\ req' = [req EXCEPT ![r].pc = "awaiting"]
       \/ Scanned(req[r].slot) /\ req' = [req EXCEPT ![r].pc = "polling"] /\ UNCHANGED scans
    /\ UNCHANGED <<map, value, order, lock>>

\* The caller is the scheduler (maybe_refresh) or the startup warm thread: it
\* starts a scan of a cold or stale slot nobody scans, and leaves.
Refresh(r) ==
    /\ req[r].pc = "got"
    /\ \/ ~Scanned(req[r].slot) /\ Claim(r)
       \/ UNCHANGED scans
    /\ req' = [req EXCEPT ![r] = Idle]
    /\ UNCHANGED <<map, value, order, lock>>

\* A waiter sees the value in its slot.
PollHit(r) ==
    /\ req[r].pc = "polling"
    /\ Populated(req[r].slot)
    /\ req' = [req EXCEPT ![r] = Answered(r, value[req[r].slot])]
    /\ UNCHANGED <<map, value, order, scans, lock>>

\* A waiter runs out of polls and scans inline for its own budget.
PollTimeout(r) ==
    /\ req[r].pc = "polling"
    /\ \/ req' = [req EXCEPT ![r] = Answered(r, req[r].budget)]
       \/ req[r].budget \in MayFail /\ req' = [req EXCEPT ![r] = Failed]
    /\ UNCHANGED <<map, value, order, scans, lock>>

\* The request awaiting scan x, if it is still there, ends with it.
Wake(x, ok) ==
    req' = [r \in Requests |->
              IF req[r].pc = "awaiting" /\ req[r].slot = x.slot
              THEN IF ok THEN Answered(r, x.budget) ELSE Failed
              ELSE req[r]]

\* Mutant: the result is stored by key, so an evicted slot never sees it.
ScanStoredByKey(x) ==
    /\ x \in scans
    /\ scans' = scans \ {x}
    /\ IF map[Key(x.budget)] = x.slot
       THEN /\ value' = [value EXCEPT ![x.slot] = x.budget]
            /\ order' = Append(Filter(order, Slots \ {x.slot}), x.slot)
       ELSE UNCHANGED <<value, order>>
    /\ Wake(x, TRUE)
    /\ UNCHANGED <<map, lock>>

\* Cached::store on the scan's Arc, mapped or not.
ScanStored(x) ==
    /\ x \in scans
    /\ scans' = scans \ {x}
    /\ value' = [value EXCEPT ![x.slot] = x.budget]
    /\ order' = Append(Filter(order, Slots \ {x.slot}), x.slot)
    /\ lock' = IF lock # Free /\ map[lock.victim] = x.slot
               THEN [lock EXCEPT !.rebuilt = TRUE] ELSE lock
    /\ Wake(x, TRUE)
    /\ UNCHANGED map

\* Cached::abort_refresh.
ScanAborted(x) ==
    /\ x \in scans
    /\ x.budget \in MayFail
    /\ scans' = scans \ {x}
    /\ Wake(x, FALSE)
    /\ UNCHANGED <<map, value, order, lock>>

-----------------------------------------------------------------------------
Lookup(r) == Create(r) \/ ChooseVictim(r) \/ Evict(r) \/ Recheck(r)
Read(r) == Hit(r) \/ Miss(r) \/ Refresh(r) \/ PollHit(r)
ScanEnds(x) == ScanStored(x) \/ ScanAborted(x)

Next ==
    \/ \E r \in Requests : \/ \E b \in Budgets : Ask(r, b)
                           \/ Lookup(r) \/ Read(r) \/ PollTimeout(r)
    \/ \E x \in scans : ScanEnds(x)

Spec == Init /\ [][Next]_vars

-----------------------------------------------------------------------------
\* A key's slot leaves the map only by eviction: no request that raced another
\* between the read and the write lock replaces the slot the other was given,
\* and with it the guard both must share.
NeverSwapped == [][\A k \in Keys : map[k] # NoSlot => map'[k] \in {NoSlot, map[k]}]_vars

\* The map never holds more than Cap slots, and drops one only when it is full:
\* the one built longest ago, whatever is stored while the map is locked, unless
\* the victim itself is rebuilt after it was chosen ("best effort" in cache.rs).
LatestSurvives ==
    [][/\ Cardinality(Mapped') <= Cap
       /\ \A k \in Mapped : map'[k] = NoSlot =>
            /\ Cardinality(Mapped) = Cap
            /\ (Populated(map[k]) /\ ~lock.rebuilt) =>
                \A j \in Mapped : Populated(map[j]) => Age(map[k]) <= Age(map[j])]_vars

\* A waiter is served by the scan in flight even when its slot is evicted
\* meanwhile: unless that scan fails, the slot the waiter polls holds a value as
\* soon as the scan is over.
WaitersServed ==
    [][\A r \in Requests, x \in scans :
         /\ req[r].pc = "polling" /\ req'[r] = req[r]
         /\ x.slot = req[r].slot /\ x.budget \notin MayFail /\ x \notin scans'
         => value'[x.slot] # NoBudget]_vars
=============================================================================
