----------------------------- MODULE StoreProofs ----------------------------
(***************************************************************************)
(* What is shared by threads and kept, proved for every instance.          *)
(*                                                                         *)
(* KeyedCache, for any number of requests, budgets and slots and any cap:  *)
(* the slot a key was given is not swapped for another, and a scan serves  *)
(* its waiters even when its slot has been evicted. The map stays within   *)
(* its cap and gives up the slot built longest ago; that argument is about *)
(* the order slots were built in, which a store shuffles while the map is  *)
(* locked: whoever was the oldest stays it, unless it is the one stored.   *)
(*                                                                         *)
(* EdgeMap, for any stocks, archive and writers: the argument is a writer  *)
(* that has stayed calm, one whose stock's blocks nobody changed since it  *)
(* read them. What it is about to save is then exactly what it found.      *)
(***************************************************************************)
EXTENDS KeyedCache, EdgeMap, FiniteSetTheorems, SequenceTheorems, TLAPS

ReqState == [pc : ReqPc, budget : MaybeBudget, slot : MaybeSlot, sized : MaybeBudget]

\* What a request holds, by where it is: it looks up, scans and waits for a
\* budget of its own, and from "got" on it has a slot.
Poised(q) ==
    /\ q.pc \in {"missed", "got", "awaiting", "polling"} => q.budget \in Budgets
    /\ q.pc \in {"got", "awaiting", "polling"} => q.slot \in Slots

ReqOK == req \in [Requests -> ReqState] /\ \A r \in Requests : Poised(req[r])

CacheOK ==
    /\ map \in [Keys -> MaybeSlot]
    /\ value \in [Slots -> MaybeBudget]
    /\ scans \subseteq [slot : Slots, budget : Budgets]

\* While the map is locked for an eviction, the locker still wants the slot it
\* saw missing, and nobody has put one there.
LockHeld ==
    lock # Free => /\ lock \in Lock
                   /\ req[lock.by].pc = "missed"
                   /\ map[Key(req[lock.by].budget)] = NoSlot

KeyedInv == ReqOK /\ CacheOK /\ LockHeld

-----------------------------------------------------------------------------
\* Facts about the values requests are given.

\* The records At builds.
LEMMA AtState ==
  ASSUME NEW pc \in ReqPc, NEW b \in MaybeBudget, NEW s \in MaybeSlot,
         pc \in {"missed", "got", "awaiting", "polling"} => b \in Budgets,
         pc \in {"got", "awaiting", "polling"} => s \in Slots
  PROVE  At(pc, b, s) \in ReqState /\ Poised(At(pc, b, s)) /\ At(pc, b, s).pc = pc
  BY DEF At, ReqState, Poised, MaybeBudget

\* A request with nothing, and one whose scan failed.
LEMMA RestStates ==
  /\ Idle \in ReqState /\ Poised(Idle) /\ Idle.pc = "idle"
  /\ Failed \in ReqState /\ Poised(Failed) /\ Failed.pc = "failed"
  BY DEF Idle, Failed, At, ReqState, Poised, ReqPc, MaybeBudget, MaybeSlot

\* An answer drops the slot.
LEMMA AnsweredState ==
  ASSUME ReqOK, NEW r \in Requests, NEW b \in MaybeBudget
  PROVE  /\ Answered(r, b) \in ReqState /\ Poised(Answered(r, b))
         /\ Answered(r, b).pc = "answered"
  BY DEF ReqOK, Answered, ReqState, Poised, ReqPc, MaybeSlot

\* A request changes alone and stays placed, and the lock's holder is not it.
LEMMA OneRequest ==
  ASSUME ReqOK, LockHeld, NEW r \in Requests, NEW q \in ReqState, Poised(q),
         req' = [req EXCEPT ![r] = q],
         lock = Free \/ req[r].pc # "missed", UNCHANGED <<map, lock>>
  PROVE  ReqOK' /\ LockHeld'
  <1>1. ReqOK'
    BY DEF ReqOK
  <1>2. lock # Free => lock.by # r /\ lock.by \in Requests
    BY DEF LockHeld, Lock
  <1>3. LockHeld'
    BY <1>2 DEF LockHeld, ReqOK
  <1> QED BY <1>1, <1>3

-----------------------------------------------------------------------------
\* Where each action leaves the invariant.

\* A new cache and no request.
LEMMA KeyedInitHolds == Init => KeyedInv
  BY RestStates DEF Init, KeyedInv, ReqOK, CacheOK, LockHeld, MaybeSlot, MaybeBudget

\* A budget's key is a key of the map.
LEMMA KeyType == \A b \in Budgets : Key(b) \in Keys
  BY DEF Keys

\* The fast path copies what the map has.
LEMMA AskKeeps ==
  ASSUME KeyedInv, NEW r \in Requests, NEW b \in Budgets, Ask(r, b)
  PROVE  KeyedInv'
  <1> DEFINE s == map[Key(b)]
             pc == IF s # NoSlot THEN "got" ELSE "missed"
  <1>1. s \in MaybeSlot
    BY KeyType DEF KeyedInv, CacheOK
  <1>2. pc \in ReqPc /\ b \in MaybeBudget /\ (pc = "got" => s \in Slots)
        /\ pc \in {"got", "missed"}
    BY <1>1 DEF ReqPc, MaybeBudget, MaybeSlot
  <1>3. lock = Free /\ req' = [req EXCEPT ![r] = At(pc, b, s)]
        /\ UNCHANGED <<map, value, order, scans, lock>>
    BY DEF Ask
  <1> HIDE DEF pc, s
  <1>4. At(pc, b, s) \in ReqState /\ Poised(At(pc, b, s))
    BY <1>1, <1>2, AtState
  <1>5. ReqOK' /\ LockHeld'
    BY <1>3, <1>4, OneRequest DEF KeyedInv
  <1> QED BY <1>3, <1>5 DEF KeyedInv, CacheOK

\* A new slot for a key that has none: the request takes it and the lock is free.
LEMMA InsertKeeps ==
  ASSUME KeyedInv, NEW r \in Requests, req[r].pc = "missed", NEW gone, Insert(r, gone)
  PROVE  KeyedInv'
  <1>1. PICK s \in Slots :
          /\ map' = [k \in Keys |-> IF k = Key(req[r].budget) THEN s
                                    ELSE IF k \in gone THEN NoSlot ELSE map[k]]
          /\ value' = [value EXCEPT ![s] = NoBudget]
          /\ req' = [req EXCEPT ![r] = At("got", req[r].budget, s)]
          /\ lock' = Free /\ UNCHANGED scans
    BY DEF Insert
  <1>2. req[r].budget \in Budgets
    BY DEF KeyedInv, ReqOK, Poised
  <1>3. At("got", req[r].budget, s) \in ReqState /\ Poised(At("got", req[r].budget, s))
    BY <1>2, AtState DEF ReqPc, MaybeBudget, MaybeSlot
  <1>4. ReqOK'
    BY <1>1, <1>3 DEF KeyedInv, ReqOK
  <1>5. CacheOK'
    BY <1>1 DEF KeyedInv, CacheOK, MaybeSlot, MaybeBudget
  <1> QED BY <1>1, <1>4, <1>5 DEF KeyedInv, LockHeld

\* The slow path: create, lock for an eviction, evict, or find the key there.
LEMMA LookupKeeps ==
  ASSUME KeyedInv, NEW r \in Requests, Lookup(r)
  PROVE  KeyedInv'
  <1>1. CASE Create(r)
    BY <1>1, InsertKeeps DEF Create
  <1>2. CASE ChooseVictim(r)
    <2>1. PICK k \in Victims : lock' = [by |-> r, victim |-> k, rebuilt |-> FALSE]
      BY <1>2 DEF ChooseVictim
    <2>2. lock' \in Lock /\ lock'.by = r
      BY <2>1 DEF Lock, Victims, Mapped
    <2> QED BY <1>2, <2>2 DEF ChooseVictim, KeyedInv, ReqOK, CacheOK, LockHeld
  <1>3. CASE Evict(r)
    BY <1>3, InsertKeeps DEF Evict, KeyedInv, LockHeld, Lock
  <1>4. CASE Recheck(r)
    <2>1. req[r].budget \in Budgets /\ map[Key(req[r].budget)] \in Slots
      BY <1>4, KeyType DEF Recheck, KeyedInv, ReqOK, Poised, CacheOK, MaybeSlot
    <2> DEFINE q == At("got", req[r].budget, map[Key(req[r].budget)])
    <2>2. q \in ReqState /\ Poised(q)
      BY <2>1, AtState DEF ReqPc, MaybeBudget, MaybeSlot
    <2>3. lock = Free /\ req' = [req EXCEPT ![r] = q]
          /\ UNCHANGED <<map, value, order, scans, lock>>
      BY <1>4 DEF Recheck
    <2> HIDE DEF q
    <2>4. ReqOK' /\ LockHeld'
      BY <2>2, <2>3, OneRequest DEF KeyedInv
    <2> QED BY <2>3, <2>4 DEF KeyedInv, CacheOK
  <1> QED BY <1>1, <1>2, <1>3, <1>4 DEF Lookup

\* A claim adds a scan of the slot the request has, for its budget.
LEMMA ClaimType ==
  ASSUME KeyedInv, NEW r \in Requests, req[r].pc = "got", Claim(r) \/ UNCHANGED scans
  PROVE  scans' \subseteq [slot : Slots, budget : Budgets]
  BY DEF KeyedInv, ReqOK, Poised, CacheOK, Claim

\* Reading the slot: answer, wait, or start a refresh and leave.
LEMMA ReadKeeps ==
  ASSUME KeyedInv, NEW r \in Requests, Read(r)
  PROVE  KeyedInv'
  <1>1. CASE Hit(r)
    <2>1. value[req[r].slot] \in MaybeBudget
      BY <1>1 DEF Hit, KeyedInv, ReqOK, Poised, CacheOK
    <2>2. ReqOK' /\ LockHeld'
      BY <1>1, <2>1, AnsweredState, OneRequest DEF Hit, KeyedInv
    <2> QED BY <1>1, <2>2, ClaimType DEF Hit, KeyedInv, CacheOK
  <1>2. CASE Miss(r)
    <2>1. PICK pc \in {"awaiting", "polling"} : req' = [req EXCEPT ![r].pc = pc]
      BY <1>2 DEF Miss
    <2>2. ReqOK'
      BY <1>2, <2>1 DEF Miss, KeyedInv, ReqOK, ReqState, ReqPc, Poised
    <2>3. LockHeld'
      BY <1>2, <2>1 DEF Miss, KeyedInv, ReqOK, ReqState, LockHeld
    <2> QED BY <1>2, <2>2, <2>3, ClaimType DEF Miss, KeyedInv, CacheOK
  <1>3. CASE Refresh(r)
    <2>1. ReqOK' /\ LockHeld'
      BY <1>3, RestStates, OneRequest DEF Refresh, KeyedInv
    <2> QED BY <1>3, <2>1, ClaimType DEF Refresh, KeyedInv, CacheOK
  <1>4. CASE PollHit(r)
    <2>1. value[req[r].slot] \in MaybeBudget
      BY <1>4 DEF PollHit, KeyedInv, ReqOK, Poised, CacheOK
    <2>2. ReqOK' /\ LockHeld'
      BY <1>4, <2>1, AnsweredState, OneRequest DEF PollHit, KeyedInv
    <2> QED BY <1>4, <2>2 DEF PollHit, KeyedInv, CacheOK
  <1> QED BY <1>1, <1>2, <1>3, <1>4 DEF Read

\* The inline scan answers the waiter, or fails.
LEMMA PollTimeoutKeeps ==
  ASSUME KeyedInv, NEW r \in Requests, PollTimeout(r)
  PROVE  KeyedInv'
  <1>1. req[r].budget \in MaybeBudget /\ req[r].pc = "polling"
    BY DEF PollTimeout, KeyedInv, ReqOK, ReqState
  <1>2. PICK q \in ReqState : Poised(q) /\ req' = [req EXCEPT ![r] = q]
    BY <1>1, AnsweredState, RestStates DEF PollTimeout, KeyedInv
  <1>3. ReqOK' /\ LockHeld'
    BY <1>1, <1>2, OneRequest DEF PollTimeout, KeyedInv
  <1> QED BY <1>3 DEF PollTimeout, KeyedInv, CacheOK

\* The end of a scan wakes the request that awaits it and nobody else.
LEMMA WakeKeeps ==
  ASSUME KeyedInv, NEW x \in scans, NEW ok \in BOOLEAN, Wake(x, ok)
  PROVE  /\ ReqOK'
         /\ \A r \in Requests : req[r].pc = "missed" => req'[r] = req[r]
  <1>1. x.budget \in MaybeBudget
    BY DEF KeyedInv, CacheOK, MaybeBudget
  <1>2. \A r \in Requests : req'[r] \in ReqState /\ Poised(req'[r])
    BY <1>1, AnsweredState, RestStates DEF Wake, KeyedInv, ReqOK
  <1>3. req' = [r \in Requests |-> req'[r]]
    BY DEF Wake
  <1> QED BY <1>2, <1>3 DEF Wake, ReqOK

\* A scan ends, with or without a value.
LEMMA ScanEndsKeeps ==
  ASSUME KeyedInv, NEW x \in scans, ScanEnds(x)
  PROVE  KeyedInv'
  <1>1. PICK ok \in BOOLEAN : Wake(x, ok)
    BY DEF ScanEnds, ScanStored, ScanAborted
  <1>2. ReqOK' /\ \A r \in Requests : req[r].pc = "missed" => req'[r] = req[r]
    BY <1>1, WakeKeeps
  <1>3. CacheOK'
    BY DEF ScanEnds, ScanStored, ScanAborted, KeyedInv, CacheOK, MaybeBudget
  <1>4. UNCHANGED map
        /\ (lock' # Free => lock # Free /\ lock' \in Lock /\ lock'.by = lock.by)
    <2>1. CASE UNCHANGED <<map, lock>>
      BY <2>1 DEF KeyedInv, LockHeld
    <2>2. CASE ScanStored(x)
      <3>1. CASE lock # Free /\ map[lock.victim] = x.slot
        <4>1. lock' = [lock EXCEPT !.rebuilt = TRUE]
          BY <2>2, <3>1 DEF ScanStored
        <4> QED BY <2>2, <3>1, <4>1 DEF ScanStored, KeyedInv, LockHeld, Lock
      <3>2. CASE ~(lock # Free /\ map[lock.victim] = x.slot)
        BY <2>2, <3>2 DEF ScanStored, KeyedInv, LockHeld
      <3> QED BY <3>1, <3>2
    <2> QED BY <2>1, <2>2 DEF ScanEnds, ScanAborted
  <1>5. LockHeld'
    BY <1>2, <1>4 DEF KeyedInv, LockHeld, Lock
  <1> QED BY <1>2, <1>3, <1>5 DEF KeyedInv

\* Every step keeps the invariant.
LEMMA KeyedStep == KeyedInv /\ [Next]_vars => KeyedInv'
  <1> SUFFICES ASSUME KeyedInv, [Next]_vars PROVE KeyedInv'
    OBVIOUS
  <1>1. CASE \E r \in Requests : \/ \E b \in Budgets : Ask(r, b)
                                \/ Lookup(r) \/ Read(r) \/ PollTimeout(r)
    BY <1>1, AskKeeps, LookupKeeps, ReadKeeps, PollTimeoutKeeps
  <1>2. CASE \E x \in scans : ScanEnds(x)
    BY <1>2, ScanEndsKeeps
  <1>3. CASE UNCHANGED vars
    BY <1>3 DEF vars, KeyedInv, ReqOK, CacheOK, LockHeld
  <1> QED BY <1>1, <1>2, <1>3 DEF Next

\* The invariant holds in every reachable state.
LEMMA KeyedInvariant == Spec => []KeyedInv
  BY KeyedInitHolds, KeyedStep, PTL DEF Spec

-----------------------------------------------------------------------------
\* The two properties, step by step.

\* Only an insertion changes the map, and it finds its own key absent.
LEMMA InsertSwapsNothing ==
  ASSUME NEW r, map[Key(req[r].budget)] = NoSlot, NEW gone, Insert(r, gone)
  PROVE  \A k \in Keys : map[k] # NoSlot => map'[k] \in {NoSlot, map[k]}
  BY DEF Insert

\* Every other step leaves the map alone or evicts.
LEMMA StepSwapsNothing ==
  ASSUME KeyedInv, [Next]_vars
  PROVE  \A k \in Keys : map[k] # NoSlot => map'[k] \in {NoSlot, map[k]}
  <1>1. CASE UNCHANGED map
    BY <1>1
  <1>2. CASE \E r \in Requests : Create(r) \/ Evict(r)
    BY <1>2, InsertSwapsNothing DEF Create, Evict, KeyedInv, LockHeld
  <1> QED BY <1>1, <1>2
       DEF Next, Ask, Lookup, ChooseVictim, Recheck, Read, Hit, Miss, Refresh, PollHit,
           PollTimeout, ScanEnds, ScanStored, ScanAborted, vars

\* A scan that is over and may not fail has stored, mapped or not.
LEMMA StepServesWaiters ==
  ASSUME KeyedInv, [Next]_vars, NEW x \in scans, x.budget \notin MayFail, x \notin scans'
  PROVE  value'[x.slot] # NoBudget
  <1>1. PICK y \in scans : ScanEnds(y)
    BY DEF Next, Ask, Lookup, Create, Evict, Insert, ChooseVictim, Recheck, Read, Hit, Miss,
           Refresh, PollHit, PollTimeout, Claim, vars
  <1>2. y = x
    BY <1>1 DEF ScanEnds, ScanStored, ScanAborted
  <1>3. value' = [value EXCEPT ![x.slot] = x.budget]
    BY <1>1, <1>2 DEF ScanEnds, ScanStored, ScanAborted
  <1>4. x.slot \in Slots /\ x.budget \in Budgets /\ value \in [Slots -> MaybeBudget]
    BY DEF KeyedInv, CacheOK
  <1>5. \A b \in Budgets : b # NoBudget
    BY BudgetsAssumption DEF NoBudget
  <1> QED BY <1>3, <1>4, <1>5

\* However requests and evictions interleave, two requests of one key never end
\* up with two slots, and so two scans, one of which replaced the other
\* (KeyedCache::slot, read lock then write lock).
THEOREM SlotsNeverSwapped == Spec => NeverSwapped
  <1>1. KeyedInv /\ [Next]_vars
        => [\A k \in Keys : map[k] # NoSlot => map'[k] \in {NoSlot, map[k]}]_vars
    BY StepSwapsNothing
  <1> QED BY <1>1, KeyedInvariant, PTL DEF Spec, NeverSwapped

\* A waiter is served by the scan it waits for although its slot was evicted
\* meanwhile (the Arc that read_through's job and its pollers share).
THEOREM WaitersAreServed == Spec => WaitersServed
  <1>1. KeyedInv /\ [Next]_vars
        => [\A r \in Requests, x \in scans :
              /\ req[r].pc = "polling" /\ req'[r] = req[r]
              /\ x.slot = req[r].slot /\ x.budget \notin MayFail /\ x \notin scans'
              => value'[x.slot] # NoBudget]_vars
    BY StepServesWaiters
  <1> QED BY <1>1, KeyedInvariant, PTL DEF Spec, WaitersServed

-----------------------------------------------------------------------------
Facts == INSTANCE FoldFacts WITH Op <- Append

\* The filter of the map is the filter FoldFacts speaks of.
LEMMA FilterSame == \A s, S : Filter(s, S) = Facts!Filter(s, S)
  BY DEF Filter, Facts!Filter

-----------------------------------------------------------------------------
\* The age of the slots.

\* The populated slots stand in build order, each once.
OrderOK ==
    /\ order \in Seq(Slots)
    /\ \A i, j \in 1..Len(order) : i # j => order[i] # order[j]
    /\ \A s \in Slots : Populated(s) <=> \E i \in 1..Len(order) : order[i] = s

\* s stands in the sequence o no later than t.
NoLater(o, s, t) == \E i, j \in 1..Len(o) : i <= j /\ o[i] = s /\ o[j] = t

\* What an eviction rests on until it drops its victim.
VictimOK ==
    lock # Free =>
        /\ Cardinality(Mapped) = Cap /\ map[lock.victim] # NoSlot
        /\ Populated(map[lock.victim]) /\ ~lock.rebuilt =>
              \A j \in Mapped : Populated(map[j]) => NoLater(order, map[lock.victim], map[j])

\* The map is within its cap.
MapFits == IsFiniteSet(Mapped) /\ Cardinality(Mapped) <= Cap

AgeInv == KeyedInv /\ OrderOK /\ MapFits /\ VictimOK

\* A sequence without repetition, and one that has s.
Once(o) == \A i, j \in 1..Len(o) : i # j => o[i] # o[j]
Holds(o, s) == \E i \in 1..Len(o) : o[i] = s

\* Ages compare positions.
LEMMA AgeIs ==
    ASSUME OrderOK, NEW s \in Slots, NEW t \in Slots, Populated(s), Populated(t)
    PROVE  Age(s) <= Age(t) <=> NoLater(order, s, t)
  <1>1. DOMAIN order = 1..Len(order) /\ Len(order) \in Nat
    BY LenProperties DEF OrderOK
  <1>2. PICK i \in 1..Len(order) : order[i] = s
    BY DEF OrderOK
  <1>3. PICK j \in 1..Len(order) : order[j] = t
    BY DEF OrderOK
  <1>4. Age(s) = i
    <2>1. \A k \in DOMAIN order : order[k] = s => k = i
      BY <1>1, <1>2 DEF OrderOK
    <2>. QED BY <1>1, <1>2, <2>1 DEF Age
  <1>5. Age(t) = j
    <2>1. \A k \in DOMAIN order : order[k] = t => k = j
      BY <1>1, <1>3 DEF OrderOK
    <2>. QED BY <1>1, <1>3, <2>1 DEF Age
  <1>6. NoLater(order, s, t) => i <= j
    BY <1>2, <1>3 DEF NoLater, OrderOK
  <1>7. i <= j => NoLater(order, s, t)
    BY <1>2, <1>3 DEF NoLater
  <1>. QED BY <1>4, <1>5, <1>6, <1>7

\* Taking a slot out leaves the others in their order.
LEMMA TakenOut ==
    ASSUME NEW o \in Seq(Slots), Once(o), NEW x \in Slots,
           NEW f, f = Filter(o, Slots \ {x})
    PROVE  /\ f \in Seq(Slots) /\ Once(f)
           /\ \A s \in Slots : Holds(f, s) <=> s # x /\ Holds(o, s)
           /\ \A s, t \in Slots : s # x /\ t # x /\ NoLater(o, s, t) => NoLater(f, s, t)
  <1>. DEFINE R == {p \in Slots \X Slots : \E i, j \in 1..Len(o) : i < j /\ o[i] = p[1] /\ o[j] = p[2]}
  <1>. DEFINE Kept == Slots \ {x}
  <1>1. f = Facts!Filter(o, Kept)
    BY FilterSame
  <1>2. \A i \in 1..Len(o) : o[i] \in Slots
    BY ElementOfSeq
  <1>3. f \in Seq(Slots \cap Kept)
    <2>. HIDE DEF Kept
    <2>. QED BY <1>1, Facts!FilterElements
  <1>12. Facts!Sifts(f, o, Kept)
    <2>. HIDE DEF Kept
    <2>. QED BY <1>1, Facts!FilterElements
  <1>13. /\ \A k \in 1..Len(o) : o[k] \in Kept => \E j \in 1..Len(f) : f[j] = o[k]
         /\ \A j \in 1..Len(f) : \E k \in 1..Len(o) : o[k] \in Kept /\ f[j] = o[k]
    <2>. HIDE DEF Kept
    <2>. QED BY <1>12 DEF Facts!Sifts
  <1>4. f \in Seq(Slots)
    BY <1>3, SeqDef
  <1>5. Facts!Falls(o, R)
    BY <1>2 DEF Facts!Falls
  <1>6. Facts!Falls(f, R)
    <2>. HIDE DEF R, Kept
    <2>. QED BY ONLY o \in Seq(Slots), <1>1, <1>5, Facts!FilterFalls
  <1>7. Len(f) \in Nat /\ Len(o) \in Nat
    BY <1>4, LenProperties
  <1>8. \A a, b \in 1..Len(f) : a < b =>
            \E i, j \in 1..Len(o) : i < j /\ o[i] = f[a] /\ o[j] = f[b]
    <2>. SUFFICES ASSUME NEW a \in 1..Len(f), NEW b \in 1..Len(f), a < b
                  PROVE  \E i, j \in 1..Len(o) : i < j /\ o[i] = f[a] /\ o[j] = f[b]
      OBVIOUS
    <2>1. <<f[a], f[b]>> \in R
      <3>. HIDE DEF R
      <3>. QED BY <1>6 DEF Facts!Falls
    <2>. QED BY <2>1
  <1>9. Once(f)
    <2>1. ASSUME NEW a \in 1..Len(f), NEW b \in 1..Len(f), a < b PROVE f[a] # f[b]
      <3>1. PICK i \in 1..Len(o), j \in 1..Len(o) : i < j /\ o[i] = f[a] /\ o[j] = f[b]
        BY <1>8, <2>1
      <3>2. i # j
        BY <1>7, <3>1
      <3>. QED BY <3>1, <3>2 DEF Once
    <2>2. ASSUME NEW a \in 1..Len(f), NEW b \in 1..Len(f), a # b PROVE f[a] # f[b]
      <3>1. a < b \/ b < a
        BY <1>7, <2>2
      <3>. QED BY <2>1, <3>1
    <2>. QED BY <2>2 DEF Once
  <1>10. \A s \in Slots : Holds(f, s) <=> s # x /\ Holds(o, s)
    <2>1. ASSUME NEW s \in Slots, Holds(f, s) PROVE s # x /\ Holds(o, s)
      <3>1. PICK j \in 1..Len(f) : f[j] = s
        BY <2>1 DEF Holds
      <3>2. PICK k \in 1..Len(o) : o[k] \in Kept /\ f[j] = o[k]
        BY <1>13
      <3>. QED BY <3>1, <3>2 DEF Holds
    <2>2. ASSUME NEW s \in Slots, s # x, Holds(o, s) PROVE Holds(f, s)
      <3>1. PICK k \in 1..Len(o) : o[k] = s
        BY <2>2 DEF Holds
      <3>2. PICK j \in 1..Len(f) : f[j] = o[k]
        BY <1>13, <2>2, <3>1
      <3>. QED BY <3>1, <3>2 DEF Holds
    <2>. QED BY <2>1, <2>2
  <1>11. ASSUME NEW s \in Slots, NEW t \in Slots, s # x, t # x, NoLater(o, s, t)
         PROVE  NoLater(f, s, t)
    <2>1. PICK i \in 1..Len(o), j \in 1..Len(o) : i <= j /\ o[i] = s /\ o[j] = t
      BY <1>11 DEF NoLater
    <2>2. PICK a \in 1..Len(f) : f[a] = s
      BY <1>10, <1>11, <2>1 DEF Holds
    <2>3. PICK b \in 1..Len(f) : f[b] = t
      BY <1>10, <1>11, <2>1 DEF Holds
    <2>4. ~(b < a)
      <3>. SUFFICES ASSUME b < a PROVE FALSE
        OBVIOUS
      <3>1. PICK k \in 1..Len(o), l \in 1..Len(o) : k < l /\ o[k] = t /\ o[l] = s
        BY <1>8, <2>2, <2>3
      <3>2. k = j /\ l = i
        BY <1>7, <2>1, <3>1 DEF Once
      <3>. QED BY <1>7, <2>1, <3>1, <3>2
    <2>5. a <= b
      BY <1>7, <2>4
    <2>. QED BY <2>2, <2>3, <2>5 DEF NoLater
  <1>. HIDE DEF R
  <1>. QED BY <1>4, <1>9, <1>10, <1>11

\* Putting it back behind them makes it the newest.
LEMMA PutBack ==
    ASSUME NEW f \in Seq(Slots), Once(f), NEW x \in Slots, ~Holds(f, x),
           NEW o, o = Append(f, x)
    PROVE  /\ o \in Seq(Slots) /\ Once(o)
           /\ \A s \in Slots : Holds(o, s) <=> s = x \/ Holds(f, s)
           /\ \A s, t \in Slots : NoLater(f, s, t) => NoLater(o, s, t)
           /\ \A s \in Slots : Holds(o, s) => NoLater(o, s, x)
  <1>1. PICK n \in Nat : n = Len(f)
    BY LenProperties
  <1>2. o \in Seq(Slots) /\ Len(o) = n + 1 /\ o[n + 1] = x /\ \A i \in 1..n : o[i] = f[i]
    BY <1>1, AppendProperties
  <1>3. \A i \in 1..n + 1 : i \in 1..n \/ i = n + 1
    OBVIOUS
  <1>4. Once(o)
    BY <1>1, <1>2, <1>3 DEF Once, Holds
  <1>5. \A s \in Slots : Holds(o, s) <=> s = x \/ Holds(f, s)
    BY <1>1, <1>2, <1>3 DEF Holds
  <1>6. \A s, t \in Slots : NoLater(f, s, t) => NoLater(o, s, t)
    BY <1>1, <1>2 DEF NoLater
  <1>7. \A s \in Slots : Holds(o, s) => NoLater(o, s, x)
    BY <1>2 DEF Holds, NoLater
  <1>. QED BY <1>2, <1>4, <1>5, <1>6, <1>7

-----------------------------------------------------------------------------
\* Where each action leaves the ages.

\* An empty map and no slot populated.
LEMMA AgeInitHolds == Init => AgeInv
  <1>. SUFFICES ASSUME Init PROVE OrderOK /\ MapFits /\ VictimOK
    BY KeyedInitHolds DEF AgeInv
  <1>1. OrderOK
    BY DEF Init, OrderOK, Populated
  <1>2. Mapped = {}
    BY DEF Init, Mapped
  <1>3. MapFits
    BY <1>2, FS_EmptySet, CapAssumption DEF MapFits
  <1>. QED BY <1>1, <1>3 DEF Init, VictimOK

\* Slots are values of the map, and their budget is not the mark for none.
LEMMA MappedSlots ==
    ASSUME KeyedInv
    PROVE  /\ \A k \in Mapped : k \in Keys /\ map[k] \in Slots
           /\ \A b \in Budgets : b # NoBudget
  <1>1. \A k \in Mapped : k \in Keys /\ map[k] \in Slots
    BY DEF KeyedInv, CacheOK, Mapped, MaybeSlot
  <1>2. \A b \in Budgets : b # NoBudget
    BY BudgetsAssumption DEF NoBudget
  <1>. QED BY <1>1, <1>2

\* A new slot is empty, and not in the order.
LEMMA InsertOrder ==
    ASSUME AgeInv, NEW r, NEW gone, Insert(r, gone)
    PROVE  OrderOK'
  <1>1. PICK s \in Slots : /\ value' = [value EXCEPT ![s] = NoBudget]
                           /\ order' = Filter(order, Slots \ {s})
    BY DEF Insert
  <1>2. value \in [Slots -> MaybeBudget]
    BY DEF AgeInv, KeyedInv, CacheOK
  <1>3. order \in Seq(Slots) /\ Once(order) /\ \A t \in Slots : Populated(t) <=> Holds(order, t)
    BY DEF AgeInv, OrderOK, Once, Holds
  <1>4. /\ order' \in Seq(Slots) /\ Once(order')
        /\ \A t \in Slots : Holds(order', t) <=> t # s /\ Holds(order, t)
    BY <1>1, <1>3, TakenOut
  <1>5. \A t \in Slots : value'[t] # NoBudget <=> t # s /\ Populated(t)
    BY <1>1, <1>2 DEF Populated
  <1>6. \A t \in Slots : value'[t] # NoBudget <=> \E i \in 1..Len(order') : order'[i] = t
    BY <1>3, <1>4, <1>5 DEF Holds
  <1>. QED BY <1>4, <1>6 DEF OrderOK, Once, Populated

\* The keys after an insertion.
LEMMA InsertKeys ==
    ASSUME KeyedInv, NEW r \in Requests, req[r].pc = "missed", NEW gone, Insert(r, gone)
    PROVE  Mapped' = (Mapped \ gone) \cup {Key(req[r].budget)}
  <1>1. PICK s \in Slots :
          map' = [k \in Keys |-> IF k = Key(req[r].budget) THEN s
                                 ELSE IF k \in gone THEN NoSlot ELSE map[k]]
    BY DEF Insert
  <1>2. Key(req[r].budget) \in Keys
    BY KeyType DEF KeyedInv, ReqOK, Poised
  <1>3. s # NoSlot
    BY NoSlotAssumption
  <1>. QED BY <1>1, <1>2, <1>3 DEF Mapped

\* There is room for the new key, or the victim made it.
LEMMA InsertFits ==
    ASSUME AgeInv, NEW r \in Requests, Create(r) \/ Evict(r)
    PROVE  MapFits'
  <1>. DEFINE key == Key(req[r].budget)
  <1>1. IsFiniteSet(Mapped) /\ Cardinality(Mapped) \in Nat /\ Cap \in Nat /\ Cardinality(Mapped) <= Cap
    BY FS_CardinalityType, CapAssumption DEF AgeInv, MapFits
  <1>2. CASE Create(r)
    <2>1. key \notin Mapped /\ Cardinality(Mapped) < Cap /\ req[r].pc = "missed" /\ Insert(r, {})
      BY <1>2 DEF Create, Mapped
    <2>2. Mapped' = Mapped \cup {key}
      BY <2>1, InsertKeys DEF AgeInv
    <2>3. IsFiniteSet(Mapped \cup {key}) /\ Cardinality(Mapped \cup {key}) = Cardinality(Mapped) + 1
      BY <1>1, <2>1, FS_AddElement
    <2>. QED BY <1>1, <2>1, <2>2, <2>3 DEF MapFits
  <1>3. CASE Evict(r)
    <2>. DEFINE rest == Mapped \ {lock.victim}
    <2>1. /\ lock # Free /\ lock.by = r /\ Insert(r, {lock.victim})
          /\ req[r].pc = "missed" /\ key \notin Mapped
      BY <1>3 DEF Evict, AgeInv, KeyedInv, LockHeld, Mapped
    <2>2. Cardinality(Mapped) = Cap /\ lock.victim \in Mapped
      BY <2>1 DEF AgeInv, VictimOK, KeyedInv, LockHeld, Lock, Mapped
    <2>3. Mapped' = rest \cup {key}
      BY <2>1, InsertKeys DEF AgeInv
    <2>4. IsFiniteSet(rest) /\ Cardinality(rest) = Cardinality(Mapped) - 1
      BY <1>1, <2>2, FS_RemoveElement
    <2>5. IsFiniteSet(rest \cup {key}) /\ Cardinality(rest \cup {key}) = Cardinality(rest) + 1
      BY <2>1, <2>4, FS_AddElement
    <2>. HIDE DEF rest
    <2>. QED BY <1>1, <2>2, <2>3, <2>4, <2>5 DEF MapFits
  <1>. QED BY <1>2, <1>3

\* The victim is the oldest populated slot when it is chosen.
LEMMA VictimIsOldest ==
    ASSUME AgeInv, NEW r \in Requests, ChooseVictim(r)
    PROVE  VictimOK'
  <1>1. PICK k \in Victims : lock' = [by |-> r, victim |-> k, rebuilt |-> FALSE]
    BY DEF ChooseVictim
  <1>2. k \in Mapped /\ map[k] \in Slots
    BY <1>1, MappedSlots DEF Victims, AgeInv
  <1>3. Cardinality(Mapped) = Cap
    BY FS_CardinalityType, CapAssumption DEF ChooseVictim, AgeInv, MapFits
  <1>4. ASSUME Populated(map[k]), NEW j \in Mapped, Populated(map[j])
        PROVE  NoLater(order, map[k], map[j])
    <2>1. Age(map[k]) <= Age(map[j])
      BY <1>1, <1>2, <1>4 DEF Victims
    <2>2. map[j] \in Slots
      BY <1>4, MappedSlots DEF AgeInv
    <2>. QED BY <1>2, <1>4, <2>1, <2>2, AgeIs DEF AgeInv
  <1>5. UNCHANGED <<map, value, order, req>>
    BY DEF ChooseVictim
  <1>6. map[k] # NoSlot
    BY <1>2 DEF Mapped
  <1>. QED BY <1>1, <1>3, <1>4, <1>5, <1>6 DEF VictimOK, Mapped, Populated

\* A stored slot becomes the newest, so whoever is the oldest stays it, unless it
\* is the one stored, which the lock then notes.
LEMMA StoredAges ==
    ASSUME AgeInv, NEW x \in scans, ScanStored(x)
    PROVE  OrderOK' /\ VictimOK'
  <1>. DEFINE s == x.slot
              f == Filter(order, Slots \ {s})
  <1>1. s \in Slots /\ x.budget # NoBudget /\ value \in [Slots -> MaybeBudget]
    BY MappedSlots DEF AgeInv, KeyedInv, CacheOK
  <1>2. order \in Seq(Slots) /\ Once(order) /\ \A t \in Slots : Populated(t) <=> Holds(order, t)
    BY DEF AgeInv, OrderOK, Once, Holds
  <1>3. /\ value' = [value EXCEPT ![s] = x.budget] /\ order' = Append(f, s)
        /\ UNCHANGED map
        /\ lock' = IF lock # Free /\ map[lock.victim] = s
                   THEN [lock EXCEPT !.rebuilt = TRUE] ELSE lock
    BY DEF ScanStored
  <1>4. /\ f \in Seq(Slots) /\ Once(f)
        /\ \A t \in Slots : Holds(f, t) <=> t # s /\ Holds(order, t)
        /\ \A t, u \in Slots : t # s /\ u # s /\ NoLater(order, t, u) => NoLater(f, t, u)
    BY <1>1, <1>2, TakenOut
  <1>. HIDE DEF f, s
  <1>5. /\ order' \in Seq(Slots) /\ Once(order')
        /\ \A t \in Slots : Holds(order', t) <=> t = s \/ Holds(f, t)
        /\ \A t, u \in Slots : NoLater(f, t, u) => NoLater(order', t, u)
        /\ \A t \in Slots : Holds(order', t) => NoLater(order', t, s)
    BY <1>1, <1>3, <1>4, PutBack
  <1>6. \A t \in Slots : value'[t] # NoBudget <=> t = s \/ Populated(t)
    BY <1>1, <1>3 DEF Populated
  <1>7. \A t \in Slots : value'[t] # NoBudget <=> Holds(order', t)
    BY <1>2, <1>4, <1>5, <1>6
  <1>8. OrderOK'
    BY <1>5, <1>7 DEF OrderOK, Once, Holds, Populated
  <1>9. VictimOK'
    <2>1. CASE lock # Free /\ map[lock.victim] = s
      <3>1. lock' = [lock EXCEPT !.rebuilt = TRUE] /\ lock \in Lock
        BY <1>3, <2>1 DEF AgeInv, KeyedInv, LockHeld
      <3>2. lock'.victim = lock.victim /\ lock'.rebuilt
        BY <3>1 DEF Lock
      <3>3. Mapped' = Mapped
        BY <1>3 DEF Mapped
      <3>4. Cardinality(Mapped) = Cap /\ map[lock.victim] # NoSlot
        BY <2>1 DEF AgeInv, VictimOK
      <3>. QED BY <1>3, <3>2, <3>3, <3>4 DEF VictimOK
    <2>2. CASE ~(lock # Free /\ map[lock.victim] = s)
      <3>1. lock' = lock /\ map' = map /\ Mapped' = Mapped
        BY <1>3, <2>2 DEF Mapped
      <3>2. SUFFICES ASSUME lock # Free
                     PROVE  VictimOK'
        BY <3>1 DEF VictimOK
      <3>3. Cardinality(Mapped) = Cap /\ map[lock.victim] # NoSlot
        BY <3>2 DEF AgeInv, VictimOK
      <3>4. map[lock.victim] \in Slots /\ map[lock.victim] # s
        BY <2>2, <3>2, <3>3, MappedSlots DEF AgeInv, KeyedInv, LockHeld, Lock, Mapped
      <3>5. ASSUME value'[map[lock.victim]] # NoBudget, ~lock.rebuilt,
                   NEW j \in Mapped, value'[map[j]] # NoBudget
            PROVE  NoLater(order', map[lock.victim], map[j])
        <4>1. Populated(map[lock.victim]) /\ map[j] \in Slots
          BY <1>6, <3>4, <3>5, MappedSlots DEF AgeInv
        <4>2. CASE map[j] = s
          BY <1>5, <1>7, <3>4, <3>5, <4>2
        <4>3. CASE map[j] # s
          <5>1. Populated(map[j])
            BY <1>6, <3>5, <4>1, <4>3
          <5>2. NoLater(order, map[lock.victim], map[j])
            BY <3>2, <3>5, <4>1, <5>1 DEF AgeInv, VictimOK
          <5>. QED BY <1>4, <1>5, <3>4, <4>1, <4>3, <5>2
        <4>. QED BY <4>2, <4>3
      <3>. QED BY <3>1, <3>3, <3>5 DEF VictimOK, Populated
    <2>. QED BY <2>1, <2>2
  <1>. QED BY <1>8, <1>9

\* Every step keeps the ages.
LEMMA AgeStep == AgeInv /\ [Next]_vars => AgeInv'
  <1>. SUFFICES ASSUME AgeInv, [Next]_vars PROVE OrderOK' /\ MapFits' /\ VictimOK'
    BY KeyedStep DEF AgeInv
  <1>1. CASE UNCHANGED <<map, value, order, lock>>
    BY <1>1 DEF AgeInv, OrderOK, MapFits, VictimOK, Mapped, Populated
  <1>2. ASSUME NEW r \in Requests, Create(r) \/ Evict(r) PROVE OrderOK' /\ MapFits' /\ VictimOK'
    <2>1. lock' = Free
      BY <1>2 DEF Create, Evict, Insert
    <2>2. OrderOK'
      BY <1>2, InsertOrder DEF Create, Evict
    <2>. QED BY <1>2, <2>1, <2>2, InsertFits DEF VictimOK
  <1>3. ASSUME NEW r \in Requests, ChooseVictim(r) PROVE OrderOK' /\ MapFits' /\ VictimOK'
    <2>1. OrderOK' /\ MapFits'
      BY <1>3 DEF ChooseVictim, AgeInv, OrderOK, MapFits, Mapped, Populated
    <2>. QED BY <1>3, <2>1, VictimIsOldest
  <1>4. ASSUME NEW x \in scans, ScanStored(x) PROVE OrderOK' /\ MapFits' /\ VictimOK'
    <2>1. MapFits'
      BY <1>4 DEF ScanStored, AgeInv, MapFits, Mapped
    <2>. QED BY <1>4, <2>1, StoredAges
  <1>. QED BY <1>1, <1>2, <1>3, <1>4
       DEF Next, Ask, Lookup, Recheck, Read, Hit, Miss, Refresh, PollHit, PollTimeout,
           ScanEnds, ScanAborted, vars

\* The ages hold in every reachable state.
LEMMA AgeInvariant == Spec => []AgeInv
  BY AgeInitHolds, AgeStep, PTL DEF Spec

\* What a step drops is the victim, of a full map.
LEMMA StepDropsOldest ==
    ASSUME AgeInv, [Next]_vars, NEW k \in Mapped, map'[k] = NoSlot
    PROVE  /\ Cardinality(Mapped) = Cap
           /\ (Populated(map[k]) /\ ~lock.rebuilt) =>
                \A j \in Mapped : Populated(map[j]) => Age(map[k]) <= Age(map[j])
  <1>1. k \in Keys /\ map[k] # NoSlot
    BY DEF Mapped
  <1>2. PICK r \in Requests : Create(r) \/ Evict(r)
    BY <1>1
       DEF Next, Ask, Lookup, ChooseVictim, Recheck, Read, Hit, Miss, Refresh, PollHit,
           PollTimeout, ScanEnds, ScanStored, ScanAborted, vars
  <1>3. ~Create(r)
    BY <1>1, NoSlotAssumption DEF Create, Insert
  <1>4. lock # Free /\ k = lock.victim
    BY <1>1, <1>2, <1>3, NoSlotAssumption DEF Evict, Insert
  <1>5. ASSUME Populated(map[k]), ~lock.rebuilt, NEW j \in Mapped, Populated(map[j])
        PROVE  Age(map[k]) <= Age(map[j])
    <2>1. NoLater(order, map[k], map[j])
      BY <1>4, <1>5 DEF AgeInv, VictimOK
    <2>. QED BY <1>5, <2>1, AgeIs, MappedSlots DEF AgeInv
  <1>. QED BY <1>4, <1>5 DEF AgeInv, VictimOK

\* The map never holds more than Cap slots and gives up the one built longest ago,
\* whatever scans store between the choice of the victim and its removal
\* (KeyedCache::slot reads every built_at under the map's write lock, and a scan
\* stores under the slot's own lock).
THEOREM LatestSlotsSurvive == Spec => LatestSurvives
  <1>1. AgeInv /\ AgeInv' /\ [Next]_vars
        => [/\ Cardinality(Mapped') <= Cap
            /\ \A k \in Mapped : map'[k] = NoSlot =>
                 /\ Cardinality(Mapped) = Cap
                 /\ (Populated(map[k]) /\ ~lock.rebuilt) =>
                     \A j \in Mapped : Populated(map[j]) => Age(map[k]) <= Age(map[j])]_vars
    <2>. SUFFICES ASSUME AgeInv, AgeInv', [Next]_vars
                  PROVE  /\ Cardinality(Mapped') <= Cap
                         /\ \A k \in Mapped : map'[k] = NoSlot =>
                              /\ Cardinality(Mapped) = Cap
                              /\ (Populated(map[k]) /\ ~lock.rebuilt) =>
                                  \A j \in Mapped : Populated(map[j]) => Age(map[k]) <= Age(map[j])
      OBVIOUS
    <2>1. Cardinality(Mapped') <= Cap
      BY DEF AgeInv, MapFits
    <2>. QED BY <2>1, StepDropsOldest
  <1>. QED BY <1>1, AgeInvariant, PTL DEF Spec, LatestSurvives

-----------------------------------------------------------------------------
\* What backtest_symbol finds for one stock: nothing, or one block of it.
Found(s) == {<<>>} \cup {<<b>> : b \in {b \in Block : b.sym = s}}

\* merge_into leaves the other symbols as they are, and of its own symbol what is new.
LEMMA MergeExact ==
    ASSUME NEW blocks \in Seq(Block), NEW s, NEW new \in Found(s),
           NEW out, out = MergeInto(blocks, s, new)
    PROVE  /\ out \in Seq(Block)
           /\ RestOf(out, s) = RestOf(blocks, s)
           /\ OwnOf(out, s) = new
  <1>. DEFINE Others == {b \in Block : b.sym # s}
              Own == {b \in Block : b.sym = s}
              rest == Filter(blocks, Others)
  <1>1. rest \in Seq(Block \cap Others) /\ out = rest \o new
    BY FilterSame, Facts!FilterElements DEF MergeInto, RestOf
  <1>2. rest \in Seq(Block) /\ rest \in Seq(Others)
    BY <1>1, SeqDef
  <1>3. Filter(rest, Others) = rest /\ Filter(rest, Own) = <<>>
    <2>1. Others \cap Own = {}
      OBVIOUS
    <2>. HIDE DEF rest, Others, Own
    <2>. QED BY <1>2, <2>1, FilterSame, Facts!FilterAll, Facts!FilterNone
  <1>. HIDE DEF rest
  <1>4. CASE new = <<>>
    <2>1. out = rest
      BY <1>1, <1>2, <1>4, ConcatEmptySeq
    <2>. QED BY <1>2, <1>3, <1>4, <2>1 DEF RestOf, OwnOf, rest
  <1>5. CASE new # <<>>
    <2>1. PICK b \in Own : new = <<b>>
      BY <1>5 DEF Found
    <2>2. b \in Block /\ b \notin Others
      OBVIOUS
    <2>. HIDE DEF Others, Own
    <2>3. out = Append(rest, b)
      BY <1>1, <1>2, <2>1, <2>2, AppendIsConcat
    <2>4. out \in Seq(Block)
      BY <1>2, <2>2, <2>3, AppendProperties
    <2>7. \A S : Filter(Append(rest, b), S) = IF b \in S THEN Append(Filter(rest, S), b)
                                              ELSE Filter(rest, S)
      BY <1>2, <2>2, FilterSame, Facts!FilterAppend
    <2>5. Filter(out, Others) = rest /\ Filter(out, Own) = Append(<<>>, b)
      BY <1>3, <2>2, <2>3, <2>7
    <2>6. Append(<<>>, b) = <<b>>
      OBVIOUS
    <2>. QED BY <2>1, <2>4, <2>5, <2>6 DEF RestOf, OwnOf, rest, Others, Own
  <1>. QED BY <1>4, <1>5

\* Appending to a map without the symbol is merging into it.
LEMMA SpliceIsMerge ==
    ASSUME NEW blocks \in Seq(Block), NEW s, s \notin Symbols(blocks), NEW new
    PROVE  blocks \o new = MergeInto(blocks, s, new)
  <1>. DEFINE Others == {b \in Block : b.sym # s}
  <1>1. \A k \in 1..Len(blocks) : blocks[k] \in Others
    BY ElementOfSeq DEF Symbols
  <1>2. blocks \in Seq(Others)
    BY <1>1, IsASeq, LenProperties
  <1>3. Filter(blocks, Others) = blocks
    <2>. HIDE DEF Others
    <2>. QED BY <1>2, FilterSame, Facts!FilterAll
  <1>. QED BY <1>3 DEF MergeInto, RestOf

\* A backtest of any stocks lists blocks.
LEMMA AllBlocks ==
    ASSUME candles \in [Stocks -> 0..MaxGen], NEW named \in SUBSET Stocks,
           NEW out, out = BacktestOf(named)
    PROVE  out \in Seq(Block)
  <1>. DEFINE found == {s \in named : Backtest(s) # <<>>}
              S == {[sym |-> s, gen |-> candles[s]] : s \in found}
  <1>1. S \subseteq Block
    <2>. SUFFICES ASSUME NEW s \in Stocks, Backtest(s) # <<>>
                  PROVE  [sym |-> s, gen |-> candles[s]] \in Block
      OBVIOUS
    <2>1. <<s, candles[s]>> \in Signals
      BY DEF Backtest
    <2>2. candles[s] \in 1..MaxGen
      BY <2>1, GenAssumption
    <2>. QED BY <2>2 DEF Block
  <1>2. IsFiniteSet(S)
    <2>1. IsFiniteSet(found)
      BY GenAssumption, FS_Subset
    <2>. DEFINE f == [s \in found |-> [sym |-> s, gen |-> candles[s]]]
    <2>. HIDE DEF found
    <2>2. f \in Surjection(found, S)
      BY DEF Surjection
    <2>. QED BY <2>1, <2>2, FS_Surjection DEF ExistsSurjection
  <1>. HIDE DEF S
  <1>3. PICK f \in [1..Cardinality(S) -> S] : IsInjective(f)
    <2>1. Cardinality(S) \in Nat /\ ExistsBijection(1..Cardinality(S), S)
      BY <1>2, FS_CardinalityType, FS_NatBijection, FS_CountingElements
    <2>. QED BY <2>1 DEF ExistsBijection, Bijection, Injection, IsInjective
  <1>4. out \in [1..Cardinality(S) -> S]
    BY <1>3 DEF BacktestOf, SetToSeq, S
  <1>5. Cardinality(S) \in Nat
    BY <1>2, FS_CardinalityType
  <1>. QED BY <1>1, <1>4, <1>5, SeqDef

-----------------------------------------------------------------------------
\* What a writer works on.
Fields == {"pc", "sym", "new", "old", "out", "calm"}
IsWork(w) == DOMAIN w = Fields /\ {w.new, w.old, w.out} \subseteq Seq(Block)

\* What a writer may rely on that was alone with the files f: an onboarding goes on
\* from the map it loaded, and a file it has opened or filled is as it left it.
CalmOK(t, w, f) ==
    w.calm =>
        /\ t \in Tasks /\ w.pc = "splice" =>
              f.state = "whole" /\ w.old = f.map /\ w.sym \notin Symbols(f.map)
        /\ t \in Tasks /\ w.pc = "save" => w.out = MergeInto(f.map, w.sym, w.new)
        /\ w.pc = "opened" => f.state = "empty"
        /\ w.pc = "saved" => f.state = "whole" /\ f.map = w.out

\* What an onboarding has found is of its symbol.
FoundOK(t, w) == t \in Tasks /\ w.pc \in {"tested", "splice", "save"} => w.new \in Found(w.sym)

\* The inductive invariant.
WorkOK(t, w, f) == IsWork(w) /\ CalmOK(t, w, f) /\ FoundOK(t, w)

EdgeIInv ==
    /\ candles \in [Stocks -> 0..MaxGen]
    /\ file.map \in Seq(Block) /\ (file.state # "whole" => file.map = <<>>)
    /\ DOMAIN work = Writers /\ \A t \in Writers : WorkOK(t, work[t], file)
    /\ synced => file.state = "whole" /\ meta = Symbols(file.map)

\* A writer at rest has nothing to be wrong about.
LEMMA NoWorkOK == \A t, f : WorkOK(t, NoWork, f)
  BY DEF WorkOK, IsWork, Fields, NoWork, CalmOK, FoundOK

\* No candles and no file yet, the server down.
LEMMA EdgeInitOK == EdgeInit => EdgeIInv
  BY NoWorkOK, GenAssumption DEF EdgeInit, EdgeIInv, Absent

\* A step that leaves the files alone.
LEMMA MoveOK ==
    ASSUME EdgeIInv, NEW t \in Writers, NEW w, WorkOK(t, w, file), Move(t, w),
           UNCHANGED <<candles, file, meta, synced>>
    PROVE  EdgeIInv'
  BY DEF Move, EdgeIInv

\* A step that touches them.
LEMMA StepOK ==
    ASSUME EdgeIInv, NEW t \in Writers, NEW w, WorkOK(t, w, file'), Step(t, w),
           candles' = candles,
           file'.map \in Seq(Block), file'.state # "whole" => file'.map = <<>>,
           synced' => file'.state = "whole" /\ meta' = Symbols(file'.map)
    PROVE  EdgeIInv'
  <1>1. \A u \in Writers \ {t} : WorkOK(u, [work[u] EXCEPT !.calm = FALSE], file')
    <2>. SUFFICES ASSUME NEW u \in Writers, NEW x, x = [work[u] EXCEPT !.calm = FALSE]
                  PROVE  WorkOK(u, x, file')
      OBVIOUS
    <2>1. IsWork(work[u]) /\ FoundOK(u, work[u])
      BY DEF EdgeIInv, WorkOK
    <2>2. IsWork(x) /\ ~x.calm /\ x.pc = work[u].pc /\ x.new = work[u].new /\ x.sym = work[u].sym
      BY <2>1 DEF IsWork, Fields
    <2>. QED BY <2>1, <2>2 DEF WorkOK, CalmOK, FoundOK
  <1>2. DOMAIN work' = Writers /\ \A u \in Writers : WorkOK(u, work'[u], file')
    BY <1>1 DEF Step
  <1>. QED BY <1>2 DEF EdgeIInv

\* A backtest of one stock finds nothing or one block of it.
LEMMA BacktestFound ==
    ASSUME candles \in [Stocks -> 0..MaxGen], NEW s \in Stocks, NEW new, new = Backtest(s)
    PROVE  new \in Found(s) /\ new \in Seq(Block)
  <1>1. CASE new = <<>>
    BY <1>1 DEF Found
  <1>2. CASE new # <<>>
    <2>1. <<s, candles[s]>> \in Signals /\ new = <<[sym |-> s, gen |-> candles[s]]>>
      BY <1>2 DEF Backtest
    <2>2. candles[s] \in 1..MaxGen
      BY <2>1, GenAssumption
    <2>. QED BY <2>1, <2>2 DEF Found, Block
  <1>. QED BY <1>1, <1>2

-----------------------------------------------------------------------------
\* The steps of a save: the file is opened and thereby emptied, ...
LEMMA OpenOK == ASSUME EdgeIInv, NEW t \in Writers, Open(t) PROVE EdgeIInv'
  <1>. SUFFICES ASSUME NEW w, w = [work[t] EXCEPT !.pc = "opened", !.new = <<>>, !.old = <<>>]
                PROVE  EdgeIInv'
    OBVIOUS
  <1>1. IsWork(work[t])
    BY DEF EdgeIInv, WorkOK
  <1>2. IsWork(w) /\ w.pc = "opened"
    <2>1. /\ DOMAIN w = Fields /\ w.pc = "opened"
          /\ w.new = <<>> /\ w.old = <<>> /\ w.out = work[t].out
      BY <1>1 DEF IsWork, Fields
    <2>. QED BY <1>1, <2>1 DEF IsWork
  <1>3. file'.state = "empty" /\ file'.map = <<>> /\ synced' = FALSE /\ candles' = candles
    BY DEF Open, Empty
  <1>4. WorkOK(t, w, file')
    BY <1>2, <1>3 DEF WorkOK, CalmOK, FoundOK
  <1>5. Step(t, w)
    BY DEF Open
  <1>. QED BY <1>3, <1>4, <1>5, StepOK

\* ... written whole or in part, ...
LEMMA FillOK == ASSUME EdgeIInv, NEW t \in Writers, Fill(t) PROVE EdgeIInv'
  <1>. SUFFICES ASSUME NEW w, w = [work[t] EXCEPT !.pc = "saved"]
                PROVE  EdgeIInv'
    OBVIOUS
  <1>1. IsWork(work[t]) /\ CalmOK(t, work[t], file) /\ work[t].pc = "opened"
    BY DEF EdgeIInv, WorkOK, Fill
  <1>2. IsWork(w) /\ w.pc = "saved" /\ w.out = work[t].out /\ w.calm = work[t].calm
        /\ w.out \in Seq(Block)
    BY <1>1 DEF IsWork, Fields
  <1>3. synced' = FALSE /\ candles' = candles /\ Step(t, w)
    BY DEF Fill
  <1>4. CASE file' = [state |-> "whole", map |-> work[t].out]
    <2>1. file'.state = "whole" /\ file'.map = w.out
      BY <1>2, <1>4
    <2>2. WorkOK(t, w, file')
      BY <1>2, <2>1 DEF WorkOK, CalmOK, FoundOK
    <2>. QED BY <1>2, <1>3, <2>1, <2>2, StepOK
  <1>5. CASE file.state # "empty" /\ file' = Garbled
    <2>1. file'.state = "garbled" /\ file'.map = <<>>
      BY <1>5 DEF Garbled
    <2>2. ~w.calm
      BY <1>1, <1>2, <1>5 DEF CalmOK
    <2>3. WorkOK(t, w, file')
      BY <1>2, <2>2 DEF WorkOK, CalmOK, FoundOK
    <2>. QED BY <1>3, <2>1, <2>3, StepOK
  <1>. QED BY <1>4, <1>5 DEF Fill

\* ... not written at all ...
LEMMA SaveFailsOK == ASSUME EdgeIInv, NEW t \in Writers, SaveFails(t) PROVE EdgeIInv'
  <1>1. file'.map \in Seq(Block) /\ (file'.state # "whole" => file'.map = <<>>)
    BY DEF EdgeIInv, SaveFails, Garbled
  <1>2. synced' = FALSE /\ candles' = candles /\ Step(t, NoWork)
    BY DEF SaveFails
  <1>. QED BY <1>1, <1>2, NoWorkOK, StepOK

\* ... and, if it was, its sidecar after it.
LEMMA SaveMetaOK == ASSUME EdgeIInv, NEW t \in Writers, SaveMeta(t) PROVE EdgeIInv'
  <1>1. work[t].pc = "saved" /\ CalmOK(t, work[t], file)
    BY DEF EdgeIInv, WorkOK, SaveMeta
  <1>2. /\ file' = file /\ candles' = candles /\ Step(t, NoWork)
        /\ meta' = Symbols(work[t].out) /\ synced' = work[t].calm
    BY DEF SaveMeta
  <1>3. synced' => file'.state = "whole" /\ meta' = Symbols(file'.map)
    BY <1>1, <1>2 DEF CalmOK
  <1>4. file'.map \in Seq(Block) /\ (file'.state # "whole" => file'.map = <<>>)
    BY <1>2 DEF EdgeIInv
  <1>. QED BY <1>2, <1>3, <1>4, NoWorkOK, StepOK

\* A run of `backtest`, or a start that has to build the map.
LEMMA BuildOK ==
    ASSUME EdgeIInv, NEW t \in Writers \ Tasks, NEW named \in SUBSET Stocks,
           Move(t, [NoWork EXCEPT !.pc = "save", !.out = BacktestOf(named), !.calm = TRUE]),
           UNCHANGED <<candles, file, meta, synced>>
    PROVE  EdgeIInv'
  <1>. SUFFICES ASSUME NEW out, out = BacktestOf(named),
                       NEW w, w = [NoWork EXCEPT !.pc = "save", !.out = out, !.calm = TRUE]
                PROVE  EdgeIInv'
    OBVIOUS
  <1>1. out \in Seq(Block)
    BY AllBlocks DEF EdgeIInv
  <1>2. IsWork(w) /\ w.pc = "save"
    <2>1. /\ DOMAIN w = Fields /\ w.pc = "save"
          /\ w.new = <<>> /\ w.old = <<>> /\ w.out = out
      BY DEF NoWork, Fields
    <2>2. w.new \in Seq(Block) /\ w.old \in Seq(Block) /\ w.out \in Seq(Block)
      BY ONLY <1>1, <2>1
    <2>. QED BY ONLY <2>1, <2>2 DEF IsWork
  <1>3. WorkOK(t, w, file)
    BY <1>2 DEF WorkOK, CalmOK, FoundOK
  <1>. QED BY <1>3, MoveOK

\* A symbol that joins: its writer has what the backtest found, and no file yet.
LEMMA OnboardOK ==
    ASSUME EdgeIInv, NEW t \in Tasks, NEW s \in Stocks, Onboard(t, s) PROVE EdgeIInv'
  <1>. SUFFICES ASSUME NEW new, new = Backtest(s),
                       NEW w, w = [NoWork EXCEPT !.pc = "tested", !.sym = s, !.new = new]
                PROVE  EdgeIInv'
    OBVIOUS
  <1>1. new \in Found(s) /\ new \in Seq(Block)
    BY BacktestFound DEF EdgeIInv
  <1>2. IsWork(w) /\ w.pc = "tested" /\ w.sym = s /\ w.new = new
    <2>1. /\ DOMAIN w = Fields /\ w.pc = "tested" /\ w.sym = s
          /\ w.new = new /\ w.old = <<>> /\ w.out = <<>>
      BY DEF NoWork, Fields
    <2>2. w.new \in Seq(Block) /\ w.old \in Seq(Block) /\ w.out \in Seq(Block)
      BY ONLY <1>1, <2>1
    <2>. QED BY ONLY <2>1, <2>2 DEF IsWork
  <1>3. WorkOK(t, w, file)
    BY <1>1, <1>2 DEF WorkOK, CalmOK, FoundOK
  <1>4. Move(t, w) /\ UNCHANGED <<candles, file, meta, synced>> /\ t \in Writers
    BY DEF Onboard, Writers
  <1>. QED BY <1>3, <1>4, MoveOK

\* The writer reads the map, or takes an unreadable one for empty; it is calm from here on
\* until another touches a file.
LEMMA LoadOK == ASSUME EdgeIInv, NEW t \in Tasks, Load(t) PROVE EdgeIInv'
  <1>. DEFINE s == work[t].sym
              brandNew == Loaded # <<>> /\ s \notin Symbols(Loaded)
  <1>. SUFFICES ASSUME NEW loaded, loaded = Loaded,
                       NEW merged, merged = MergeInto(loaded, s, work[t].new),
                       NEW pc, pc = IF brandNew THEN "splice" ELSE "save",
                       NEW out, out = IF brandNew THEN <<>> ELSE merged,
                       NEW calm \in BOOLEAN, calm <=> file.state \in {"absent", "whole"},
                       NEW w, w = [work[t] EXCEPT !.pc = pc, !.old = loaded, !.out = out,
                                                  !.calm = calm],
                       Move(t, w)
                PROVE  EdgeIInv'
    <2>1. PICK calm \in BOOLEAN : calm <=> file.state \in {"absent", "whole"}
      <3>1. TRUE \in BOOLEAN /\ FALSE \in BOOLEAN
        OBVIOUS
      <3>2. CASE file.state \in {"absent", "whole"}
        BY <3>1, <3>2
      <3>3. CASE file.state \notin {"absent", "whole"}
        BY <3>1, <3>3
      <3>. QED BY <3>2, <3>3
    <2>. QED BY <2>1 DEF Load
  <1>1. t \in Writers /\ IsWork(work[t]) /\ work[t].pc = "tested" /\ work[t].new \in Found(s)
    BY DEF EdgeIInv, WorkOK, FoundOK, Load, Writers
  <1>2. loaded \in Seq(Block) /\ file.map = loaded
    BY DEF EdgeIInv, Loaded
  <1>3. merged \in Seq(Block)
    BY <1>1, <1>2, MergeExact
  <1>8. out \in Seq(Block)
    BY <1>3
  <1>4. /\ IsWork(w) /\ w.pc = pc /\ w.old = loaded
        /\ w.out = out /\ w.sym = s /\ w.new = work[t].new
    BY <1>1, <1>2, <1>8 DEF IsWork, Fields
  <1>5. brandNew => file.state = "whole" /\ s \notin Symbols(file.map)
    BY <1>2 DEF Loaded
  <1>6. WorkOK(t, w, file)
    BY <1>1, <1>2, <1>4, <1>5 DEF WorkOK, CalmOK, FoundOK
  <1>7. UNCHANGED <<candles, file, meta, synced>>
    BY DEF Load
  <1>. QED BY <1>1, <1>6, <1>7, MoveOK

\* It splices what it found into the map: appended to the file, or merged into what it
\* read.
LEMMA SpliceOK == ASSUME EdgeIInv, NEW t \in Tasks, Splice(t) PROVE EdgeIInv'
  <1>. DEFINE fits == file.state = "whole" /\ Len(file.map) = Len(work[t].old)
  <1>. SUFFICES ASSUME NEW out, out = IF fits THEN file.map \o work[t].new
                                      ELSE MergeInto(work[t].old, work[t].sym, work[t].new),
                       NEW w, w = [work[t] EXCEPT !.pc = "save", !.out = out]
                PROVE  EdgeIInv'
    OBVIOUS
  <1>1. /\ t \in Writers /\ IsWork(work[t]) /\ work[t].pc = "splice"
        /\ work[t].new \in Found(work[t].sym) /\ CalmOK(t, work[t], file)
        /\ file.map \in Seq(Block)
    BY DEF EdgeIInv, WorkOK, FoundOK, Splice, Writers
  <1>2. out \in Seq(Block)
    <2>1. file.map \o work[t].new \in Seq(Block)
      BY <1>1, ConcatProperties DEF IsWork, Fields
    <2>2. work[t].old \in Seq(Block)
      BY <1>1 DEF IsWork, Fields
    <2>3. \A m : m = MergeInto(work[t].old, work[t].sym, work[t].new) => m \in Seq(Block)
      BY <1>1, <2>2, MergeExact
    <2>. QED BY <2>1, <2>3
  <1>3. /\ IsWork(w) /\ w.pc = "save" /\ w.out = out
        /\ w.sym = work[t].sym /\ w.new = work[t].new /\ w.calm = work[t].calm
    BY <1>1, <1>2 DEF IsWork, Fields
  <1>4. w.calm => w.out = MergeInto(file.map, w.sym, w.new)
    <2>. SUFFICES ASSUME w.calm PROVE w.out = MergeInto(file.map, w.sym, w.new)
      OBVIOUS
    <2>1. /\ file.state = "whole" /\ work[t].old = file.map
          /\ work[t].sym \notin Symbols(file.map)
      BY <1>1, <1>3 DEF CalmOK
    <2>2. out = file.map \o work[t].new
      BY <2>1
    <2>3. file.map \o work[t].new = MergeInto(file.map, work[t].sym, work[t].new)
      BY <1>1, <2>1, SpliceIsMerge
    <2>. QED BY <1>3, <2>2, <2>3
  <1>5. WorkOK(t, w, file)
    BY <1>1, <1>3, <1>4 DEF WorkOK, CalmOK, FoundOK
  <1>6. Move(t, w) /\ UNCHANGED <<candles, file, meta, synced>>
    BY DEF Splice
  <1>. QED BY <1>1, <1>5, <1>6, MoveOK

\* One step of a writer, a start, a download or a crash.
LEMMA EdgeNextOK == EdgeIInv /\ [EdgeNext]_edgeVars => EdgeIInv'
  <1>. SUFFICES ASSUME EdgeIInv, [EdgeNext]_edgeVars PROVE EdgeIInv'
    OBVIOUS
  <1>1. CASE \E s \in Stocks : Download(s)
    <2>. PICK s \in Stocks : Download(s)
      BY <1>1
    <2>1. candles' \in [Stocks -> 0..MaxGen]
      BY GenAssumption DEF Download, EdgeIInv
    <2>. QED BY <2>1 DEF Download, EdgeIInv
  <1>2. CASE \E t \in Writers : Save(t)
    BY <1>2, OpenOK, FillOK, SaveMetaOK, SaveFailsOK DEF Save
  <1>3. CASE \E c \in Clis : CliBacktest(c)
    <2>1. Clis \subseteq Writers \ Tasks
      BY WriterAssumption DEF Writers
    <2>. QED BY <1>3, <2>1, BuildOK DEF CliBacktest
  <1>4. CASE Start
    <2>1. CASE file.state = "whole"
      BY <1>4, <2>1 DEF Start, EdgeIInv
    <2>2. CASE file.state # "whole"
      <3>1. Main \in Writers \ Tasks
        BY WriterAssumption DEF Writers
      <3>. QED BY <1>4, <2>2, <3>1, BuildOK DEF Start
    <2>. QED BY <2>1, <2>2
  <1>5. CASE Crash
    <2>1. DOMAIN work' = Writers /\ \A t \in Writers : work'[t] \in {work[t], NoWork}
      BY <1>5 DEF Crash
    <2>2. UNCHANGED <<candles, file, meta, synced>>
      BY <1>5 DEF Crash
    <2>. QED BY <2>1, <2>2, NoWorkOK DEF EdgeIInv
  <1>6. CASE \E t \in Tasks : Load(t) \/ Splice(t) \/ \E s \in Stocks : Onboard(t, s)
    BY <1>6, LoadOK, SpliceOK, OnboardOK
  <1>7. CASE UNCHANGED edgeVars
    BY <1>7 DEF edgeVars, EdgeIInv
  <1>. QED BY <1>1, <1>2, <1>3, <1>4, <1>5, <1>6, <1>7 DEF EdgeNext

\* The inductive invariant holds in every reachable state.
THEOREM EdgeInvariant == EdgeSpec => []EdgeIInv
  BY EdgeInitOK, EdgeNextOK, PTL DEF EdgeSpec

\* An onboarding that was alone with a readable map saves it with its own symbol's
\* records replaced and no others, and a sidecar written alone tells of its map.
THEOREM OnboardingIsExact == EdgeSpec => []MergeIsExact
  <1>1. EdgeIInv => MergeIsExact
    <2>. SUFFICES ASSUME EdgeIInv PROVE MergeIsExact
      OBVIOUS
    <2>1. ASSUME NEW t \in Tasks, work[t].pc = "save", work[t].calm
          PROVE  /\ RestOf(work[t].out, work[t].sym) = RestOf(file.map, work[t].sym)
                 /\ OwnOf(work[t].out, work[t].sym) = work[t].new
      <3>1. /\ work[t].new \in Found(work[t].sym) /\ file.map \in Seq(Block)
            /\ work[t].out = MergeInto(file.map, work[t].sym, work[t].new)
        BY <2>1 DEF EdgeIInv, WorkOK, CalmOK, FoundOK, Writers
      <3>. QED BY <3>1, MergeExact
    <2>. QED BY <2>1 DEF EdgeIInv, MergeIsExact
  <1>. QED BY <1>1, EdgeInvariant, PTL

\* serve never comes up on half a map.
THEOREM StartsHealed == EdgeSpec => StartHeals
  <1>. DEFINE Heals ==
           server.pc # "up" /\ server'.pc = "up" /\ (\A c \in Clis : work[c].pc = "idle")
             /\ (work[Main].pc = "idle" \/ work[Main].calm)
             => file'.state = "whole" /\ server'.index = Symbols(file'.map)
  <1>1. EdgeIInv /\ [EdgeNext]_edgeVars => [Heals]_edgeVars
    <2>. SUFFICES ASSUME EdgeIInv, EdgeNext, server.pc # "up", server'.pc = "up",
                         work[Main].pc = "idle" \/ work[Main].calm
                  PROVE  file'.state = "whole" /\ server'.index = Symbols(file'.map)
      OBVIOUS
    <2>1. CASE \E t \in Writers : Save(t)
      <3>1. PICK t \in Writers : Save(t)
        BY <2>1
      <3>2. t = Main /\ SaveMeta(t)
        BY <3>1 DEF Save, Open, Fill, SaveFails, SaveMeta, Down
      <3>3. CalmOK(Main, work[Main], file) /\ work[Main].pc = "saved"
        BY <3>2 DEF SaveMeta, EdgeIInv, WorkOK
      <3>4. file.state = "whole" /\ file.map = work[Main].out
        BY <3>3 DEF CalmOK
      <3>. QED BY <3>2, <3>4 DEF SaveMeta
    <2>2. CASE Start
      <3>1. CASE file.state = "whole"
        BY <2>2, <3>1 DEF Start
      <3>2. CASE file.state # "whole"
        <4>1. server' = [server EXCEPT !.pc = "starting"]
          BY <2>2, <3>2 DEF Start
        <4>2. server'.pc # "up"
          BY <4>1
        <4>. QED BY <4>2
      <3>. QED BY <3>1, <3>2
    <2>3. server' # server /\ server'.pc # "down"
      OBVIOUS
    <2>4. CASE Crash
      BY <2>3, <2>4 DEF Crash, Down
    <2>5. CASE \/ \E s \in Stocks : Download(s)
               \/ \E c \in Clis : CliBacktest(c)
               \/ \E t \in Tasks : Load(t) \/ Splice(t) \/ \E s \in Stocks : Onboard(t, s)
      BY <2>3, <2>5 DEF Download, CliBacktest, Load, Splice, Onboard
    <2>. QED BY <2>1, <2>2, <2>4, <2>5 DEF EdgeNext
  <1>. QED BY <1>1, EdgeInvariant, PTL DEF EdgeSpec, StartHeals
=============================================================================
