----------------------- MODULE ConcurrencyLimiterProofs -----------------------
(***************************************************************************)
(* Proofs about ConcurrencyLimiter for any number of threads, names and    *)
(* any limits: it implements Admission, and its counters keep the limits.  *)
(***************************************************************************)
EXTENDS ConcurrencyLimiter, FiniteSetTheorems, TLAPS

Adders(key) == {t \in Thread : key \in counted[t]}

Holders(key) == {t \in Thread : key \in holding[t]}

Locking == {"checking", "counting", "uncounting"}

\* Where a thread stands, whether it has the lock, and what it has added.
ThreadOK(t) ==
    /\ at[t] \in Locking <=> lock = t
    /\ at[t] = "out" => keys[t] = {}
    /\ at[t] # "out" => keys[t] \in Demand
    /\ at[t] \in {"out", "entering", "checking"} => counted[t] = {}
    /\ at[t] \in {"inside", "leaving"} => counted[t] = keys[t]
    /\ counted[t] \subseteq keys[t]

\* Each counter is the number of threads that have added to it, and no more calls
\* hold a key than its limit allows.
Counters ==
    /\ \A t \in Thread : ThreadOK(t)
    /\ \A key \in Key : counts[key] = Cardinality(Adders(key))
    /\ \A key \in Key : Cardinality(Holders(key)) <= Limit[key]

Inv == TypeOK /\ Counters

USE LimiterAssumption

-----------------------------------------------------------------------------

LEMMA ThreadSets ==
    ASSUME NEW S \in SUBSET Thread
    PROVE  IsFiniteSet(S) /\ Cardinality(S) \in Nat
BY FS_Subset, FS_CardinalityType

LEMMA LimitType == Limit \in [Key -> Nat \ {0}]
<1> SUFFICES ASSUME NEW key \in Key
             PROVE  (CASE key[1] = "target" -> PerTarget
                       [] key[1] = "tool"   -> PerTool
                       [] OTHER             -> PerNode) \in Nat \ {0}
  BY DEF Limit
<1>. QED
  OBVIOUS

LEMMA DemandType == \A demand \in Demand : demand \subseteq Key /\ demand # {}
<1> SUFFICES ASSUME NEW target \in Target, NEW tool \in Tool, NEW node \in Node
             PROVE  Keys(target, tool, node) \subseteq Key /\ Keys(target, tool, node) # {}
  BY DEF Demand
<1>1. <<"target", target>> \in Key /\ <<"tool", tool>> \in Key /\ <<"node", node>> \in Key
  BY DEF Key
<1>. QED
  BY <1>1 DEF Keys

\* While a thread checks, no other is half way through its counters.
LEMMA HoldersAreAdders ==
    ASSUME TypeOK, \A x \in Thread : ThreadOK(x), NEW t \in Thread, at[t] = "checking"
    PROVE  \A key \in Key : Holders(key) = Adders(key)
<1>1. \A x \in Thread : at[x] \notin {"counting", "uncounting"}
  BY DEF ThreadOK, Locking
<1>2. \A x \in Thread : holding[x] = counted[x]
  BY <1>1 DEF ThreadOK, holding, TypeOK, Place
<1>. QED
  BY <1>2 DEF Holders, Adders

LEMMA InvInit == Init => Inv
<1> SUFFICES ASSUME Init PROVE Inv
  OBVIOUS
<1> USE DEF Init
<1>1. TypeOK
  BY DEF TypeOK, Place
<1>2. \A t \in Thread : ThreadOK(t)
  BY DEF ThreadOK, Locking
<1>3. \A key \in Key : Adders(key) = {} /\ Holders(key) = {}
  BY DEF Adders, Holders, holding
<1>4. \A key \in Key : counts[key] = Cardinality(Adders(key))
  BY <1>3, FS_EmptySet
<1>5. \A key \in Key : Cardinality(Holders(key)) <= Limit[key]
  BY <1>3, LimitType, FS_EmptySet
<1>. QED
  BY <1>1, <1>2, <1>4, <1>5 DEF Inv, Counters

\* A step that leaves what was added alone keeps the counters exact.
LEMMA SameAdders ==
    ASSUME Inv, counts' = counts, counted' = counted
    PROVE  \A key \in Key : counts'[key] = Cardinality(Adders(key)')
BY DEF Inv, Counters, Adders

\* A step by which no call begins to hold anything keeps the limits.
LEMMA FewerHolders ==
    ASSUME Inv, \A t \in Thread : holding'[t] \subseteq holding[t]
    PROVE  \A key \in Key : Cardinality(Holders(key)') <= Limit[key]
<1> TAKE key \in Key
<1>1. Holders(key)' \subseteq Holders(key)
  BY DEF Holders
<1>2. Cardinality(Holders(key)') <= Cardinality(Holders(key))
  BY <1>1, ThreadSets, FS_Subset DEF Holders
<1>3. /\ Cardinality(Holders(key)') \in Nat /\ Cardinality(Holders(key)) \in Nat
      /\ Limit[key] \in Nat
  BY ThreadSets, LimitType DEF Holders
<1>. QED
  BY <1>2, <1>3 DEF Inv, Counters

\* A thread moves, with its keys as they are.
LEMMA Moves ==
    ASSUME Inv, NEW t \in Thread, NEW place \in Place, at' = [at EXCEPT ![t] = place],
           UNCHANGED <<counts, keys, counted>>, lock' \in Thread \cup {NoThread},
           ThreadOK(t)', \A x \in Thread \ {t} : lock' = x <=> lock = x
    PROVE  TypeOK' /\ \A x \in Thread : ThreadOK(x)'
<1>1. TypeOK'
  BY DEF Inv, TypeOK
<1>2. \A x \in Thread \ {t} : at'[x] = at[x]
  BY DEF Inv, TypeOK
<1>3. \A x \in Thread \ {t} : ThreadOK(x)'
  BY <1>2 DEF Inv, Counters, ThreadOK
<1>. QED
  BY <1>1, <1>3

\* One thread adds a key to what it has added, or takes one away.
LEMMA OneMoreAdder ==
    ASSUME TypeOK, NEW t \in Thread, NEW key \in Key, key \notin counted[t],
           counted' = [counted EXCEPT ![t] = @ \cup {key}]
    PROVE  /\ Cardinality(Adders(key)') = Cardinality(Adders(key)) + 1
           /\ \A k \in Key \ {key} : Adders(k)' = Adders(k)
<1>1. counted'[t] = counted[t] \cup {key} /\ \A x \in Thread \ {t} : counted'[x] = counted[x]
  BY DEF TypeOK
<1>2. Adders(key)' = Adders(key) \cup {t} /\ t \notin Adders(key)
  BY <1>1 DEF Adders
<1>3. Cardinality(Adders(key) \cup {t}) = Cardinality(Adders(key)) + 1
  BY <1>2, ThreadSets, FS_AddElement DEF Adders
<1>4. \A k \in Key \ {key} : Adders(k)' = Adders(k)
  BY <1>1 DEF Adders
<1>. QED
  BY <1>2, <1>3, <1>4

LEMMA OneFewerAdder ==
    ASSUME TypeOK, NEW t \in Thread, NEW key \in Key, key \in counted[t],
           counted' = [counted EXCEPT ![t] = @ \ {key}]
    PROVE  /\ Cardinality(Adders(key)') = Cardinality(Adders(key)) - 1
           /\ Cardinality(Adders(key)) \in Nat \ {0}
           /\ \A k \in Key \ {key} : Adders(k)' = Adders(k)
<1>1. counted'[t] = counted[t] \ {key} /\ \A x \in Thread \ {t} : counted'[x] = counted[x]
  BY DEF TypeOK
<1>2. Adders(key)' = Adders(key) \ {t} /\ t \in Adders(key)
  BY <1>1 DEF Adders
<1>3. Cardinality(Adders(key) \ {t}) = Cardinality(Adders(key)) - 1
  BY <1>2, ThreadSets, FS_RemoveElement DEF Adders
<1>4. Cardinality(Adders(key)) \in Nat \ {0}
  BY <1>2, ThreadSets, FS_EmptySet DEF Adders
<1>5. \A k \in Key \ {key} : Adders(k)' = Adders(k)
  BY <1>1 DEF Adders
<1>. QED
  BY <1>2, <1>3, <1>4, <1>5

LEMMA CallStep ==
    ASSUME Inv, NEW t \in Thread, Call(t)
    PROVE  Inv' /\ holding' = holding
<1> USE DEF Call, Goto
<1>1. PICK demand \in Demand : keys' = [keys EXCEPT ![t] = demand]
  OBVIOUS
<1>2. demand \subseteq Key
  BY DemandType
<1>3. TypeOK'
  BY <1>1, <1>2 DEF Inv, TypeOK, Place
<1>4. /\ at'[t] = "entering" /\ keys'[t] = demand
      /\ \A x \in Thread \ {t} : at'[x] = at[x] /\ keys'[x] = keys[x]
  BY <1>1 DEF Inv, TypeOK
<1>5. \A x \in Thread : ThreadOK(x)'
  BY <1>4 DEF Inv, Counters, ThreadOK, Locking
<1>6. holding' = holding
  BY <1>4 DEF holding
<1>7. \A key \in Key : counts'[key] = Cardinality(Adders(key)')
  BY SameAdders
<1>8. \A key \in Key : Cardinality(Holders(key)') <= Limit[key]
  BY <1>6, FewerHolders
<1>. QED
  BY <1>3, <1>5, <1>6, <1>7, <1>8 DEF Inv, Counters

LEMMA TakeLockStep ==
    ASSUME Inv, NEW t \in Thread,
           \/ TakeLock(t, "entering", "checking")
           \/ TakeLock(t, "leaving", "uncounting")
    PROVE  Inv' /\ holding' = holding
<1> USE DEF TakeLock, Goto
<1>1. PICK place \in {"checking", "uncounting"} :
          /\ at' = [at EXCEPT ![t] = place]
          /\ at[t] = IF place = "checking" THEN "entering" ELSE "leaving"
  OBVIOUS
<1>2. /\ at'[t] = place /\ \A x \in Thread \ {t} : at'[x] = at[x]
      /\ lock = NoThread /\ lock' = t /\ UNCHANGED <<counts, keys, counted>>
  BY <1>1 DEF Inv, TypeOK
<1>3. ThreadOK(t)'
  BY <1>1, <1>2 DEF Inv, Counters, ThreadOK, Locking
<1>4. TypeOK' /\ \A x \in Thread : ThreadOK(x)'
  BY <1>1, <1>2, <1>3, Moves DEF Place
<1>5. holding' = holding
  BY <1>1, <1>2 DEF holding
<1>. QED
  BY <1>2, <1>4, <1>5, SameAdders, FewerHolders DEF Inv, Counters

\* The check lets the call pass: from here on it holds its keys.
LEMMA PassStep ==
    ASSUME Inv, NEW t \in Thread, Pass(t)
    PROVE  Inv' /\ Promise!Admit(t, keys[t]) /\ keys[t] \in Demand
<1> USE DEF Pass, Goto
<1>1. /\ at'[t] = "counting" /\ \A x \in Thread \ {t} : at'[x] = at[x]
      /\ UNCHANGED <<counts, lock, keys, counted>>
  BY DEF Inv, TypeOK
<1>2. ThreadOK(t)'
  BY <1>1 DEF Inv, Counters, ThreadOK, Locking
<1>3. TypeOK' /\ \A x \in Thread : ThreadOK(x)'
  BY <1>1, <1>2, Moves DEF Place, Inv, TypeOK
<1>4. holding[t] = {} /\ holding' = [holding EXCEPT ![t] = keys[t]]
  BY <1>1 DEF holding
<1>5. keys[t] \in Demand /\ keys[t] \subseteq Key
  BY DEF Inv, TypeOK, Counters, ThreadOK
<1>6. \A key \in keys[t] : Cardinality(Holders(key)) < Limit[key]
  BY <1>5, HoldersAreAdders DEF Room, Inv, Counters
<1>7. \A key \in Key : Cardinality(Holders(key)') <= Limit[key]
  <2> TAKE key \in Key
  <2>1. Limit[key] \in Nat /\ Cardinality(Holders(key)) \in Nat
    BY LimitType, ThreadSets DEF Holders
  <2>2. CASE key \in keys[t]
    <3>1. Holders(key)' = Holders(key) \cup {t} /\ t \notin Holders(key)
      BY <1>4, <2>2 DEF Holders, holding
    <3>2. Cardinality(Holders(key)') = Cardinality(Holders(key)) + 1
      BY <3>1, ThreadSets, FS_AddElement DEF Holders
    <3>. QED
      BY <1>6, <2>1, <2>2, <3>2
  <2>3. CASE key \notin keys[t]
    <3>1. Holders(key)' = Holders(key)
      BY <1>4, <2>3 DEF Holders, holding
    <3>. QED
      BY <3>1 DEF Inv, Counters
  <2>. QED
    BY <2>2, <2>3
<1>8. Promise!Admit(t, keys[t])
  <2>1. \A key : Promise!Holders(key) = Holders(key)
    BY DEF Promise!Holders, Holders
  <2>2. \A key \in keys[t] : Cardinality(Promise!Holders(key)) < Limit[key]
    BY <1>6, <2>1
  <2>. QED
    BY <1>4, <2>2 DEF Promise!Admit, Promise!Cardinality, Cardinality, IsFiniteSet, Promise!IsFiniteSet
<1>. QED
  BY <1>1, <1>3, <1>5, <1>7, <1>8, SameAdders DEF Inv, Counters

LEMMA RefuseStep ==
    ASSUME Inv, NEW t \in Thread, Refuse(t)
    PROVE  Inv' /\ holding' = holding
<1> USE DEF Refuse, Goto
<1>1. /\ at'[t] = "out" /\ keys'[t] = {}
      /\ \A x \in Thread \ {t} : at'[x] = at[x] /\ keys'[x] = keys[x]
      /\ lock' = NoThread /\ lock = t /\ UNCHANGED <<counts, counted>>
  BY DEF Inv, TypeOK, Counters, ThreadOK, Locking
<1>2. TypeOK'
  BY DEF Inv, TypeOK, Place
<1>3. \A x \in Thread : ThreadOK(x)'
  BY <1>1 DEF Inv, Counters, ThreadOK, Locking
<1>4. holding' = holding
  BY <1>1 DEF holding
<1>. QED
  BY <1>1, <1>2, <1>3, <1>4, SameAdders, FewerHolders DEF Inv, Counters

LEMMA CountStep ==
    ASSUME Inv, NEW t \in Thread, Count(t)
    PROVE  Inv' /\ holding' = holding
<1> USE DEF Count
<1>1. PICK key \in keys[t] \ counted[t] :
          /\ counts' = [counts EXCEPT ![key] = @ + 1]
          /\ counted' = [counted EXCEPT ![t] = @ \cup {key}]
  OBVIOUS
<1>2. key \in Key /\ counts[key] \in Nat
  BY <1>1 DEF Inv, TypeOK
<1>3. /\ counts'[key] = counts[key] + 1 /\ \A k \in Key \ {key} : counts'[k] = counts[k]
      /\ counts' \in [Key -> Nat]
  BY <1>1, <1>2 DEF Inv, TypeOK
<1>4. /\ counted'[t] = counted[t] \cup {key} /\ \A x \in Thread \ {t} : counted'[x] = counted[x]
      /\ counted' \in [Thread -> SUBSET Key]
  BY <1>1, <1>2 DEF Inv, TypeOK
<1>5. TypeOK'
  BY <1>3, <1>4 DEF Inv, TypeOK
<1>6. \A x \in Thread : ThreadOK(x)'
  BY <1>1, <1>4 DEF Inv, Counters, ThreadOK
<1>7. \A k \in Key : counts'[k] = Cardinality(Adders(k)')
  <2>1. /\ Cardinality(Adders(key)') = Cardinality(Adders(key)) + 1
        /\ \A k \in Key \ {key} : Adders(k)' = Adders(k)
    BY <1>1, <1>2, OneMoreAdder DEF Inv
  <2>2. counts'[key] = Cardinality(Adders(key)')
    BY <1>2, <1>3, <2>1 DEF Inv, Counters
  <2>3. \A k \in Key \ {key} : counts'[k] = Cardinality(Adders(k)')
    BY <1>3, <2>1 DEF Inv, Counters
  <2>. QED
    BY <2>2, <2>3
<1>8. holding' = holding
  BY DEF holding
<1>. QED
  BY <1>5, <1>6, <1>7, <1>8, FewerHolders DEF Inv, Counters

LEMMA YieldStep ==
    ASSUME Inv, NEW t \in Thread, Yield(t) \/ Finish(t)
    PROVE  Inv' /\ holding' = holding
<1> USE DEF Yield, Finish, Goto
<1>1. PICK place \in {"inside", "leaving"} :
          /\ at' = [at EXCEPT ![t] = place] /\ counted[t] = keys[t]
          /\ at[t] = IF place = "inside" THEN "counting" ELSE "inside"
  BY DEF Inv, Counters, ThreadOK
<1>2. /\ at'[t] = place /\ \A x \in Thread \ {t} : at'[x] = at[x]
      /\ UNCHANGED <<counts, keys, counted>>
  BY <1>1 DEF Inv, TypeOK
<1>3. /\ lock' = IF place = "inside" THEN NoThread ELSE lock
      /\ place = "inside" => lock = t
      /\ place = "leaving" => lock # t
  BY <1>1 DEF Inv, Counters, ThreadOK, Locking
<1>4. ThreadOK(t)'
  BY <1>1, <1>2, <1>3 DEF Inv, Counters, ThreadOK, Locking
<1>5. TypeOK' /\ \A x \in Thread : ThreadOK(x)'
  BY <1>1, <1>2, <1>3, <1>4, Moves DEF Place, Inv, TypeOK
<1>6. holding' = holding
  BY <1>1, <1>2 DEF holding
<1>. QED
  BY <1>2, <1>5, <1>6, SameAdders, FewerHolders DEF Inv, Counters

LEMMA UncountStep ==
    ASSUME Inv, NEW t \in Thread, Uncount(t)
    PROVE  Inv' /\ holding' = holding
<1> USE DEF Uncount
<1>1. PICK key \in counted[t] :
          /\ counts' = [counts EXCEPT ![key] = @ - 1]
          /\ counted' = [counted EXCEPT ![t] = @ \ {key}]
  OBVIOUS
<1>2. key \in Key
  BY <1>1 DEF Inv, TypeOK
<1>3. /\ Cardinality(Adders(key)') = Cardinality(Adders(key)) - 1
      /\ Cardinality(Adders(key)) \in Nat \ {0}
      /\ \A k \in Key \ {key} : Adders(k)' = Adders(k)
  BY <1>1, <1>2, OneFewerAdder DEF Inv
<1>4. counts[key] \in Nat \ {0}
  BY <1>2, <1>3 DEF Inv, Counters
<1>5. /\ counts'[key] = counts[key] - 1 /\ \A k \in Key \ {key} : counts'[k] = counts[k]
      /\ counts' \in [Key -> Nat]
  BY <1>1, <1>2, <1>4 DEF Inv, TypeOK
<1>6. /\ counted'[t] = counted[t] \ {key} /\ \A x \in Thread \ {t} : counted'[x] = counted[x]
      /\ counted' \in [Thread -> SUBSET Key]
  BY <1>1 DEF Inv, TypeOK
<1>7. TypeOK'
  BY <1>5, <1>6 DEF Inv, TypeOK
<1>8. \A x \in Thread : ThreadOK(x)'
  BY <1>6 DEF Inv, Counters, ThreadOK
<1>9. \A k \in Key : counts'[k] = Cardinality(Adders(k)')
  BY <1>2, <1>3, <1>5 DEF Inv, Counters
<1>10. holding' = holding
  BY DEF holding
<1>. QED
  BY <1>7, <1>8, <1>9, <1>10, FewerHolders DEF Inv, Counters

LEMMA LeaveStep ==
    ASSUME Inv, NEW t \in Thread, Leave(t)
    PROVE  Inv' /\ Promise!Release(t)
<1> USE DEF Leave, Goto
<1>1. /\ at'[t] = "out" /\ keys'[t] = {}
      /\ \A x \in Thread \ {t} : at'[x] = at[x] /\ keys'[x] = keys[x]
      /\ lock' = NoThread /\ lock = t /\ UNCHANGED <<counts, counted>>
  BY DEF Inv, TypeOK, Counters, ThreadOK, Locking
<1>2. TypeOK'
  BY DEF Inv, TypeOK, Place
<1>3. \A x \in Thread : ThreadOK(x)'
  BY <1>1 DEF Inv, Counters, ThreadOK, Locking
<1>4. holding' = [holding EXCEPT ![t] = {}]
  BY <1>1 DEF holding
<1>5. \A x \in Thread : holding'[x] \subseteq holding[x]
  BY <1>1 DEF holding
<1>6. Promise!Release(t)
  BY <1>4 DEF Promise!Release
<1>. QED
  BY <1>1, <1>2, <1>3, <1>5, <1>6, SameAdders, FewerHolders DEF Inv, Counters

\* Every step keeps the invariant and is a step of Admission, or none.
LEMMA InvStep == Inv /\ [Next]_limiterVars => Inv' /\ [Promise!Next]_holding
<1> SUFFICES ASSUME Inv, [Next]_limiterVars
             PROVE  Inv' /\ [Promise!Next]_holding
  OBVIOUS
<1>1. ASSUME NEW t \in Thread, Step(t)
      PROVE  Inv' /\ [Promise!Next]_holding
  BY <1>1, CallStep, TakeLockStep, PassStep, RefuseStep, CountStep, YieldStep, UncountStep,
     LeaveStep DEF Step, Inside, Promise!Next
<1>2. CASE UNCHANGED limiterVars
  <2>1. holding' = holding
    BY <1>2 DEF limiterVars, holding
  <2>. QED
    BY <1>2, <2>1, SameAdders, FewerHolders
       DEF limiterVars, Inv, TypeOK, Counters, ThreadOK
<1>. QED
  BY <1>1, <1>2 DEF Next

LEMMA Invariance == Spec => []Inv
<1>1. Inv /\ [Next]_limiterVars => Inv'
  BY InvStep
<1>. QED
  BY <1>1, InvInit, PTL DEF Spec

\* The three counters, taken and given back one at a time under the lock, are one
\* admission and one release.
THEOREM KeepsItsPromise == Spec => KeepsPromise
<1>1. Init => Promise!Init
  BY DEF Init, Promise!Init, holding
<1>2. Inv /\ [Next]_limiterVars => [Promise!Next]_holding
  BY InvStep
<1>. QED
  BY <1>1, <1>2, Invariance, PTL DEF Spec, KeepsPromise, Promise!Spec

\* No limit is ever exceeded, with any number of threads.
THEOREM LimitsAlwaysHeld == Spec => []LimitsHeld
<1>1. Inv => LimitsHeld
  <2> SUFFICES ASSUME Inv, NEW key \in Key
               PROVE  Cardinality({t \in Thread : at[t] = "inside" /\ key \in keys[t]}) <= Limit[key]
    BY DEF LimitsHeld
  <2> DEFINE inside == {t \in Thread : at[t] = "inside" /\ key \in keys[t]}
  <2>1. inside \subseteq Holders(key)
    BY DEF Holders, holding
  <2>2. Cardinality(inside) <= Cardinality(Holders(key))
    BY <2>1, ThreadSets, FS_Subset DEF Holders
  <2>3. Cardinality(inside) \in Nat /\ Cardinality(Holders(key)) \in Nat /\ Limit[key] \in Nat
    BY ThreadSets, LimitType DEF Holders
  <2>. QED
    BY <2>2, <2>3 DEF Inv, Counters
<1>. QED
  BY <1>1, Invariance, PTL

\* Whenever the lock is free, every counter is the number of calls inside.
THEOREM CountersAreExact == Spec => [](TypeOK /\ CountsExact)
<1>1. Inv => TypeOK /\ CountsExact
  <2> SUFFICES ASSUME Inv, lock = NoThread, NEW key \in Key
               PROVE  Adders(key) = {t \in Thread : at[t] \in {"inside", "leaving"}
                                                    /\ key \in keys[t]}
    BY DEF Inv, Counters, CountsExact
  <2>1. \A t \in Thread : at[t] \notin Locking
    BY DEF Inv, Counters, ThreadOK
  <2>. QED
    BY <2>1 DEF Adders, Locking, Inv, Counters, ThreadOK, TypeOK, Place
<1>. QED
  BY <1>1, Invariance, PTL


\* No counter is ever negative, with any number of threads.
THEOREM TypeCorrect == Spec => []TypeOK
<1>1. Inv => TypeOK
  BY DEF Inv
<1>. QED
  BY <1>1, Invariance, PTL

\* acquire() refuses only a call one of whose keys is in use up to its limit: what it
\* counts under the lock is who is inside, not who is on the way in or out.
THEOREM RefusalsAreJust == Spec => RefusedWhenFull
<1>1. Inv /\ [Next]_limiterVars =>
          [\A t \in Thread : (at[t] = "checking" /\ at'[t] = "out") =>
               \E key \in keys[t] :
                   Cardinality({x \in Thread : at[x] \in {"inside", "leaving"}
                                               /\ key \in keys[x]}) >= Limit[key]]_limiterVars
  <2> SUFFICES ASSUME Inv, Next, NEW t \in Thread, at[t] = "checking", at'[t] = "out"
               PROVE  \E key \in keys[t] :
                          Cardinality({x \in Thread : at[x] \in {"inside", "leaving"}
                                                      /\ key \in keys[x]}) >= Limit[key]
    OBVIOUS
  <2>1. Refuse(t)
    <3>1. PICK x \in Thread : Step(x)
      BY DEF Next
    <3>2. x = t
      BY <3>1 DEF Step, Inside, Call, TakeLock, Pass, Refuse, Count, Yield, Finish, Uncount,
                  Leave, Goto, Inv, TypeOK
    <3>. QED
      BY <3>1, <3>2 DEF Step, Inside, Call, TakeLock, Pass, Refuse, Count, Yield, Finish,
                        Uncount, Leave, Goto, Inv, TypeOK
  <2>2. PICK key \in keys[t] : ~(counts[key] < Limit[key])
    BY <2>1 DEF Refuse, Room
  <2>3. key \in Key /\ counts[key] \in Nat /\ Limit[key] \in Nat
    BY <2>2, LimitType DEF Inv, TypeOK
  <2>4. Adders(key) = {x \in Thread : at[x] \in {"inside", "leaving"} /\ key \in keys[x]}
    <3>1. \A x \in Thread : at[x] \notin {"counting", "uncounting"}
      BY DEF Inv, Counters, ThreadOK, Locking
    <3>. QED
      BY <3>1 DEF Adders, Inv, Counters, ThreadOK, TypeOK, Place
  <2>5. counts[key] = Cardinality({x \in Thread : at[x] \in {"inside", "leaving"}
                                                 /\ key \in keys[x]})
    BY <2>3, <2>4 DEF Inv, Counters
  <2>6. counts[key] >= Limit[key]
    BY <2>2, <2>3
  <2>. QED
    BY <2>5, <2>6, Zenon
<1>. QED
  BY <1>1, Invariance, PTL DEF Spec, RefusedWhenFull

=============================================================================
