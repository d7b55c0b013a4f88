------------------------------ MODULE Admission ------------------------------
(***************************************************************************)
(* What a concurrency limiter promises: whoever is admitted holds a set of *)
(* keys until it leaves, nobody waits, and no key is ever held more often  *)
(* than its limit.  ConcurrencyLimiter implements this.                    *)
(***************************************************************************)
EXTENDS Integers, FiniteSets

CONSTANTS
    Thread,   \* who may be admitted
    Key,      \* what is limited
    Demand,   \* the sets of keys that are asked for together
    Limit     \* how many may hold each key

VARIABLE holding

Holders(key) == {t \in Thread : key \in holding[t]}

Init == holding = [t \in Thread |-> {}]

Admit(t, demand) ==
    /\ holding[t] = {}
    /\ \A key \in demand : Cardinality(Holders(key)) < Limit[key]
    /\ holding' = [holding EXCEPT ![t] = demand]

Release(t) == holding' = [holding EXCEPT ![t] = {}]

Next == \E t \in Thread : Release(t) \/ \E demand \in Demand : Admit(t, demand)

Spec == Init /\ [][Next]_holding

HoldingOK == holding \in [Thread -> SUBSET Key]

\* LimitsHeld: no target, tool or node is held more often than its limit.
LimitsHeld == \A key \in Key : Cardinality(Holders(key)) <= Limit[key]

=============================================================================
