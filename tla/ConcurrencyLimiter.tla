-------------------------- MODULE ConcurrencyLimiter --------------------------
(***************************************************************************)
(* The ConcurrencyLimiter of orchestration.py, shared by threads that run  *)
(* tasks of one Orchestrator.  acquire() takes the lock, checks all three  *)
(* counters, adds one to each of them in turn and gives the lock back; its *)
(* finally clause takes the lock again and subtracts.  A step of this      *)
(* module is one such operation; nothing but the lock keeps threads apart. *)
(*                                                                         *)
(* can_acquire() changes nothing and has no caller outside the tests.      *)
(***************************************************************************)
EXTENDS Integers, FiniteSets

CONSTANTS
    Thread,      \* the threads that call acquire()
    NoThread,    \* the holder of a free lock
    Target, Tool, Node,              \* the names it is called with
    PerTarget, PerTool, PerNode      \* the limits

ASSUME LimiterAssumption ==
    /\ IsFiniteSet(Thread)
    /\ NoThread \notin Thread
    /\ {PerTarget, PerTool, PerNode} \subseteq Nat \ {0}

VARIABLES
    counts,   \* _counts; a key that is absent there counts 0
    lock,     \* the thread that holds _lock
    at,       \* where each thread is in acquire()
    keys,     \* the keys of its call
    counted   \* history: the keys it has added and not subtracted

limiterVars == <<counts, lock, at, keys, counted>>

Key == ({"target"} \X Target) \cup ({"tool"} \X Tool) \cup ({"node"} \X Node)

Limit == [key \in Key |-> CASE key[1] = "target" -> PerTarget
                            [] key[1] = "tool"   -> PerTool
                            [] OTHER             -> PerNode]

Keys(target, tool, node) == {<<"target", target>>, <<"tool", tool>>, <<"node", node>>}

Demand == {Keys(target, tool, node) : target \in Target, tool \in Tool, node \in Node}

Place == {"out", "entering", "checking", "counting", "inside", "leaving", "uncounting"}

-----------------------------------------------------------------------------

Init ==
    /\ counts = [key \in Key |-> 0]
    /\ lock = NoThread
    /\ at = [t \in Thread |-> "out"]
    /\ keys = [t \in Thread |-> {}]
    /\ counted = [t \in Thread |-> {}]

Goto(t, place) == at' = [at EXCEPT ![t] = place]

Call(t) ==
    /\ at[t] = "out"
    /\ \E demand \in Demand : keys' = [keys EXCEPT ![t] = demand]
    /\ Goto(t, "entering")
    /\ UNCHANGED <<counts, lock, counted>>

\* A slip: no lock.
TakeNoLock(t, from, to) ==
    /\ at[t] = from
    /\ lock' = t
    /\ Goto(t, to)
    /\ UNCHANGED <<counts, keys, counted>>

\* with self._lock, on the way in and in the finally clause.
TakeLock(t, from, to) ==
    /\ at[t] = from
    /\ lock = NoThread
    /\ lock' = t
    /\ Goto(t, to)
    /\ UNCHANGED <<counts, keys, counted>>

\* A slip: the limit itself is let in.
RoomAtLimit(t) == \A key \in keys[t] : counts[key] <= Limit[key]

Room(t) == \A key \in keys[t] : counts[key] < Limit[key]

Pass(t) ==
    /\ at[t] = "checking"
    /\ Room(t)
    /\ Goto(t, "counting")
    /\ UNCHANGED <<counts, lock, keys, counted>>

\* A slip: the exception leaves the lock taken.
RefuseLocked(t) ==
    /\ at[t] = "checking"
    /\ ~Room(t)
    /\ Goto(t, "out")
    /\ keys' = [keys EXCEPT ![t] = {}]
    /\ UNCHANGED <<counts, lock, counted>>

\* ConcurrencyLimitExceeded
Refuse(t) ==
    /\ at[t] = "checking"
    /\ ~Room(t)
    /\ lock' = NoThread
    /\ Goto(t, "out")
    /\ keys' = [keys EXCEPT ![t] = {}]
    /\ UNCHANGED <<counts, counted>>

Count(t) ==
    /\ at[t] = "counting"
    /\ \E key \in keys[t] \ counted[t] :
           /\ counts' = [counts EXCEPT ![key] = @ + 1]
           /\ counted' = [counted EXCEPT ![t] = @ \cup {key}]
    /\ UNCHANGED <<lock, at, keys>>

\* The lock is released and the body of the with statement runs.
Yield(t) ==
    /\ at[t] = "counting"
    /\ counted[t] = keys[t]
    /\ lock' = NoThread
    /\ Goto(t, "inside")
    /\ UNCHANGED <<counts, keys, counted>>

\* A slip: no finally clause, an exception in the body skips the rest.
FinishUnguarded(t) ==
    /\ at[t] = "inside"
    /\ \/ Goto(t, "leaving") /\ UNCHANGED keys
       \/ Goto(t, "out") /\ keys' = [keys EXCEPT ![t] = {}]
    /\ UNCHANGED <<counts, lock, counted>>

\* The body returns, or raises: finally.
Finish(t) ==
    /\ at[t] = "inside"
    /\ Goto(t, "leaving")
    /\ UNCHANGED <<counts, lock, keys, counted>>

\* A slip: all three are subtracted for each of the three.
UncountAll(t) ==
    /\ at[t] = "uncounting"
    /\ \E key \in counted[t] :
           /\ counts' = [k \in Key |-> IF k \in keys[t] THEN counts[k] - 1 ELSE counts[k]]
           /\ counted' = [counted EXCEPT ![t] = @ \ {key}]
    /\ UNCHANGED <<lock, at, keys>>

Uncount(t) ==
    /\ at[t] = "uncounting"
    /\ \E key \in counted[t] :
           /\ counts' = [counts EXCEPT ![key] = @ - 1]
           /\ counted' = [counted EXCEPT ![t] = @ \ {key}]
    /\ UNCHANGED <<lock, at, keys>>

\* A slip: the loop is left before all three are subtracted.
LeaveEarly(t) ==
    /\ at[t] = "uncounting"
    /\ counted[t] # keys[t]
    /\ lock' = NoThread
    /\ Goto(t, "out")
    /\ keys' = [keys EXCEPT ![t] = {}]
    /\ counted' = [counted EXCEPT ![t] = {}]
    /\ UNCHANGED counts

Leave(t) ==
    /\ at[t] = "uncounting"
    /\ counted[t] = {}
    /\ lock' = NoThread
    /\ Goto(t, "out")
    /\ keys' = [keys EXCEPT ![t] = {}]
    /\ UNCHANGED <<counts, counted>>

Inside(t) ==
    \/ Pass(t) \/ Refuse(t) \/ Count(t) \/ Yield(t) \/ Uncount(t) \/ Leave(t)

Step(t) ==
    \/ Call(t)
    \/ TakeLock(t, "entering", "checking")
    \/ Inside(t)
    \/ Finish(t)
    \/ TakeLock(t, "leaving", "uncounting")

Next == \E t \in Thread : Step(t)

\* A thread that holds the lock is scheduled.
Spec == Init /\ [][Next]_limiterVars /\ \A t \in Thread : WF_limiterVars(Inside(t))

-----------------------------------------------------------------------------

\* A call holds its keys from the check that lets it pass until it has left.
holding ==
    [t \in Thread |-> IF at[t] \in {"counting", "inside", "leaving", "uncounting"}
                      THEN keys[t] ELSE {}]

Promise == INSTANCE Admission WITH
    Thread <- Thread, Key <- Key, Demand <- Demand, Limit <- Limit, holding <- holding

\* TypeOK: no counter is ever negative, the lock is free or held, and each thread is
\* somewhere in its call.
TypeOK ==
    /\ counts \in [Key -> Nat]
    /\ lock \in Thread \cup {NoThread}
    /\ at \in [Thread -> Place]
    /\ keys \in [Thread -> SUBSET Key]
    /\ counted \in [Thread -> SUBSET Key]

\* LimitsHeld: no more threads run between the two halves of acquire() with one
\* target, tool or node than its limit says, whatever the other threads are doing.
LimitsHeld ==
    \A key \in Key :
        Cardinality({t \in Thread : at[t] = "inside" /\ key \in keys[t]}) <= Limit[key]

\* CountsExact: whenever the lock is free, each counter is the number of calls that
\* were let in and have not left: bodies that raise leak nothing.
CountsExact ==
    lock = NoThread =>
        \A key \in Key :
            counts[key] = Cardinality({t \in Thread : at[t] \in {"inside", "leaving"}
                                                      /\ key \in keys[t]})

\* RefusedWhenFull: acquire() refuses only if one of the three is in use up to its
\* limit at that moment: a refusal fails a whole task, so a spurious one matters.
RefusedWhenFull ==
    [][\A t \in Thread : (at[t] = "checking" /\ at'[t] = "out") =>
           \E key \in keys[t] :
               Cardinality({x \in Thread : at[x] \in {"inside", "leaving"}
                                           /\ key \in keys[x]}) >= Limit[key]]_limiterVars

\* LockReleased: no path through acquire() keeps the lock, refusals included.
LockReleased == \A t \in Thread : lock = t ~> lock # t

\* KeepsPromise: the three counters, taken one at a time, behave as one admission.
KeepsPromise == Promise!Spec

=============================================================================
