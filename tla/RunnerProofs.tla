----------------------------- MODULE RunnerProofs -----------------------------
(***************************************************************************)
(* Proofs about the circuit breaker of Runner, for any number of threads   *)
(* and any thresholds: it is open exactly from its threshold on, and the   *)
(* calls that were let in before are all that can still fail.              *)
(***************************************************************************)
EXTENDS Runner, FiniteSetTheorems, TLAPS

\* The part of the type that the breaker depends on.
BreakerType ==
    /\ failures \in Nat
    /\ openFor \in {NotOpen} \cup 0..ResetAfter
    /\ at \in [Thread -> Place]

Breaker == BreakerType /\ OpenAtThreshold /\ FailuresBounded

USE RunnerAssumption

-----------------------------------------------------------------------------

LEMMA Sizes ==
    ASSUME NEW S \in SUBSET Thread
    PROVE  /\ Cardinality(S) \in Nat
           /\ Cardinality(Thread) \in Nat
           /\ Cardinality(S) <= Cardinality(Thread)
BY FS_Subset, FS_CardinalityType

\* A call that ends makes room for one.
LEMMA OneFewerInCall ==
    ASSUME BreakerType, NEW t \in Thread, at[t] # "out", Goto(t, "out")
    PROVE  Cardinality(InCall') = Cardinality(InCall) - 1
<1>1. InCall' = InCall \ {t} /\ t \in InCall
  BY DEF BreakerType, Goto, InCall
<1>2. IsFiniteSet(InCall)
  BY FS_Subset DEF InCall
<1>. QED
  BY <1>1, <1>2, FS_RemoveElement

LEMMA BreakerInit == Init => Breaker
<1> SUFFICES ASSUME Init PROVE Breaker
  OBVIOUS
<1>1. InCall = {}
  BY DEF Init, InCall
<1>2. Cardinality(InCall) = 0 /\ Cardinality(Thread) \in Nat
  BY <1>1, FS_EmptySet, FS_CardinalityType
<1>. QED
  BY <1>2 DEF Init, Breaker, BreakerType, OpenAtThreshold, FailuresBounded, NotOpen, Place

LEMMA RunStep ==
    ASSUME Breaker, NEW t \in Thread, Run(t)
    PROVE  Breaker'
<1>1. Goto(t, "process")
  BY DEF Run, StartProcess
<1>2. BreakerType' /\ OpenAtThreshold' /\ failures' < Threshold
  BY <1>1 DEF Run, EnsureClosed, Close, Breaker, BreakerType, OpenAtThreshold, NotOpen, Goto, Place
<1>3. failures' \in Nat
  BY <1>2 DEF BreakerType
<1>4. FailuresBounded'
  <2>1. InCall' \in SUBSET Thread
    BY DEF InCall
  <2>. QED
    BY <1>2, <1>3, <2>1, Sizes DEF FailuresBounded
<1>. QED
  BY <1>2, <1>4 DEF Breaker

\* Inside a call nothing touches the breaker, until the call reports.
LEMMA CallStep ==
    ASSUME Breaker, NEW t \in Thread,
           ProcessSucceeds(t) \/ ProcessFails(t) \/ Wake(t)
    PROVE  Breaker'
<1>1. PICK place \in Place \ {"out"} : Goto(t, place)
  BY DEF ProcessSucceeds, ProcessFails, Wake, StartProcess, Place
<1>2. at[t] # "out" /\ UNCHANGED <<failures, openFor>>
  BY DEF ProcessSucceeds, ProcessFails, Wake, StartProcess
<1>3. at' \in [Thread -> Place] /\ InCall' = InCall
  BY <1>1, <1>2 DEF Breaker, BreakerType, Goto, InCall
<1>. QED
  BY <1>2, <1>3 DEF Breaker, BreakerType, OpenAtThreshold, FailuresBounded

LEMMA LeaveStep ==
    ASSUME Breaker, NEW t \in Thread,
           ProcessRaises(t) \/ RecordSuccess(t) \/ RecordFailure(t)
    PROVE  Breaker'
<1>1. at[t] # "out" /\ Goto(t, "out")
  BY DEF ProcessRaises, RecordSuccess, RecordFailure, Return
<1>2. Cardinality(InCall') = Cardinality(InCall) - 1
  BY <1>1, OneFewerInCall DEF Breaker
<1>3. /\ Cardinality(InCall) \in Nat
      /\ Cardinality(Thread) \in Nat
      /\ Cardinality(InCall) <= Cardinality(Thread)
  BY Sizes DEF InCall
<1>4. at' \in [Thread -> Place]
  BY <1>1 DEF Breaker, BreakerType, Goto, Place
<1>5. CASE ProcessRaises(t)
  BY <1>2, <1>3, <1>4, <1>5
     DEF ProcessRaises, Breaker, BreakerType, OpenAtThreshold, FailuresBounded
<1>6. CASE RecordSuccess(t)
  BY <1>2, <1>3, <1>4, <1>6
     DEF RecordSuccess, Close, Breaker, BreakerType, OpenAtThreshold, FailuresBounded, NotOpen
<1>7. CASE RecordFailure(t)
  <2>1. failures' = failures + 1 /\ openFor' = IF failures' >= Threshold THEN 0 ELSE openFor
    BY <1>7 DEF RecordFailure
  <2>2. BreakerType' /\ OpenAtThreshold'
    BY <1>4, <2>1 DEF Breaker, BreakerType, OpenAtThreshold, NotOpen
  <2>3. FailuresBounded'
    BY <1>2, <1>3, <2>1 DEF Breaker, BreakerType, FailuresBounded
  <2>. QED
    BY <2>2, <2>3 DEF Breaker
<1>. QED
  BY <1>5, <1>6, <1>7

LEMMA TickStep ==
    ASSUME Breaker, Tick
    PROVE  Breaker'
<1>1. /\ UNCHANGED <<failures, at>>
      /\ openFor' = IF openFor \in 0..(ResetAfter - 1) THEN openFor + 1 ELSE openFor
  BY DEF Tick
<1>2. BreakerType' /\ OpenAtThreshold'
  BY <1>1 DEF Breaker, BreakerType, OpenAtThreshold, NotOpen
<1>3. FailuresBounded'
  BY <1>1 DEF Breaker, FailuresBounded, InCall
<1>. QED
  BY <1>2, <1>3 DEF Breaker

LEMMA BreakerStep == Breaker /\ [Next]_runnerVars => Breaker'
<1> SUFFICES ASSUME Breaker, [Next]_runnerVars PROVE Breaker'
  OBVIOUS
<1>1. CASE UNCHANGED runnerVars
  BY <1>1 DEF runnerVars, Breaker, BreakerType, OpenAtThreshold, FailuresBounded, InCall
<1>. QED
  BY <1>1, RunStep, CallStep, LeaveStep, TickStep DEF Next

\* Late reports included, the breaker is open exactly from the threshold on, and the
\* failures it counts are bounded by the calls that were inside.
THEOREM BreakerCorrect == Spec => [](OpenAtThreshold /\ FailuresBounded)
<1>1. Breaker => OpenAtThreshold /\ FailuresBounded
  BY DEF Breaker
<1>. QED
  BY <1>1, BreakerInit, BreakerStep, PTL DEF Spec


\* The failures an open breaker counts are those of calls that were inside.
THEOREM FailuresAreBounded == Spec => []FailuresBounded
<1>1. Breaker => FailuresBounded
  BY DEF Breaker
<1>. QED
  BY <1>1, BreakerInit, BreakerStep, PTL DEF Spec

-----------------------------------------------------------------------------

\* What the attempts up to one of this number, and the pauses between them, may take.
Budget(attempt) == attempt * Timeout + Backoff * (2^(attempt - 1) - 1)

\* A call has what it has spent and the ticks it still has in the budget of its attempt.
InBudget(t) ==
    /\ call[t].attempt \in 1..(call[t].retries + 1)
    /\ at[t] = "process" => call[t].spent + call[t].left <= Budget(call[t].attempt)
    /\ at[t] = "sleep" =>
           /\ call[t].attempt <= call[t].retries
           /\ call[t].spent + call[t].left <= Budget(call[t].attempt) + Pause(call[t].attempt)
    /\ at[t] \in {"succeeded", "failed"} => call[t].spent <= Budget(call[t].attempt)

CallType == [retries : Retries \cup {0}, attempt : Nat, left : Nat, spent : Nat]

Calls ==
    /\ at \in [Thread -> Place]
    /\ call \in [Thread -> CallType]
    /\ \A t \in InCall : InBudget(t)

-----------------------------------------------------------------------------

\* Powers of two are numbers of subsets.
LEMMA PowerIsCardinality ==
    ASSUME NEW n \in Nat
    PROVE  IsFiniteSet(SUBSET (1..n)) /\ Cardinality(SUBSET (1..n)) = 2^n
<1>1. IsFiniteSet(1..n) /\ Cardinality(1..n) = IF 1 > n THEN 0 ELSE n - 1 + 1
  BY ONLY FS_Interval, n \in Nat, 1 \in Int, n \in Int, Zenon
<1>2. IsFiniteSet(1..n) /\ Cardinality(1..n) = n
  BY <1>1
<1>. QED
  BY <1>2, FS_SUBSET

LEMMA PowerType == \A n \in Nat : 2^n \in Nat \ {0}
<1> TAKE n \in Nat
<1>1. 2^n \in Nat
  BY PowerIsCardinality, FS_CardinalityType
<1>2. {} \in SUBSET (1..n)
  OBVIOUS
<1>3. 2^n # 0
  BY <1>2, PowerIsCardinality, FS_EmptySet
<1>. QED
  BY <1>1, <1>3

LEMMA PowerMonotone ==
    ASSUME NEW m \in Nat, NEW n \in Nat, m <= n
    PROVE  2^m <= 2^n
<1>1. SUBSET (1..m) \subseteq SUBSET (1..n)
  OBVIOUS
<1>2. Cardinality(SUBSET (1..m)) <= Cardinality(SUBSET (1..n))
  BY <1>1, PowerIsCardinality, FS_Subset
<1>. QED
  BY <1>2, PowerIsCardinality

\* The subsets with n + 1 are as many as those without.
LEMMA PowerDoubles ==
    ASSUME NEW n \in Nat
    PROVE  2^(n + 1) = 2^n + 2^n
<1> DEFINE without == SUBSET (1..n)
           with == {T \in SUBSET (1..(n + 1)) : n + 1 \in T}
           f == [T \in without |-> T \cup {n + 1}]
<1>1. f \in Bijection(without, with)
  <2>1. \A T \in without : T \cup {n + 1} \in with
    <3>1. 1..(n + 1) = (1..n) \cup {n + 1}
      OBVIOUS
    <3>. QED
      BY <3>1
  <2>2. \A S, T \in without : S \cup {n + 1} = T \cup {n + 1} => S = T
    <3>1. n + 1 \notin 1..n
      OBVIOUS
    <3>. QED
      BY <3>1
  <2>3. \A T \in with : T \ {n + 1} \in without /\ T = (T \ {n + 1}) \cup {n + 1}
    <3>1. \A x \in 1..(n + 1) : x # n + 1 => x \in 1..n
      OBVIOUS
    <3>. QED
      BY <3>1
  <2>4. f \in [without -> with]
    BY <2>1
  <2>5. \A S, T \in without : f[S] = f[T] => S = T
    BY <2>2
  <2>6. \A T \in with : \E S \in without : f[S] = T
    BY <2>3
  <2>. QED
    BY <2>4, <2>5, <2>6 DEF Bijection, Injection, Surjection, IsInjective
<1>2. IsFiniteSet(without) /\ Cardinality(without) = 2^n
  BY PowerIsCardinality
<1>3. IsFiniteSet(with) /\ Cardinality(with) = 2^n
  BY <1>1, <1>2, FS_Bijection DEF ExistsBijection
<1>4. without \cup with = SUBSET (1..(n + 1)) /\ without \cap with = {}
  <2>1. 1..(n + 1) = (1..n) \cup {n + 1} /\ n + 1 \notin 1..n
    OBVIOUS
  <2>. QED
    BY <2>1
<1>5. Cardinality(without \cup with) = 2^n + 2^n - 0
  <2> HIDE DEF without, with
  <2>1. Cardinality(without \cup with)
            = Cardinality(without) + Cardinality(with) - Cardinality(without \cap with)
    BY <1>2, <1>3, FS_Union
  <2>. QED
    BY <1>2, <1>3, <1>4, <2>1, FS_EmptySet
<1>6. Cardinality(SUBSET (1..(n + 1))) = 2^(n + 1)
  BY PowerIsCardinality
<1>. QED
  BY <1>4, <1>5, <1>6, PowerType

LEMMA PauseType == \A n \in Nat \ {0} : Pause(n) \in Nat
<1> TAKE n \in Nat \ {0}
<1>1. 2^(n - 1) \in Nat
  BY PowerType
<1>. QED
  BY <1>1 DEF Pause

LEMMA BudgetType == \A n \in Nat \ {0} : Budget(n) \in Nat
<1> TAKE n \in Nat \ {0}
<1> DEFINE p == 2^(n - 1)
<1>1. p \in Nat \ {0}
  BY PowerType
<1>2. p - 1 \in Nat
  BY <1>1
<1> HIDE DEF p
<1>3. Backoff * (p - 1) \in Nat /\ n * Timeout \in Nat
  BY <1>2
<1>. QED
  BY <1>3 DEF Budget, p

\* After the first attempt, each has its pause and its timeout.
LEMMA BudgetGrows ==
    ASSUME NEW n \in Nat \ {0}
    PROVE  Budget(n + 1) = Budget(n) + Pause(n) + Timeout
<1> DEFINE p == 2^(n - 1)
<1>1. p \in Nat /\ 2^n = p + p
  BY PowerType, PowerDoubles
<1>2. Budget(n + 1) = (n + 1) * Timeout + Backoff * (p + p - 1)
  BY <1>1 DEF Budget
<1>3. Budget(n) = n * Timeout + Backoff * (p - 1) /\ Pause(n) = Backoff * p
  BY DEF Budget, Pause
<1> HIDE DEF p
<1>4. Backoff * (p + p - 1) = Backoff * (p - 1) + Backoff * p
  BY <1>1
<1>5. (n + 1) * Timeout = n * Timeout + Timeout
  OBVIOUS
<1>6. Backoff * (p - 1) \in Int /\ Backoff * p \in Int /\ n * Timeout \in Int
  BY <1>1
<1>. QED
  BY <1>2, <1>3, <1>4, <1>5, <1>6

LEMMA BudgetMonotone ==
    ASSUME NEW m \in Nat \ {0}, NEW n \in Nat \ {0}, m <= n
    PROVE  Budget(m) <= Budget(n)
<1> DEFINE p == 2^(m - 1)
           q == 2^(n - 1)
<1>1. p \in Nat /\ q \in Nat /\ p <= q
  BY PowerType, PowerMonotone
<1>2. Budget(m) = m * Timeout + Backoff * (p - 1) /\ Budget(n) = n * Timeout + Backoff * (q - 1)
  BY DEF Budget
<1> HIDE DEF p, q
<1>3. Backoff * (p - 1) <= Backoff * (q - 1) /\ m * Timeout <= n * Timeout
  BY <1>1
<1>4. /\ Backoff * (p - 1) \in Int /\ Backoff * (q - 1) \in Int
      /\ m * Timeout \in Int /\ n * Timeout \in Int
  BY <1>1
<1>. QED
  BY <1>2, <1>3, <1>4

-----------------------------------------------------------------------------

LEMMA CallFields ==
    ASSUME NEW c \in CallType
    PROVE  c.retries \in Nat /\ c.attempt \in Nat /\ c.left \in Nat /\ c.spent \in Nat
<1>1. Retries \cup {0} \subseteq Nat
  OBVIOUS
<1>. QED
  BY <1>1 DEF CallType

LEMMA AttemptFields ==
    ASSUME NEW c \in CallType, NEW d, d = [c EXCEPT !.attempt = @ + 1, !.left = Timeout]
    PROVE  /\ d \in CallType /\ d.attempt = c.attempt + 1 /\ d.left = Timeout
           /\ d.retries = c.retries /\ d.spent = c.spent
<1>1. PICK attempt \in Nat : attempt = c.attempt + 1
  BY CallFields
<1>2. d = [c EXCEPT !.attempt = attempt, !.left = Timeout]
  BY <1>1
<1>3. /\ d \in CallType /\ d.attempt = attempt /\ d.left = Timeout
      /\ d.retries = c.retries /\ d.spent = c.spent
  BY <1>2 DEF CallType
<1>. QED
  BY <1>1, <1>3

LEMMA TickedFields ==
    ASSUME NEW c \in CallType, c.left > 0, NEW d, d = [c EXCEPT !.left = @ - 1, !.spent = @ + 1]
    PROVE  /\ d \in CallType /\ d.left = c.left - 1 /\ d.spent = c.spent + 1
           /\ d.retries = c.retries /\ d.attempt = c.attempt
<1>1. PICK left \in Nat, spent \in Nat : left = c.left - 1 /\ spent = c.spent + 1
  <2>1. c.left - 1 \in Nat /\ c.spent + 1 \in Nat
    BY CallFields
  <2>. QED
    BY <2>1
<1>2. d = [c EXCEPT !.left = left, !.spent = spent]
  BY <1>1
<1>3. /\ d \in CallType /\ d.left = left /\ d.spent = spent
      /\ d.retries = c.retries /\ d.attempt = c.attempt
  BY <1>2 DEF CallType
<1>. QED
  BY <1>1, <1>3

\* A thread moves and its call changes; the others stay.
LEMMA OneCall ==
    ASSUME Calls, NEW t \in Thread, NEW place \in Place, Goto(t, place),
           call' \in [Thread -> CallType], \A x \in Thread \ {t} : call'[x] = call[x],
           place = "out" \/ InBudget(t)'
    PROVE  Calls'
<1>1. /\ at' \in [Thread -> Place] /\ at'[t] = place
      /\ \A x \in Thread \ {t} : at'[x] = at[x]
  BY DEF Calls, Goto
<1>2. \A x \in InCall' : InBudget(x)'
  <2> SUFFICES ASSUME NEW x \in Thread, at'[x] # "out" PROVE InBudget(x)'
    BY DEF InCall
  <2>1. CASE x = t
    BY <1>1, <2>1
  <2>2. CASE x # t
    BY <1>1, <2>2 DEF Calls, InCall, InBudget
  <2>. QED
    BY <2>1, <2>2
<1>. QED
  BY <1>1, <1>2 DEF Calls

LEMMA CallsInit == Init => Calls
BY DEF Init, Calls, CallType, NoCall, InCall, Place

LEMMA RunCalls ==
    ASSUME Calls, NEW t \in Thread, Run(t)
    PROVE  Calls'
<1>1. PICK retries \in Retries : StartProcess(t, [NoCall EXCEPT !.retries = retries])
  BY DEF Run
<1> DEFINE b == [NoCall EXCEPT !.retries = retries]
           c == [b EXCEPT !.attempt = @ + 1, !.left = Timeout]
<1>2. Goto(t, "process") /\ call' = [call EXCEPT ![t] = c]
  BY <1>1 DEF StartProcess
<1>3. /\ c \in CallType /\ c.attempt = 1 /\ c.left = Timeout /\ c.spent = 0
      /\ c.retries \in Nat
  <2>1. b \in CallType /\ b.attempt = 0 /\ b.spent = 0 /\ b.retries \in Nat
    BY DEF NoCall, CallType
  <2> HIDE DEF b
  <2>2. /\ c \in CallType /\ c.attempt = b.attempt + 1 /\ c.left = Timeout
        /\ c.retries = b.retries /\ c.spent = b.spent
    BY <2>1, AttemptFields
  <2> HIDE DEF c
  <2>. QED
    BY <2>1, <2>2
<1> HIDE DEF c
<1>4. /\ call' \in [Thread -> CallType] /\ call'[t] = c
      /\ \A x \in Thread \ {t} : call'[x] = call[x]
  BY <1>2, <1>3 DEF Calls
<1>5. Budget(1) = Timeout
  <2>1. 2^(1 - 1) = 1
    BY SMT
  <2>. QED
    BY <2>1 DEF Budget
<1>6. InBudget(t)'
  <2>1. at'[t] = "process"
    BY <1>2 DEF Goto, Calls
  <2>2. c.attempt \in 1..(c.retries + 1) /\ c.spent + c.left <= Budget(c.attempt)
    BY <1>3, <1>5
  <2>. QED
    BY <1>4, <2>1, <2>2 DEF InBudget
<1>. QED
  BY <1>2, <1>4, <1>6, OneCall DEF Place

LEMMA WakeCalls ==
    ASSUME Calls, NEW t \in Thread, Wake(t)
    PROVE  Calls'
<1> DEFINE c == call[t]
           d == [c EXCEPT !.attempt = @ + 1, !.left = Timeout]
<1>1. c \in CallType /\ at[t] = "sleep" /\ c.left = 0 /\ InBudget(t)
  BY DEF Wake, Calls, InCall
<1>2. /\ d \in CallType /\ d.attempt = c.attempt + 1 /\ d.left = Timeout
      /\ d.retries = c.retries /\ d.spent = c.spent
  <2> HIDE DEF c
  <2>. QED
    BY <1>1, AttemptFields
<1>3. Goto(t, "process") /\ call' = [call EXCEPT ![t] = d]
  BY DEF Wake, StartProcess
<1> HIDE DEF d
<1>4. /\ call' \in [Thread -> CallType] /\ call'[t] = d
      /\ \A x \in Thread \ {t} : call'[x] = call[x]
  BY <1>2, <1>3 DEF Calls
<1>5. at'[t] = "process"
  BY <1>3 DEF Goto, Calls
<1>6. /\ c.retries \in Nat /\ c.attempt \in Nat \ {0} /\ c.attempt <= c.retries
      /\ c.spent \in Nat /\ c.spent + c.left <= Budget(c.attempt) + Pause(c.attempt)
  BY <1>1, CallFields DEF InBudget
<1>7. d.spent + d.left <= Budget(d.attempt)
  <2>1. Budget(c.attempt + 1) = Budget(c.attempt) + Pause(c.attempt) + Timeout
    BY <1>6, BudgetGrows
  <2>2. Budget(c.attempt) \in Nat /\ Pause(c.attempt) \in Nat
    BY <1>6, BudgetType, PauseType
  <2>. QED
    BY <1>1, <1>2, <1>6, <2>1, <2>2
<1> HIDE DEF c
<1>8. d.attempt \in 1..(d.retries + 1)
  BY <1>2, <1>6
<1>9. InBudget(t)'
  BY <1>4, <1>5, <1>7, <1>8 DEF InBudget
<1>. QED
  BY <1>3, <1>4, <1>9, OneCall DEF Place

LEMMA FailCalls ==
    ASSUME Calls, NEW t \in Thread, ProcessFails(t)
    PROVE  Calls'
<1> DEFINE c == call[t]
<1>1. c \in CallType /\ at[t] = "process" /\ InBudget(t)
  BY DEF ProcessFails, Calls, InCall
<1>2. /\ c.retries \in Nat /\ c.attempt \in Nat \ {0} /\ c.attempt <= c.retries + 1
      /\ c.spent \in Nat /\ c.left \in Nat /\ c.spent + c.left <= Budget(c.attempt)
  BY <1>1, CallFields DEF InBudget
<1>3. Budget(c.attempt) \in Nat /\ Pause(c.attempt) \in Nat
  BY <1>2, BudgetType, PauseType
<1>4. CASE MayRetry(t)
  <2> DEFINE d == [c EXCEPT !.left = Pause(c.attempt)]
  <2>1. Goto(t, "sleep") /\ call' = [call EXCEPT ![t] = d]
    BY <1>4 DEF ProcessFails
  <2>2. /\ d \in CallType /\ d.attempt = c.attempt /\ d.left = Pause(c.attempt)
        /\ d.retries = c.retries /\ d.spent = c.spent
    BY <1>1, <1>3 DEF CallType
  <2>3. /\ call' \in [Thread -> CallType] /\ call'[t] = d
        /\ \A x \in Thread \ {t} : call'[x] = call[x]
    BY <2>1, <2>2 DEF Calls
  <2>4. at'[t] = "sleep"
    BY <2>1 DEF Goto, Calls
  <2>5. c.attempt <= c.retries
    BY <1>4 DEF MayRetry
  <2> HIDE DEF c, d
  <2>6. /\ d.attempt \in 1..(d.retries + 1) /\ d.attempt <= d.retries
        /\ d.spent + d.left <= Budget(d.attempt) + Pause(d.attempt)
    BY <1>2, <1>3, <2>2, <2>5
  <2>7. InBudget(t)'
    BY <2>3, <2>4, <2>6 DEF InBudget
  <2>. QED
    BY <2>1, <2>3, <2>7, OneCall DEF Place
<1>5. CASE ~MayRetry(t)
  <2>1. Goto(t, "failed") /\ call' = call
    BY <1>5 DEF ProcessFails
  <2>2. at'[t] = "failed"
    BY <2>1 DEF Goto, Calls
  <2>3. c.spent <= Budget(c.attempt) /\ c.attempt \in 1..(c.retries + 1)
    BY <1>2, <1>3
  <2>4. InBudget(t)'
    BY <2>1, <2>2, <2>3 DEF InBudget
  <2>. QED
    BY <2>1, <2>4, OneCall DEF Place, Calls
<1>. QED
  BY <1>4, <1>5

LEMMA SuccessCalls ==
    ASSUME Calls, NEW t \in Thread, ProcessSucceeds(t)
    PROVE  Calls'
<1> DEFINE c == call[t]
<1>1. c \in CallType /\ at[t] = "process" /\ InBudget(t)
  BY DEF ProcessSucceeds, Calls, InCall
<1>2. /\ c.attempt \in Nat \ {0} /\ c.attempt \in 1..(c.retries + 1)
      /\ c.spent \in Nat /\ c.left \in Nat /\ c.spent + c.left <= Budget(c.attempt)
  BY <1>1, CallFields DEF InBudget
<1>3. c.spent <= Budget(c.attempt)
  BY <1>2, BudgetType
<1>4. Goto(t, "succeeded") /\ call' = call
  BY DEF ProcessSucceeds
<1>5. at'[t] = "succeeded"
  BY <1>4 DEF Goto, Calls
<1>6. InBudget(t)'
  BY <1>2, <1>3, <1>4, <1>5 DEF InBudget
<1>. QED
  BY <1>4, <1>6, OneCall DEF Place, Calls

LEMMA ReturnCalls ==
    ASSUME Calls, NEW t \in Thread,
           ProcessRaises(t) \/ RecordSuccess(t) \/ RecordFailure(t)
    PROVE  Calls'
<1>1. Goto(t, "out") /\ call' = [call EXCEPT ![t] = NoCall]
  BY DEF ProcessRaises, RecordSuccess, RecordFailure, Return
<1>2. NoCall \in CallType
  BY DEF NoCall, CallType
<1>3. call' \in [Thread -> CallType] /\ \A x \in Thread \ {t} : call'[x] = call[x]
  BY <1>1, <1>2 DEF Calls
<1>. QED
  BY <1>1, <1>3, OneCall DEF Place

\* A tick moves from what is left of a call to what it has spent.
LEMMA TickCalls ==
    ASSUME Calls, Tick
    PROVE  Calls'
<1> DEFINE runs(t) == at[t] \in {"process", "sleep"}
           ticked(t) == [call[t] EXCEPT !.left = @ - 1, !.spent = @ + 1]
<1>1. at' = at /\ \A t \in Thread : runs(t) => call[t].left > 0
  BY DEF Tick
<1>2. call' = [t \in Thread |-> IF runs(t) THEN ticked(t) ELSE call[t]]
  BY DEF Tick
<1>3. \A t \in Thread : runs(t) =>
          /\ ticked(t) \in CallType /\ ticked(t).attempt = call[t].attempt
          /\ ticked(t).retries = call[t].retries
          /\ ticked(t).spent + ticked(t).left = call[t].spent + call[t].left
  <2> SUFFICES ASSUME NEW t \in Thread, runs(t)
               PROVE  /\ ticked(t) \in CallType /\ ticked(t).attempt = call[t].attempt
                      /\ ticked(t).retries = call[t].retries
                      /\ ticked(t).spent + ticked(t).left = call[t].spent + call[t].left
    OBVIOUS
  <2> DEFINE c == call[t]
  <2>1. c \in CallType /\ c.left > 0
    BY <1>1 DEF Calls
  <2> HIDE DEF c
  <2>2. /\ c.left - 1 \in Nat /\ c.spent + 1 \in Nat /\ c.attempt \in Nat
        /\ (c.spent + 1) + (c.left - 1) = c.spent + c.left
    BY <2>1, CallFields
  <2>3. ticked(t) = [c EXCEPT !.left = @ - 1, !.spent = @ + 1]
    BY DEF c
  <2>4. /\ ticked(t) \in CallType /\ ticked(t).attempt = c.attempt
        /\ ticked(t).retries = c.retries
        /\ ticked(t).left = c.left - 1 /\ ticked(t).spent = c.spent + 1
    <3> HIDE DEF ticked
    <3>. QED
      BY <2>1, <2>3, TickedFields
  <2> HIDE DEF ticked
  <2>5. ticked(t).spent + ticked(t).left = c.spent + c.left
    BY <2>2, <2>4
  <2>. QED
    BY <2>4, <2>5 DEF c
<1> HIDE DEF ticked
<1>4. call' \in [Thread -> CallType]
  BY <1>2, <1>3 DEF Calls
<1>5. \A t \in InCall' : InBudget(t)'
  <2> SUFFICES ASSUME NEW t \in Thread, at[t] # "out" PROVE InBudget(t)'
    BY <1>1 DEF InCall
  <2>1. InBudget(t)
    BY DEF Calls, InCall
  <2>2. CASE runs(t)
    <3>1. call'[t] = ticked(t) /\ at'[t] = at[t] /\ at[t] \notin {"succeeded", "failed"}
      BY <1>1, <1>2, <2>2
    <3>. QED
      BY <1>3, <2>1, <2>2, <3>1 DEF InBudget
  <2>3. CASE ~runs(t)
    BY <1>1, <1>2, <2>1, <2>3 DEF InBudget
  <2>. QED
    BY <2>2, <2>3
<1>. QED
  BY <1>1, <1>4, <1>5 DEF Calls

LEMMA CallsStep == Calls /\ [Next]_runnerVars => Calls'
<1> SUFFICES ASSUME Calls, [Next]_runnerVars PROVE Calls'
  OBVIOUS
<1>1. CASE UNCHANGED runnerVars
  BY <1>1 DEF runnerVars, Calls, InCall, InBudget
<1>. QED
  BY <1>1, RunCalls, SuccessCalls, FailCalls, ReturnCalls, WakeCalls, TickCalls DEF Next

\* No call makes more attempts than its retries and the first, in any thread.
THEOREM TypeCorrect == Spec => []TypeOK
<1>1. Breaker /\ Calls => TypeOK
  BY DEF Breaker, BreakerType, Calls, CallType, InBudget, TypeOK
<1>. QED
  BY <1>1, BreakerInit, BreakerStep, CallsInit, CallsStep, PTL DEF Spec

\* For any timeout, back-off and number of retries, a call spends at most a timeout for
\* each attempt and the geometric sum of the pauses.
THEOREM CallsAreTimeBounded == Spec => []TimeBounded
<1>1. Calls => TimeBounded
  <2> SUFFICES ASSUME Calls, NEW t \in InCall
               PROVE  call[t].spent <= (call[t].retries + 1) * Timeout
                                           + Backoff * (2^call[t].retries - 1)
    BY DEF TimeBounded
  <2> DEFINE c == call[t]
             n == c.retries + 1
  <2>1. c \in CallType /\ InBudget(t) /\ at[t] \in Place \ {"out"}
    BY DEF Calls, InCall
  <2>2. /\ c.retries \in Nat /\ n \in Nat \ {0} /\ n - 1 = c.retries
        /\ c.attempt \in Nat \ {0} /\ c.attempt <= n
        /\ c.spent \in Nat /\ c.left \in Nat
    BY <2>1, CallFields DEF InBudget
  <2>3. /\ Budget(c.attempt) \in Nat /\ Pause(c.attempt) \in Nat /\ Budget(n) \in Nat
        /\ Budget(c.attempt) <= Budget(n)
    BY <2>2, BudgetType, PauseType, BudgetMonotone
  <2>4. c.spent <= Budget(n)
    <3>1. CASE at[t] = "sleep"
      <4>1. c.attempt + 1 <= n /\ c.spent + c.left <= Budget(c.attempt) + Pause(c.attempt)
        BY <2>1, <2>2, <3>1 DEF InBudget
      <4>2. Budget(c.attempt + 1) = Budget(c.attempt) + Pause(c.attempt) + Timeout
        BY <2>2, BudgetGrows
      <4>3. Budget(c.attempt + 1) <= Budget(n)
        BY <2>2, <4>1, BudgetMonotone
      <4>. QED
        BY <2>2, <2>3, <4>1, <4>2, <4>3
    <3>2. CASE at[t] # "sleep"
      <4>1. c.spent <= Budget(c.attempt)
        BY <2>1, <2>2, <2>3, <3>2 DEF InBudget, Place
      <4>. QED
        BY <2>2, <2>3, <4>1
    <3>. QED
      BY <3>1, <3>2
  <2>5. Budget(n) = n * Timeout + Backoff * (2^c.retries - 1)
    BY <2>2 DEF Budget
  <2>. QED
    BY <2>4, <2>5
<1>. QED
  BY <1>1, CallsInit, CallsStep, PTL DEF Spec

=============================================================================
