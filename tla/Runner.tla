-------------------------------- MODULE Runner --------------------------------
(***************************************************************************)
(* SubprocessRunner.run() of runner.py in threads that share one runner and*)
(* so one CircuitBreaker.  Each method of the breaker holds its lock and is*)
(* one step; a call is in the processes it starts and in its sleeps between*)
(* two of them.  Time is counted in ticks: instead of a clock the model has*)
(* the ticks since the breaker opened, and the ticks a process or a sleep  *)
(* has left.  A process that is killed at its timeout is taken to end.     *)
(***************************************************************************)
EXTENDS Integers, FiniteSets

CONSTANTS
    Thread,       \* threads that call run()
    Retries,      \* CommandSpec.retries
    Timeout,      \* CommandSpec.timeout_seconds, in ticks
    Backoff,      \* CommandSpec.backoff_seconds, in ticks
    Threshold,    \* CircuitBreaker.failure_threshold
    ResetAfter    \* CircuitBreaker.reset_after_seconds, in ticks

ASSUME RunnerAssumption ==
    /\ IsFiniteSet(Thread)
    /\ Retries \subseteq Nat
    /\ {Timeout, Threshold, ResetAfter} \subseteq Nat \ {0}
    /\ Backoff \in Nat

VARIABLES
    failures,   \* _failures
    openFor,    \* ticks since _opened_at, up to ResetAfter; NotOpen for None
    at,         \* where each thread is in run()
    call        \* the locals of its call

runnerVars == <<failures, openFor, at, call>>

NotOpen == -1

Place == {"out", "process", "sleep", "succeeded", "failed"}

\* left: ticks to the timeout or the end of the sleep; spent: ticks since the start.
NoCall == [retries |-> 0, attempt |-> 0, left |-> 0, spent |-> 0]

-----------------------------------------------------------------------------

Init ==
    /\ failures = 0
    /\ openFor = NotOpen
    /\ at = [t \in Thread |-> "out"]
    /\ call = [t \in Thread |-> NoCall]

\* A slip: the breaker closes and its count stays.
CloseOnly == failures' = failures /\ openFor' = NotOpen

Close == failures' = 0 /\ openFor' = NotOpen

\* A slip: an open breaker stops nobody.
EnsureNothing == UNCHANGED <<failures, openFor>>

\* ensure_closed(); a call that finds the breaker open raises and changes nothing.
EnsureClosed ==
    \/ openFor = NotOpen /\ UNCHANGED <<failures, openFor>>
    \/ openFor >= ResetAfter /\ Close

Goto(t, place) == at' = [at EXCEPT ![t] = place]

StartProcess(t, next) ==
    /\ Goto(t, "process")
    /\ call' = [call EXCEPT ![t] = [next EXCEPT !.attempt = @ + 1, !.left = Timeout]]

\* A slip: a refused call makes the others wait anew.
RunOrRestart(t) ==
    /\ at[t] = "out"
    /\ \/ /\ EnsureClosed
          /\ \E retries \in Retries : StartProcess(t, [NoCall EXCEPT !.retries = retries])
       \/ openFor \in 0..(ResetAfter - 1) /\ openFor' = 0 /\ UNCHANGED <<failures, at, call>>

Run(t) ==
    /\ at[t] = "out"
    /\ EnsureClosed
    /\ \E retries \in Retries : StartProcess(t, [NoCall EXCEPT !.retries = retries])

ProcessSucceeds(t) ==
    /\ at[t] = "process"
    /\ Goto(t, "succeeded")
    /\ UNCHANGED <<failures, openFor, call>>

\* A slip: the back-off is twice as long.
PauseLong(attempt) == Backoff * 2^attempt

Pause(attempt) == Backoff * 2^(attempt - 1)

\* A slip: one retry too many.
RetriesOneMore(t) == call[t].attempt <= call[t].retries + 1

MayRetry(t) == call[t].attempt <= call[t].retries

\* An exit code other than zero, or the timeout.
ProcessFails(t) ==
    /\ at[t] = "process"
    /\ IF MayRetry(t)
       THEN /\ Goto(t, "sleep")
            /\ call' = [call EXCEPT ![t].left = Pause(call[t].attempt)]
       ELSE Goto(t, "failed") /\ UNCHANGED call
    /\ UNCHANGED <<failures, openFor>>

\* The program cannot be started: OSError leaves run(), the breaker is not told.
ProcessRaises(t) ==
    /\ at[t] = "process"
    /\ Goto(t, "out")
    /\ call' = [call EXCEPT ![t] = NoCall]
    /\ UNCHANGED <<failures, openFor>>

\* A slip: each retry starts the call anew.
WakeAfresh(t) ==
    /\ at[t] = "sleep"
    /\ call[t].left = 0
    /\ StartProcess(t, [NoCall EXCEPT !.retries = call[t].retries])
    /\ UNCHANGED <<failures, openFor>>

Wake(t) ==
    /\ at[t] = "sleep"
    /\ call[t].left = 0
    /\ StartProcess(t, call[t])
    /\ UNCHANGED <<failures, openFor>>

Return(t) ==
    /\ Goto(t, "out")
    /\ call' = [call EXCEPT ![t] = NoCall]

RecordSuccess(t) ==
    /\ at[t] = "succeeded"
    /\ Close
    /\ Return(t)

\* From the threshold on, every failure opens the breaker anew.
RecordFailure(t) ==
    /\ at[t] = "failed"
    /\ failures' = failures + 1
    /\ openFor' = IF failures' >= Threshold THEN 0 ELSE openFor
    /\ Return(t)

\* A tick passes, but no timeout and no end of a sleep.
Tick ==
    /\ \A t \in Thread : at[t] \in {"process", "sleep"} => call[t].left > 0
    /\ openFor' = IF openFor \in 0..(ResetAfter - 1) THEN openFor + 1 ELSE openFor
    /\ call' = [t \in Thread |->
           IF at[t] \in {"process", "sleep"}
           THEN [call[t] EXCEPT !.left = @ - 1, !.spent = @ + 1] ELSE call[t]]
    /\ UNCHANGED <<failures, at>>

\* What happens without the process doing anything: it is killed, the thread goes on.
GoesOn(t) ==
    \/ call[t].left = 0 /\ ProcessFails(t)
    \/ Wake(t) \/ RecordSuccess(t) \/ RecordFailure(t)

Next ==
    \/ \E t \in Thread : \/ Run(t) \/ ProcessSucceeds(t) \/ ProcessFails(t)
                         \/ ProcessRaises(t) \/ Wake(t)
                         \/ RecordSuccess(t) \/ RecordFailure(t)
    \/ Tick

\* Time passes, timeouts and sleeps end, and threads are scheduled.
Spec ==
    /\ Init
    /\ [][Next]_runnerVars
    /\ WF_runnerVars(Tick)
    /\ \A t \in Thread : WF_runnerVars(GoesOn(t))

-----------------------------------------------------------------------------

InCall == {t \in Thread : at[t] # "out"}

\* TypeOK: every variable is of its type, and no call is in more attempts than its
\* retries and the first.
TypeOK ==
    /\ failures \in Nat
    /\ openFor \in {NotOpen} \cup 0..ResetAfter
    /\ at \in [Thread -> Place]
    /\ call \in [Thread -> [retries : Retries \cup {0}, attempt : Nat, left : Nat, spent : Nat]]
    /\ \A t \in InCall : call[t].attempt \in 1..(call[t].retries + 1)

\* OpenAtThreshold: the breaker is open exactly when the failures since it was last
\* closed or told of a success have reached the threshold, in spite of calls that
\* began earlier and report late.
OpenAtThreshold == openFor # NotOpen <=> failures >= Threshold

\* FailuresBounded: an open breaker lets nobody in, so the calls that were inside when
\* it opened are the only ones that can still count failures.
FailuresBounded == failures + Cardinality(InCall) < Threshold + Cardinality(Thread)

\* TimeBounded: a call is in its processes and sleeps for at most a timeout for each
\* attempt and the geometric sum of the pauses.
TimeBounded ==
    \A t \in InCall :
        call[t].spent <= (call[t].retries + 1) * Timeout + Backoff * (2^call[t].retries - 1)

\* CallEnds: every call returns or raises, whatever its processes do.
CallEnds == \A t \in Thread : (at[t] # "out") ~> (at[t] = "out")

\* Recovers: a breaker that is open closes or comes to its reset time, although each
\* late failure makes it wait anew.
Recovers == (openFor # NotOpen) ~> (openFor = NotOpen \/ openFor >= ResetAfter)

=============================================================================
