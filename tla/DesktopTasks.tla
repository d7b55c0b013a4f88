---------------------------- MODULE DesktopTasks ----------------------------
(***************************************************************************)
(* The task half of the desktop application: one LocalTaskWorker thread    *)
(* (desktop.py) runs Orchestrator over the table, while API threads of the *)
(* same process (api.py) and CLI processes (cli.py) create and stop tasks, *)
(* stop and resume runs, and replace the scope.  The process may be killed *)
(* at any step and started again: the table and the ledgers survive, the   *)
(* stop registry and every call in progress do not.                        *)
(***************************************************************************)
EXTENDS Orchestrator

CONSTANTS
    ApiStop,     \* POST /api/tasks/{id}/stop requests, each made once at most
    CliStop,     \* `lfsrc stop` processes, each started once at most
    Keys,        \* bound: the registry keys of POST /api/emergency-stop
    MaxCrashes,  \* bound: kills of the process
    MaxDatabaseFaults   \* bound: statements that fail, counted with the other faults

ASSUME DesktopAssumption ==
    /\ Client = Executor \cup ApiStop \cup CliStop
    /\ Executor \cap (ApiStop \cup CliStop) = {}
    /\ ApiStop \cap CliStop = {}
    /\ \A d, e \in Executor : d = e
    /\ Keys \subseteq StopKey
    /\ MaxCrashes \in Nat
    /\ MaxDatabaseFaults \in 0..MaxFaults

VARIABLES
    aim,      \* the task each stop request names
    crashes   \* kills so far

desktopVars == <<orchestratorVars, aim, crashes>>

Request == ApiStop \cup CliStop

-----------------------------------------------------------------------------

Init ==
    /\ OrchestratorInit
    /\ aim = [r \in Request |-> NoTask]
    /\ crashes = 0

\* claim_next(), first statement. The thread polls again while nothing is queued.
ClaimSelect(e) ==
    /\ pc[e] = "idle"
    /\ \E t \in Task :
           /\ FirstQueued(t)
           /\ rec' = [rec EXCEPT ![e] = [NoRecord EXCEPT !.task = t]]
    /\ Goto(e, "claim")
    /\ UNCHANGED <<rows, upd, outcome, hseq, ledger, scope, stops, overrun, faults, aim, crashes>>

ClaimUpdate(e) ==
    /\ pc[e] = "claim"
    /\ ClaimWrite(Cur(e))
    /\ Goto(e, "start")
    /\ UNCHANGED <<upd, rec, outcome, hseq, ledger, scope, stops, overrun, faults, aim, crashes>>

\* A slip: the exception is dropped.
HandleSilently(e) ==
    /\ pc[e] = "raised"
    /\ Leave(e, "idle")
    /\ UNCHANGED <<rows, upd, ledger, scope, stops, overrun, faults, aim, crashes>>

\* except Exception: the row fails ...
Handle(e) ==
    /\ pc[e] = "raised"
    /\ outcome' = [outcome EXCEPT ![e] = "failed"]
    /\ upd' = [upd EXCEPT ![e] = SetStatus(Cur(e), "failed")]
    /\ Goto(e, "handling")
    /\ UNCHANGED <<rows, rec, hseq, ledger, scope, stops, overrun, faults, aim, crashes>>

\* A slip: the handler is done after the row.
HandlerUpdatedOnly(e) ==
    /\ pc[e] = "handling"
    /\ UpdateGet(e)
    /\ Leave(e, "idle")
    /\ UNCHANGED <<ledger, scope, stops, overrun, faults, aim, crashes>>

HandlerUpdated(e) ==
    /\ pc[e] = "handling"
    /\ UpdateGet(e)
    /\ Goto(e, "handler_open")
    /\ UNCHANGED <<rec, outcome, hseq, ledger, scope, stops, overrun, faults, aim, crashes>>

\* ... and a new ledger object logs the end. Nothing catches what it raises.
HandlerOpen(e) ==
    /\ pc[e] = "handler_open"
    /\ IF Replayable(ledger[Cur(e)])
       THEN /\ hseq' = [hseq EXCEPT ![e] = Len(ledger[Cur(e)])]
            /\ Goto(e, "handler_end")
            /\ UNCHANGED <<rec, outcome>>
       ELSE Leave(e, "dead")
    /\ UNCHANGED <<rows, upd, ledger, scope, stops, overrun, faults, aim, crashes>>

HandlerLog(e) ==
    /\ pc[e] = "handler_end"
    /\ WriteLine(e)
    /\ Leave(e, "idle")
    /\ UNCHANGED <<rows, upd, scope, stops, overrun, faults, aim, crashes>>

HandlerFails(e) ==
    /\ pc[e] = "handler_end"
    /\ LedgerFault(e, "dead")
    /\ UNCHANGED <<aim, crashes>>

\* The database is locked for too long or its disk is full: a statement fails and
\* changes nothing. (A commit that fails after its statement is left out.)
DatabaseFault(c) ==
    /\ faults < MaxDatabaseFaults
    /\ faults' = faults + 1
    /\ upd' = [upd EXCEPT ![c] = NoCall]
    /\ UNCHANGED <<rows, ledger, scope, stops, overrun, aim, crashes>>

\* In claim_next(), its last read included, and in the handler nothing catches it ...
DatabaseKills(e) ==
    /\ pc[e] \in {"idle", "claim", "start", "handling"}
    /\ DatabaseFault(e)
    /\ Leave(e, "dead")

\* ... in the run the handler takes over ...
DatabaseRaises(e) ==
    /\ pc[e] \in {"start", "updating"}
    /\ DatabaseFault(e)
    /\ Goto(e, "raised")
    /\ UNCHANGED <<rec, outcome, hseq>>

\* ... and a request is answered with an error, its run blocked or not.
DatabaseRefuses(r) ==
    /\ upd[r].stage # "none"
    /\ DatabaseFault(r)
    /\ UNCHANGED <<pc, rec, outcome, hseq>>

UpdateStep(c) ==
    /\ UpdateRead(c) \/ UpdateWrite(c)
    /\ UNCHANGED <<pc, rec, outcome, hseq, ledger, scope, stops, overrun, faults, aim, crashes>>

\* Every step the worker thread takes by itself.
WorkerStep(e) ==
    \/ RunStep(e) /\ UNCHANGED <<aim, crashes>>
    \/ UpdateStep(e)
    \/ ClaimSelect(e) \/ ClaimUpdate(e)
    \/ Handle(e) \/ HandlerUpdated(e) \/ HandlerOpen(e) \/ HandlerLog(e)

-----------------------------------------------------------------------------

\* POST /api/tasks wants a target in scope and an installed plugin.
ApiCreate(t, p) ==
    /\ TargetOf[t] \in scope.targets
    /\ p \in Registered
    /\ Create(t, p)
    /\ UNCHANGED <<upd, pc, rec, outcome, hseq, ledger, scope, stops, overrun, faults, aim, crashes>>

\* `lfsrc run` checks a scope file of its own and no plugin.
CliCreate(t, p) ==
    /\ Create(t, p)
    /\ UNCHANGED <<upd, pc, rec, outcome, hseq, ledger, scope, stops, overrun, faults, aim, crashes>>

\* The API blocks the run before it looks for the row.
StopTask(r, t) ==
    /\ aim[r] = NoTask
    /\ aim' = [aim EXCEPT ![r] = t]
    /\ stops' = stops \cup {t}
    /\ upd' = [upd EXCEPT ![r] = SetStatus(t, "stopped")]
    /\ UNCHANGED <<rows, pc, rec, outcome, hseq, ledger, scope, overrun, faults, crashes>>

CliStopTask(r, t) ==
    /\ aim[r] = NoTask
    /\ aim' = [aim EXCEPT ![r] = t]
    /\ upd' = [upd EXCEPT ![r] = SetStatus(t, "stopped")]
    /\ UNCHANGED <<rows, pc, rec, outcome, hseq, ledger, scope, stops, overrun, faults, crashes>>

\* The request gets its record back, or a 404 for an id that is not there.
RequestReturns(r) ==
    /\ UpdateGet(r) \/ UpdateUnknown(r)
    /\ UNCHANGED <<pc, rec, outcome, hseq, ledger, scope, stops, overrun, faults, aim, crashes>>

EmergencyStop(k) ==
    /\ stops' = stops \cup {k}
    /\ UNCHANGED <<rows, upd, pc, rec, outcome, hseq, ledger, scope, overrun, faults, aim, crashes>>

\* The history restarts for the tasks that nothing blocks any more.
Unblock(remaining) ==
    /\ stops' = remaining
    /\ overrun' = [t \in Task |->
           IF remaining \cap {Global, t, TargetOf[t]} # {} THEN overrun[t] ELSE 0]

EmergencyResume(k) ==
    /\ Unblock(stops \ {k})
    /\ UNCHANGED <<rows, upd, pc, rec, outcome, hseq, ledger, scope, faults, aim, crashes>>

\* PUT /api/settings/scope replaces the object evaluate() reads.
SetScope(s) ==
    /\ scope' = s
    /\ UNCHANGED <<rows, upd, pc, rec, outcome, hseq, ledger, stops, overrun, faults, aim, crashes>>

\* The process dies, perhaps inside a ledger write, and is started again.
Crash ==
    /\ crashes < MaxCrashes
    /\ crashes' = crashes + 1
    /\ \/ UNCHANGED ledger
       \/ \E e \in Executor : pc[e] \in Writing /\ CutLine(e)
    /\ upd' = [c \in Client |-> IF c \in CliStop THEN upd[c] ELSE NoCall]
    /\ pc' = [e \in Executor |-> "idle"]
    /\ rec' = [e \in Executor |-> NoRecord]
    /\ outcome' = [e \in Executor |-> "none"]
    /\ hseq' = [e \in Executor |-> 0]
    /\ Unblock({})
    /\ UNCHANGED <<rows, scope, faults, aim>>

Next ==
    \/ \E e \in Executor : WorkerStep(e)
    \/ \E e \in Executor : WriteFails(e) /\ UNCHANGED <<aim, crashes>>
    \/ \E e \in Executor : HandlerFails(e)
    \/ \E e \in Executor : DatabaseKills(e) \/ DatabaseRaises(e)
    \/ \E r \in Request : DatabaseRefuses(r)
    \/ \E t \in Task, p \in Plugin : ApiCreate(t, p) \/ CliCreate(t, p)
    \/ \E r \in ApiStop, t \in Task : StopTask(r, t)
    \/ \E r \in CliStop, t \in Task : CliStopTask(r, t)
    \/ \E r \in Request : UpdateStep(r) \/ RequestReturns(r)
    \/ \E k \in Keys : EmergencyStop(k) \/ EmergencyResume(k)
    \/ \E s \in Scopes : SetScope(s)
    \/ Crash

\* The worker's thread is scheduled and the plugins it runs return.
Fairness == \A e \in Executor : WF_desktopVars(WorkerStep(e))

Spec == Init /\ [][Next]_desktopVars /\ Fairness

-----------------------------------------------------------------------------

\* A line without its end counts for nothing.
Count(t, type) ==
    Cardinality({i \in DOMAIN ledger[t] : ledger[t][i].type = type /\ ledger[t][i].ended})

\* No stop request was aimed at the task, so nobody but the worker wrote its row.
Untouched(t) == \A r \in Request : aim[r] # t

\* TypeOK: every variable holds values of its type, a task that exists always names a
\* plugin to run, and the ledgers hold events, whole or cut.
TypeOK ==
    /\ rows \in [Task -> Row]
    /\ \A t \in Created : rows[t].plugin \in Plugin
    /\ upd \in [Client -> Call]
    /\ pc \in [Executor -> PC]
    /\ rec \in [Executor -> Record]
    /\ outcome \in [Executor -> Outcome]
    /\ hseq \in [Executor -> Nat]
    /\ ledger \in [Task -> Seq(Event \cup {Torn})]
    /\ scope \in Scopes
    /\ stops \in SUBSET StopKey
    /\ overrun \in [Task -> Nat]
    /\ faults \in 0..MaxFaults
    /\ aim \in [Request -> Task \cup {NoTask}]
    /\ crashes \in 0..MaxCrashes

\* AttemptsBounded: no row counts more attempts than its specification allows, and a
\* row that can still run has one left, although stop requests write the row as
\* they read it earlier, over whatever the worker has written since.
AttemptsBounded ==
    \A t \in Task :
        /\ rows[t].attempts <= MaxAttempts[t]
        /\ rows[t].status \in {"queued", "running"} => rows[t].attempts < MaxAttempts[t]

\* RecoveryBounded: over restarts, failed writes and emergency stops, a task nobody
\* stopped by id never has more plugin calls logged than max_attempts, and recovery
\* never goes back to a plugin that was called for it before.
RecoveryBounded ==
    \A t \in Task : Untouched(t) =>
        /\ Count(t, "TOOL_CALL") <= MaxAttempts[t]
        /\ \A i, j \in DOMAIN ledger[t] :
               /\ ledger[t][i].type = "TOOL_CALL"
               /\ ledger[t][j].type = "TOOL_CALL"
               /\ ledger[t][i].plugin = ledger[t][j].plugin
               => i = j

\* AuditCoversAttempts: the ledger is ahead of the row, never behind: each attempt
\* the row counts has its call and its result on disk, and at most one call is not
\* counted yet (it is running, or it was lost with the process or an exception).
AuditCoversAttempts ==
    \A t \in Task : Untouched(t) =>
        /\ rows[t].attempts <= Count(t, "TOOL_RESULT")
        /\ Count(t, "TOOL_RESULT") <= Count(t, "TOOL_CALL")
        /\ Count(t, "TOOL_CALL") <= rows[t].attempts + 1

\* AuditAgrees: once the worker has left a task that nobody stopped by id, and unless
\* it was killed or died on the way, the last thing in the ledger is a RUN_END that
\* reports the status in the row. The ledger replays, too, with one exception: when a
\* write of the run stopped just before its line end, the task has failed, the RUN_END
\* of the handler runs on in that line. What was written before the RUN_END replayed;
\* with it, a replay yields the lines before that one and then raises.
AuditAgrees ==
    (crashes = 0 /\ \A e \in Executor : pc[e] # "dead") =>
        \A t \in Task :
            (Untouched(t) /\ rows[t].status \in Terminal /\ \A e \in Executor : Cur(e) # t) =>
                /\ ledger[t] # <<>>
                /\ ledger[t][Len(ledger[t])].type = "RUN_END"
                /\ ledger[t][Len(ledger[t])].status = rows[t].status
                /\ \/ Replayable(ledger[t])
                   \/ /\ rows[t].status = "failed"
                      /\ Replayable(SubSeq(ledger[t], 1, Len(ledger[t]) - 1))
                      /\ ~ledger[t][Len(ledger[t]) - 1].ended

\* NoCallAfterRunEnd: a run whose end is on record is over: whatever stop requests
\* and crashes do to the row, nothing but another RUN_END follows a RUN_END.
NoCallAfterRunEnd ==
    \A t \in Task : \A i, j \in DOMAIN ledger[t] :
        (i < j /\ ledger[t][i].type = "RUN_END") => ledger[t][j].type \in {"RUN_END", "torn"}

\* StopOverrunsOnce: while a task, its target or everything is stopped, at most one
\* plugin call is logged for it, the one whose evaluation had already passed the
\* registry when the stop came.
StopOverrunsOnce == \A t \in Task : overrun[t] <= 1

\* CompletedStaysCompleted: a row that says succeeded or failed is never claimed or
\* run again: it changes only to stopped (a stop request that wrote last) or to
\* failed (the worker's handler, after the last ledger write failed).
CompletedStaysCompleted ==
    [][\A t \in Task : rows[t].status \in {"succeeded", "failed"} =>
           rows'[t].status \in {rows[t].status, "failed", "stopped"}]_desktopVars

\* QueuedSettles: when no more kill is to come, every queued task reaches a terminal
\* status unless the worker thread dies, whatever is stopped, resumed or forbidden.
QueuedSettles ==
    \A t \in Task :
        (rows[t].status = "queued" /\ crashes = MaxCrashes) ~>
            (rows[t].status \in Terminal \/ \E e \in Executor : pc[e] = "dead")

\* StopPersists: a task that was stopped stays stopped, as cli.py says of its stop
\* command. It does not: claim_next() writes "running" over the row it selected as
\* queued, whatever the row holds by then, and so does every update() of the run.
StopPersists ==
    [][\A t \in Task : rows[t].status = "stopped" => rows'[t].status = "stopped"]_desktopVars

\* WorkerGoesOn: a task that fails does not keep the queue from being served, as
\* docs/TEST_REPORT.md says. One ledger write that fails half way ends the thread.
WorkerGoesOn ==
    \A t \in Task : rows[t].status = "queued" ~> rows[t].status \in Terminal

\* RunningResumes: orchestration persists and resumes: a task that is running when
\* the process is killed is taken up again. It is not: only queued rows are claimed.
RunningResumes ==
    \A t \in Task : rows[t].status = "running" ~> rows[t].status \in Terminal

=============================================================================
