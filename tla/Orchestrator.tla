---------------------------- MODULE Orchestrator ----------------------------
(***************************************************************************)
(* Orchestrator.run_until_terminal of orchestration.py, one action per     *)
(* read or write of something another thread or process can see: a row, a  *)
(* ledger line, the scope, the stop registry, a plugin.  The program       *)
(* counter pc says where each executor stands.  Whatever raises leaves the *)
(* call at "raised"; what happens then is the caller's.                    *)
(*                                                                         *)
(* A ledger is the sequence of writes to one events.jsonl.  A write is an  *)
(* event with its sequence number, an event that lacks its line end only,  *)
(* or a Torn part of one.  What is written after a line without its end    *)
(* runs on in that line.  The concurrency limiter of lines 370-374 always  *)
(* admits here: an executor holds one slot at a time and every executor of *)
(* the deployments composed from this module has a limiter of its own      *)
(* (ConcurrencyLimiter models one that is shared).                         *)
(***************************************************************************)
EXTENDS TaskRepository, Sequences

CONSTANTS
    Executor,      \* the threads that call run_until_terminal
    Registered,    \* the plugins in the PluginRegistry
    Alternatives,  \* RecoveryPlanner.alternatives
    Target,        \* spec.target values
    TargetOf,      \* the target of each task
    Scopes,        \* the scopes an administrator may set
    SaysStop,      \* plugins and targets with "stop" in their name
    Global,        \* the key of the global emergency stop
    MaxFaults      \* bound: ledger writes that fail

ASSUME OrchestratorAssumption ==
    /\ Executor \subseteq Client
    /\ Registered \subseteq Plugin
    /\ Alternatives \in [Plugin -> Seq(Plugin)]
    /\ TargetOf \in [Task -> Target]
    /\ Scopes # {}
    /\ Scopes \subseteq [targets : SUBSET Target, prohibited : SUBSET Plugin]
    /\ SaysStop \subseteq Plugin \cup Target
    /\ MaxFaults \in Nat

VARIABLES
    pc,       \* where each executor is in run_until_terminal
    rec,      \* its local record: the row as it last read it
    outcome,  \* its plugin's result, later the status its RUN_END reports
    hseq,     \* the sequence number its EventLedger object has cached
    ledger,   \* the events.jsonl of each task
    scope,    \* policy.scope
    stops,    \* the EmergencyStopRegistry: stopped tasks, targets, Global
    overrun,  \* history: plugin calls logged for a task since it was blocked
    faults    \* ledger writes that have failed

orchestratorVars == <<rows, upd, pc, rec, outcome, hseq, ledger, scope, stops, overrun, faults>>

Result == {"success", "failure"}

Outcome == {"none"} \cup Result \cup Terminal

Updating == {"updating", "handling"}

PC == {"idle", "claim", "start", "run_start", "loop", "policy_scope", "policy_stops",
       "policy_action", "tool_call", "plugin", "tool_result", "run_end", "raised",
       "handler_open", "handler_end", "dead"} \cup Updating

Record == [task : Task \cup {NoTask}, status : Status, attempts : Nat,
           plugin : Plugin \cup {NoPlugin}, tried : SUBSET Plugin]

NoRecord == [task |-> NoTask, status |-> "none", attempts |-> 0,
             plugin |-> NoPlugin, tried |-> {}]

RecordOf(t) == [task |-> t, status |-> rows[t].status, attempts |-> rows[t].attempts,
                plugin |-> rows[t].plugin, tried |-> rows[t].tried]

EventType == {"RUN_START", "TOOL_CALL", "TOOL_RESULT", "RUN_END"}

\* ended: the line end was written, too.
Event == [type : EventType, seq : Nat, plugin : Plugin \cup {NoPlugin}, status : Outcome,
          ended : BOOLEAN]

Torn == [type |-> "torn", seq |-> 0, plugin |-> NoPlugin, status |-> "none", ended |-> FALSE]

\* The line an executor's ledger object writes next.
NextEvent(e, type) ==
    [type |-> type, seq |-> hseq[e] + 1, plugin |-> rec[e].plugin, status |-> outcome[e],
     ended |-> TRUE]

Unended(event) == [event EXCEPT !.ended = FALSE]

\* replay_events() accepts the file: every line parses and numbers are consecutive.
\* Only the last line needs no line end.
Replayable(file) ==
    \A i \in DOMAIN file :
        /\ file[i].type # "torn"
        /\ file[i].seq = i
        /\ file[i].ended \/ i = Len(file)

\* The steps that append a line, and its type.
Writing == {"run_start", "tool_call", "tool_result", "run_end", "handler_end"}

TypeAt(label) ==
    CASE label = "run_start"   -> "RUN_START"
      [] label = "tool_call"   -> "TOOL_CALL"
      [] label = "tool_result" -> "TOOL_RESULT"
      [] OTHER                 -> "RUN_END"

Cur(e) == rec[e].task

StopKey == Task \cup Target \cup {Global}

\* EmergencyStopRegistry.blocking_reason(): the run, its target or everything is stopped.
Blocked(t) == stops \cap {Global, t, TargetOf[t]} # {}

\* A slip: the first alternative, tried or not.
NextPluginAlways(p, tried) ==
    IF Alternatives[p] = <<>> THEN NoPlugin ELSE Alternatives[p][1]

\* The first alternative that was not tried, if there is one.
NextPlugin(p, tried) ==
    LET fresh == {i \in DOMAIN Alternatives[p] : Alternatives[p][i] \notin tried}
    IN  IF fresh = {} THEN NoPlugin
        ELSE Alternatives[p][CHOOSE i \in fresh : \A j \in fresh : i <= j]

Goto(e, label) == pc' = [pc EXCEPT ![e] = label]

\* Enter update() with the given call.
StartUpdate(e, call) ==
    /\ upd' = [upd EXCEPT ![e] = call]
    /\ Goto(e, "updating")

-----------------------------------------------------------------------------

OrchestratorInit ==
    /\ RepositoryInit
    /\ pc = [e \in Executor |-> "idle"]
    /\ rec = [e \in Executor |-> NoRecord]
    /\ outcome = [e \in Executor |-> "none"]
    /\ hseq = [e \in Executor |-> 0]
    /\ ledger = [t \in Task |-> <<>>]
    /\ scope \in Scopes
    /\ stops = {}
    /\ overrun = [t \in Task |-> 0]
    /\ faults = 0

\* Read the record and open the ledger, which replays the file first.
OpenRun(e) ==
    /\ pc[e] = "start"
    /\ rec' = [rec EXCEPT ![e] = RecordOf(Cur(e))]
    /\ hseq' = [hseq EXCEPT ![e] = Len(ledger[Cur(e)])]
    /\ Goto(e, IF ~Replayable(ledger[Cur(e)]) THEN "raised"
               ELSE IF rows[Cur(e)].attempts = 0 THEN "run_start" ELSE "loop")
    /\ UNCHANGED <<rows, upd, outcome, ledger, scope, stops, overrun, faults>>

\* The call is over: its locals and its ledger object are gone.
Leave(e, label) ==
    /\ Goto(e, label)
    /\ rec' = [rec EXCEPT ![e] = NoRecord]
    /\ outcome' = [outcome EXCEPT ![e] = "none"]
    /\ hseq' = [hseq EXCEPT ![e] = 0]

\* EventLedger.append(): the line is on disk, then the cached number moves.
WriteLine(e) ==
    ledger' = [ledger EXCEPT ![Cur(e)] = Append(@, NextEvent(e, TypeAt(pc[e])))]

\* A write that stops early: in the line, or just before its end.
CutLine(e) ==
    \E line \in {Torn, Unended(NextEvent(e, TypeAt(pc[e])))} :
        ledger' = [ledger EXCEPT ![Cur(e)] = Append(@, line)]

WriteEvent(e) ==
    /\ WriteLine(e)
    /\ hseq' = [hseq EXCEPT ![e] = @ + 1]
    /\ UNCHANGED <<rows, rec, scope, stops, faults>>

\* append() raises OSError with nothing, part of the line or all of it written.
LedgerFault(e, label) ==
    /\ faults < MaxFaults
    /\ faults' = faults + 1
    /\ UNCHANGED ledger \/ CutLine(e) \/ WriteLine(e)
    /\ Goto(e, label)
    /\ UNCHANGED <<rows, upd, rec, outcome, hseq, scope, stops, overrun>>

WriteFails(e) ==
    /\ pc[e] \in {"run_start", "tool_call", "tool_result", "run_end"}
    /\ LedgerFault(e, "raised")

LogRunStart(e) ==
    /\ pc[e] = "run_start"
    /\ WriteEvent(e)
    /\ Goto(e, "loop")
    /\ UNCHANGED <<upd, outcome, overrun>>

\* The while test; a record that is not running is marked running first.
TestLoop(e) ==
    /\ pc[e] = "loop"
    /\ IF rec[e].status \in Terminal
       THEN Leave(e, "idle") /\ UNCHANGED upd
       ELSE /\ IF rec[e].status = "running"
               THEN Goto(e, "policy_scope") /\ UNCHANGED upd
               ELSE StartUpdate(e, SetStatus(Cur(e), "running"))
            /\ UNCHANGED <<rec, outcome, hseq>>
    /\ UNCHANGED <<rows, ledger, scope, stops, overrun, faults>>

\* A denial stops the task if its reason has the word "stop" in it.
Deny(e, status) ==
    /\ outcome' = [outcome EXCEPT ![e] = status]
    /\ StartUpdate(e, SetStatus(Cur(e), status))

DenialStatus(name) == IF name \in SaysStop THEN "stopped" ELSE "failed"

\* PolicyEngine.evaluate() reads policy.scope and the registry at three moments. The time
\* window and the targets are two reads of policy.scope of one kind and are taken as one:
\* a scope outside its window is a scope without targets.
CheckScope(e) ==
    /\ pc[e] = "policy_scope"
    /\ IF TargetOf[Cur(e)] \in scope.targets
       THEN Goto(e, "policy_stops") /\ UNCHANGED <<upd, outcome>>
       ELSE Deny(e, DenialStatus(TargetOf[Cur(e)]))
    /\ UNCHANGED <<rows, rec, hseq, ledger, scope, stops, overrun, faults>>

\* A slip: the registry is asked before the first attempt only.
CheckStopsFirst(e) ==
    /\ pc[e] = "policy_stops"
    /\ IF Blocked(Cur(e)) /\ rec[e].attempts = 0 THEN Deny(e, "stopped")
       ELSE Goto(e, "policy_action") /\ UNCHANGED <<upd, outcome>>
    /\ UNCHANGED <<rows, rec, hseq, ledger, scope, stops, overrun, faults>>

CheckStops(e) ==
    /\ pc[e] = "policy_stops"
    /\ IF Blocked(Cur(e)) THEN Deny(e, "stopped")
       ELSE Goto(e, "policy_action") /\ UNCHANGED <<upd, outcome>>
    /\ UNCHANGED <<rows, rec, hseq, ledger, scope, stops, overrun, faults>>

\* The tier is SCAN and no privilege is asked for, so no approval is needed.
\* An allowed plugin must be in the registry: get() raises KeyError.
CheckAction(e) ==
    /\ pc[e] = "policy_action"
    /\ IF rec[e].plugin \in scope.prohibited THEN Deny(e, DenialStatus(rec[e].plugin))
       ELSE /\ Goto(e, IF rec[e].plugin \in Registered THEN "tool_call" ELSE "raised")
            /\ UNCHANGED <<upd, outcome>>
    /\ UNCHANGED <<rows, rec, hseq, ledger, scope, stops, overrun, faults>>

LogToolCall(e) ==
    /\ pc[e] = "tool_call"
    /\ WriteEvent(e)
    /\ overrun' = [overrun EXCEPT ![Cur(e)] = IF Blocked(Cur(e)) THEN @ + 1 ELSE @]
    /\ Goto(e, "plugin")
    /\ UNCHANGED <<upd, outcome>>

\* The plugin succeeds, or fails (or overran its budget), or raises.
RunPlugin(e) ==
    /\ pc[e] = "plugin"
    /\ \/ \E result \in Result :
              outcome' = [outcome EXCEPT ![e] = result] /\ Goto(e, "tool_result")
       \/ Goto(e, "raised") /\ UNCHANGED outcome
    /\ UNCHANGED <<rows, upd, rec, hseq, ledger, scope, stops, overrun, faults>>

\* A slip: one attempt too many.
AfterAttemptLate(e) ==
    LET attempt == rec[e].attempts + 1
        tried   == rec[e].tried \cup {rec[e].plugin}
        next    == NextPlugin(rec[e].plugin, tried)
    IN  IF outcome[e] = "success"
        THEN SetProgress(Cur(e), "succeeded", attempt, NoPlugin, {})
        ELSE IF attempt <= MaxAttempts[Cur(e)] /\ next # NoPlugin
        THEN SetProgress(Cur(e), "queued", attempt, next, tried)
        ELSE SetProgress(Cur(e), "failed", attempt, NoPlugin, tried)

\* A slip: a failed attempt is not counted when another plugin takes over.
AfterAttemptUncounted(e) ==
    LET tried == rec[e].tried \cup {rec[e].plugin}
        next  == NextPlugin(rec[e].plugin, tried)
    IN  IF outcome[e] = "success"
        THEN SetProgress(Cur(e), "succeeded", rec[e].attempts + 1, NoPlugin, {})
        ELSE IF next # NoPlugin
        THEN SetProgress(Cur(e), "queued", rec[e].attempts, next, tried)
        ELSE SetProgress(Cur(e), "failed", rec[e].attempts + 1, NoPlugin, tried)

\* The update after an attempt: success, another plugin in the queue, or failure.
AfterAttempt(e) ==
    LET attempt == rec[e].attempts + 1
        tried   == rec[e].tried \cup {rec[e].plugin}
        next    == NextPlugin(rec[e].plugin, tried)
    IN  IF outcome[e] = "success"
        THEN SetProgress(Cur(e), "succeeded", attempt, NoPlugin, {})
        ELSE IF attempt < MaxAttempts[Cur(e)] /\ next # NoPlugin
        THEN SetProgress(Cur(e), "queued", attempt, next, tried)
        ELSE SetProgress(Cur(e), "failed", attempt, NoPlugin, tried)

LogToolResult(e) ==
    /\ pc[e] = "tool_result"
    /\ WriteEvent(e)
    /\ StartUpdate(e, AfterAttempt(e))
    /\ outcome' = [outcome EXCEPT ![e] =
           IF AfterAttempt(e).status \in Terminal THEN AfterAttempt(e).status ELSE "none"]
    /\ UNCHANGED overrun

\* update() ends: its record replaces the local one and the loop goes on, or the
\* run ends with the status that was written, not the one that was returned.
UpdateReturns(e) ==
    /\ pc[e] = "updating"
    /\ UpdateGet(e)
    /\ rec' = [rec EXCEPT ![e] = RecordOf(Cur(e))]
    /\ Goto(e, CASE upd[e].status \in Terminal -> "run_end"
                 [] upd[e].status = "running" -> "policy_scope"
                 [] OTHER -> "loop")
    /\ UNCHANGED <<outcome, hseq, ledger, scope, stops, overrun, faults>>

LogRunEnd(e) ==
    /\ pc[e] = "run_end"
    /\ WriteLine(e)
    /\ Leave(e, "idle")
    /\ UNCHANGED <<rows, upd, scope, stops, overrun, faults>>

RunStep(e) ==
    \/ OpenRun(e) \/ LogRunStart(e) \/ TestLoop(e) \/ CheckScope(e) \/ CheckStops(e)
    \/ CheckAction(e) \/ LogToolCall(e) \/ RunPlugin(e) \/ LogToolResult(e)
    \/ UpdateReturns(e) \/ LogRunEnd(e)

=============================================================================
