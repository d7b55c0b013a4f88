------------------------------- MODULE Workflow -------------------------------
(***************************************************************************)
(* WorkflowEngine.run() of workflow.py for one run id: a call goes through *)
(* the stages, saving workflow-state.json after each; it waits for an      *)
(* operator in the validation stage, and it may be called again after it   *)
(* returned, raised, or died with its process.                             *)
(*                                                                         *)
(* A step is one thing that others can see or that survives: a ledger      *)
(* line, a saved state, a file of the evidence store, a policy decision,   *)
(* a plugin.  PolicyEngine.evaluate() is one step here; its three reads    *)
(* are taken apart in Orchestrator.  Left out: selected_tools, texts, and  *)
(* a ledger line cut exactly before its line end (EventLedger has it).     *)
(***************************************************************************)
EXTENDS Integers, Sequences, FiniteSets, SequencesExt

CONSTANTS
    Plugin,        \* plugins
    Target,        \* targets
    Setups,        \* the scopes and registries an engine may be made with
    Discovered,    \* "targets" lists that discovery plugins report
    Finding,       \* findings
    Malformed,     \* those that Finding.model_validate() refuses
    Referring,     \* those that bring an "evidence" of their own
    Own,           \* what stands there
    Found,         \* "findings" lists that assessment plugins report
    NoState,       \* there is no workflow-state.json
    MaxCalls,      \* bound: calls of run()
    MaxFaults,     \* bound: writes that raise OSError
    MaxCrashes     \* bound: kills of the process

Capability == {"target_discovery", "assessment", "controlled_validation", "cleanup"}

ASSUME WorkflowAssumption ==
    /\ Setups # {}
    /\ Setups \subseteq [scope : [targets : Seq(Target) \ {<<>>}, prohibited : SUBSET Plugin],
                         registry : [Capability -> Seq(Plugin)]]
    /\ Discovered \subseteq Seq(Target)
    /\ {Malformed, Referring} \subseteq SUBSET Finding
    /\ Found \subseteq Seq(Finding)
    /\ {MaxCalls, MaxFaults, MaxCrashes} \subseteq Nat

VARIABLES
    pc,         \* where the call is
    state,      \* its local WorkflowState
    left,       \* the candidates it has not tried yet
    result,     \* what the last plugin returned
    saved,      \* workflow-state.json
    ledger,     \* events.jsonl
    bin, meta,  \* the evidence files of each content
    report,     \* the report files: how far they are written and what they say
    scope,      \* the scope of engine and policy
    registry,   \* the names of the installed plugins per capability, in order
    active,     \* the time is in one of its windows
    stopped,    \* the EmergencyStopRegistry blocks the run
    approval,   \* the approval records, by fingerprint
    revoked,    \* history: requests rejected since the policy last allowed one
    passed,     \* history: stages passed for want of a plugin
    calls, faults, crashes

engine == <<pc, state, left, result>>
disk == <<saved, ledger, bin, meta, report>>
setup == <<scope, registry>>
policy == <<active, stopped, approval, revoked, passed>>
bounds == <<calls, faults, crashes>>
workflowVars == <<engine, disk, setup, policy, bounds>>

Stage == <<"discover", "plan", "assess", "validate", "evidence", "report", "cleanup", "complete">>

Rank(stage) == CHOOSE i \in DOMAIN Stage : Stage[i] = stage

Terminal == {"succeeded", "failed", "stopped"}

\* evidence: the contents that the state's references name.
WorkflowState ==
    [status : {"running", "pending_approval"} \cup Terminal, stage : Range(Stage),
     targets : Seq(Target), findings : Found \cup {<<>>},
     evidence : Seq(Found \cup {<<>>}), skip : BOOLEAN]

\* A file is never taken for one that is absent.
ASSUME StateAssumption == NoState \notin WorkflowState

NewState(skip) ==
    [status |-> "running", stage |-> "discover", targets |-> <<>>, findings |-> <<>>,
     evidence |-> <<>>, skip |-> skip]

CapabilityOf(stage) ==
    CASE stage = "discover" -> "target_discovery"
      [] stage = "assess"   -> "assessment"
      [] stage = "validate" -> "controlled_validation"
      [] stage = "cleanup"  -> "cleanup"

Able(stage) == registry[CapabilityOf(stage)]

\* What the fingerprints of a run's requests differ in: action and target. Only
\* validation asks for the tier that needs an approval.
Requests == Plugin \X Target

NoReport == [files |-> "none"]

Failure == [success |-> FALSE, parsed |-> <<>>]

ToolCall == [type |-> "TOOL_CALL", stage |-> state.stage, plugin |-> Head(left)]
ToolResult == [type |-> "TOOL_RESULT", stage |-> state.stage, plugin |-> Head(left),
               success |-> result.success]
Torn == [type |-> "torn"]

InScope(targets) == \A i \in DOMAIN targets : targets[i] \in Range(scope.targets)

-----------------------------------------------------------------------------

Init ==
    /\ pc = "idle"
    /\ state = NoState
    /\ left = <<>>
    /\ result = Failure
    /\ saved = NoState
    /\ ledger = <<>>
    /\ bin = [content \in Found |-> "absent"]
    /\ meta = [content \in Found |-> "absent"]
    /\ report = NoReport
    /\ \E s \in Setups : scope = s.scope /\ registry = s.registry
    /\ active = TRUE
    /\ stopped = FALSE
    /\ approval = [r \in Requests |-> "none"]
    /\ revoked = {}
    /\ passed = {}
    /\ calls = 0
    /\ faults = 0
    /\ crashes = 0

Leave ==
    /\ pc' = "idle"
    /\ state' = NoState
    /\ left' = <<>>
    /\ result' = Failure

Goto(label) == pc' = label /\ UNCHANGED <<state, left, result>>

Log(event) == ledger' = Append(ledger, event) /\ UNCHANGED <<saved, bin, meta, report>>

\* A slip: the parameter of each call replaces what the state says.
LoadParameter(skip) ==
    IF saved = NoState THEN NewState(skip)
    ELSE [saved EXCEPT !.status = IF @ = "pending_approval" THEN "running" ELSE @,
                       !.skip = skip]

\* The saved state, no longer pending; the parameter counts for a new run only.
Load(skip) ==
    IF saved = NoState THEN NewState(skip)
    ELSE [saved EXCEPT !.status = IF @ = "pending_approval" THEN "running" ELSE @]

Ended == saved # NoState /\ saved.status \in Terminal

\* run(); a call for a run that has ended returns at once and changes nothing.
Call(skip) ==
    /\ pc = "idle"
    /\ calls < MaxCalls
    /\ ~Ended
    /\ calls' = calls + 1
    /\ state' = Load(skip)
    /\ pc' = "open"
    /\ UNCHANGED <<left, result, disk, setup, policy, faults, crashes>>

\* The EventLedger constructor raises on a file that does not replay.
OpenLedger ==
    /\ pc = "open"
    /\ IF Torn \in Range(ledger) THEN Leave
       ELSE Goto(IF saved = NoState THEN "run_start" ELSE "loop")
    /\ UNCHANGED <<disk, setup, policy, bounds>>

LogRunStart ==
    /\ pc = "run_start"
    /\ Log([type |-> "RUN_START"])
    /\ Goto("loop")
    /\ UNCHANGED <<setup, policy, bounds>>

\* The stage is done: the state moves on and is saved.
Advance(next) == pc' = "save" /\ state' = next /\ UNCHANGED <<left, result>>

\* The while test and assert_active().
Loop ==
    /\ pc = "loop"
    /\ Goto(IF state.stage = "complete" THEN "succeed"
            ELSE IF active THEN state.stage ELSE "fail")
    /\ UNCHANGED <<disk, setup, policy, bounds>>

Execute(candidates) == pc' = "call" /\ left' = candidates /\ UNCHANGED <<state, result>>

\* Nobody asks the policy about discovery.
Discover ==
    /\ pc = "discover"
    /\ IF Able("discover") = <<>>
       THEN Advance([state EXCEPT !.targets = <<Head(scope.targets)>>, !.stage = "plan"])
       ELSE Execute(Able("discover"))
    /\ UNCHANGED <<disk, setup, policy, bounds>>

Plan ==
    /\ pc = "plan"
    /\ IF state.targets # <<>> /\ InScope(state.targets) /\ Able("assess") # <<>>
       THEN Advance([state EXCEPT !.stage = "assess"])
       ELSE Goto("fail")
    /\ UNCHANGED <<disk, setup, policy, bounds>>

\* A stage whose capability no plugin has: assessment is required.
Skip ==
    /\ pc \in {"assess", "validate", "cleanup"}
    /\ Able(pc) = <<>>
    /\ CASE pc = "assess"   -> Goto("fail")
         [] pc = "validate" -> Advance([state EXCEPT !.stage = "evidence"])
         [] pc = "cleanup"  -> Advance([state EXCEPT !.stage = "complete"])
    /\ passed' = passed \cup {pc}
    /\ UNCHANGED <<disk, setup, active, stopped, approval, revoked, bounds>>

\* The policy is asked for the first target and the first candidate, whatever else will
\* be called.
Request == <<Head(Able(state.stage)), state.targets[1]>>

\* A slip: a decision that was rejected after all is not looked at.
DeniedBefore ==
    \/ ~active
    \/ state.targets[1] \notin Range(scope.targets)
    \/ stopped
    \/ Head(Able(state.stage)) \in scope.prohibited

Denied ==
    \/ ~active
    \/ state.targets[1] \notin Range(scope.targets)
    \/ stopped
    \/ Head(Able(state.stage)) \in scope.prohibited
    \/ state.stage = "validate" /\ approval[Request] = "rejected"

Pending ==
    ~Denied /\ state.stage = "validate" /\ approval[Request] \in {"none", "pending"}

Ask ==
    /\ pc \in {"assess", "validate", "cleanup"}
    /\ Able(pc) # <<>>
    /\ IF Denied THEN Goto("fail")
       ELSE IF Pending
       THEN /\ pc' = "save_pending"
            /\ state' = [state EXCEPT !.status = "pending_approval"]
            /\ UNCHANGED <<left, result>>
       ELSE Execute(Able(pc))
    /\ approval' = IF Pending THEN [approval EXCEPT ![Request] = "pending"] ELSE approval
    /\ revoked' = IF Denied \/ Pending THEN revoked ELSE {}
    /\ UNCHANGED <<disk, setup, active, stopped, passed, bounds>>

LogToolCall ==
    /\ pc = "call"
    /\ Log(ToolCall)
    /\ Goto("plugin")
    /\ UNCHANGED <<setup, policy, bounds>>

Parsed == CASE state.stage = "discover" -> Discovered
            [] state.stage = "assess"   -> Found
            [] OTHER                    -> {<<>>}

\* The plugin succeeds or fails, or raises what run() catches, or anything else.
RunPlugin ==
    /\ pc = "plugin"
    /\ \/ /\ \E parsed \in Parsed : result' = [success |-> TRUE, parsed |-> parsed]
          /\ pc' = "result"
          /\ UNCHANGED <<state, left>>
       \/ pc' = "result" /\ result' = Failure /\ UNCHANGED <<state, left>>
       \/ Goto("fail")
       \/ Leave
    /\ UNCHANGED <<disk, setup, policy, bounds>>

\* A slip: an empty list of targets is kept.
ReportedAsIs == result.parsed

Reported == IF result.parsed = <<>> THEN <<Head(scope.targets)>> ELSE result.parsed

\* What a plugin's success means in each stage. Nothing outside the scope is kept.
UseResult ==
    CASE state.stage = "discover" ->
           IF InScope(Reported)
           THEN Advance([state EXCEPT !.targets = Reported, !.stage = "plan"])
           ELSE Goto("fail")
      [] state.stage = "assess" ->
           /\ pc' = "findings"
           /\ state' = [state EXCEPT !.findings = @ \o result.parsed]
           /\ UNCHANGED <<left, result>>
      [] state.stage = "validate" -> Advance([state EXCEPT !.stage = "evidence"])
      [] state.stage = "cleanup" -> Advance([state EXCEPT !.stage = "complete"])

\* After a failure the next candidate is tried; the last failure fails the run,
\* unless it is the cleanup's.
LogToolResult ==
    /\ pc = "result"
    /\ Log(ToolResult)
    /\ IF result.success THEN UseResult
       ELSE IF Len(left) > 1 THEN Execute(Tail(left))
       ELSE IF state.stage = "cleanup" THEN Advance([state EXCEPT !.stage = "complete"])
       ELSE Goto("fail")
    /\ UNCHANGED <<setup, policy, bounds>>

\* A slip: validation is skipped whatever was asked for.
AssessedOnly == [state EXCEPT !.stage = "evidence"]

Assessed == [state EXCEPT !.stage = IF state.skip THEN "evidence" ELSE "validate"]

\* A slip: the findings are saved before they are logged, and then not logged.
LogFindingsLater ==
    /\ pc = "findings"
    /\ Advance(Assessed)
    /\ UNCHANGED <<disk, setup, policy, bounds>>

LogFinding ==
    /\ pc = "findings"
    /\ IF result.parsed = <<>> THEN Advance(Assessed) /\ UNCHANGED disk
       ELSE /\ Log([type |-> "FINDING", finding |-> Head(result.parsed)])
            /\ result' = [result EXCEPT !.parsed = Tail(@)]
            /\ UNCHANGED <<pc, state, left>>
    /\ UNCHANGED <<setup, policy, bounds>>

\* EvidenceStore.add_bytes(): a file that exists, whole or not, is not written again.
WriteBin ==
    /\ pc \in {"evidence", "bin_rest"}
    /\ IF pc = "evidence" /\ bin[state.findings] = "absent"
       THEN bin' = [bin EXCEPT ![state.findings] = "part"] /\ Goto("bin_rest")
       ELSE /\ bin' = [bin EXCEPT ![state.findings] = IF pc = "bin_rest" THEN "whole" ELSE @]
            /\ Goto("meta")
    /\ UNCHANGED <<saved, ledger, meta, report, setup, policy, bounds>>

\* A slip: an evidence file that exists already is not referenced.
ReferencedOnce ==
    [state EXCEPT !.evidence = IF meta[state.findings] = "absent" THEN <<state.findings>> ELSE @,
                  !.stage = "report"]

Referenced == [state EXCEPT !.evidence = <<state.findings>>, !.stage = "report"]

WriteMeta ==
    /\ pc \in {"meta", "meta_rest"}
    /\ IF pc = "meta" /\ meta[state.findings] = "absent"
       THEN meta' = [meta EXCEPT ![state.findings] = "part"] /\ Goto("meta_rest")
       ELSE /\ meta' = [meta EXCEPT ![state.findings] = IF pc = "meta_rest" THEN "whole" ELSE @]
            /\ Advance(Referenced)
    /\ UNCHANGED <<saved, ledger, bin, report, setup, policy, bounds>>

\* A malformed finding raises before render_all() opens its five files.
StartReport ==
    /\ pc = "report"
    /\ IF Range(state.findings) \cap Malformed # {}
       THEN Goto("fail") /\ UNCHANGED report
       ELSE Goto("report_rest") /\ report' = [files |-> "part"]
    /\ UNCHANGED <<saved, ledger, bin, meta, setup, policy, bounds>>

\* A finding that brings no evidence of its own gets the state's reference.
FinishReport ==
    /\ pc = "report_rest"
    /\ report' = [files |-> "whole", findings |-> state.findings,
                  evidence |-> [f \in Range(state.findings) |->
                                    IF f \in Referring THEN Own ELSE state.evidence]]
    /\ Advance([state EXCEPT !.stage = "cleanup"])
    /\ UNCHANGED <<saved, ledger, bin, meta, setup, policy, bounds>>

\* _save(): a temporary file takes the place of the old one.
SaveAs(next) == saved' = next /\ UNCHANGED <<ledger, bin, meta, report>>

Save ==
    /\ pc = "save"
    /\ SaveAs(state)
    /\ Goto("loop")
    /\ UNCHANGED <<setup, policy, bounds>>

SavePending ==
    /\ pc = "save_pending"
    /\ SaveAs(state)
    /\ Leave
    /\ UNCHANGED <<setup, policy, bounds>>

\* A slip: the end is logged and the state is not saved.
EndUnsaved ==
    /\ pc \in {"succeed", "fail"}
    /\ state' = [state EXCEPT !.status = IF pc = "succeed" THEN "succeeded" ELSE "failed"]
    /\ pc' = "run_end"
    /\ UNCHANGED <<left, result, disk, setup, policy, bounds>>

\* The last save, of a success or in the except clause; then RUN_END.
End ==
    /\ pc \in {"succeed", "fail"}
    /\ state' = [state EXCEPT !.status = IF pc = "succeed" THEN "succeeded" ELSE "failed"]
    /\ SaveAs(state')
    /\ pc' = "run_end"
    /\ UNCHANGED <<left, result, setup, policy, bounds>>

LogRunEnd ==
    /\ pc = "run_end"
    /\ Log([type |-> "RUN_END", status |-> state.status])
    /\ Leave
    /\ UNCHANGED <<setup, policy, bounds>>

EngineStep ==
    \/ OpenLedger \/ LogRunStart \/ Loop \/ Discover \/ Plan \/ Skip \/ Ask
    \/ LogToolCall \/ RunPlugin \/ LogToolResult \/ LogFinding
    \/ WriteBin \/ WriteMeta \/ StartReport \/ FinishReport
    \/ Save \/ SavePending \/ End \/ LogRunEnd

-----------------------------------------------------------------------------

\* The line a call is about to write.
NextLine ==
    CASE pc = "run_start" -> [type |-> "RUN_START"]
      [] pc = "call"      -> ToolCall
      [] pc = "result"    -> ToolResult
      [] pc = "run_end"   -> [type |-> "RUN_END", status |-> state.status]
      [] OTHER            -> [type |-> "FINDING", finding |-> Head(result.parsed)]

LoggingNow ==
    \/ pc \in {"run_start", "call", "result", "run_end"}
    \/ pc = "findings" /\ result.parsed # <<>>

\* What an unfinished step leaves on disk: nothing, or a part or all of a ledger line.
\* A file of the evidence or the report that was begun stays as it is.
Unfinished ==
    \/ UNCHANGED disk
    \/ LoggingNow /\ Log(Torn)
    \/ LoggingNow /\ Log(NextLine)

\* OSError: nothing in run() catches it.
WriteFails ==
    /\ faults < MaxFaults
    /\ LoggingNow \/ pc \in {"save", "save_pending", "succeed", "fail", "evidence", "bin_rest",
                             "meta", "meta_rest", "report", "report_rest"}
    /\ Unfinished
    /\ Leave
    /\ faults' = faults + 1
    /\ UNCHANGED <<setup, policy, calls, crashes>>

\* The process dies. The next one may have another scope or other plugins;
\* approvals and stops are gone.
Crash ==
    /\ crashes < MaxCrashes
    /\ Unfinished
    /\ Leave
    /\ \E s \in Setups : scope' = s.scope /\ registry' = s.registry
    /\ stopped' = FALSE
    /\ approval' = [r \in Requests |-> "none"]
    /\ revoked' = {}
    /\ crashes' = crashes + 1
    /\ UNCHANGED <<active, passed, calls, faults>>

\* An operator decides, and may decide otherwise later.
Decide(request, status) ==
    /\ approval[request] # "none"
    /\ approval' = [approval EXCEPT ![request] = status]
    /\ revoked' = IF status = "approved" THEN revoked \ {request} ELSE revoked \cup {request}
    /\ UNCHANGED <<engine, disk, setup, active, stopped, passed, bounds>>

\* Emergency stop and resume of the run, its target or everything.
Stop(on) ==
    /\ stopped' = on
    /\ UNCHANGED <<engine, disk, setup, active, approval, revoked, passed, bounds>>

\* A time window closes or opens.
Time ==
    /\ active' = ~active
    /\ UNCHANGED <<engine, disk, setup, stopped, approval, revoked, passed, bounds>>

Next ==
    \/ \E skip \in BOOLEAN : Call(skip)
    \/ EngineStep
    \/ WriteFails
    \/ Crash
    \/ \E r \in Requests, status \in {"approved", "rejected"} : Decide(r, status)
    \/ \E on \in BOOLEAN : Stop(on)
    \/ Time

Spec == Init /\ [][Next]_workflowVars

-----------------------------------------------------------------------------

Reached(stage) == saved # NoState /\ Rank(saved.stage) >= Rank(stage)

Logged(event) == event \in Range(ledger)

Succeeded(stage) == \E p \in Plugin :
    Logged([type |-> "TOOL_RESULT", stage |-> stage, plugin |-> p, success |-> TRUE])

Times(f, list) == Cardinality({i \in DOMAIN list : list[i] = f})

\* TypeOK: files, ledger and local state are of their kinds, and a state past
\* discovery has a target.
TypeOK ==
    /\ {state, saved} \subseteq WorkflowState \cup {NoState}
    /\ \A st \in {state, saved} \ {NoState} :
           /\ st.evidence \in {<<>>, <<st.findings>>}
           /\ Rank(st.stage) > 1 => st.targets # <<>>
    /\ \A i \in DOMAIN ledger :
           ledger[i].type \in {"RUN_START", "TOOL_CALL", "TOOL_RESULT", "FINDING", "RUN_END", "torn"}
    /\ {bin, meta} \subseteq [Found -> {"absent", "part", "whole"}]
    /\ [scope |-> scope, registry |-> registry] \in Setups
    /\ approval \in [Requests -> {"none", "pending", "approved", "rejected"}]
    /\ revoked \subseteq Requests

\* EndAgrees: a RUN_END in the ledger is final: the saved state has its status, and
\* keeps it through every later call, failure and kill.
EndAgrees ==
    \A i \in DOMAIN ledger : ledger[i].type = "RUN_END" =>
        saved # NoState /\ saved.status = ledger[i].status

\* FindingsAudited: no finding is in the saved state that is not in the ledger as
\* often; a stage that is repeated after a kill may log it once more.
FindingsAudited ==
    saved # NoState => \A f \in Finding :
        Times(f, saved.findings) <= Times([type |-> "FINDING", finding |-> f], ledger)

\* ValidationApproved: while validation plugins run, an operator has approved the first
\* of them for that target in this process, and has not taken it back before the policy
\* was asked, whatever calls, failures and kills came before. The others are called
\* without an approval of their own, and only after the one before has failed.
ValidationApproved ==
    (pc \in {"call", "plugin", "result"} /\ state.stage = "validate") =>
        /\ approval[Request] = "approved" \/ Request \in revoked
        /\ pc = "call" /\ Len(left) < Len(Able("validate")) =>
               Last(ledger) =
                   [type |-> "TOOL_RESULT", stage |-> "validate", success |-> FALSE,
                    plugin |-> Able("validate")[Len(Able("validate")) - Len(left)]]

\* EvidenceKept: once the evidence stage is saved, the state refers to evidence for
\* just its findings and both files exist; once the report stage is saved, the report
\* has those findings, and with it that reference each of them that brought none of its
\* own. A repeated stage finds the files there.
EvidenceKept ==
    /\ Reached("report") =>
           /\ saved.evidence = <<saved.findings>>
           /\ bin[saved.findings] # "absent"
           /\ meta[saved.findings] # "absent"
    /\ Reached("cleanup") =>
           /\ report.files = "whole"
           /\ report.findings = saved.findings
           /\ \A f \in Range(saved.findings) \ Referring : report.evidence[f] = saved.evidence

\* SucceededInFull: a run that says succeeded has an assessment that succeeded, a
\* validation that succeeded and an attempt to clean up, unless validation is skipped or
\* nobody could do it at its time, however many calls and kills it took.
SucceededInFull ==
    (saved # NoState /\ saved.status = "succeeded") =>
        /\ Succeeded("assess")
        /\ saved.skip \/ "validate" \in passed \/ Succeeded("validate")
        /\ "cleanup" \in passed \/ \E e \in Range(ledger) :
               e.type = "TOOL_RESULT" /\ e.stage = "cleanup"

\* ProgressKept: no call, failure or kill takes a saved stage back, reopens a run that
\* has ended, or changes the targets, the findings or the choice to skip validation
\* once they are saved.
ProgressKept ==
    [][saved # NoState =>
           /\ saved' # NoState
           /\ Rank(saved'.stage) >= Rank(saved.stage)
           /\ saved.status \in Terminal => saved' = saved
           /\ Reached("plan") => saved'.targets = saved.targets
           /\ Reached("validate") => saved'.findings = saved.findings
           /\ saved'.skip = saved.skip]_workflowVars

\* ProhibitedNeverCalled: docs/SPEC.md says a prohibited action always loses to an
\* allow rule. The policy is asked for the first candidate only, and the others are
\* called when that one fails.
ProhibitedNeverCalled ==
    \A i \in DOMAIN ledger :
        ledger[i].type = "TOOL_CALL" => ledger[i].plugin \notin scope.prohibited

\* EvidenceIntact: docs/SPEC.md says that evidence is content-addressed and claims keep
\* their references. After a write that was cut off, the file that the saved reference
\* names is not the content its name is the hash of.
EvidenceIntact == Reached("report") => bin[saved.findings] = "whole"

=============================================================================
