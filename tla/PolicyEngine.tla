---------------------------- MODULE PolicyEngine ----------------------------
(***************************************************************************)
(* The policy engine of policy.py with the scope of scope.py: what it      *)
(* keeps in memory (the scope in force, the emergency stops, the approvals)*)
(* and the questions evaluate() asks one after the other, while threads of *)
(* the API change the answers.  The privileges of a request are left out:  *)
(* no request of this program asks for any.                                *)
(***************************************************************************)
EXTENDS Naturals, SequencesExt

CONSTANTS
    Run, Target, Kind,
    HostOf,        \* _extract_host(): the labels of the host a target text names
    Scope,         \* ScopeConfigs: records with targets (rules) and prohibited (kinds)
    DefaultScope   \* the scope a process starts with

ASSUME PolicyAssumption ==
    /\ HostOf \in [Target -> Seq(STRING)]
    /\ DefaultScope \in Scope

VARIABLES
    scope,      \* policy.scope
    stops,      \* EmergencyStopRegistry: _global, _runs and _targets
    approvals   \* ApprovalStore: the status of each fingerprint that has a record

policyVars == <<scope, stops, approvals>>

\* ActionTier.
ReadOnly == 10
Validate == 30
Exploit == 40
HighRisk == 50

\* A request as its fingerprint has it; its tier follows from its kind.
Request == [run : Run, target : Target, kind : Kind]

NoStops == [global |-> FALSE, runs |-> {}, targets |-> {}]

PolicyInit ==
    /\ scope = DefaultScope
    /\ stops = NoStops
    /\ approvals = [r \in Request |-> "none"]

-----------------------------------------------------------------------------

\* _target_matches(): a wildcard needs at least one label more than it names. A rule
\* for a network stands for the rules for its addresses.
Matches(rule, host) ==
    \/ rule.kind = "wildcard" /\ IsStrictSuffix(rule.host, host)
    \/ rule.kind = "host" /\ rule.host = host

\* is_target_allowed() looks at hosts ...
TargetAllowed(r) == \E rule \in scope.targets : Matches(rule, HostOf[r.target])

\* ... and blocking_reason() at the text of the target.
Stopped(r) == stops.global \/ r.run \in stops.runs \/ r.target \in stops.targets

Prohibited(r) == r.kind \in scope.prohibited

\* get_or_create().
Ask(r) == approvals' = [approvals EXCEPT ![r] = IF @ = "none" THEN "pending" ELSE @]

\* What evaluate() may refuse a request for, and what it would refuse it for now.
Cause == {"target", "stop", "prohibited", "approval"}

Refused(r, tier) ==
    {cause \in Cause :
        \/ cause = "target" /\ ~TargetAllowed(r)
        \/ cause = "stop" /\ Stopped(r)
        \/ cause = "prohibited" /\ Prohibited(r)
        \/ cause = "approval" /\ tier >= Exploit /\ approvals[r] # "approved"}

-----------------------------------------------------------------------------

\* The operations behind POST /api/emergency-stop. stop_task() stops the run as well.
StopGlobal == stops' = [stops EXCEPT !.global = TRUE]
ResumeGlobal == stops' = [stops EXCEPT !.global = FALSE]
StopRun(run) == stops' = [stops EXCEPT !.runs = @ \cup {run}]
ResumeRun(run) == stops' = [stops EXCEPT !.runs = @ \ {run}]
StopTarget(target) == stops' = [stops EXCEPT !.targets = @ \cup {target}]
ResumeTarget(target) == stops' = [stops EXCEPT !.targets = @ \ {target}]

ApplyStop ==
    /\ \/ StopGlobal \/ ResumeGlobal
       \/ \E run \in Run : StopRun(run) \/ ResumeRun(run)
       \/ \E target \in Target : StopTarget(target) \/ ResumeTarget(target)
    /\ stops' # stops
    /\ UNCHANGED <<scope, approvals>>

\* approve() and reject(): a decision overwrites an earlier one.
Decide(r, status) ==
    /\ approvals[r] \notin {"none", status}
    /\ approvals' = [approvals EXCEPT ![r] = status]
    /\ UNCHANGED <<scope, stops>>

\* Stops and approvals are kept in memory only.
PolicyLost ==
    /\ stops' = NoStops
    /\ approvals' = [r \in Request |-> "none"]

=============================================================================
