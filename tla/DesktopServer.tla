---------------------------- MODULE DesktopServer ----------------------------
(***************************************************************************)
(* One process in which the settings page, the decisions and emergency     *)
(* stops of the API (DesktopSettings, PolicyEngine) and a computer         *)
(* controller (ComputerControl) share one policy engine.  They meet in it  *)
(* only: in the scope, the stops and the approvals that evaluate() reads   *)
(* one after the other while the API replaces them.  The process may be    *)
(* killed and started again.                                               *)
(***************************************************************************)
EXTENDS DesktopSettings, ComputerControl

CONSTANT MaxCrashes    \* bound: kills of the process

ASSUME ServerAssumption == MaxCrashes \in Nat

VARIABLES
    up,         \* the process runs
    crashes     \* kills so far

vars == <<settingsVars, policyVars, controlVars, up, crashes>>

Init ==
    /\ PolicyInit
    /\ SettingsInit
    /\ ControlInit
    /\ up = TRUE
    /\ crashes = 0

\* A request to stop, to resume or to decide. Each is one access under a lock.
Operate ==
    /\ changes < MaxChanges
    /\ changes' = changes + 1
    /\ ApplyStop \/ \E r \in Request, status \in {"approved", "rejected"} : Decide(r, status)
    /\ UNCHANGED <<providerVars, scopeFile, scopeTemp, scopeHandle, apiScope, at, job,
                   overlapped, broken, failures>>

Configure ==
    /\ SettingsStep
    /\ UNCHANGED <<stops, approvals>>

Control ==
    /\ \E t \in Agent : ControlStep(t)
    /\ UNCHANGED settingsVars

\* create_desktop_runtime() raises on a scope.json that is no JSON text.
Crash ==
    /\ crashes < MaxCrashes
    /\ crashes' = crashes + 1
    /\ SettingsCrash
    /\ ControlCrash
    /\ PolicyLost
    /\ up' = Authorization!Readable

\* Every access of a thread, and what it means for the calls under way.
Next ==
    /\ up
    /\ \/ /\ Operate \/ Configure
          /\ UNCHANGED <<phase, doing, uses, ledgerVars, audit, performed, cuts, up, crashes>>
       \/ Control /\ UNCHANGED <<up, crashes>>
       \/ Crash
    /\ Watch

Spec == Init /\ [][Next]_vars

-----------------------------------------------------------------------------

TypeOK ==
    /\ Providers!FileTypeOK
    /\ Authorization!FileTypeOK
    /\ keyring \in [Name -> Key \cup {NoKey}]
    /\ scope \in Scope
    /\ apiScope \in Scope
    /\ at \in [Caller -> Place]
    /\ \A c \in Caller : at[c] \notin {"idle", "policy", "api"} => job[c] # NoJob
    /\ made \in Entries
    /\ overlapped \subseteq {"providers", "scope"}
    /\ broken \subseteq Name
    /\ changes \in 0..MaxChanges
    /\ failures \in 0..MaxFailures
    /\ stops \in [global : BOOLEAN, runs : SUBSET Run, targets : SUBSET Target]
    /\ approvals \in [Request -> {"none", "pending", "approved", "rejected"}]
    /\ phase \in [Agent -> Phase]
    /\ doing \in [Agent -> {NoAction} \cup [request : Request, surface : Surfaces]]
    /\ \A t \in Agent : phase[t] = "idle" <=> doing[t] = NoAction
    /\ uses \in [Agent -> Agent \cup {Nobody}]
    /\ \A t \in Agent : phase[t] \in {"call", "act", "result"} => uses[t] # Nobody
    /\ ledgers \in [Run -> Agent \cup {Nobody}]
    /\ knows \in [Agent -> [Run -> Nat]]
    /\ audit \in [calls : Nat, results : Nat, spoiled : Nat,
                 end : {"no", "part", "calls", "results"}, replays : BOOLEAN]
    /\ objects \subseteq Agent \X Run
    /\ shared \in BOOLEAN
    /\ performed \in Nat
    /\ withheld \in [Agent -> SUBSET Cause]
    /\ cuts \in 0..MaxCuts
    /\ up \in BOOLEAN
    /\ crashes \in 0..MaxCrashes

\* settings.json holds what the requests that replaced it asked for: as long as no two
\* of them were under way together, no error of the disk and no kill between two steps
\* of _write() loses an entry, brings one back or leaves a file that cannot be read.
ChangesKept ==
    "providers" \notin overlapped => Providers!Readable /\ settingsFile.holds = made

\* A key whose provider is not in settings.json is left only by a request for that
\* provider that was broken off (between the file and the key ring, in either order),
\* and by no request that was answered.
OrphanKeys ==
    "providers" \notin overlapped /\ OnProviders = {} =>
        {n \in Name : keyring[n] # NoKey /\ made[n] = NoEntry} \subseteq broken

\* What evaluate() allows, what the API accepts and what the next start will find in
\* scope.json are the same scope whenever no update is under way, after failed updates
\* and kills as well; then the process can always be started.
ScopesAgree ==
    "scope" \notin overlapped =>
        /\ up
        /\ Authorization!Readable
        /\ OnScope = {} => scope = scopeFile.holds /\ apiScope = scopeFile.holds

\* An action that execute() hands to the backend was, for each cause of refusal, free
\* of that cause at one moment at least since the call was made: a stop, a scope or a
\* missing approval that was in force the whole time is never passed by.
WithdrawnNeverActs == \A t \in Agent : phase[t] = "act" => withheld[t] = {}

Acting == Cardinality({t \in Agent : phase[t] = "act"})

\* No backend is called that the audit file does not show (a line spoiled by the cut one
\* before it included), no result is shown that no backend returned, and a call that is
\* shown was made, but for those that a kill or a failed write prevented.
ActionsAudited ==
    /\ performed + Acting <= audit.calls + audit.spoiled
    /\ audit.calls <= performed + Acting + Cardinality(Agent) * crashes + cuts
    /\ audit.results <= performed

\* The audit file replays as long as no write was cut off and no process made a second
\* ledger object for it: the threads that share an object do not spoil the chain, nor
\* does a new process that goes on where the last one was killed.
AuditReplays ==
    shared \/ audit.replays \/ cuts > 0 \/ audit.end # "no" \/ audit.spoiled > 0

=============================================================================
