--------------------------- MODULE ComputerControl ---------------------------
(***************************************************************************)
(* ComputerController.execute() of computer.py in threads of a node where  *)
(* interactive control is enabled: policy, audit line, backend, audit line.*)
(* The controller has an event_path, one file for all its runs, and makes  *)
(* an EventLedger object for each run it meets.  Of that file the model has*)
(* the number of lines, and whether it would replay: an object knows the   *)
(* line it wrote or replayed last, and the line it writes next is chained  *)
(* to that one, wherever it comes to stand.                                *)
(***************************************************************************)
EXTENDS PolicyEngine, FiniteSets

CONSTANTS
    Agent,         \* threads that call execute()
    Surfaces,      \* surfaces that have a backend on this node
    Nobody,
    MaxActions,    \* bound: calls of execute() that reach the audit file
    MaxCuts        \* bound: lines of the audit file that are cut off

ASSUME ControlAssumption ==
    /\ IsFiniteSet(Agent)
    /\ Nobody \notin Agent \cup Surfaces
    /\ Surfaces \subseteq {"screen", "desktop", "browser"}
    /\ {MaxActions, MaxCuts} \subseteq Nat

VARIABLES
    phase,      \* where each thread is in execute()
    doing,      \* the request and the surface of its call
    uses,       \* the local variable ledger: who made the object
    ledgers,    \* _ledgers: who made the object of each run
    knows,      \* the last line each object knows of, by maker and run
    audit,      \* the audit file
    objects,    \* history: objects made since the process was started
    shared,     \* history: a process has made a second object for the file
    performed,  \* history: calls of a backend
    withheld,   \* history: what each call could have been refused for all along
    cuts        \* lines cut off so far

ledgerVars == <<ledgers, knows, objects, shared>>
controlVars == <<phase, doing, uses, ledgerVars, audit, performed, withheld, cuts>>

Phase == {"idle", "scope", "stops", "prohibited", "approval", "find", "make", "store",
          "take", "call", "act", "result"}

\* _tier_for().
TierFor(kind) ==
    CASE kind \in {"screenshot", "browser_snapshot"} -> ReadOnly
      [] kind \in {"move_pointer", "browser_navigate"} -> Validate
      [] OTHER -> HighRisk

\* What the backends' execute() methods do; for every other kind they raise.
Supports(surface, kind) ==
    \/ surface = "screen" /\ kind = "screenshot"
    \/ surface = "desktop" /\ kind \in {"move_pointer", "click", "type_text", "hotkey"}
    \/ surface = "browser" /\ kind \in {"browser_navigate", "browser_click",
                                        "browser_type", "browser_snapshot"}

NoAction == [request |-> Nobody, surface |-> Nobody]

\* Lines that are events, by type, and lines that are none; end: what comes after the
\* last line end, if anything; replays: each line is an event chained to the one before.
EmptyAudit == [calls |-> 0, results |-> 0, spoiled |-> 0, end |-> "no", replays |-> TRUE]

Lines == audit.calls + audit.results + audit.spoiled

ControlInit ==
    /\ phase = [t \in Agent |-> "idle"]
    /\ doing = [t \in Agent |-> NoAction]
    /\ uses = [t \in Agent |-> Nobody]
    /\ ledgers = [run \in Run |-> Nobody]
    /\ knows = [t \in Agent |-> [run \in Run |-> 0]]
    /\ audit = EmptyAudit
    /\ objects = {}
    /\ shared = FALSE
    /\ performed = 0
    /\ withheld = [t \in Agent |-> {}]
    /\ cuts = 0

-----------------------------------------------------------------------------

Working == {t \in Agent : phase[t] # "idle"}

Of(t) == doing[t].request

RunOf(t) == Of(t).run

Enter(t, p) == phase' = [phase EXCEPT ![t] = p]

\* execute() returns or raises.
Leave(t) ==
    /\ Enter(t, "idle")
    /\ doing' = [doing EXCEPT ![t] = NoAction]
    /\ uses' = [uses EXCEPT ![t] = Nobody]

\* evaluate() goes on, or ControlDenied is raised.
Check(t, refuses, p) ==
    /\ IF refuses THEN Leave(t) ELSE Enter(t, p) /\ UNCHANGED <<doing, uses>>
    /\ UNCHANGED <<ledgerVars, audit, performed, cuts>>

\* A surface without a backend is refused before the policy is asked.
Execute(t, r, surface) ==
    /\ phase[t] = "idle"
    /\ surface \in Surfaces
    /\ audit.calls + Cardinality(Working) < MaxActions
    /\ doing' = [doing EXCEPT ![t] = [request |-> r, surface |-> surface]]
    /\ Enter(t, "scope")
    /\ UNCHANGED <<policyVars, uses, ledgerVars, audit, performed, cuts>>

\* The time window of the scope and its targets are two reads one after the other; they
\* are taken as one, a scope outside its window being one without targets.
CheckScope(t) ==
    /\ phase[t] = "scope"
    /\ Check(t, ~TargetAllowed(Of(t)), "stops")
    /\ UNCHANGED policyVars

\* A slip: the registry is asked for the run and the target only.
CheckStopsLocal(t) ==
    /\ phase[t] = "stops"
    /\ Check(t, Of(t).run \in stops.runs \/ Of(t).target \in stops.targets, "prohibited")
    /\ UNCHANGED policyVars

CheckStops(t) ==
    /\ phase[t] = "stops"
    /\ Check(t, Stopped(Of(t)), "prohibited")
    /\ UNCHANGED policyVars

CheckProhibited(t) ==
    /\ phase[t] = "prohibited"
    /\ Check(t, Prohibited(Of(t)), "approval")
    /\ UNCHANGED policyVars

\* A slip: a request that was asked for before is approved.
CheckAsked(t) ==
    /\ phase[t] = "approval"
    /\ IF TierFor(Of(t).kind) >= Exploit
       THEN Ask(Of(t)) /\ Check(t, approvals[Of(t)] = "none", "find")
       ELSE UNCHANGED approvals /\ Check(t, FALSE, "find")
    /\ UNCHANGED <<scope, stops>>

CheckApproval(t) ==
    /\ phase[t] = "approval"
    /\ IF TierFor(Of(t).kind) >= Exploit
       THEN Ask(Of(t)) /\ Check(t, approvals[Of(t)] # "approved", "find")
       ELSE UNCHANGED approvals /\ Check(t, FALSE, "find")
    /\ UNCHANGED <<scope, stops>>

\* _ledger(): is there an object for the run ...
FindLedger(t) ==
    /\ phase[t] = "find"
    /\ Enter(t, IF ledgers[RunOf(t)] = Nobody THEN "make" ELSE "take")
    /\ UNCHANGED <<policyVars, doing, uses, ledgerVars, audit, performed, cuts>>

\* ... if not, one is made, which replays the file and raises if it cannot, ...
MakeLedger(t) ==
    /\ phase[t] = "make"
    /\ IF audit.replays
       THEN /\ knows' = [knows EXCEPT ![t][RunOf(t)] = Lines]
            /\ objects' = objects \cup {<<t, RunOf(t)>>}
            /\ shared' = (shared \/ objects # {})
            /\ Enter(t, "store")
            /\ UNCHANGED <<doing, uses>>
       ELSE Leave(t) /\ UNCHANGED <<knows, objects, shared>>
    /\ UNCHANGED <<policyVars, ledgers, audit, performed, cuts>>

\* A slip: the object is used, but not kept.
StoreNothing(t) ==
    /\ phase[t] = "store"
    /\ Enter(t, "take")
    /\ UNCHANGED <<policyVars, doing, uses, ledgerVars, audit, performed, cuts>>

\* ... and put into the dictionary, ...
StoreLedger(t) ==
    /\ phase[t] = "store"
    /\ ledgers' = [ledgers EXCEPT ![RunOf(t)] = t]
    /\ Enter(t, "take")
    /\ UNCHANGED <<policyVars, doing, uses, knows, objects, shared, audit, performed, cuts>>

\* ... and what the dictionary has by now is used.
TakeLedger(t) ==
    /\ phase[t] = "take"
    /\ uses' = [uses EXCEPT ![t] = ledgers[RunOf(t)]]
    /\ Enter(t, "call")
    /\ UNCHANGED <<policyVars, doing, ledgerVars, audit, performed, cuts>>

\* The file when an event without a line end is no event any more.
Joined ==
    IF audit.end \in {"calls", "results"} THEN [audit EXCEPT ![audit.end] = @ - 1] ELSE audit

\* A line follows what is there, and becomes a part of it where there is no line end.
Written(t, field) ==
    IF audit.end = "no"
    THEN [audit EXCEPT ![field] = @ + 1,
                       !.replays = @ /\ knows[uses[t]][RunOf(t)] = Lines]
    ELSE [Joined EXCEPT !.spoiled = @ + 1, !.end = "no", !.replays = FALSE]

\* What a write that was cut off has left: a part of the line, all but its end, or the
\* line, of which the object knows nothing.
Remains(t, field) ==
    {[Joined EXCEPT !.end = "part", !.replays = FALSE], Written(t, field)} \cup
    (IF audit.end = "no" THEN {[Written(t, field) EXCEPT !.end = field]} ELSE {})

Field(t) == IF phase[t] = "call" THEN "calls" ELSE "results"

\* A slip: the object does not notice that it wrote.
AppendForgetful(t) ==
    /\ audit' = Written(t, Field(t))
    /\ UNCHANGED knows

\* EventLedger.append(), under the lock of the object.
AppendLine(t) ==
    /\ audit' = Written(t, Field(t))
    /\ knows' = [knows EXCEPT ![uses[t]][RunOf(t)] = Lines + 1]

\* A slip: the line is written when the action is done.
LogLater(t) ==
    /\ phase[t] = "call"
    /\ Enter(t, "act")
    /\ UNCHANGED <<policyVars, doing, uses, ledgerVars, audit, performed, cuts>>

LogCall(t) ==
    /\ phase[t] = "call"
    /\ AppendLine(t)
    /\ Enter(t, "act")
    /\ UNCHANGED <<policyVars, doing, uses, ledgers, objects, shared, performed, cuts>>

\* backend.execute() returns, or it raises; for an unknown kind it raises at once.
Act(t) ==
    /\ phase[t] = "act"
    /\ performed' = performed + 1
    /\ \/ Supports(doing[t].surface, Of(t).kind) /\ Enter(t, "result") /\ UNCHANGED <<doing, uses>>
       \/ Leave(t)
    /\ UNCHANGED <<policyVars, ledgerVars, audit, cuts>>

LogResult(t) ==
    /\ phase[t] = "result"
    /\ AppendLine(t)
    /\ Leave(t)
    /\ UNCHANGED <<policyVars, ledgers, objects, shared, performed, cuts>>

\* An append raises, before its line or within it.
AppendFails(t) ==
    /\ phase[t] \in {"call", "result"}
    /\ \/ UNCHANGED <<audit, cuts>>
       \/ /\ cuts < MaxCuts
          /\ cuts' = cuts + 1
          /\ audit' \in Remains(t, Field(t))
    /\ Leave(t)
    /\ UNCHANGED <<policyVars, ledgerVars, performed>>

ControlStep(t) ==
    \/ \E r \in Request, surface \in Surfaces : Execute(t, r, surface)
    \/ CheckScope(t) \/ CheckStops(t) \/ CheckProhibited(t) \/ CheckApproval(t)
    \/ FindLedger(t) \/ MakeLedger(t) \/ StoreLedger(t) \/ TakeLedger(t)
    \/ LogCall(t) \/ Act(t) \/ LogResult(t) \/ AppendFails(t)

\* The process dies, perhaps within a line, and everything but the file is gone.
ControlCrash ==
    /\ \/ UNCHANGED audit
       \/ \E t \in Agent : phase[t] \in {"call", "result"} /\ audit' \in Remains(t, Field(t))
    /\ phase' = [t \in Agent |-> "idle"]
    /\ doing' = [t \in Agent |-> NoAction]
    /\ uses' = [t \in Agent |-> Nobody]
    /\ ledgers' = [run \in Run |-> Nobody]
    /\ knows' = [t \in Agent |-> [run \in Run |-> 0]]
    /\ objects' = {}
    /\ UNCHANGED <<shared, performed, cuts>>

\* In every step: a call that has not reached its backend yet keeps those causes for
\* which evaluate() could have refused it at every moment so far.
Watch ==
    withheld' = [t \in Agent |->
        IF phase'[t] \in {"idle", "result"} THEN {}
        ELSE LET now == Refused(Of(t), TierFor(Of(t).kind))'
             IN IF phase[t] = "idle" THEN now ELSE withheld[t] \cap now]

=============================================================================
