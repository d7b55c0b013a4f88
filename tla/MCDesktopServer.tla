--------------------------- MODULE MCDesktopServer ---------------------------
(***************************************************************************)
(* Constants for the run of the desktop server: two targets, of which the  *)
(* second is a subdomain of the first one's, two scopes that tell them and *)
(* the kinds of action apart, two runs, and a page with two providers.     *)
(***************************************************************************)
EXTENDS DesktopServer

CONSTANTS apex, www

MCHostOf == [t \in Target |-> IF t = apex THEN <<"org">> ELSE <<"www", "org">>]

\* The subdomains alone, and both hosts without clicks.
MCDefaultScope == [targets |-> {[kind |-> "wildcard", host |-> <<"org">>]}, prohibited |-> {}]
MCScope ==
    {MCDefaultScope,
     [targets |-> {[kind |-> "host", host |-> HostOf[t]] : t \in Target},
      prohibited |-> {"click"}]}

NoProviderChanged ==
    /\ settingsFile = Providers!Blank("absent")
    /\ OnProviders = {}
    /\ made = NoEntries

NoControl ==
    /\ Working = {}
    /\ audit = EmptyAudit
    /\ <<stops, approvals>> = <<NoStops, [r \in Request |-> "none"]>>

\* One request and one action at a time, no failed write and no kill.
OneByOne ==
    /\ Cardinality(Busy) <= 1
    /\ crashes = 0
    /\ failures = 0
    /\ audit.calls + Cardinality(Working) <= 1
    /\ overlapped = {}
    /\ audit.end = "no"
    /\ cuts = 0

\* The providers have no variable in common with what actions read, and actions meet one
\* another in the audit file only. So the run covers requests of the page that overlap
\* and fail, actions that overlap and fail, and single requests during an action.
Apart ==
    \/ NoControl
    \/ NoProviderChanged /\ (changes = 0 \/ OneByOne)

Alike == Permutations(Caller) \cup Permutations(Name) \cup Permutations(Agent)

=============================================================================
