------------------------- MODULE DesktopServerProofs -------------------------
(***************************************************************************)
(* Four promises of the desktop server for any agents, callers, runs,      *)
(* targets, rules, scopes and providers: no action is handed to a backend  *)
(* although a cause to refuse it held the whole time; after each change of *)
(* the scope that did not overlap with another one, the policy, the API    *)
(* and the file agree; changes of providers that did not overlap are in    *)
(* the file; and a key without a provider comes from a request that was    *)
(* broken off.                                                             *)
(***************************************************************************)
EXTENDS DesktopServer, TLAPS

-----------------------------------------------------------------------------

Decision == {"none", "pending", "approved", "rejected"}

\* What the first invariant needs to know of the types.
ControlTypes ==
    /\ approvals \in [Request -> Decision]
    /\ phase \in [Agent -> Phase]
    /\ doing \in [Agent -> {NoAction} \cup [request : Request, surface : Surfaces]]
    /\ \A t \in Agent : phase[t] # "idle" => doing[t].request \in Request
    /\ withheld \in [Agent -> SUBSET Cause]

\* The causes evaluate() has asked for when a call has come to a phase.
Asked(p) ==
    {cause \in Cause :
        \/ cause = "target" /\ p # "scope"
        \/ cause = "stop" /\ p \notin {"scope", "stops"}
        \/ cause = "prohibited" /\ p \notin {"scope", "stops", "prohibited"}
        \/ cause = "approval" /\ p \notin {"scope", "stops", "prohibited", "approval"}}

\* What has been asked for was free at that moment, so it is withheld no more.
AskedWereFree == \A t \in Agent : withheld[t] \cap Asked(phase[t]) = {}

ControlInv == ControlTypes /\ AskedWereFree

NowRefused(t) == Refused(Of(t), TierFor(Of(t).kind))

-----------------------------------------------------------------------------

LEMMA ControlInitially == Init => ControlInv
<1> SUFFICES ASSUME Init PROVE ControlInv
  OBVIOUS
<1> USE DEF Init, ControlInit, PolicyInit
<1>1. ControlTypes
  BY DEF ControlTypes, Decision, Phase, NoAction
<1>2. AskedWereFree
  BY DEF AskedWereFree
<1>. QED
  BY <1>1, <1>2 DEF ControlInv

\* Watch() forgets a cause that was asked for before, or is free now.
LEMMA WatchForgets ==
    ASSUME AskedWereFree, Watch, NEW t \in Agent,
           \A cause \in Asked(phase'[t]) :
               \/ phase[t] # "idle" /\ cause \in Asked(phase[t])
               \/ cause \notin NowRefused(t)'
               \/ phase'[t] = "idle"
    PROVE  withheld'[t] \cap Asked(phase'[t]) = {}
<1>1. withheld[t] \cap Asked(phase[t]) = {}
  BY DEF AskedWereFree
<1>2. CASE phase'[t] \in {"idle", "result"}
  BY <1>2 DEF Watch
<1>3. CASE phase'[t] \notin {"idle", "result"} /\ phase[t] = "idle"
  <2>1. withheld'[t] = NowRefused(t)'
    BY <1>3 DEF Watch, NowRefused
  <2>. QED
    BY <2>1, <1>3
<1>4. CASE phase'[t] \notin {"idle", "result"} /\ phase[t] # "idle"
  <2>1. withheld'[t] = withheld[t] \cap NowRefused(t)'
    BY <1>4 DEF Watch, NowRefused
  <2>. QED
    BY <2>1, <1>1, <1>4
<1>. QED
  BY <1>2, <1>3, <1>4

LEMMA WatchType ==
    ASSUME ControlTypes, Watch
    PROVE  withheld' \in [Agent -> SUBSET Cause]
<1>1. \A t \in Agent : NowRefused(t)' \subseteq Cause
  BY DEF NowRefused, Refused
<1>2. \A t \in Agent : withheld'[t] \subseteq Cause
  BY <1>1 DEF Watch, NowRefused, ControlTypes
<1>3. withheld' = [t \in Agent |-> withheld'[t]]
  BY DEF Watch
<1>. QED
  BY <1>2, <1>3

\* Nobody moves.
LEMMA NobodyMoves ==
    ASSUME ControlInv, Watch, UNCHANGED <<phase, doing>>, approvals' \in [Request -> Decision]
    PROVE  ControlInv'
<1>1. ControlTypes'
  BY WatchType DEF ControlInv, ControlTypes
<1>2. ASSUME NEW t \in Agent PROVE withheld'[t] \cap Asked(phase'[t]) = {}
  BY WatchForgets DEF ControlInv
<1>. QED
  BY <1>1, <1>2 DEF ControlInv, AskedWereFree

\* A thread goes on, and what it has asked for by then is free.
LEMMA OneGoesOn ==
    ASSUME ControlInv, Watch, NEW t \in Agent, NEW p \in Phase, p # "idle",
           Enter(t, p), doing' = doing, phase[t] # "idle",
           approvals' \in [Request -> Decision],
           \A cause \in Asked(p) \ Asked(phase[t]) : cause \notin NowRefused(t)'
    PROVE  ControlInv'
<1>1. /\ phase' \in [Agent -> Phase] /\ phase'[t] = p
      /\ \A u \in Agent \ {t} : phase'[u] = phase[u]
  BY DEF Enter, ControlInv, ControlTypes
<1>2. ControlTypes'
  BY <1>1, WatchType DEF ControlInv, ControlTypes
<1>3. ASSUME NEW u \in Agent PROVE withheld'[u] \cap Asked(phase'[u]) = {}
  <2>1. CASE u = t
    BY <1>1, <2>1, WatchForgets DEF ControlInv
  <2>2. CASE u # t
    BY <1>1, <2>2, WatchForgets DEF ControlInv
  <2>. QED
    BY <2>1, <2>2
<1>. QED
  BY <1>2, <1>3 DEF ControlInv, AskedWereFree

\* A thread begins a call.
LEMMA OneBegins ==
    ASSUME ControlInv, Watch, NEW t \in Agent, NEW r \in Request, NEW s \in Surfaces,
           Execute(t, r, s)
    PROVE  ControlInv'
<1> USE DEF Execute
<1>1. /\ phase' \in [Agent -> Phase] /\ phase'[t] = "scope"
      /\ \A u \in Agent \ {t} : phase'[u] = phase[u]
  BY DEF Enter, ControlInv, ControlTypes, Phase
<1>2. /\ doing' \in [Agent -> {NoAction} \cup [request : Request, surface : Surfaces]]
      /\ doing'[t].request = r /\ \A u \in Agent \ {t} : doing'[u] = doing[u]
  BY DEF ControlInv, ControlTypes
<1>3. ControlTypes'
  BY <1>1, <1>2, WatchType DEF ControlInv, ControlTypes, policyVars
<1>4. ASSUME NEW u \in Agent PROVE withheld'[u] \cap Asked(phase'[u]) = {}
  <2>1. CASE u = t
    <3>1. Asked("scope") = {}
      BY DEF Asked
    <3>. QED
      BY <1>1, <2>1, <3>1
  <2>2. CASE u # t
    BY <1>1, <2>2, WatchForgets DEF ControlInv
  <2>. QED
    BY <2>1, <2>2
<1>. QED
  BY <1>3, <1>4 DEF ControlInv, AskedWereFree

\* A thread ends its call.
LEMMA OneLeaves ==
    ASSUME ControlInv, Watch, NEW t \in Agent, Leave(t), approvals' \in [Request -> Decision]
    PROVE  ControlInv'
<1>1. /\ phase' \in [Agent -> Phase] /\ phase'[t] = "idle"
      /\ \A u \in Agent \ {t} : phase'[u] = phase[u]
  BY DEF Leave, Enter, ControlInv, ControlTypes, Phase
<1>2. /\ doing' \in [Agent -> {NoAction} \cup [request : Request, surface : Surfaces]]
      /\ \A u \in Agent \ {t} : doing'[u] = doing[u]
  BY DEF Leave, ControlInv, ControlTypes
<1>3. ControlTypes'
  BY <1>1, <1>2, WatchType DEF ControlInv, ControlTypes
<1>4. ASSUME NEW u \in Agent PROVE withheld'[u] \cap Asked(phase'[u]) = {}
  <2>1. CASE u = t
    BY <1>1, <2>1, WatchForgets DEF ControlInv
  <2>2. CASE u # t
    BY <1>1, <2>2, WatchForgets DEF ControlInv
  <2>. QED
    BY <2>1, <2>2
<1>. QED
  BY <1>3, <1>4 DEF ControlInv, AskedWereFree

-----------------------------------------------------------------------------

\* evaluate(), question by question.
LEMMA EvaluateStep ==
    ASSUME ControlInv, Watch, NEW t \in Agent,
           CheckScope(t) \/ CheckStops(t) \/ CheckProhibited(t) \/ CheckApproval(t)
    PROVE  ControlInv'
<1>1. Of(t) \in Request /\ phase[t] # "idle"
  BY DEF CheckScope, CheckStops, CheckProhibited, CheckApproval, ControlInv, ControlTypes, Of
<1>2. CASE CheckScope(t)
  <2>1. approvals' \in [Request -> Decision]
    BY <1>2 DEF CheckScope, policyVars, ControlInv, ControlTypes
  <2>2. CASE Leave(t)
    BY <2>1, <2>2, OneLeaves
  <2>3. CASE TargetAllowed(Of(t)) /\ Enter(t, "stops") /\ doing' = doing
    <3>1. "target" \notin NowRefused(t)'
      BY <1>2, <2>3 DEF CheckScope, policyVars, NowRefused, Refused, TargetAllowed, Of
    <3>2. Asked("stops") \ Asked(phase[t]) = {"target"} /\ "stops" \in Phase
      BY <1>2 DEF CheckScope, Asked, Cause, Phase
    <3>. QED
      BY <1>1, <2>1, <2>3, <3>1, <3>2, OneGoesOn
  <2>. QED
    BY <1>2, <2>2, <2>3 DEF CheckScope, Check
<1>3. CASE CheckStops(t)
  <2>1. approvals' \in [Request -> Decision]
    BY <1>3 DEF CheckStops, policyVars, ControlInv, ControlTypes
  <2>2. CASE Leave(t)
    BY <2>1, <2>2, OneLeaves
  <2>3. CASE ~Stopped(Of(t)) /\ Enter(t, "prohibited") /\ doing' = doing
    <3>1. "stop" \notin NowRefused(t)'
      BY <1>3, <2>3 DEF CheckStops, policyVars, NowRefused, Refused, Stopped, Of
    <3>2. Asked("prohibited") \ Asked(phase[t]) = {"stop"} /\ "prohibited" \in Phase
      BY <1>3 DEF CheckStops, Asked, Cause, Phase
    <3>. QED
      BY <1>1, <2>1, <2>3, <3>1, <3>2, OneGoesOn
  <2>. QED
    BY <1>3, <2>2, <2>3 DEF CheckStops, Check
<1>4. CASE CheckProhibited(t)
  <2>1. approvals' \in [Request -> Decision]
    BY <1>4 DEF CheckProhibited, policyVars, ControlInv, ControlTypes
  <2>2. CASE Leave(t)
    BY <2>1, <2>2, OneLeaves
  <2>3. CASE ~Prohibited(Of(t)) /\ Enter(t, "approval") /\ doing' = doing
    <3>1. "prohibited" \notin NowRefused(t)'
      BY <1>4, <2>3 DEF CheckProhibited, policyVars, NowRefused, Refused, Prohibited, Of
    <3>2. Asked("approval") \ Asked(phase[t]) = {"prohibited"} /\ "approval" \in Phase
      BY <1>4 DEF CheckProhibited, Asked, Cause, Phase
    <3>. QED
      BY <1>1, <2>1, <2>3, <3>1, <3>2, OneGoesOn
  <2>. QED
    BY <1>4, <2>2, <2>3 DEF CheckProhibited, Check
<1>5. CASE CheckApproval(t)
  <2>1. approvals' \in [Request -> Decision]
    BY <1>5 DEF CheckApproval, Ask, Decision, ControlInv, ControlTypes
  <2>2. CASE Leave(t)
    BY <2>1, <2>2, OneLeaves
  <2>3. CASE ~Leave(t)
    <3>1. /\ Enter(t, "find") /\ doing' = doing
          /\ TierFor(Of(t).kind) >= Exploit => approvals[Of(t)] = "approved" /\ Ask(Of(t))
      BY <1>5, <2>3 DEF CheckApproval, Check
    <3>2. TierFor(Of(t).kind) >= Exploit => approvals'[Of(t)] = "approved"
      BY <3>1, <1>1 DEF Ask, ControlInv, ControlTypes
    <3>3. "approval" \notin NowRefused(t)'
      BY <3>1, <3>2 DEF NowRefused, Refused, Of
    <3>4. Asked("find") \ Asked(phase[t]) = {"approval"} /\ "find" \in Phase
      BY <1>5 DEF CheckApproval, Asked, Cause, Phase
    <3>. QED
      BY <1>1, <2>1, <3>1, <3>3, <3>4, OneGoesOn
  <2>. QED
    BY <2>2, <2>3
<1>. QED
  BY <1>2, <1>3, <1>4, <1>5

\* What comes after evaluate() asks for nothing more.
LEMMA PerformStep ==
    ASSUME ControlInv, Watch, NEW t \in Agent,
           \/ FindLedger(t) \/ MakeLedger(t) \/ StoreLedger(t) \/ TakeLedger(t)
           \/ LogCall(t) \/ Act(t) \/ LogResult(t) \/ AppendFails(t)
    PROVE  ControlInv'
<1> DEFINE Late == {"find", "make", "store", "take", "call", "act", "result"}
<1> USE DEF FindLedger, MakeLedger, StoreLedger, TakeLedger, LogCall, Act, LogResult, AppendFails
<1>1. phase[t] \in Late /\ approvals' \in [Request -> Decision]
  BY DEF policyVars, ControlInv, ControlTypes
<1>2. \/ Leave(t)
      \/ \E p \in Late : Enter(t, p) /\ doing' = doing
  OBVIOUS
<1>3. ASSUME NEW p \in Late, Enter(t, p), doing' = doing PROVE ControlInv'
  <2>1. p \in Phase /\ p # "idle" /\ phase[t] # "idle" /\ Asked(p) \ Asked(phase[t]) = {}
    BY <1>1 DEF Asked, Phase
  <2>. QED
    BY <1>1, <1>3, <2>1, OneGoesOn
<1>. QED
  BY <1>1, <1>2, <1>3, OneLeaves

LEMMA ControlKept ==
    ASSUME ControlInv, [Next]_vars
    PROVE  ControlInv'
<1>1. CASE Operate /\ UNCHANGED phase /\ UNCHANGED doing /\ Watch
  <2>1. approvals' \in [Request -> Decision]
    BY <1>1 DEF Operate, ApplyStop, Decide, Decision, ControlInv, ControlTypes
  <2>. QED
    BY <1>1, <2>1, NobodyMoves
<1>2. CASE Configure /\ UNCHANGED phase /\ UNCHANGED doing /\ Watch
  <2>1. approvals' \in [Request -> Decision]
    BY <1>2 DEF Configure, ControlInv, ControlTypes
  <2>. QED
    BY <1>2, <2>1, NobodyMoves
<1>3. CASE Control /\ Watch
  BY <1>3, OneBegins, EvaluateStep, PerformStep DEF Control, ControlStep
<1>4. CASE Crash /\ Watch
  <2>1. /\ approvals' \in [Request -> Decision]
        /\ phase' = [t \in Agent |-> "idle"] /\ doing' = [t \in Agent |-> NoAction]
    BY <1>4 DEF Crash, PolicyLost, ControlCrash, Decision
  <2>2. withheld' = [t \in Agent |-> {}]
    BY <1>4, <2>1 DEF Watch
  <2>. QED
    BY <2>1, <2>2 DEF ControlInv, ControlTypes, AskedWereFree, Phase
<1>5. CASE UNCHANGED vars
  BY <1>5 DEF vars, controlVars, policyVars, ControlInv, ControlTypes, AskedWereFree
<1>. QED
  BY <1>1, <1>2, <1>3, <1>4, <1>5 DEF Next

\* WithdrawnNeverActs: execute() hands no action to a backend although one cause for
\* refusing it was there from the call on.
THEOREM ActionsRespectPolicy == Spec => []WithdrawnNeverActs
<1>1. ControlInv => WithdrawnNeverActs
  <2>1. Asked("act") = Cause
    BY DEF Asked, Cause
  <2>. QED
    BY <2>1 DEF ControlInv, ControlTypes, AskedWereFree, WithdrawnNeverActs
<1>. QED
  BY <1>1, ControlInitially, ControlKept, PTL DEF Spec

-----------------------------------------------------------------------------

Op == {"none", "save", "delete", "scope"}
Job == [op : Op, name : Name \cup {"none"}, key : Key \cup {NoKey}, entries : Entries,
        scope : Scope]

\* What the other two invariants need to know of the types.
SettingsTypes ==
    /\ settingsFile \in Providers!FileState /\ settingsTemp \in Providers!FileState
    /\ scopeFile \in Authorization!FileState /\ scopeTemp \in Authorization!FileState
    /\ settingsHandle \in [Caller -> {"none", "temp", "file", "gone"}]
    /\ scopeHandle \in [Caller -> {"none", "temp", "file", "gone"}]
    /\ at \in [Caller -> Place]
    /\ job \in [Caller -> Job]
    /\ made \in Entries

\* A request is where its operation has a step.
PlaceOf(op) ==
    CASE op = "save" -> {"key", "open", "fill", "replace"}
      [] op = "delete" -> {"open", "fill", "replace", "forget"}
      [] op = "scope" -> {"open", "fill", "replace", "policy", "api"}
      [] OTHER -> {}

Placed ==
    \A c \in Caller :
        at[c] # "idle" =>
            /\ at[c] \in PlaceOf(job[c].op)
            /\ job[c].op \in {"save", "delete"} => job[c].name \in Name

SettingsInv == SettingsTypes /\ Placed

LEMMA NoJobType == NoJob \in Job /\ NoEntries \in Entries
  BY PolicyAssumption DEF NoJob, Job, Op, NoEntries, Entries

LEMMA SettingsInitially == Init => SettingsInv
<1> SUFFICES ASSUME Init PROVE SettingsInv
  OBVIOUS
<1> USE DEF Init, SettingsInit, Providers!FileInit, Authorization!FileInit
<1>1. SettingsTypes
  BY NoJobType DEF SettingsTypes, Place, Providers!FileState, Authorization!FileState,
     Providers!Blank, Authorization!Blank
<1>. QED
  BY <1>1 DEF SettingsInv, Placed

\* A request of one caller goes on or ends.
LEMMA CallerGoesOn ==
    ASSUME SettingsInv, NEW c \in Caller, NEW place \in Place, NEW what \in Job,
           Goto(c, place), job' = [job EXCEPT ![c] = what],
           place # "idle" => place \in PlaceOf(what.op)
                             /\ (what.op \in {"save", "delete"} => what.name \in Name)
    PROVE  at' \in [Caller -> Place] /\ job' \in [Caller -> Job] /\ Placed'
<1>1. /\ at' \in [Caller -> Place] /\ at'[c] = place
      /\ \A d \in Caller \ {c} : at'[d] = at[d]
  BY DEF Goto, SettingsInv, SettingsTypes
<1>2. /\ job' \in [Caller -> Job] /\ job'[c] = what
      /\ \A d \in Caller \ {c} : job'[d] = job[d]
  BY DEF SettingsInv, SettingsTypes
<1>3. ASSUME NEW d \in Caller, at'[d] # "idle"
      PROVE  /\ at'[d] \in PlaceOf(job'[d].op)
             /\ job'[d].op \in {"save", "delete"} => job'[d].name \in Name
  <2>1. CASE d = c
    BY <1>1, <1>2, <1>3, <2>1
  <2>2. CASE d # c
    BY <1>1, <1>2, <1>3, <2>2 DEF SettingsInv, Placed
  <2>. QED
    BY <2>1, <2>2
<1>. QED
  BY <1>1, <1>2, <1>3 DEF Placed

LEMMA CallerKeepsJob ==
    ASSUME SettingsInv, NEW c \in Caller, NEW place \in Place, Goto(c, place), job' = job,
           at[c] # "idle", place \in PlaceOf(job[c].op)
    PROVE  at' \in [Caller -> Place] /\ job' \in [Caller -> Job] /\ Placed'
<1>1. job' = [job EXCEPT ![c] = job[c]] /\ job[c] \in Job
  BY DEF SettingsInv, SettingsTypes
<1>2. job[c].op \in {"save", "delete"} => job[c].name \in Name
  BY DEF SettingsInv, Placed
<1>. QED
  BY <1>1, <1>2, CallerGoesOn

LEMMA CallerDone ==
    ASSUME SettingsInv, NEW c \in Caller, Done(c)
    PROVE  at' \in [Caller -> Place] /\ job' \in [Caller -> Job] /\ Placed'
<1>1. "idle" \in Place
  BY DEF Place
<1>. QED
  BY <1>1, NoJobType, CallerGoesOn DEF Done

FilesTyped ==
    /\ settingsFile \in Providers!FileState /\ settingsTemp \in Providers!FileState
    /\ scopeFile \in Authorization!FileState /\ scopeTemp \in Authorization!FileState
    /\ settingsHandle \in [Caller -> {"none", "temp", "file", "gone"}]
    /\ scopeHandle \in [Caller -> {"none", "temp", "file", "gone"}]

LEMMA OpenTyped ==
    ASSUME SettingsInv, NEW c \in Caller, OpenTemp(c)
    PROVE  FilesTyped'
<1> USE DEF SettingsInv, SettingsTypes, FilesTyped
<1>1. CASE job[c].op = "scope"
  BY <1>1 DEF OpenTemp, Authorization!Truncate, Authorization!Blank, Authorization!FileState
<1>2. CASE job[c].op # "scope"
  BY <1>2 DEF OpenTemp, Providers!Truncate, Providers!Blank, Providers!FileState
<1>. QED
  BY <1>1, <1>2

LEMMA FillTyped ==
    ASSUME SettingsInv, NEW c \in Caller, FillTemp(c)
    PROVE  FilesTyped'
<1> USE DEF SettingsInv, SettingsTypes, FilesTyped
<1>1. job[c].entries \in Entries /\ job[c].scope \in Scope
  BY DEF Job
<1>2. CASE job[c].op = "scope"
  <2>1. \A old : Authorization!Filled(old, job[c].scope) \subseteq Authorization!FileState
    BY <1>1 DEF Authorization!Filled, Authorization!FileState, Authorization!Whole, Authorization!Blank
  <2>2. /\ scopeFile' \in Authorization!FileState /\ scopeTemp' \in Authorization!FileState
        /\ scopeHandle' \in [Caller -> {"none", "temp", "file", "gone"}]
    BY <1>2, <2>1 DEF FillTemp, Authorization!Fill
  <2>. QED
    BY <1>2, <2>2 DEF FillTemp
<1>3. CASE job[c].op # "scope"
  <2>1. \A old : Providers!Filled(old, job[c].entries) \subseteq Providers!FileState
    BY <1>1 DEF Providers!Filled, Providers!FileState, Providers!Whole, Providers!Blank
  <2>2. /\ settingsFile' \in Providers!FileState /\ settingsTemp' \in Providers!FileState
        /\ settingsHandle' \in [Caller -> {"none", "temp", "file", "gone"}]
    BY <1>3, <2>1 DEF FillTemp, Providers!Fill
  <2>. QED
    BY <1>3, <2>2 DEF FillTemp
<1>. QED
  BY <1>2, <1>3

LEMMA ReplaceTyped ==
    ASSUME SettingsInv, NEW c \in Caller, ReplaceSettings(c) \/ ReplaceScope(c)
    PROVE  FilesTyped'
<1> USE DEF SettingsInv, SettingsTypes, FilesTyped
<1>1. CASE ReplaceSettings(c)
  BY <1>1 DEF ReplaceSettings, Providers!Replace, Providers!Blank, Providers!FileState, scopeVars
<1>2. CASE ReplaceScope(c)
  BY <1>2 DEF ReplaceScope, Authorization!Replace, Authorization!Blank, Authorization!FileState,
     providerVars
<1>. QED
  BY <1>1, <1>2

LEMMA CloseTyped ==
    ASSUME SettingsInv, NEW callers \in SUBSET Caller,
           Providers!Close(callers), Authorization!Close(callers)
    PROVE  FilesTyped'
  BY DEF SettingsInv, SettingsTypes, FilesTyped, Providers!Close, Authorization!Close

LEMMA SettingsKept ==
    ASSUME SettingsInv, [Next]_vars
    PROVE  SettingsInv'
<1> USE DEF SettingsInv
<1>1. FilesTyped /\ (FilesTyped' /\ at' \in [Caller -> Place] /\ job' \in [Caller -> Job]
                     /\ made' \in Entries => SettingsTypes')
  BY DEF FilesTyped, SettingsTypes
<1>2. ASSUME UNCHANGED <<settingsFile, settingsTemp, settingsHandle, scopeFile, scopeTemp,
                         scopeHandle, at, job, made>>
      PROVE  SettingsInv'
  BY <1>2 DEF SettingsTypes, Placed
<1>3. CASE Operate \/ Control \/ UNCHANGED vars
  BY <1>2, <1>3 DEF Operate, Control, vars, settingsVars, providerVars, scopeVars
<1>4. CASE Crash
  <2>1. /\ at' = [c \in Caller |-> "idle"] /\ job' = [c \in Caller |-> NoJob] /\ made' = made
    BY <1>4 DEF Crash, SettingsCrash
  <2>2. FilesTyped'
    BY <1>4, CloseTyped DEF Crash, SettingsCrash
  <2>. QED
    BY <1>1, <2>1, <2>2, NoJobType DEF SettingsTypes, Placed, Place
<1>5. ASSUME NEW c \in Caller, NEW n \in Name, NEW e \in Entry, NEW k \in Key \cup {NoKey},
             SaveProvider(c, n, e, k)
      PROVE  SettingsInv'
  <2> DEFINE what == [NoJob EXCEPT !.op = "save", !.name = n, !.key = k, !.entries = Saved(n, e)]
  <2>1. settingsFile.holds \in Entries
    BY DEF SettingsTypes, Providers!FileState, Providers!Blank, Providers!Whole, Entries, NoEntries
  <2>2. what \in Job /\ what.op = "save" /\ what.name = n
    BY <2>1, NoJobType DEF Job, Op, NoJob, Saved, Entries
  <2>3. /\ Goto(c, IF k = NoKey THEN "open" ELSE "key") /\ job' = [job EXCEPT ![c] = what]
        /\ FilesTyped' /\ made' = made
    BY <1>1, <1>5 DEF SaveProvider, Begin, providerVars, scopeVars, FilesTyped
  <2>4. /\ {"open", "key"} \subseteq Place /\ {"open", "key"} \subseteq PlaceOf("save")
    BY DEF Place, PlaceOf
  <2>. QED
    BY <1>1, <2>2, <2>3, <2>4, CallerGoesOn DEF SettingsTypes
<1>6. ASSUME NEW c \in Caller, NEW n \in Name, DeleteProvider(c, n)
      PROVE  SettingsInv'
  <2> DEFINE what == [NoJob EXCEPT !.op = "delete", !.name = n, !.entries = Saved(n, NoEntry)]
  <2>1. settingsFile.holds \in Entries
    BY DEF SettingsTypes, Providers!FileState, Providers!Blank, Providers!Whole, Entries, NoEntries
  <2>2. what \in Job /\ what.op = "delete" /\ what.name = n
    BY <2>1, NoJobType DEF Job, Op, NoJob, Saved, Entries
  <2>3. /\ Goto(c, "open") /\ job' = [job EXCEPT ![c] = what] /\ FilesTyped' /\ made' = made
    BY <1>1, <1>6 DEF DeleteProvider, Begin, providerVars, scopeVars, FilesTyped
  <2>4. "open" \in Place /\ "open" \in PlaceOf("delete")
    BY DEF Place, PlaceOf
  <2>. QED
    BY <1>1, <2>2, <2>3, <2>4, CallerGoesOn DEF SettingsTypes
<1>7. ASSUME NEW c \in Caller, NEW s \in Scope, UpdateScope(c, s)
      PROVE  SettingsInv'
  <2> DEFINE what == [NoJob EXCEPT !.op = "scope", !.scope = s]
  <2>1. what \in Job /\ what.op = "scope"
    BY NoJobType DEF Job, Op, NoJob
  <2>2. /\ Goto(c, "open") /\ job' = [job EXCEPT ![c] = what] /\ FilesTyped' /\ made' = made
    BY <1>1, <1>7 DEF UpdateScope, Begin, providerVars, scopeVars, FilesTyped
  <2>3. "open" \in Place /\ "open" \in PlaceOf("scope")
    BY DEF Place, PlaceOf
  <2>. QED
    BY <1>1, <2>1, <2>2, <2>3, CallerGoesOn DEF SettingsTypes
<1>8. ASSUME NEW c \in Caller, RequestStep(c)
      PROVE  SettingsInv'
  <2>1. at[c] # "idle" /\ at[c] \in PlaceOf(job[c].op)
    BY <1>8 DEF RequestStep, StoreKey, OpenTemp, FillTemp, ReplaceSettings, ForgetKey,
       ReplaceScope, SetPolicyScope, SetApiScope, Placed
  <2>2. CASE StoreKey(c)
    <3>1. Goto(c, "open") /\ job' = job /\ made' = made /\ FilesTyped'
      BY <1>1, <2>2 DEF StoreKey, scopeVars, FilesTyped
    <3>2. "open" \in Place /\ "open" \in PlaceOf(job[c].op)
      BY <2>1, <2>2 DEF StoreKey, Place, PlaceOf
    <3>. QED
      BY <1>1, <2>1, <3>1, <3>2, CallerKeepsJob DEF SettingsTypes
  <2>3. CASE OpenTemp(c)
    <3>1. Goto(c, "fill") /\ job' = job /\ made' = made
      BY <2>3 DEF OpenTemp
    <3>2. "fill" \in Place /\ "fill" \in PlaceOf(job[c].op)
      BY <2>1, <2>3 DEF OpenTemp, Place, PlaceOf
    <3>. QED
      BY <1>1, <2>1, <2>3, <3>1, <3>2, CallerKeepsJob, OpenTyped DEF SettingsTypes
  <2>4. CASE FillTemp(c)
    <3>1. Goto(c, "replace") /\ job' = job /\ made' = made
      BY <2>4 DEF FillTemp
    <3>2. "replace" \in Place /\ "replace" \in PlaceOf(job[c].op)
      BY <2>1, <2>4 DEF FillTemp, Place, PlaceOf
    <3>. QED
      BY <1>1, <2>1, <2>4, <3>1, <3>2, CallerKeepsJob, FillTyped DEF SettingsTypes
  <2>5. CASE ReplaceSettings(c)
    <3>1. FilesTyped'
      BY <2>5, ReplaceTyped
    <3>2. made' \in Entries
      BY <2>1, <2>5 DEF ReplaceSettings, SettingsTypes, Job, Entries
    <3>3. CASE Done(c)
      BY <1>1, <3>1, <3>2, <3>3, CallerDone DEF SettingsTypes
    <3>4. CASE job[c].op # "save" /\ Goto(c, "forget") /\ job' = job
      <4>1. "forget" \in Place /\ "forget" \in PlaceOf(job[c].op)
        BY <2>1, <2>5, <3>4 DEF ReplaceSettings, Place, PlaceOf, SettingsTypes, Job, Op
      <4>. QED
        BY <1>1, <2>1, <3>1, <3>2, <3>4, <4>1, CallerKeepsJob DEF SettingsTypes
    <3>. QED
      BY <2>5, <3>3, <3>4 DEF ReplaceSettings
  <2>6. CASE ForgetKey(c)
    <3>1. Done(c) /\ made' = made /\ FilesTyped'
      BY <1>1, <2>6 DEF ForgetKey, scopeVars, FilesTyped
    <3>. QED
      BY <1>1, <3>1, CallerDone DEF SettingsTypes
  <2>7. CASE ReplaceScope(c)
    <3>1. Goto(c, "policy") /\ job' = job /\ made' = made
      BY <2>7 DEF ReplaceScope, providerVars
    <3>2. "policy" \in Place /\ "policy" \in PlaceOf(job[c].op)
      BY <2>1, <2>7 DEF ReplaceScope, Place, PlaceOf
    <3>. QED
      BY <1>1, <2>1, <2>7, <3>1, <3>2, CallerKeepsJob, ReplaceTyped DEF SettingsTypes
  <2>8. CASE SetPolicyScope(c)
    <3>1. Goto(c, "api") /\ job' = job /\ made' = made /\ FilesTyped'
      BY <1>1, <2>8 DEF SetPolicyScope, providerVars, FilesTyped
    <3>2. "api" \in Place /\ "api" \in PlaceOf(job[c].op)
      BY <2>1, <2>8 DEF SetPolicyScope, Place, PlaceOf
    <3>. QED
      BY <1>1, <2>1, <3>1, <3>2, CallerKeepsJob DEF SettingsTypes
  <2>9. CASE SetApiScope(c)
    <3>1. Done(c) /\ made' = made /\ FilesTyped'
      BY <1>1, <2>9 DEF SetApiScope, providerVars, FilesTyped
    <3>. QED
      BY <1>1, <3>1, CallerDone DEF SettingsTypes
  <2>. QED
    BY <1>8, <2>2, <2>3, <2>4, <2>5, <2>6, <2>7, <2>8, <2>9 DEF RequestStep
<1>9. ASSUME NEW c \in Caller, RequestFails(c)
      PROVE  SettingsInv'
  <2>1. Done(c) /\ made' = made /\ Providers!Close({c}) /\ Authorization!Close({c})
    BY <1>9 DEF RequestFails
  <2>2. FilesTyped'
    BY <2>1, CloseTyped
  <2>. QED
    BY <1>1, <2>1, <2>2, CallerDone DEF SettingsTypes
<1>10. CASE Configure
  BY <1>5, <1>6, <1>7, <1>8, <1>9, <1>10 DEF Configure, SettingsStep
<1>. QED
  BY <1>3, <1>4, <1>10 DEF Next

-----------------------------------------------------------------------------

\* Everything that can be asked for the scope names one scope.
ScopeSettled == scope = scopeFile.holds /\ apiScope = scopeFile.holds

\* How far an update has come that is alone.
UpdateOK(c) ==
    /\ at[c] \in {"open", "fill", "replace"} => ScopeSettled
    /\ at[c] = "fill" => scopeTemp = Authorization!Blank("empty")
    /\ at[c] = "replace" => scopeTemp = Authorization!Whole(job[c].scope)
    /\ at[c] \in {"policy", "api"} => scopeFile.holds = job[c].scope
    /\ at[c] = "api" => scope = job[c].scope

Filling(c) == at[c] = "fill" /\ job[c].op = "scope"

ScopeInv ==
    "scope" \notin overlapped =>
        /\ up
        /\ Authorization!Readable
        /\ OnScope = {} => ScopeSettled
        /\ \A c, d \in OnScope : c = d
        /\ \A c \in Caller : scopeHandle[c] = IF Filling(c) THEN "temp" ELSE "none"
        /\ \A c \in OnScope : UpdateOK(c)

LEMMA ScopeInitially == Init => ScopeInv
  BY DEF Init, PolicyInit, SettingsInit, Authorization!FileInit, Authorization!Blank,
     Authorization!Readable, ScopeInv, ScopeSettled, OnScope, Busy, Filling

\* Steps that leave the scope and the requests for it alone.
LEMMA ScopeFrame ==
    ASSUME ScopeInv, UNCHANGED <<scopeVars, up>>, OnScope' = OnScope,
           \A c \in OnScope : at'[c] = at[c] /\ job'[c] = job[c],
           \A c \in Caller : Filling(c)' = Filling(c),
           "scope" \in overlapped => "scope" \in overlapped'
    PROVE  ScopeInv'
<1> SUFFICES ASSUME "scope" \notin overlapped' PROVE ScopeInv'
  BY DEF ScopeInv
<1>1. \A c \in OnScope : UpdateOK(c)'
  BY DEF ScopeInv, UpdateOK, ScopeSettled, scopeVars
<1>2. \A c \in Caller : scopeHandle'[c] = IF Filling(c)' THEN "temp" ELSE "none"
  BY DEF ScopeInv, scopeVars
<1>. QED
  BY <1>1, <1>2 DEF ScopeInv, ScopeSettled, scopeVars, Authorization!Readable

\* A request for a provider goes on or ends.
LEMMA ScopeOfOthers ==
    ASSUME SettingsInv, ScopeInv, NEW c \in Caller, UNCHANGED <<scopeVars, up>>,
           job[c].op # "scope" \/ at[c] = "idle",
           job'[c].op # "scope" \/ at'[c] = "idle",
           \A d \in Caller \ {c} : at'[d] = at[d] /\ job'[d] = job[d],
           "scope" \in overlapped => "scope" \in overlapped'
    PROVE  ScopeInv'
<1>1. OnScope' = OnScope /\ c \notin OnScope
  BY DEF OnScope, Busy
<1>2. \A d \in Caller : Filling(d)' = Filling(d)
  BY DEF Filling
<1>. QED
  BY <1>1, <1>2, ScopeFrame DEF OnScope, Busy

LEMMA GotoOthers ==
    ASSUME SettingsInv, NEW c \in Caller, NEW place, Goto(c, place)
    PROVE  at'[c] = place /\ \A d \in Caller \ {c} : at'[d] = at[d]
  BY DEF SettingsInv, SettingsTypes, Goto

LEMMA DoneOthers ==
    ASSUME SettingsInv, NEW c \in Caller, Done(c)
    PROVE  /\ at'[c] = "idle" /\ job'[c] = NoJob
           /\ \A d \in Caller \ {c} : at'[d] = at[d] /\ job'[d] = job[d]
  BY GotoOthers DEF SettingsInv, SettingsTypes, Done

\* The update that is alone goes on or ends.
LEMMA ScopeAlone ==
    ASSUME SettingsInv, ScopeInv, NEW c \in OnScope, "scope" \notin overlapped,
           overlapped' = overlapped, up' = up,
           \A d \in Caller \ {c} : at'[d] = at[d] /\ job'[d] = job[d],
           Authorization!Readable',
           at'[c] = "idle" => ScopeSettled',
           at'[c] # "idle" => job'[c].op = "scope" /\ UpdateOK(c)',
           scopeHandle'[c] = IF Filling(c)' THEN "temp" ELSE "none",
           \A d \in Caller \ {c} : scopeHandle'[d] = scopeHandle[d]
    PROVE  ScopeInv'
<1>1. OnScope = {c}
  BY DEF ScopeInv
<1>2. OnScope' = IF at'[c] = "idle" THEN {} ELSE {c}
  BY <1>1 DEF OnScope, Busy
<1>3. \A d \in Caller \ {c} : scopeHandle'[d] = IF Filling(d)' THEN "temp" ELSE "none"
  BY DEF ScopeInv, Filling
<1>. QED
  BY <1>1, <1>2, <1>3 DEF ScopeInv

\* Once two updates have overlapped nothing is promised.
LEMMA ScopeOverlapped ==
    ASSUME "scope" \in overlapped, overlapped' = overlapped
    PROVE  ScopeInv'
  BY DEF ScopeInv

LEMMA ScopeStep ==
    ASSUME SettingsInv, ScopeInv, NEW c \in Caller, job[c].op = "scope", up' = up,
           RequestStep(c)
    PROVE  ScopeInv'
<1> USE DEF SettingsInv
<1>1. overlapped' = overlapped /\ at[c] # "idle"
  BY DEF RequestStep, StoreKey, OpenTemp, FillTemp, ReplaceSettings, ForgetKey, ReplaceScope,
     SetPolicyScope, SetApiScope, historyVars
<1> SUFFICES ASSUME "scope" \notin overlapped PROVE ScopeInv'
  BY <1>1, ScopeOverlapped
<1>2. c \in OnScope /\ UpdateOK(c) /\ Authorization!Readable
  BY <1>1 DEF OnScope, Busy, ScopeInv
<1>3. scopeHandle[c] = IF Filling(c) THEN "temp" ELSE "none"
  BY DEF ScopeInv
<1>4. at[c] \in {"open", "fill", "replace", "policy", "api"}
  BY <1>1 DEF Placed, PlaceOf
<1>5. CASE OpenTemp(c)
  <2>1. /\ Goto(c, "fill") /\ job' = job /\ UNCHANGED <<scope, apiScope, scopeFile>>
        /\ scopeTemp' = Authorization!Blank("empty")
        /\ scopeHandle' = [scopeHandle EXCEPT ![c] = "temp"] /\ at[c] = "open"
    BY <1>5 DEF OpenTemp, Authorization!Truncate
  <2>2. at'[c] = "fill" /\ \A d \in Caller \ {c} : at'[d] = at[d]
    BY <2>1, GotoOthers
  <2>3. scopeHandle'[c] = "temp" /\ \A d \in Caller \ {c} : scopeHandle'[d] = scopeHandle[d]
    BY <2>1 DEF SettingsTypes
  <2>4. UpdateOK(c)' /\ Filling(c)' /\ Authorization!Readable'
    BY <1>2, <2>1, <2>2 DEF UpdateOK, ScopeSettled, Filling, Authorization!Readable
  <2>. QED
    BY <1>1, <1>2, <2>1, <2>2, <2>3, <2>4, ScopeAlone
<1>6. CASE FillTemp(c)
  <2>1. /\ Goto(c, "replace") /\ job' = job /\ UNCHANGED <<scope, apiScope>> /\ at[c] = "fill"
        /\ Authorization!Fill(c, job[c].scope)
    BY <1>6 DEF FillTemp
  <2>2. at'[c] = "replace" /\ \A d \in Caller \ {c} : at'[d] = at[d]
    BY <2>1, GotoOthers
  <2>3. scopeHandle[c] = "temp" /\ scopeTemp = Authorization!Blank("empty")
    BY <1>2, <1>3, <2>1 DEF Filling, UpdateOK
  <2>4. scopeTemp' = Authorization!Whole(job[c].scope) /\ scopeFile' = scopeFile
    BY <2>1, <2>3 DEF Authorization!Fill, Authorization!Filled, Authorization!Blank
  <2>5. scopeHandle'[c] = "none" /\ \A d \in Caller \ {c} : scopeHandle'[d] = scopeHandle[d]
    BY <2>1 DEF SettingsTypes, Authorization!Fill
  <2>6. UpdateOK(c)' /\ ~Filling(c)' /\ Authorization!Readable'
    BY <1>2, <2>1, <2>2, <2>4 DEF UpdateOK, ScopeSettled, Filling, Authorization!Readable
  <2>. QED
    BY <1>1, <1>2, <2>1, <2>2, <2>5, <2>6, ScopeAlone
<1>7. CASE ReplaceScope(c)
  <2>1. /\ Goto(c, "policy") /\ job' = job /\ UNCHANGED <<scope, apiScope>> /\ at[c] = "replace"
        /\ scopeFile' = scopeTemp /\ Authorization!Replace
    BY <1>7 DEF ReplaceScope, Authorization!Replace
  <2>2. at'[c] = "policy" /\ \A d \in Caller \ {c} : at'[d] = at[d]
    BY <2>1, GotoOthers
  <2>3. \A d \in Caller : scopeHandle[d] = "none"
    <3>1. \A d \in Caller \ {c} : d \notin OnScope
      BY <1>2 DEF ScopeInv
    <3>. QED
      BY <1>3, <2>1, <3>1 DEF ScopeInv, Filling, OnScope, Busy
  <2>4. \A d \in Caller : scopeHandle'[d] = "none"
    BY <2>1, <2>3 DEF Authorization!Replace
  <2>5. scopeFile' = Authorization!Whole(job[c].scope)
    BY <1>2, <2>1 DEF UpdateOK
  <2>6. UpdateOK(c)' /\ ~Filling(c)' /\ Authorization!Readable'
    BY <2>1, <2>2, <2>5 DEF UpdateOK, Filling, Authorization!Readable, Authorization!Whole
  <2>. QED
    BY <1>1, <1>2, <2>1, <2>2, <2>3, <2>4, <2>6, ScopeAlone
<1>8. CASE SetPolicyScope(c)
  <2>1. /\ Goto(c, "api") /\ job' = job /\ UNCHANGED <<scopeFile, scopeTemp, scopeHandle, apiScope>>
        /\ at[c] = "policy" /\ scope' = job[c].scope
    BY <1>8 DEF SetPolicyScope
  <2>2. at'[c] = "api" /\ \A d \in Caller \ {c} : at'[d] = at[d]
    BY <2>1, GotoOthers
  <2>3. UpdateOK(c)' /\ ~Filling(c)' /\ Authorization!Readable' /\ scopeHandle'[c] = "none"
    BY <1>2, <1>3, <2>1, <2>2 DEF UpdateOK, Filling, Authorization!Readable
  <2>. QED
    BY <1>1, <1>2, <2>1, <2>2, <2>3, ScopeAlone
<1>9. CASE SetApiScope(c)
  <2>1. /\ Done(c) /\ UNCHANGED <<scopeFile, scopeTemp, scopeHandle, scope>>
        /\ at[c] = "api" /\ apiScope' = job[c].scope
    BY <1>9 DEF SetApiScope
  <2>2. at'[c] = "idle" /\ \A d \in Caller \ {c} : at'[d] = at[d] /\ job'[d] = job[d]
    BY <2>1, DoneOthers
  <2>3. ScopeSettled' /\ ~Filling(c)' /\ Authorization!Readable' /\ scopeHandle'[c] = "none"
    BY <1>2, <1>3, <2>1, <2>2 DEF UpdateOK, ScopeSettled, Filling, Authorization!Readable
  <2>. QED
    BY <1>1, <1>2, <2>1, <2>2, <2>3, ScopeAlone
<1>. QED
  BY <1>4, <1>5, <1>6, <1>7, <1>8, <1>9
     DEF RequestStep, StoreKey, ReplaceSettings, ForgetKey

\* An error ends an update only while nothing has been replaced.
LEMMA ScopeFails ==
    ASSUME SettingsInv, ScopeInv, NEW c \in Caller, up' = up, RequestFails(c)
    PROVE  ScopeInv'
<1> USE DEF SettingsInv
<1>1. /\ overlapped' = overlapped /\ UNCHANGED <<scope, apiScope, scopeFile, scopeTemp>>
      /\ Done(c) /\ Authorization!Close({c})
      /\ at[c] \in {"key", "open", "fill", "replace", "forget"}
  BY DEF RequestFails, Authorization!Close
<1> SUFFICES ASSUME "scope" \notin overlapped PROVE ScopeInv'
  BY <1>1, ScopeOverlapped
<1>2. at'[c] = "idle" /\ \A d \in Caller \ {c} : at'[d] = at[d] /\ job'[d] = job[d]
  BY <1>1, DoneOthers
<1>3. scopeHandle'[c] = "none" /\ \A d \in Caller \ {c} : scopeHandle'[d] = scopeHandle[d]
  BY <1>1 DEF Authorization!Close, SettingsTypes
<1>4. Authorization!Readable'
  BY <1>1 DEF ScopeInv, Authorization!Readable
<1>5. CASE c \in OnScope
  <2>1. ScopeSettled'
    BY <1>1, <1>5 DEF ScopeInv, UpdateOK, ScopeSettled, Placed, PlaceOf, OnScope, Busy
  <2>. QED
    BY <1>1, <1>2, <1>3, <1>4, <1>5, <2>1, ScopeAlone DEF Filling
<1>6. CASE c \notin OnScope
  <2>1. job[c].op # "scope"
    BY <1>1, <1>6 DEF OnScope, Busy
  <2>2. scopeHandle' = scopeHandle
    <3>1. scopeHandle[c] = "none"
      BY <2>1 DEF ScopeInv, Filling
    <3>. QED
      BY <1>1, <3>1 DEF Authorization!Close, SettingsTypes
  <2>. QED
    BY <1>1, <1>2, <2>1, <2>2, ScopeOfOthers DEF scopeVars
<1>. QED
  BY <1>5, <1>6

LEMMA ScopeBegins ==
    ASSUME SettingsInv, ScopeInv, NEW c \in Caller, NEW s \in Scope, up' = up, UpdateScope(c, s)
    PROVE  ScopeInv'
<1> USE DEF SettingsInv
<1> SUFFICES ASSUME "scope" \notin overlapped' PROVE ScopeInv'
  BY DEF ScopeInv
<1>1. /\ OnScope = {} /\ overlapped' = overlapped /\ at[c] = "idle" /\ Goto(c, "open")
      /\ job' = [job EXCEPT ![c] = [NoJob EXCEPT !.op = "scope", !.scope = s]]
      /\ UNCHANGED <<scope, apiScope, scopeFile, scopeTemp, scopeHandle>>
  BY DEF UpdateScope, Begin, scopeVars
<1>2. at'[c] = "open" /\ \A d \in Caller \ {c} : at'[d] = at[d]
  BY <1>1, GotoOthers
<1>3. job'[c].op = "scope" /\ \A d \in Caller \ {c} : job'[d] = job[d]
  BY <1>1 DEF SettingsTypes, NoJob
<1>4. OnScope' = {c}
  BY <1>1, <1>2, <1>3 DEF OnScope, Busy
<1>5. ScopeSettled' /\ UpdateOK(c)' /\ Authorization!Readable'
  BY <1>1, <1>2 DEF ScopeInv, ScopeSettled, UpdateOK, Authorization!Readable
<1>6. \A d \in Caller : scopeHandle'[d] = IF Filling(d)' THEN "temp" ELSE "none"
  BY <1>1, <1>2, <1>3 DEF ScopeInv, Filling
<1>. QED
  BY <1>1, <1>4, <1>5, <1>6 DEF ScopeInv

LEMMA ScopeKept ==
    ASSUME SettingsInv, ScopeInv, [Next]_vars
    PROVE  ScopeInv'
<1> USE DEF SettingsInv
<1>1. CASE (Operate /\ UNCHANGED up) \/ (Control /\ UNCHANGED up) \/ UNCHANGED vars
  <2>1. UNCHANGED <<scopeVars, up, at, job, overlapped>>
    BY <1>1 DEF Operate, ApplyStop, Decide, Control, vars, settingsVars, historyVars, scopeVars
  <2>. QED
    BY <2>1, ScopeFrame DEF OnScope, Busy, Filling
<1>2. CASE Crash
  <2>1. /\ at' = [c \in Caller |-> "idle"] /\ overlapped' = overlapped
        /\ scope' = scopeFile.holds /\ apiScope' = scopeFile.holds /\ scopeFile' = scopeFile
        /\ Authorization!Close(Caller) /\ up' = Authorization!Readable
    BY <1>2 DEF Crash, SettingsCrash, Authorization!Close
  <2>2. OnScope' = {} /\ ScopeSettled' /\ \A c \in Caller : ~Filling(c)'
    BY <2>1 DEF OnScope, Busy, ScopeSettled, Filling
  <2>3. \A c \in Caller : scopeHandle'[c] = "none"
    BY <2>1 DEF Authorization!Close
  <2>. QED
    BY <2>1, <2>2, <2>3 DEF ScopeInv, Authorization!Readable
<1>3. ASSUME NEW c \in Caller, up' = up,
             \/ \E n \in Name, e \in Entry, k \in Key \cup {NoKey} : SaveProvider(c, n, e, k)
             \/ \E n \in Name : DeleteProvider(c, n)
      PROVE  ScopeInv'
  <2> DEFINE Begins(what) ==
                /\ what.op # "scope"
                /\ \E place : Begin(c, place, what, "providers", OnProviders)
                /\ UNCHANGED scopeVars
  <2>a. ASSUME NEW n \in Name, NEW e \in Entry, NEW k \in Key \cup {NoKey},
               SaveProvider(c, n, e, k)
        PROVE  \E what : Begins(what)
    <3>1. Begins([NoJob EXCEPT !.op = "save", !.name = n, !.key = k, !.entries = Saved(n, e)])
      BY <2>a DEF SaveProvider, NoJob
    <3>. QED
      BY <3>1
  <2>b. ASSUME NEW n \in Name, DeleteProvider(c, n)
        PROVE  \E what : Begins(what)
    <3>1. Begins([NoJob EXCEPT !.op = "delete", !.name = n, !.entries = Saved(n, NoEntry)])
      BY <2>b DEF DeleteProvider, NoJob
    <3>. QED
      BY <3>1
  <2>1. PICK what : Begins(what)
    BY <1>3, <2>a, <2>b
  <2>2. /\ at[c] = "idle" /\ \A d \in Caller \ {c} : at'[d] = at[d]
        /\ job'[c] = what /\ \A d \in Caller \ {c} : job'[d] = job[d]
        /\ "scope" \in overlapped => "scope" \in overlapped'
    BY <2>1, GotoOthers DEF Begin, SettingsTypes
  <2>. QED
    BY <1>3, <2>1, <2>2, ScopeOfOthers
<1>4. ASSUME NEW c \in Caller, up' = up, job[c].op # "scope", RequestStep(c)
      PROVE  ScopeInv'
  <2>1. at[c] # "idle" /\ at[c] \in PlaceOf(job[c].op)
    BY <1>4 DEF RequestStep, StoreKey, OpenTemp, FillTemp, ReplaceSettings, ForgetKey,
       ReplaceScope, SetPolicyScope, SetApiScope, Placed
  <2>2. StoreKey(c) \/ OpenTemp(c) \/ FillTemp(c) \/ ReplaceSettings(c) \/ ForgetKey(c)
    BY <1>4, <2>1 DEF RequestStep, ReplaceScope, SetPolicyScope, SetApiScope, PlaceOf
  <2>3. UNCHANGED <<scopeVars, up>> /\ overlapped' = overlapped \cup {}
    BY <1>4, <2>2 DEF StoreKey, OpenTemp, FillTemp, ReplaceSettings, ForgetKey, scopeVars,
       historyVars
  <2>4. \/ Done(c)
        \/ job' = job /\ \E place : Goto(c, place)
    BY <2>2 DEF StoreKey, OpenTemp, FillTemp, ReplaceSettings, ForgetKey
  <2>5. /\ \A d \in Caller \ {c} : at'[d] = at[d] /\ job'[d] = job[d]
        /\ job'[c].op # "scope" \/ at'[c] = "idle"
    BY <1>4, <2>4, GotoOthers, DoneOthers
  <2>. QED
    BY <1>4, <2>3, <2>5, ScopeOfOthers
<1>5. CASE Configure /\ UNCHANGED up
  BY <1>3, <1>4, <1>5, ScopeStep, ScopeFails, ScopeBegins DEF Configure, SettingsStep
<1>. QED
  BY <1>1, <1>2, <1>5 DEF Next

\* ScopesAgree: unless two updates have overlapped, the policy, the API and the file
\* have one scope whenever no update is under way, and the server can be started.
THEOREM ScopesAlwaysAgree == Spec => []ScopesAgree
<1>1. ScopeInv => ScopesAgree
  BY DEF ScopeInv, ScopesAgree, ScopeSettled
<1>. QED
  BY <1>1, SettingsInitially, SettingsKept, ScopeInitially, ScopeKept, PTL DEF Spec

-----------------------------------------------------------------------------

\* What a change of the providers that is alone will write: the entries as they are but
\* for its own.
ChangeOK(c) ==
    /\ at[c] \in {"key", "open", "fill", "replace"} =>
           \A n \in Name \ {job[c].name} : job[c].entries[n] = made[n]
    /\ job[c].op = "save" => job[c].entries[job[c].name] # NoEntry
    /\ at[c] = "fill" => settingsTemp = Providers!Blank("empty")
    /\ at[c] = "replace" => settingsTemp = Providers!Whole(job[c].entries)

Storing(c) == at[c] = "fill" /\ job[c].op # "scope"

\* A key without a provider is one that a request is about, or was when it broke off.
KeysOwned ==
    \A n \in Name :
        keyring[n] # NoKey /\ made[n] = NoEntry =>
            n \in broken \/ \E c \in OnProviders : job[c].name = n

ProvidersInv ==
    "providers" \notin overlapped =>
        /\ Providers!Readable
        /\ settingsFile.holds = made
        /\ KeysOwned
        /\ \A c, d \in OnProviders : c = d
        /\ \A c \in Caller : settingsHandle[c] = IF Storing(c) THEN "temp" ELSE "none"
        /\ \A c \in OnProviders : ChangeOK(c)

KeyringType == keyring \in [Name -> Key \cup {NoKey}]

LEMMA KeyringTyped ==
    ASSUME SettingsInv, KeyringType, [Next]_vars
    PROVE  KeyringType'
<1> USE DEF KeyringType
<1>1. ASSUME NEW c \in Caller, StoreKey(c)
      PROVE  KeyringType'
  <2>1. job[c].key \in Key \cup {NoKey}
    BY DEF SettingsInv, SettingsTypes, Job
  <2>. QED
    BY <1>1, <2>1 DEF StoreKey
<1>2. ASSUME NEW c \in Caller, ForgetKey(c)
      PROVE  KeyringType'
  BY <1>2 DEF ForgetKey
<1>3. CASE UNCHANGED keyring
  BY <1>3
<1>4. CASE Configure
  BY <1>1, <1>2, <1>3, <1>4 DEF Configure, SettingsStep, RequestStep, SaveProvider, DeleteProvider,
     UpdateScope, OpenTemp, FillTemp, ReplaceSettings, ReplaceScope, SetPolicyScope, SetApiScope,
     RequestFails, providerVars
<1>5. CASE Operate \/ Control \/ Crash \/ UNCHANGED vars
  BY <1>3, <1>5 DEF Operate, Control, Crash, SettingsCrash, vars, settingsVars, providerVars
<1>. QED
  BY <1>4, <1>5 DEF Next

LEMMA ProvidersInitially == Init => ProvidersInv /\ KeyringType
  BY DEF Init, SettingsInit, Providers!FileInit, Providers!Blank, Providers!Readable,
     ProvidersInv, KeysOwned, OnProviders, Busy, Storing, KeyringType

\* Steps that leave the providers and the requests for them alone.
LEMMA ProvidersFrame ==
    ASSUME ProvidersInv, UNCHANGED providerVars, OnProviders' = OnProviders,
           \A c \in OnProviders : at'[c] = at[c] /\ job'[c] = job[c],
           \A c \in Caller : Storing(c)' = Storing(c), broken \subseteq broken',
           "providers" \in overlapped => "providers" \in overlapped'
    PROVE  ProvidersInv'
<1> SUFFICES ASSUME "providers" \notin overlapped' PROVE ProvidersInv'
  BY DEF ProvidersInv
<1>1. \A c \in OnProviders : ChangeOK(c)'
  BY DEF ProvidersInv, ChangeOK, providerVars
<1>2. \A c \in Caller : settingsHandle'[c] = IF Storing(c)' THEN "temp" ELSE "none"
  BY DEF ProvidersInv, providerVars
<1>3. KeysOwned'
  BY DEF ProvidersInv, KeysOwned, providerVars
<1>. QED
  BY <1>1, <1>2, <1>3 DEF ProvidersInv, providerVars, Providers!Readable

\* An update of the scope begins, goes on or ends.
LEMMA ProvidersOfOthers ==
    ASSUME SettingsInv, ProvidersInv, NEW c \in Caller, UNCHANGED providerVars,
           job[c].op = "scope" \/ at[c] = "idle",
           job'[c].op = "scope" \/ at'[c] = "idle",
           \A d \in Caller \ {c} : at'[d] = at[d] /\ job'[d] = job[d],
           broken \subseteq broken',
           "providers" \in overlapped => "providers" \in overlapped'
    PROVE  ProvidersInv'
<1>1. OnProviders' = OnProviders /\ c \notin OnProviders
  BY DEF OnProviders, Busy
<1>2. \A d \in Caller : Storing(d)' = Storing(d)
  BY DEF Storing
<1>. QED
  BY <1>1, <1>2, ProvidersFrame DEF OnProviders, Busy

\* The change that is alone goes on or ends.
LEMMA ProvidersAlone ==
    ASSUME SettingsInv, ProvidersInv, NEW c \in OnProviders, "providers" \notin overlapped,
           overlapped' = overlapped,
           \A d \in Caller \ {c} : at'[d] = at[d] /\ job'[d] = job[d],
           Providers!Readable', settingsFile'.holds = made', KeysOwned',
           at'[c] # "idle" => job'[c].op \in {"save", "delete"} /\ ChangeOK(c)',
           settingsHandle'[c] = IF Storing(c)' THEN "temp" ELSE "none",
           \A d \in Caller \ {c} : settingsHandle'[d] = settingsHandle[d]
    PROVE  ProvidersInv'
<1>1. OnProviders = {c}
  BY DEF ProvidersInv
<1>2. OnProviders' = IF at'[c] = "idle" THEN {} ELSE {c}
  BY <1>1 DEF OnProviders, Busy
<1>3. \A d \in Caller \ {c} : settingsHandle'[d] = IF Storing(d)' THEN "temp" ELSE "none"
  BY DEF ProvidersInv, Storing
<1>. QED
  BY <1>1, <1>2, <1>3 DEF ProvidersInv

LEMMA ProvidersOverlapped ==
    ASSUME "providers" \in overlapped, overlapped' = overlapped
    PROVE  ProvidersInv'
  BY DEF ProvidersInv

LEMMA ProvidersBegin ==
    ASSUME SettingsInv, ProvidersInv, NEW c \in Caller, NEW n \in Name, NEW e \in Entry \cup {NoEntry},
           NEW what \in Job, NEW place \in {"key", "open"}, Providers!Readable,
           Begin(c, place, what, "providers", OnProviders),
           what.op \in {"save", "delete"}, what.name = n, what.entries = Saved(n, e),
           what.op = "save" => e \in Entry, UNCHANGED providerVars
    PROVE  ProvidersInv'
<1> USE DEF SettingsInv
<1> SUFFICES ASSUME "providers" \notin overlapped' PROVE ProvidersInv'
  BY DEF ProvidersInv
<1>1. /\ OnProviders = {} /\ overlapped' = overlapped /\ broken' = broken /\ at[c] = "idle"
      /\ Goto(c, place) /\ job' = [job EXCEPT ![c] = what]
  BY DEF Begin
<1>2. at'[c] = place /\ \A d \in Caller \ {c} : at'[d] = at[d]
  BY <1>1, GotoOthers
<1>3. job'[c] = what /\ \A d \in Caller \ {c} : job'[d] = job[d]
  BY <1>1 DEF SettingsTypes
<1>4. OnProviders' = {c}
  BY <1>1, <1>2, <1>3 DEF OnProviders, Busy
<1>5. settingsFile.holds = made /\ made \in Entries
  BY <1>1 DEF ProvidersInv, SettingsTypes
<1>6. ChangeOK(c)'
  BY <1>2, <1>3, <1>5, SettingsAssumption DEF ChangeOK, Saved, Entries, providerVars
<1>7. KeysOwned'
  BY <1>1 DEF ProvidersInv, KeysOwned, providerVars
<1>8. \A d \in Caller : settingsHandle'[d] = IF Storing(d)' THEN "temp" ELSE "none"
  BY <1>1, <1>2, <1>3 DEF ProvidersInv, Storing, providerVars
<1>. QED
  BY <1>1, <1>4, <1>5, <1>6, <1>7, <1>8 DEF ProvidersInv, providerVars, Providers!Readable

LEMMA ProvidersStep ==
    ASSUME SettingsInv, KeyringType, ProvidersInv, NEW c \in Caller,
           job[c].op # "scope", RequestStep(c)
    PROVE  ProvidersInv'
<1> USE DEF SettingsInv
<1>1. overlapped' = overlapped /\ at[c] # "idle"
  BY DEF RequestStep, StoreKey, OpenTemp, FillTemp, ReplaceSettings, ForgetKey, ReplaceScope,
     SetPolicyScope, SetApiScope, historyVars
<1> SUFFICES ASSUME "providers" \notin overlapped PROVE ProvidersInv'
  BY <1>1, ProvidersOverlapped
<1>2. /\ at[c] \in {"key", "open", "fill", "replace", "forget"}
      /\ job[c].op \in {"save", "delete"} /\ job[c].name \in Name
  BY <1>1 DEF Placed, PlaceOf, SettingsTypes, Job, Op
<1>3. c \in OnProviders /\ ChangeOK(c)
  BY <1>1, <1>2 DEF OnProviders, Busy, ProvidersInv
<1>4. settingsHandle[c] = IF Storing(c) THEN "temp" ELSE "none"
  BY DEF ProvidersInv
<1>5. Providers!Readable /\ settingsFile.holds = made /\ KeysOwned
  BY DEF ProvidersInv
<1>6. job[c].entries \in Entries /\ made \in Entries
  BY DEF SettingsTypes, Job
<1>7. CASE StoreKey(c)
  <2>1. /\ Goto(c, "open") /\ job' = job /\ broken' = broken /\ at[c] = "key" /\ made' = made
        /\ UNCHANGED <<settingsFile, settingsTemp, settingsHandle>>
        /\ keyring' = [keyring EXCEPT ![job[c].name] = job[c].key]
    BY <1>7 DEF StoreKey, historyVars
  <2>2. at'[c] = "open" /\ \A d \in Caller \ {c} : at'[d] = at[d]
    BY <2>1, GotoOthers
  <2>3. KeysOwned'
    <3>1. OnProviders' = OnProviders
      BY <1>3, <2>1, <2>2 DEF OnProviders, Busy
    <3>. QED
      BY <1>3, <1>5, <2>1, <3>1 DEF KeysOwned, KeyringType
  <2>4. ChangeOK(c)' /\ ~Storing(c)' /\ settingsHandle'[c] = "none"
    BY <1>3, <1>4, <2>1, <2>2 DEF ChangeOK, Storing
  <2>. QED
    BY <1>1, <1>2, <1>3, <1>5, <2>1, <2>2, <2>3, <2>4, ProvidersAlone DEF Providers!Readable
<1>8. CASE OpenTemp(c)
  <2>1. /\ Goto(c, "fill") /\ job' = job /\ UNCHANGED <<keyring, made, settingsFile, broken>>
        /\ settingsTemp' = Providers!Blank("empty") /\ at[c] = "open"
        /\ settingsHandle' = [settingsHandle EXCEPT ![c] = "temp"]
    BY <1>2, <1>8 DEF OpenTemp, Providers!Truncate, historyVars
  <2>2. at'[c] = "fill" /\ \A d \in Caller \ {c} : at'[d] = at[d]
    BY <2>1, GotoOthers
  <2>3. settingsHandle'[c] = "temp" /\ \A d \in Caller \ {c} : settingsHandle'[d] = settingsHandle[d]
    BY <2>1 DEF SettingsTypes
  <2>4. OnProviders' = OnProviders
    BY <1>3, <2>1, <2>2 DEF OnProviders, Busy
  <2>5. ChangeOK(c)' /\ Storing(c)' /\ KeysOwned'
    BY <1>2, <1>3, <1>5, <2>1, <2>2, <2>4 DEF ChangeOK, Storing, KeysOwned
  <2>. QED
    BY <1>1, <1>2, <1>3, <1>5, <2>1, <2>2, <2>3, <2>5, ProvidersAlone DEF Providers!Readable
<1>9. CASE FillTemp(c)
  <2>1. /\ Goto(c, "replace") /\ job' = job /\ UNCHANGED <<keyring, made, broken>>
        /\ at[c] = "fill" /\ Providers!Fill(c, job[c].entries)
    BY <1>2, <1>9 DEF FillTemp, historyVars
  <2>2. at'[c] = "replace" /\ \A d \in Caller \ {c} : at'[d] = at[d]
    BY <2>1, GotoOthers
  <2>3. settingsHandle[c] = "temp" /\ settingsTemp = Providers!Blank("empty")
    BY <1>2, <1>3, <1>4, <2>1 DEF Storing, ChangeOK
  <2>4. settingsTemp' = Providers!Whole(job[c].entries) /\ settingsFile' = settingsFile
    BY <2>1, <2>3 DEF Providers!Fill, Providers!Filled, Providers!Blank
  <2>5. settingsHandle'[c] = "none" /\ \A d \in Caller \ {c} : settingsHandle'[d] = settingsHandle[d]
    BY <2>1 DEF SettingsTypes, Providers!Fill
  <2>6. OnProviders' = OnProviders
    BY <1>3, <2>1, <2>2 DEF OnProviders, Busy
  <2>7. ChangeOK(c)' /\ ~Storing(c)' /\ KeysOwned'
    BY <1>3, <1>5, <2>1, <2>2, <2>4, <2>6 DEF ChangeOK, Storing, KeysOwned
  <2>. QED
    BY <1>1, <1>2, <1>3, <1>5, <2>1, <2>2, <2>4, <2>5, <2>7, ProvidersAlone DEF Providers!Readable
<1>10. CASE ReplaceSettings(c)
  <2>1. /\ at[c] = "replace" /\ settingsFile' = settingsTemp /\ Providers!Replace
        /\ made' = [made EXCEPT ![job[c].name] = job[c].entries[job[c].name]]
        /\ UNCHANGED <<keyring, broken>>
        /\ \/ job[c].op = "save" /\ Done(c)
           \/ job[c].op # "save" /\ Goto(c, "forget") /\ job' = job
    BY <1>10 DEF ReplaceSettings, Providers!Replace, historyVars
  <2>2. settingsFile' = Providers!Whole(job[c].entries)
    BY <1>3, <2>1 DEF ChangeOK
  <2>3. made' = job[c].entries
    <3>1. \A n \in Name : made'[n] = job[c].entries[n]
      BY <1>2, <1>3, <1>6, <2>1 DEF ChangeOK, Entries
    <3>2. made' \in Entries
      BY <1>2, <1>6, <2>1 DEF Entries
    <3>. QED
      BY <1>6, <3>1, <3>2 DEF Entries
  <2>4. \A d \in Caller : settingsHandle[d] = "none"
    <3>1. \A d \in Caller \ {c} : ~Storing(d)
      BY <1>3 DEF ProvidersInv, Storing, OnProviders, Busy, SettingsTypes, Placed, PlaceOf
    <3>. QED
      BY <1>4, <2>1, <3>1 DEF ProvidersInv, Storing
  <2>5. \A d \in Caller : settingsHandle'[d] = "none"
    BY <2>1, <2>4 DEF Providers!Replace
  <2>6. /\ \A d \in Caller \ {c} : at'[d] = at[d] /\ job'[d] = job[d]
        /\ at'[c] = IF job[c].op = "save" THEN "idle" ELSE "forget"
        /\ job[c].op # "save" => job'[c] = job[c]
    BY <2>1, GotoOthers, DoneOthers
  <2>7. KeysOwned'
    <3>1. ASSUME NEW n \in Name, keyring'[n] # NoKey, made'[n] = NoEntry
          PROVE  n \in broken' \/ \E d \in OnProviders' : job'[d].name = n
      <4>1. CASE n = job[c].name
        <5>1. job[c].op # "save"
          BY <1>3, <2>3, <3>1, <4>1 DEF ChangeOK
        <5>. QED
          BY <1>2, <1>3, <2>6, <4>1, <5>1 DEF OnProviders, Busy
      <4>2. CASE n # job[c].name
        <5>1. made[n] = NoEntry
          BY <1>3, <2>1, <2>3, <3>1, <4>2 DEF ChangeOK
        <5>2. n \in broken \/ \E d \in OnProviders \ {c} : job[d].name = n
          BY <1>5, <2>1, <3>1, <4>2, <5>1 DEF KeysOwned
        <5>. QED
          BY <2>1, <2>6, <5>2 DEF OnProviders, Busy
      <4>. QED
        BY <4>1, <4>2
    <3>. QED
      BY <3>1 DEF KeysOwned
  <2>8. /\ at'[c] # "idle" => job'[c].op \in {"save", "delete"} /\ ChangeOK(c)'
        /\ ~Storing(c)'
    BY <1>2, <2>6 DEF ChangeOK, Storing
  <2>9. Providers!Readable' /\ settingsFile'.holds = made'
    BY <2>2, <2>3 DEF Providers!Readable, Providers!Whole
  <2>. QED
    BY <1>1, <1>3, <2>4, <2>5, <2>6, <2>7, <2>8, <2>9, ProvidersAlone
<1>11. CASE ForgetKey(c)
  <2>1. /\ Done(c) /\ at[c] = "forget" /\ made' = made
        /\ UNCHANGED <<settingsFile, settingsTemp, settingsHandle>>
        /\ keyring' = [keyring EXCEPT ![job[c].name] = NoKey]
        /\ broken' = broken \ {job[c].name}
    BY <1>11 DEF ForgetKey
  <2>2. at'[c] = "idle" /\ \A d \in Caller \ {c} : at'[d] = at[d] /\ job'[d] = job[d]
    BY <2>1, DoneOthers
  <2>3. KeysOwned'
    <3>1. ASSUME NEW n \in Name, keyring'[n] # NoKey, made'[n] = NoEntry
          PROVE  n \in broken'
      <4>1. n # job[c].name /\ keyring[n] # NoKey /\ made[n] = NoEntry
        BY <1>2, <2>1, <3>1 DEF KeyringType
      <4>2. \A d \in OnProviders : d = c
        BY <1>3 DEF ProvidersInv
      <4>. QED
        BY <1>5, <2>1, <4>1, <4>2 DEF KeysOwned
    <3>. QED
      BY <3>1 DEF KeysOwned
  <2>4. ~Storing(c)' /\ settingsHandle'[c] = "none"
    BY <1>4, <2>1, <2>2 DEF Storing
  <2>. QED
    BY <1>1, <1>3, <1>5, <2>1, <2>2, <2>3, <2>4, ProvidersAlone DEF Providers!Readable
<1>. QED
  BY <1>2, <1>7, <1>8, <1>9, <1>10, <1>11
     DEF RequestStep, ReplaceScope, SetPolicyScope, SetApiScope

LEMMA ProvidersFail ==
    ASSUME SettingsInv, ProvidersInv, NEW c \in Caller, RequestFails(c)
    PROVE  ProvidersInv'
<1> USE DEF SettingsInv
<1>1. /\ overlapped' = overlapped /\ UNCHANGED <<keyring, made, settingsFile, settingsTemp>>
      /\ Done(c) /\ Providers!Close({c}) /\ broken' = broken \cup NamesOf({c})
      /\ at[c] \in {"key", "open", "fill", "replace", "forget"}
  BY DEF RequestFails, Providers!Close
<1> SUFFICES ASSUME "providers" \notin overlapped PROVE ProvidersInv'
  BY <1>1, ProvidersOverlapped
<1>2. at'[c] = "idle" /\ \A d \in Caller \ {c} : at'[d] = at[d] /\ job'[d] = job[d]
  BY <1>1, DoneOthers
<1>3. settingsHandle'[c] = "none" /\ \A d \in Caller \ {c} : settingsHandle'[d] = settingsHandle[d]
  BY <1>1 DEF Providers!Close, SettingsTypes
<1>4. Providers!Readable' /\ settingsFile'.holds = made'
  BY <1>1 DEF ProvidersInv, Providers!Readable
<1>5. CASE c \in OnProviders
  <2>1. KeysOwned'
    BY <1>1, <1>2, <1>5 DEF ProvidersInv, KeysOwned, NamesOf, OnProviders, Busy
  <2>. QED
    BY <1>1, <1>2, <1>3, <1>4, <1>5, <2>1, ProvidersAlone DEF Storing
<1>6. CASE c \notin OnProviders
  <2>1. job[c].op = "scope"
    BY <1>1, <1>6 DEF OnProviders, Busy, Placed, PlaceOf, SettingsTypes, Job, Op
  <2>2. settingsHandle' = settingsHandle
    <3>1. settingsHandle[c] = "none"
      BY <2>1 DEF ProvidersInv, Storing
    <3>. QED
      BY <1>1, <3>1 DEF Providers!Close, SettingsTypes
  <2>. QED
    BY <1>1, <1>2, <2>1, <2>2, ProvidersOfOthers DEF providerVars
<1>. QED
  BY <1>5, <1>6

LEMMA ProvidersKept ==
    ASSUME SettingsInv, KeyringType, ProvidersInv, [Next]_vars
    PROVE  ProvidersInv'
<1> USE DEF SettingsInv
<1>1. CASE Operate \/ Control \/ UNCHANGED vars
  <2>1. UNCHANGED <<providerVars, at, job, overlapped, broken>>
    BY <1>1 DEF Operate, Control, vars, settingsVars, historyVars
  <2>. QED
    BY <2>1, ProvidersFrame DEF OnProviders, Busy, Storing
<1>2. CASE Crash
  <2>1. /\ at' = [c \in Caller |-> "idle"] /\ overlapped' = overlapped
        /\ UNCHANGED <<keyring, made, settingsFile>> /\ Providers!Close(Caller)
        /\ broken' = broken \cup NamesOf(Caller)
    BY <1>2 DEF Crash, SettingsCrash, Providers!Close
  <2>2. OnProviders' = {} /\ \A c \in Caller : ~Storing(c)'
    BY <2>1 DEF OnProviders, Busy, Storing
  <2>3. \A c \in Caller : settingsHandle'[c] = "none"
    BY <2>1 DEF Providers!Close
  <2>4. "providers" \notin overlapped => KeysOwned'
    BY <2>1 DEF ProvidersInv, KeysOwned, NamesOf, OnProviders, Busy
  <2>. QED
    BY <2>1, <2>2, <2>3, <2>4 DEF ProvidersInv, Providers!Readable
<1>3. ASSUME NEW c \in Caller, NEW s \in Scope, UpdateScope(c, s)
      PROVE  ProvidersInv'
  <2>1. /\ at[c] = "idle" /\ Goto(c, "open") /\ UNCHANGED <<providerVars, broken>>
        /\ job' = [job EXCEPT ![c] = [NoJob EXCEPT !.op = "scope", !.scope = s]]
        /\ "providers" \in overlapped => "providers" \in overlapped'
    BY <1>3 DEF UpdateScope, Begin
  <2>2. /\ \A d \in Caller \ {c} : at'[d] = at[d] /\ job'[d] = job[d]
        /\ job'[c].op = "scope"
    BY <2>1, GotoOthers DEF SettingsTypes, NoJob
  <2>. QED
    BY <2>1, <2>2, ProvidersOfOthers
<1>4. ASSUME NEW c \in Caller, NEW n \in Name, NEW e \in Entry, NEW k \in Key \cup {NoKey},
             SaveProvider(c, n, e, k)
      PROVE  ProvidersInv'
  <2> DEFINE what == [NoJob EXCEPT !.op = "save", !.name = n, !.key = k, !.entries = Saved(n, e)]
  <2>1. settingsFile.holds \in Entries
    BY DEF SettingsTypes, Providers!FileState, Providers!Blank, Providers!Whole, Entries, NoEntries
  <2>2. what \in Job /\ what.op = "save" /\ what.name = n /\ what.entries = Saved(n, e)
    BY <2>1, NoJobType DEF Job, Op, NoJob, Saved, Entries
  <2>3. /\ Providers!Readable /\ UNCHANGED providerVars
        /\ Begin(c, IF k = NoKey THEN "open" ELSE "key", what, "providers", OnProviders)
    BY <1>4 DEF SaveProvider
  <2>4. (IF k = NoKey THEN "open" ELSE "key") \in {"key", "open"}
    OBVIOUS
  <2>. HIDE DEF what
  <2>. QED
    BY <2>2, <2>3, <2>4, ProvidersBegin
<1>5. ASSUME NEW c \in Caller, NEW n \in Name, DeleteProvider(c, n)
      PROVE  ProvidersInv'
  <2> DEFINE what == [NoJob EXCEPT !.op = "delete", !.name = n, !.entries = Saved(n, NoEntry)]
  <2>1. settingsFile.holds \in Entries
    BY DEF SettingsTypes, Providers!FileState, Providers!Blank, Providers!Whole, Entries, NoEntries
  <2>2. what \in Job /\ what.op = "delete" /\ what.name = n /\ what.entries = Saved(n, NoEntry)
    BY <2>1, NoJobType DEF Job, Op, NoJob, Saved, Entries
  <2>3. /\ Providers!Readable /\ UNCHANGED providerVars
        /\ Begin(c, "open", what, "providers", OnProviders)
    BY <1>5 DEF DeleteProvider
  <2>. HIDE DEF what
  <2>. QED
    BY <2>2, <2>3, ProvidersBegin
<1>6. ASSUME NEW c \in Caller, job[c].op = "scope", RequestStep(c)
      PROVE  ProvidersInv'
  <2>1. at[c] # "idle" /\ at[c] \in PlaceOf("scope")
    BY <1>6 DEF RequestStep, StoreKey, OpenTemp, FillTemp, ReplaceSettings, ForgetKey,
       ReplaceScope, SetPolicyScope, SetApiScope, Placed
  <2>2. OpenTemp(c) \/ FillTemp(c) \/ ReplaceScope(c) \/ SetPolicyScope(c) \/ SetApiScope(c)
    BY <1>6, <2>1 DEF RequestStep, StoreKey, ReplaceSettings, ForgetKey, PlaceOf
  <2>3. UNCHANGED <<providerVars, broken, overlapped>>
    BY <1>6, <2>2 DEF OpenTemp, FillTemp, ReplaceScope, SetPolicyScope, SetApiScope, providerVars,
       historyVars
  <2>4. \/ Done(c)
        \/ job' = job /\ \E place : Goto(c, place)
    BY <2>2 DEF OpenTemp, FillTemp, ReplaceScope, SetPolicyScope, SetApiScope
  <2>5. /\ \A d \in Caller \ {c} : at'[d] = at[d] /\ job'[d] = job[d]
        /\ job'[c].op = "scope" \/ at'[c] = "idle"
    BY <1>6, <2>4, GotoOthers, DoneOthers
  <2>. QED
    BY <1>6, <2>3, <2>5, ProvidersOfOthers
<1>7. CASE Configure
  BY <1>3, <1>4, <1>5, <1>6, <1>7, ProvidersStep, ProvidersFail DEF Configure, SettingsStep
<1>. QED
  BY <1>1, <1>2, <1>7 DEF Next

\* ChangesKept: as long as changes do not overlap, settings.json holds what was asked for.
THEOREM ChangesAlwaysKept == Spec => []ChangesKept
<1>1. ProvidersInv => ChangesKept
  BY DEF ProvidersInv, ChangesKept
<1>. QED
  BY <1>1, SettingsInitially, SettingsKept, ProvidersInitially, KeyringTyped, ProvidersKept, PTL
     DEF Spec

\* OrphanKeys: a key without a provider is left by a request that broke off only.
THEOREM OrphansWereBroken == Spec => []OrphanKeys
<1>1. ProvidersInv => OrphanKeys
  BY DEF ProvidersInv, KeysOwned, OrphanKeys
<1>. QED
  BY <1>1, SettingsInitially, SettingsKept, ProvidersInitially, KeyringTyped, ProvidersKept, PTL
     DEF Spec

=============================================================================
