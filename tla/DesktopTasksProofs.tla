------------------------ MODULE DesktopTasksProofs ------------------------
(***************************************************************************)
(* Proofs about DesktopTasks, for every set of tasks, plugins and stop     *)
(* requests and every bound: its types, and that no row ever counts more   *)
(* attempts than its specification allows.                                 *)
(***************************************************************************)
EXTENDS DesktopTasks, FiniteSetTheorems, SequenceTheorems, WellFoundedInduction, TLAPS

\* Where a record read from the row is at hand.
HasRecord == {"run_start", "loop", "policy_scope", "policy_stops", "policy_action",
              "tool_call", "plugin", "tool_result"}

\* How an executor's program counter, local record and update() call belong together.
ExecutorOK(e) ==
    /\ pc[e] \in Updating <=> upd[e].stage # "none"
    /\ upd[e].stage # "none" => upd[e].task = Cur(e)
    /\ pc[e] \notin {"idle", "dead"} => Cur(e) \in Created
    /\ pc[e] \in HasRecord => rec[e].plugin \in Plugin
    /\ pc[e] = "tool_result" => outcome[e] \in Result
    /\ pc[e] = "handling" => upd[e].status = "failed"

\* What an update() call in progress is about.
CallOK(c) ==
    upd[c].stage # "none" =>
        /\ upd[c].task \in Task
        /\ upd[c].status \in {"queued", "running"} \cup Terminal
        /\ upd[c].stage # "read" => upd[c].task \in Created /\ upd[c].plugin \in Plugin

Control ==
    /\ \A e \in Executor : ExecutorOK(e)
    /\ \A c \in Client : CallOK(c)
    /\ \A r \in Request : upd[r].stage # "none" => upd[r].status = "stopped"

\* The executor may still run its task: it is on the way to a plugin call or to a
\* row that can be run.
Live(e) ==
    \/ pc[e] \in HasRecord \cup {"claim", "start"}
    \/ pc[e] = "updating" /\ upd[e].status \in {"queued", "running"}

Open(t) ==
    \/ rows[t].status \in {"queued", "running"}
    \/ \E e \in Executor : Live(e) /\ Cur(e) = t

\* While a task is open its row has an attempt left; later it is within the limit.
RowInBounds(t) ==
    /\ rows[t].attempts <= MaxAttempts[t]
    /\ Open(t) => rows[t].attempts < MaxAttempts[t]

\* So is every row that a client is about to write.
WriteInBounds(c) ==
    upd[c].stage = "write" =>
        /\ upd[c].attempts <= MaxAttempts[upd[c].task]
        /\ upd[c].status \in {"queued", "running"} => upd[c].attempts < MaxAttempts[upd[c].task]

\* A stop request may hold a row it read as long as it likes: while the task is
\* open, what it read has an attempt left.
RequestInBounds(r) ==
    /\ upd[r].stage = "read" => upd[r].keep
    /\ (upd[r].stage = "write" /\ Open(upd[r].task)) => upd[r].attempts < MaxAttempts[upd[r].task]

\* An executor with a record has an attempt left, and asks for what it may write.
ExecutorInBounds(e) ==
    /\ pc[e] \in HasRecord => rec[e].attempts < MaxAttempts[Cur(e)]
    /\ (upd[e].stage = "read" /\ ~upd[e].keep) =>
           /\ upd[e].attempts <= MaxAttempts[upd[e].task]
           /\ upd[e].status \in {"queued", "running"} =>
                  upd[e].attempts < MaxAttempts[upd[e].task]

Attempts ==
    /\ \A t \in Task : RowInBounds(t)
    /\ \A c \in Client : WriteInBounds(c)
    /\ \A r \in Request : RequestInBounds(r)
    /\ \A e \in Executor : ExecutorInBounds(e)

-----------------------------------------------------------------------------

\* A set of naturals has a smallest element.
LEMMA SmallestElement ==
    ASSUME NEW S \in SUBSET Nat, S # {}
    PROVE  \E i \in S : \A j \in S : i <= j
<1> DEFINE T == {1..n : n \in S}
<1>1. T \subseteq FiniteSubsetsOf(Nat) /\ T # {}
  <2>1. \A n \in S : 1..n \in SUBSET Nat /\ IsFiniteSet(1..n)
    BY FS_Interval
  <2>. QED
    BY <2>1 DEF FiniteSubsetsOf
<1>2. IsWellFoundedOn(StrictSubsetOrdering(Nat), FiniteSubsetsOf(Nat))
  BY FS_StrictSubsetOrderingWellFounded
<1>3. PICK X \in T : \A Y \in T : ~ (<<Y, X>> \in StrictSubsetOrdering(Nat))
  BY <1>1, <1>2, WFMin
<1>4. PICK i \in S : X = 1..i
  BY <1>3
<1>5. ASSUME NEW j \in S, j < i
      PROVE  FALSE
  <2>1. 1..j \in T /\ 1..j \subseteq Nat /\ 1..i \subseteq Nat
    OBVIOUS
  <2>2. 1..j \subseteq 1..i /\ i \in 1..i /\ i \notin 1..j
    BY <1>5
  <2>3. <<1..j, 1..i>> \in StrictSubsetOrdering(Nat)
    BY <2>1, <2>2 DEF StrictSubsetOrdering
  <2>. QED
    BY <1>3, <1>4, <2>1, <2>3
<1>. QED
  BY <1>5

\* RecoveryPlanner names a plugin that was not tried, or none.
LEMMA NextPluginType ==
    ASSUME NEW p \in Plugin, NEW tried \in SUBSET Plugin
    PROVE  NextPlugin(p, tried) \in (Plugin \ tried) \cup {NoPlugin}
<1> DEFINE fresh == {i \in DOMAIN Alternatives[p] : Alternatives[p][i] \notin tried}
<1>1. Alternatives[p] \in Seq(Plugin)
  BY OrchestratorAssumption
<1>2. DOMAIN Alternatives[p] \subseteq Nat /\ \A i \in DOMAIN Alternatives[p] : Alternatives[p][i] \in Plugin
  BY <1>1, LenProperties, ElementOfSeq
<1>3. CASE fresh = {}
  BY <1>3 DEF NextPlugin
<1>4. CASE fresh # {}
  <2>1. PICK i \in fresh : \A j \in fresh : i <= j
    BY <1>2, <1>4, SmallestElement
  <2>2. (CHOOSE k \in fresh : \A j \in fresh : k <= j) \in fresh
    BY <2>1
  <2>. QED
    BY <1>2, <1>4, <2>2 DEF NextPlugin
<1>. QED
  BY <1>3, <1>4

-----------------------------------------------------------------------------

USE RepositoryAssumption, OrchestratorAssumption, DesktopAssumption

LEMMA TypeInit == Init => TypeOK /\ Control
<1> SUFFICES ASSUME Init PROVE TypeOK /\ Control
  OBVIOUS
<1> USE DEF Init, OrchestratorInit, RepositoryInit
<1>1. TypeOK
  BY EmptySeq DEF TypeOK, Row, NoRow, Call, NoCall, PC, Record, NoRecord, Outcome, Created,
     Status, Stage, Request
<1>2. Control
  BY DEF Control, ExecutorOK, CallOK, Updating, HasRecord, NoCall, Request
<1>. QED
  BY <1>1, <1>2

\* The line an executor writes next is an event, with its line end or without.
LEMMA NextEventType ==
    ASSUME TypeOK, NEW e \in Executor
    PROVE  /\ NextEvent(e, TypeAt(pc[e])) \in Event
           /\ Unended(NextEvent(e, TypeAt(pc[e]))) \in Event
<1>1. NextEvent(e, TypeAt(pc[e])) \in Event
  BY DEF TypeOK, NextEvent, TypeAt, Event, EventType, Record
<1>. QED
  BY <1>1 DEF Unended, Event

\* Appending it, or what a failed append leaves, keeps every ledger a ledger.
LEMMA WriteLineType ==
    ASSUME TypeOK, NEW e \in Executor, Cur(e) \in Task, WriteLine(e)
    PROVE  ledger' \in [Task -> Seq(Event \cup {Torn})]
<1>1. NextEvent(e, TypeAt(pc[e])) \in Event \cup {Torn}
  BY NextEventType
<1>2. Append(ledger[Cur(e)], NextEvent(e, TypeAt(pc[e]))) \in Seq(Event \cup {Torn})
  BY <1>1 DEF TypeOK
<1>. QED
  BY <1>2 DEF TypeOK, WriteLine

LEMMA CutLineType ==
    ASSUME TypeOK, NEW e \in Executor, Cur(e) \in Task, CutLine(e)
    PROVE  ledger' \in [Task -> Seq(Event \cup {Torn})]
<1>1. PICK line \in {Torn, Unended(NextEvent(e, TypeAt(pc[e])))} :
          ledger' = [ledger EXCEPT ![Cur(e)] = Append(@, line)]
  BY DEF CutLine
<1>2. line \in Event \cup {Torn}
  BY NextEventType
<1>3. Append(ledger[Cur(e)], line) \in Seq(Event \cup {Torn})
  BY <1>2 DEF TypeOK
<1>. QED
  BY <1>1, <1>3 DEF TypeOK

LEMMA LedgerFaultType ==
    ASSUME TypeOK, NEW e \in Executor, Cur(e) \in Task, NEW label, LedgerFault(e, label)
    PROVE  ledger' \in [Task -> Seq(Event \cup {Torn})]
<1>1. CASE ledger' = ledger
  BY <1>1 DEF TypeOK
<1>. QED
  BY <1>1, CutLineType, WriteLineType DEF LedgerFault

\* A call that starts in the middle of a run keeps the types.
LEMMA SetStatusType ==
    ASSUME NEW t \in Task, NEW status \in Status
    PROVE  SetStatus(t, status) \in Call
BY DEF SetStatus, Call, Stage

\* What an attempt leads to is a call about the same task, to a status that runs
\* again only with a plugin to run.
LEMMA AfterAttemptType ==
    ASSUME TypeOK, NEW e \in Executor, Cur(e) \in Task, rec[e].plugin \in Plugin
    PROVE  /\ AfterAttempt(e) \in Call
           /\ AfterAttempt(e).task = Cur(e)
           /\ AfterAttempt(e).stage = "read"
           /\ AfterAttempt(e).status \in {"succeeded", "queued", "failed"}
<1> DEFINE tried == rec[e].tried \cup {rec[e].plugin}
           next == NextPlugin(rec[e].plugin, tried)
<1>1. tried \in SUBSET Plugin /\ rec[e].attempts + 1 \in Nat
  BY DEF TypeOK, Record
<1>2. next \in Plugin \cup {NoPlugin}
  BY <1>1, NextPluginType
<1>3. \E status \in {"succeeded", "queued", "failed"}, p \in Plugin \cup {NoPlugin},
         tr \in {{}, tried} :
          AfterAttempt(e) = SetProgress(Cur(e), status, rec[e].attempts + 1, p, tr)
  BY <1>2 DEF AfterAttempt
<1>4. PICK status \in {"succeeded", "queued", "failed"}, p \in Plugin \cup {NoPlugin},
           tr \in {{}, tried} :
          AfterAttempt(e) = SetProgress(Cur(e), status, rec[e].attempts + 1, p, tr)
  BY <1>3
<1>5. SetProgress(Cur(e), status, rec[e].attempts + 1, p, tr) \in Call
  BY <1>1 DEF SetProgress, Call, Stage, Status, Terminal
<1>6. AfterAttempt(e) \in Call
  BY <1>4, <1>5, Zenon
<1>. QED
  BY <1>4, <1>6 DEF SetProgress

\* update(), whoever calls it, reads and writes rows of the table's type.
LEMMA UpdateStepType ==
    ASSUME TypeOK, Control, NEW c \in Client, UpdateStep(c)
    PROVE  TypeOK' /\ Control'
<1> DEFINE t == upd[c].task
<1> USE DEF UpdateStep
<1>1. upd[c] \in Call /\ t \in Task /\ rows[t] \in Row /\ upd[c].stage # "none"
  BY DEF TypeOK, Control, CallOK, UpdateRead, UpdateWrite
<1>2. CASE UpdateRead(c)
  <2>1. t \in Created /\ rows[t].plugin \in Plugin
    BY <1>1, <1>2 DEF UpdateRead, Created, TypeOK
  <2>2. /\ Merge(upd[c], rows[t]) \in Call
        /\ Merge(upd[c], rows[t]).stage = "write"
        /\ Merge(upd[c], rows[t]).task = t
        /\ Merge(upd[c], rows[t]).status = upd[c].status
        /\ Merge(upd[c], rows[t]).plugin \in Plugin
    BY <1>1, <2>1 DEF Merge, Call, Row, Stage
  <2>3. TypeOK'
    BY <1>2, <2>2 DEF UpdateRead, TypeOK, Created
  <2>4. Control'
    BY <1>1, <1>2, <2>1, <2>2 DEF UpdateRead, TypeOK, Control, ExecutorOK, CallOK, Cur, Created, Request
  <2>. QED
    BY <2>3, <2>4
<1>3. CASE UpdateWrite(c)
  <2>1. t \in Created /\ upd[c].plugin \in Plugin /\ upd[c].status \in Status \ {"none"}
    BY <1>1, <1>3 DEF UpdateWrite, Control, CallOK, Status, Terminal
  <2>2. /\ rows' \in [Task -> Row]
        /\ \A x \in Created' : rows'[x].plugin \in Plugin
        /\ Created' = Created
    <3> DEFINE row == [status |-> upd[c].status, attempts |-> upd[c].attempts,
                       plugin |-> upd[c].plugin, tried |-> upd[c].tried, born |-> rows[t].born]
    <3>1. row \in Row /\ row.status # "none" /\ row.plugin \in Plugin
      BY <1>1, <2>1 DEF Row, Call
    <3>2. rows' = [rows EXCEPT ![t] = row]
      BY <1>3 DEF UpdateWrite
    <3>3. rows \in [Task -> Row] /\ \A x \in Created : rows[x].plugin \in Plugin
      BY DEF TypeOK
    <3> HIDE DEF row, t
    <3>4. /\ rows' \in [Task -> Row] /\ rows'[t] = row
          /\ \A x \in Task \ {t} : rows'[x] = rows[x]
      BY <1>1, <3>1, <3>2, <3>3
    <3>5. Created' = Created
      BY <1>1, <2>1, <3>1, <3>4 DEF Created
    <3>. QED
      BY <3>1, <3>3, <3>4, <3>5 DEF Created
  <2>3. upd' \in [Client -> Call]
    BY <1>1, <1>3 DEF UpdateWrite, TypeOK, Call, Stage
  <2>4. TypeOK'
    BY <1>3, <2>2, <2>3 DEF TypeOK
  <2>5. Control'
    BY <1>1, <1>3, <2>1, <2>2 DEF UpdateWrite, TypeOK, Control, ExecutorOK, CallOK, Cur, Request
  <2>. QED
    BY <2>4, <2>5
<1>. QED
  BY <1>2, <1>3

\* There is one executor: a step of it leaves the calls of all requests alone.
LEMMA ExecutorStep ==
    ASSUME TypeOK, Control, NEW e \in Executor, Created' = Created,
           \A c \in Client \ {e} : upd'[c] = upd[c], ExecutorOK(e)', CallOK(e)'
    PROVE  Control'
BY DEF Control, CallOK, Request

\* The same when its call is left alone too.
LEMMA ExecutorMoves ==
    ASSUME TypeOK, Control, NEW e \in Executor, rows' = rows, upd' = upd, ExecutorOK(e)'
    PROVE  Control'
<1>1. Created' = Created
  BY DEF Created
<1>2. CallOK(e)'
  BY <1>1 DEF Control, CallOK
<1>. QED
  BY <1>1, <1>2, ExecutorStep

\* The same when it enters update() about its own task.
LEMMA ExecutorCalls ==
    ASSUME TypeOK, Control, NEW e \in Executor, NEW call \in Call, rows' = rows,
           upd' = [upd EXCEPT ![e] = call], call.stage = "read", call.task = Cur(e),
           call.status # "none", Cur(e) \in Created, rec' = rec,
           \/ pc' = [pc EXCEPT ![e] = "updating"]
           \/ pc' = [pc EXCEPT ![e] = "handling"] /\ call.status = "failed"
    PROVE  Control' /\ upd' \in [Client -> Call] /\ pc' \in [Executor -> PC]
<1>1. Created' = Created /\ Cur(e)' = Cur(e) /\ Cur(e) \in Task
  BY DEF Created, Cur
<1>2. upd'[e] = call /\ upd' \in [Client -> Call]
  BY DEF TypeOK
<1>3. pc' \in [Executor -> PC] /\ pc'[e] \in Updating /\ (pc'[e] = "handling" => call.status = "failed")
  BY DEF TypeOK, PC, Updating
<1>4. ExecutorOK(e)'
  BY <1>1, <1>2, <1>3 DEF ExecutorOK, Updating, HasRecord
<1>5. CallOK(e)'
  BY <1>1, <1>2 DEF CallOK, Call, Status
<1>6. \A c \in Client \ {e} : upd'[c] = upd[c]
  BY DEF TypeOK
<1>. QED
  BY <1>1, <1>2, <1>3, <1>4, <1>5, <1>6, ExecutorStep

\* A label the executor can move to while its record stays as it is.
LEMMA ExecutorGoes ==
    ASSUME TypeOK, Control, NEW e \in Executor, rows' = rows, upd' = upd, rec' = rec,
           NEW label \in PC \ Updating, pc' = [pc EXCEPT ![e] = label],
           pc[e] \notin Updating, pc[e] \notin {"idle", "dead"} \/ label \in {"idle", "dead"},
           label \in HasRecord => pc[e] \in HasRecord,
           label = "tool_result" => outcome'[e] \in Result
    PROVE  Control' /\ pc' \in [Executor -> PC]
<1>1. Created' = Created /\ Cur(e)' = Cur(e)
  BY DEF Created, Cur
<1>2. pc'[e] = label /\ pc' \in [Executor -> PC]
  BY DEF TypeOK
<1>3. ExecutorOK(e)'
  BY <1>1, <1>2 DEF ExecutorOK, Control, Updating
<1>. QED
  BY <1>2, <1>3, ExecutorMoves

\* A call that is over leaves the executor outside, with no update() in progress.
LEMMA ExecutorLeaves ==
    ASSUME TypeOK, Control, NEW e \in Executor, NEW label \in {"idle", "dead"}, Leave(e, label),
           rows' = rows, upd' = upd, pc[e] \notin Updating
    PROVE  /\ Control' /\ pc' \in [Executor -> PC] /\ rec' \in [Executor -> Record]
           /\ outcome' \in [Executor -> Outcome] /\ hseq' \in [Executor -> Nat]
<1>1. /\ pc' \in [Executor -> PC] /\ rec' \in [Executor -> Record]
      /\ outcome' \in [Executor -> Outcome] /\ hseq' \in [Executor -> Nat]
      /\ pc'[e] = label
  BY DEF Leave, Goto, TypeOK, PC, Record, NoRecord, Outcome, Status
<1>2. ExecutorOK(e)'
  BY <1>1 DEF ExecutorOK, Control, Updating, HasRecord
<1>. QED
  BY <1>1, <1>2, ExecutorMoves

\* A line goes to the executor's ledger, and its cached number moves.
LEMMA WriteEventType ==
    ASSUME TypeOK, Control, NEW e \in Executor, Cur(e) \in Created, WriteEvent(e)
    PROVE  /\ ledger' \in [Task -> Seq(Event \cup {Torn})]
           /\ hseq' \in [Executor -> Nat]
           /\ rows' = rows /\ rec' = rec /\ scope' = scope /\ stops' = stops /\ faults' = faults
<1>1. ledger' \in [Task -> Seq(Event \cup {Torn})]
  BY WriteLineType DEF WriteEvent, Created
<1>. QED
  BY <1>1 DEF WriteEvent, TypeOK

\* What no executor step touches, and the rows it does not write.
LEMMA RestType ==
    ASSUME TypeOK, rows' = rows, scope' = scope, stops' = stops, aim' = aim, crashes' = crashes
    PROVE  /\ rows' \in [Task -> Row]
           /\ \A t \in Created' : rows'[t].plugin \in Plugin
           /\ scope' \in Scopes /\ stops' \in SUBSET StopKey
           /\ aim' \in [Request -> Task \cup {NoTask}] /\ crashes' \in 0..MaxCrashes
BY DEF TypeOK, Created

LEMMA OpenRunType ==
    ASSUME TypeOK, Control, NEW e \in Executor, OpenRun(e), UNCHANGED <<aim, crashes>>
    PROVE  TypeOK' /\ Control'
<1> USE DEF OpenRun
<1>1. Cur(e) \in Created /\ upd[e].stage = "none"
  BY DEF Control, ExecutorOK, Updating
<1>2. /\ RecordOf(Cur(e)) \in Record
      /\ RecordOf(Cur(e)).plugin \in Plugin
      /\ RecordOf(Cur(e)).task = Cur(e)
  BY <1>1 DEF TypeOK, RecordOf, Record, Created, Row
<1>3. Len(ledger[Cur(e)]) \in Nat
  BY <1>1, LenProperties DEF TypeOK, Created
<1> DEFINE label == IF ~Replayable(ledger[Cur(e)]) THEN "raised"
                    ELSE IF rows[Cur(e)].attempts = 0 THEN "run_start" ELSE "loop"
<1>4. pc' = [pc EXCEPT ![e] = label] /\ label \in {"raised", "run_start", "loop"}
  BY DEF Goto
<1> HIDE DEF label
<1>5. TypeOK'
  BY <1>2, <1>3, <1>4, RestType DEF TypeOK, PC
<1>6. ExecutorOK(e)'
  <2>1. pc'[e] = label /\ rec'[e] = RecordOf(Cur(e)) /\ upd' = upd /\ Created' = Created
    BY <1>4 DEF TypeOK, Created
  <2>2. Cur(e)' = Cur(e)
    BY <1>2, <2>1 DEF Cur
  <2>. QED
    BY <1>1, <1>2, <1>4, <2>1, <2>2 DEF ExecutorOK, Updating
<1>. QED
  BY <1>5, <1>6, ExecutorMoves

LEMMA LogRunStartType ==
    ASSUME TypeOK, Control, NEW e \in Executor, LogRunStart(e), UNCHANGED <<aim, crashes>>
    PROVE  TypeOK' /\ Control'
<1> USE DEF LogRunStart
<1>1. Cur(e) \in Created
  BY DEF Control, ExecutorOK
<1>2. Control' /\ pc' \in [Executor -> PC]
  BY WriteEventType, <1>1, ExecutorGoes DEF Goto, PC, Updating, HasRecord
<1>3. TypeOK'
  BY <1>1, <1>2, WriteEventType, RestType DEF TypeOK
<1>. QED
  BY <1>2, <1>3

LEMMA TestLoopType ==
    ASSUME TypeOK, Control, NEW e \in Executor, TestLoop(e), UNCHANGED <<aim, crashes>>
    PROVE  TypeOK' /\ Control'
<1> USE DEF TestLoop
<1>1. Cur(e) \in Created /\ Cur(e) \in Task /\ pc[e] \notin Updating
  BY DEF Control, ExecutorOK, Created, Updating
<1>2. CASE rec[e].status \in Terminal
  <2>1. Leave(e, "idle") /\ upd' = upd
    BY <1>2
  <2>. QED
    BY <1>1, <2>1, ExecutorLeaves, RestType DEF TypeOK
<1>3. CASE rec[e].status \notin Terminal /\ rec[e].status = "running"
  <2>1. Control' /\ pc' \in [Executor -> PC]
    BY <1>1, <1>3, ExecutorGoes DEF Goto, PC, Updating, HasRecord
  <2>. QED
    BY <1>3, <2>1, RestType DEF TypeOK
<1>4. CASE rec[e].status \notin Terminal /\ rec[e].status # "running"
  <2>1. StartUpdate(e, SetStatus(Cur(e), "running")) /\ UNCHANGED <<rec, outcome, hseq>>
    BY <1>4
  <2>2. Control' /\ upd' \in [Client -> Call] /\ pc' \in [Executor -> PC]
    <3>1. SetStatus(Cur(e), "running") \in Call
      BY <1>1, SetStatusType DEF Status
    <3>. QED
      BY <1>1, <2>1, <3>1, ExecutorCalls DEF StartUpdate, Goto, SetStatus
  <2>. QED
    BY <2>1, <2>2, RestType DEF TypeOK
<1>. QED
  BY <1>2, <1>3, <1>4

LEMMA DenyType ==
    ASSUME TypeOK, Control, NEW e \in Executor, NEW status \in Terminal, Deny(e, status),
           pc[e] \notin {"idle", "dead"},
           UNCHANGED <<rows, rec, hseq, ledger, scope, stops, overrun, faults, aim, crashes>>
    PROVE  TypeOK' /\ Control'
<1>1. Cur(e) \in Created /\ Cur(e) \in Task
  BY DEF Control, ExecutorOK, Created
<1>2. SetStatus(Cur(e), status) \in Call
  BY <1>1, SetStatusType DEF Status
<1>3. Control' /\ upd' \in [Client -> Call] /\ pc' \in [Executor -> PC]
  BY <1>1, <1>2, ExecutorCalls DEF Deny, StartUpdate, Goto, SetStatus, Terminal
<1>4. outcome' \in [Executor -> Outcome]
  BY DEF Deny, TypeOK, Outcome
<1>. QED
  BY <1>3, <1>4, RestType DEF TypeOK

LEMMA AllowType ==
    ASSUME TypeOK, Control, NEW e \in Executor,
           NEW label \in {"policy_stops", "policy_action", "tool_call", "raised"},
           pc[e] \in {"policy_scope", "policy_stops", "policy_action"}, Goto(e, label),
           UNCHANGED <<upd, outcome, rows, rec, hseq, ledger, scope, stops, overrun, faults,
                       aim, crashes>>
    PROVE  TypeOK' /\ Control'
<1>1. Control' /\ pc' \in [Executor -> PC]
  BY ExecutorGoes DEF Goto, PC, Updating, HasRecord
<1>. QED
  BY <1>1, RestType DEF TypeOK

LEMMA PolicyType ==
    ASSUME TypeOK, Control, NEW e \in Executor, CheckScope(e) \/ CheckStops(e) \/ CheckAction(e),
           UNCHANGED <<aim, crashes>>
    PROVE  TypeOK' /\ Control'
<1>1. \A name : DenialStatus(name) \in Terminal
  BY DEF DenialStatus, Terminal
<1>2. CASE CheckScope(e)
  BY <1>1, <1>2, DenyType, AllowType DEF CheckScope
<1>3. CASE CheckStops(e)
  BY <1>3, DenyType, AllowType DEF CheckStops, Terminal
<1>4. CASE CheckAction(e)
  <2>1. CASE rec[e].plugin \in scope.prohibited
    BY <1>1, <1>4, <2>1, DenyType DEF CheckAction
  <2>2. CASE rec[e].plugin \notin scope.prohibited
    BY <1>4, <2>2, AllowType DEF CheckAction
  <2>. QED
    BY <2>1, <2>2
<1>. QED
  BY <1>2, <1>3, <1>4

LEMMA LogToolCallType ==
    ASSUME TypeOK, Control, NEW e \in Executor, LogToolCall(e), UNCHANGED <<aim, crashes>>
    PROVE  TypeOK' /\ Control'
<1> USE DEF LogToolCall
<1>1. Cur(e) \in Created
  BY DEF Control, ExecutorOK
<1>2. Control' /\ pc' \in [Executor -> PC]
  BY WriteEventType, <1>1, ExecutorGoes DEF Goto, PC, Updating, HasRecord
<1>3. overrun' \in [Task -> Nat]
  BY <1>1 DEF TypeOK, Created
<1>4. TypeOK'
  BY <1>1, <1>2, <1>3, WriteEventType, RestType DEF TypeOK
<1>. QED
  BY <1>2, <1>4

LEMMA RunPluginType ==
    ASSUME TypeOK, Control, NEW e \in Executor, RunPlugin(e), UNCHANGED <<aim, crashes>>
    PROVE  TypeOK' /\ Control'
<1> USE DEF RunPlugin
<1>1. CASE Goto(e, "raised") /\ UNCHANGED outcome
  <2>1. Control' /\ pc' \in [Executor -> PC]
    BY <1>1, ExecutorGoes DEF Goto, PC, Updating, HasRecord
  <2>. QED
    BY <1>1, <2>1, RestType DEF TypeOK
<1>2. ASSUME NEW result \in Result, outcome' = [outcome EXCEPT ![e] = result], Goto(e, "tool_result")
      PROVE  TypeOK' /\ Control'
  <2>1. outcome' \in [Executor -> Outcome] /\ outcome'[e] \in Result
    BY <1>2 DEF TypeOK, Outcome
  <2>2. Control' /\ pc' \in [Executor -> PC]
    BY <1>2, <2>1, ExecutorGoes DEF Goto, PC, Updating, HasRecord
  <2>. QED
    BY <2>1, <2>2, RestType DEF TypeOK
<1>. QED
  BY <1>1, <1>2

LEMMA LogToolResultType ==
    ASSUME TypeOK, Control, NEW e \in Executor, LogToolResult(e), UNCHANGED <<aim, crashes>>
    PROVE  TypeOK' /\ Control'
<1> USE DEF LogToolResult
<1>1. Cur(e) \in Created /\ Cur(e) \in Task /\ rec[e].plugin \in Plugin
  BY DEF Control, ExecutorOK, Created, HasRecord
<1>2. /\ AfterAttempt(e) \in Call
      /\ AfterAttempt(e).task = Cur(e)
      /\ AfterAttempt(e).stage = "read"
      /\ AfterAttempt(e).status \in {"succeeded", "queued", "failed"}
  BY <1>1, AfterAttemptType
<1>3. Control' /\ upd' \in [Client -> Call] /\ pc' \in [Executor -> PC]
  BY <1>1, <1>2, WriteEventType, ExecutorCalls DEF StartUpdate, Goto
<1>4. outcome' \in [Executor -> Outcome]
  BY <1>2 DEF TypeOK, Outcome
<1>5. TypeOK'
  BY <1>1, <1>3, <1>4, WriteEventType, RestType DEF TypeOK
<1>. QED
  BY <1>3, <1>5

LEMMA UpdateReturnsType ==
    ASSUME TypeOK, Control, NEW e \in Executor, UpdateReturns(e), UNCHANGED <<aim, crashes>>
    PROVE  TypeOK' /\ Control'
<1> USE DEF UpdateReturns, UpdateGet
<1>1. Cur(e) \in Created /\ upd[e].stage = "get"
  BY DEF Control, ExecutorOK
<1>2. /\ RecordOf(Cur(e)) \in Record
      /\ RecordOf(Cur(e)).plugin \in Plugin
      /\ RecordOf(Cur(e)).task = Cur(e)
  BY <1>1 DEF TypeOK, RecordOf, Record, Created, Row
<1>3. NoCall \in Call /\ NoCall.stage = "none"
  BY DEF NoCall, Call, Stage, Status
<1> DEFINE label == CASE upd[e].status \in Terminal -> "run_end"
                     [] upd[e].status = "running" -> "policy_scope"
                     [] OTHER -> "loop"
<1>4. pc' = [pc EXCEPT ![e] = label] /\ label \in {"run_end", "policy_scope", "loop"}
  BY DEF Terminal, Goto
<1> HIDE DEF label
<1>5. TypeOK'
  BY <1>2, <1>3, <1>4, RestType DEF TypeOK, PC
<1>6. /\ pc'[e] = label /\ rec'[e] = RecordOf(Cur(e)) /\ upd'[e] = NoCall /\ Created' = Created
      /\ \A c \in Client \ {e} : upd'[c] = upd[c]
  BY <1>4 DEF TypeOK, Created
<1>7. Cur(e)' = Cur(e)
  BY <1>2, <1>6 DEF Cur
<1>8. ExecutorOK(e)' /\ CallOK(e)'
  BY <1>1, <1>2, <1>3, <1>4, <1>6, <1>7 DEF ExecutorOK, CallOK, Updating
<1>. QED
  BY <1>5, <1>6, <1>8, ExecutorStep

LEMMA LogRunEndType ==
    ASSUME TypeOK, Control, NEW e \in Executor, LogRunEnd(e), UNCHANGED <<aim, crashes>>
    PROVE  TypeOK' /\ Control'
<1> USE DEF LogRunEnd
<1>1. Cur(e) \in Task
  BY DEF Control, ExecutorOK, Created
<1>2. ledger' \in [Task -> Seq(Event \cup {Torn})]
  BY <1>1, WriteLineType
<1>3. pc[e] \notin Updating
  BY DEF Updating
<1>. QED
  BY <1>2, <1>3, ExecutorLeaves, RestType DEF TypeOK

\* Every step of run_until_terminal.
LEMMA RunStepType ==
    ASSUME TypeOK, Control, NEW e \in Executor, RunStep(e), UNCHANGED <<aim, crashes>>
    PROVE  TypeOK' /\ Control'
BY OpenRunType, LogRunStartType, TestLoopType, PolicyType, LogToolCallType, RunPluginType,
   LogToolResultType, UpdateReturnsType, LogRunEndType DEF RunStep

-----------------------------------------------------------------------------

\* What claim_next() makes of a row.
LEMMA RowRuns ==
    ASSUME NEW row \in Row
    PROVE  LET claimed == [row EXCEPT !.status = "running"]
           IN  claimed \in Row /\ claimed.plugin = row.plugin /\ claimed.status = "running"
BY DEF Row, Status

\* The worker around it: claiming a task, and the handler of whatever is raised.
LEMMA ClaimType ==
    ASSUME TypeOK, Control, NEW e \in Executor, ClaimSelect(e) \/ ClaimUpdate(e)
    PROVE  TypeOK' /\ Control'
<1>1. CASE ClaimSelect(e)
  <2> USE <1>1 DEF ClaimSelect
  <2>1. PICK t \in Task : FirstQueued(t) /\ rec' = [rec EXCEPT ![e] = [NoRecord EXCEPT !.task = t]]
    OBVIOUS
  <2>2. t \in Created
    BY <2>1 DEF FirstQueued, Queued, Created
  <2>3. [NoRecord EXCEPT !.task = t] \in Record /\ [NoRecord EXCEPT !.task = t].task = t
    BY DEF NoRecord, Record, Status
  <2>4. rec' \in [Executor -> Record] /\ rec'[e].task = t
    BY <2>1, <2>3 DEF TypeOK
  <2>5. pc' \in [Executor -> PC] /\ pc'[e] = "claim"
    BY DEF Goto, TypeOK, PC
  <2>6. ExecutorOK(e)'
    <3>1. upd[e].stage = "none" /\ Created' = Created
      BY DEF Control, ExecutorOK, Created, Updating
    <3>. QED
      BY <2>2, <2>4, <2>5, <3>1 DEF ExecutorOK, Cur, Updating, HasRecord
  <2>. QED
    BY <2>4, <2>5, <2>6, ExecutorMoves, RestType DEF TypeOK
<1>2. CASE ClaimUpdate(e)
  <2> USE <1>2 DEF ClaimUpdate, ClaimWrite
  <2>1. Cur(e) \in Created /\ Cur(e) \in Task /\ upd[e].stage = "none"
    BY DEF Control, ExecutorOK, Created, Updating
  <2>2. PICK row : row = [rows[Cur(e)] EXCEPT !.status = "running"]
    OBVIOUS
  <2>3. row \in Row /\ row.plugin = rows[Cur(e)].plugin /\ row.status # "none"
    BY <2>1, <2>2, RowRuns DEF TypeOK
  <2>4. /\ rows' \in [Task -> Row] /\ rows'[Cur(e)] = row
        /\ \A x \in Task : x # Cur(e) => rows'[x] = rows[x]
    <3>1. rows' = [rows EXCEPT ![Cur(e)] = row]
      BY <2>1, <2>2 DEF TypeOK
    <3>2. rows \in [Task -> Row]
      BY DEF TypeOK
    <3>3. rows' \in [Task -> Row]
      BY <2>3, <3>1, <3>2
    <3>. QED
      BY <2>1, <3>1, <3>2, <3>3
  <2>5. Created' = Created
    BY <2>1, <2>3, <2>4 DEF Created
  <2>6. /\ rows' \in [Task -> Row]
        /\ \A x \in Created' : rows'[x].plugin \in Plugin
        /\ Created' = Created
    BY <2>1, <2>3, <2>4, <2>5 DEF TypeOK, Created
  <2>7. pc' \in [Executor -> PC] /\ pc'[e] = "start" /\ Cur(e)' = Cur(e)
    BY DEF Goto, TypeOK, PC, Cur
  <2>8. ExecutorOK(e)'
    BY <2>1, <2>6, <2>7 DEF ExecutorOK, Updating, HasRecord
  <2>9. CallOK(e)'
    BY <2>1 DEF CallOK
  <2>10. TypeOK'
    BY <2>6, <2>7 DEF TypeOK
  <2>. QED
    BY <2>6, <2>8, <2>9, <2>10, ExecutorStep
<1>. QED
  BY <1>1, <1>2

LEMMA HandleType ==
    ASSUME TypeOK, Control, NEW e \in Executor, Handle(e)
    PROVE  TypeOK' /\ Control'
<1> USE DEF Handle
<1>1. Cur(e) \in Created /\ Cur(e) \in Task
  BY DEF Control, ExecutorOK, Created
<1>2. SetStatus(Cur(e), "failed") \in Call
  BY <1>1, SetStatusType DEF Status, Terminal
<1>3. Control' /\ upd' \in [Client -> Call] /\ pc' \in [Executor -> PC]
  BY <1>1, <1>2, ExecutorCalls DEF Goto, SetStatus
<1>4. outcome' \in [Executor -> Outcome]
  BY DEF TypeOK, Outcome, Terminal
<1>. QED
  BY <1>3, <1>4, RestType DEF TypeOK

LEMMA HandlerUpdatedType ==
    ASSUME TypeOK, Control, NEW e \in Executor, HandlerUpdated(e)
    PROVE  TypeOK' /\ Control'
<1> USE DEF HandlerUpdated, UpdateGet
<1>1. NoCall \in Call /\ NoCall.stage = "none"
  BY DEF NoCall, Call, Stage, Status
<1>2. /\ pc' \in [Executor -> PC] /\ pc'[e] = "handler_open" /\ Cur(e)' = Cur(e)
      /\ upd' \in [Client -> Call] /\ upd'[e] = NoCall /\ Created' = Created
      /\ \A c \in Client \ {e} : upd'[c] = upd[c]
  BY <1>1 DEF Goto, TypeOK, PC, Cur, Created
<1>3. ExecutorOK(e)' /\ CallOK(e)'
  BY <1>1, <1>2 DEF Control, ExecutorOK, CallOK, Updating, HasRecord
<1>4. TypeOK'
  BY <1>2, RestType DEF TypeOK
<1>. QED
  BY <1>2, <1>3, <1>4, ExecutorStep

LEMMA HandlerOpenType ==
    ASSUME TypeOK, Control, NEW e \in Executor, HandlerOpen(e)
    PROVE  TypeOK' /\ Control'
<1> USE DEF HandlerOpen
<1>1. Cur(e) \in Task /\ pc[e] \notin Updating
  BY DEF Control, ExecutorOK, Created, Updating
<1>2. CASE Replayable(ledger[Cur(e)])
  <2>1. Len(ledger[Cur(e)]) \in Nat
    BY <1>1, LenProperties DEF TypeOK
  <2>2. hseq' \in [Executor -> Nat]
    BY <1>2, <2>1 DEF TypeOK
  <2>3. Control' /\ pc' \in [Executor -> PC]
    BY <1>2, ExecutorGoes DEF Goto, PC, Updating, HasRecord
  <2>. QED
    BY <1>2, <2>2, <2>3, RestType DEF TypeOK
<1>3. CASE ~Replayable(ledger[Cur(e)])
  BY <1>1, <1>3, ExecutorLeaves, RestType DEF TypeOK
<1>. QED
  BY <1>2, <1>3

LEMMA HandlerLogType ==
    ASSUME TypeOK, Control, NEW e \in Executor, HandlerLog(e)
    PROVE  TypeOK' /\ Control'
<1> USE DEF HandlerLog
<1>1. Cur(e) \in Task /\ pc[e] \notin Updating
  BY DEF Control, ExecutorOK, Created, Updating
<1>2. ledger' \in [Task -> Seq(Event \cup {Torn})]
  BY <1>1, WriteLineType
<1>. QED
  BY <1>1, <1>2, ExecutorLeaves, RestType DEF TypeOK

\* A ledger write that fails, in the run or in the handler.
LEMMA FaultType ==
    ASSUME TypeOK, Control, NEW e \in Executor, NEW label \in {"raised", "dead"},
           pc[e] \in Writing, LedgerFault(e, label), UNCHANGED <<aim, crashes>>
    PROVE  TypeOK' /\ Control'
<1> USE DEF LedgerFault
<1>1. Cur(e) \in Task /\ pc[e] \notin Updating /\ pc[e] \notin {"idle", "dead"}
  BY DEF Control, ExecutorOK, Created, Updating, Writing
<1>2. ledger' \in [Task -> Seq(Event \cup {Torn})]
  BY <1>1, LedgerFaultType
<1>3. Control' /\ pc' \in [Executor -> PC]
  BY <1>1, ExecutorGoes DEF Goto, PC, Updating, HasRecord
<1>4. faults' \in 0..MaxFaults
  BY DEF TypeOK
<1>. QED
  BY <1>2, <1>3, <1>4, RestType DEF TypeOK

LEMMA DatabaseFaultType ==
    ASSUME TypeOK, NEW c, DatabaseFault(c)
    PROVE  faults' \in 0..MaxFaults
<1>1. MaxFaults \in Nat /\ MaxDatabaseFaults \in 0..MaxFaults
  BY OrchestratorAssumption, DesktopAssumption
<1>2. faults \in Nat /\ faults < MaxDatabaseFaults /\ faults' = faults + 1
  BY DEF TypeOK, DatabaseFault
<1>. QED
  BY <1>1, <1>2

\* A statement that fails: the call it belongs to is gone, and whoever made it raises
\* or is back outside.
LEMMA DatabaseType ==
    ASSUME TypeOK, Control, NEW e \in Executor, DatabaseKills(e) \/ DatabaseRaises(e)
    PROVE  TypeOK' /\ Control'
<1>3. faults' \in 0..MaxFaults
  BY DatabaseFaultType DEF DatabaseKills, DatabaseRaises
<1> USE DEF DatabaseKills, DatabaseRaises, DatabaseFault
<1>1. NoCall \in Call /\ NoCall.stage = "none"
  BY DEF NoCall, Call, Stage, Status
<1>2. /\ upd' \in [Client -> Call] /\ upd'[e] = NoCall /\ Created' = Created
      /\ \A c \in Client \ {e} : upd'[c] = upd[c]
  <2>1. e \in Client
    BY OrchestratorAssumption
  <2>2. upd' = [upd EXCEPT ![e] = NoCall] /\ rows' = rows /\ upd \in [Client -> Call]
    BY DEF TypeOK
  <2>. QED
    BY <1>1, <2>1, <2>2 DEF Created
<1>4. CallOK(e)'
  BY <1>1, <1>2 DEF CallOK
<1>5. CASE DatabaseKills(e)
  <2>1. /\ pc' \in [Executor -> PC] /\ rec' \in [Executor -> Record]
        /\ outcome' \in [Executor -> Outcome] /\ hseq' \in [Executor -> Nat]
        /\ pc'[e] = "dead"
    BY <1>5 DEF Leave, Goto, TypeOK, PC, Record, NoRecord, Outcome, Status
  <2>2. ExecutorOK(e)'
    BY <1>1, <1>2, <2>1 DEF ExecutorOK, Updating, HasRecord
  <2>. QED
    BY <1>2, <1>3, <1>4, <2>1, <2>2, ExecutorStep, RestType DEF TypeOK
<1>6. CASE DatabaseRaises(e)
  <2>1. /\ pc' \in [Executor -> PC] /\ pc'[e] = "raised" /\ Cur(e)' = Cur(e)
        /\ Cur(e) \in Created
    BY <1>6 DEF Goto, TypeOK, PC, Cur, Control, ExecutorOK
  <2>2. ExecutorOK(e)'
    BY <1>1, <1>2, <2>1 DEF ExecutorOK, Updating, HasRecord
  <2>. QED
    BY <1>2, <1>3, <1>4, <1>6, <2>1, <2>2, ExecutorStep, RestType DEF TypeOK
<1>. QED
  BY <1>5, <1>6

LEMMA WorkerStepType ==
    ASSUME TypeOK, Control, NEW e \in Executor, WorkerStep(e)
    PROVE  TypeOK' /\ Control'
BY RunStepType, UpdateStepType, ClaimType, HandleType, HandlerUpdatedType, HandlerOpenType,
   HandlerLogType DEF WorkerStep

-----------------------------------------------------------------------------

\* Requests of the API and the CLI. A step that leaves the executor and every call
\* alone, and takes no task out of the table, keeps the control invariant.
LEMMA OthersMove ==
    ASSUME TypeOK, Control, Created \subseteq Created', upd' = upd, pc' = pc, rec' = rec,
           outcome' = outcome
    PROVE  Control'
<1>1. \A e \in Executor : ExecutorOK(e)'
  BY DEF Control, ExecutorOK, Cur
<1>2. \A c \in Client : CallOK(c)'
  BY DEF Control, CallOK
<1>. QED
  BY <1>1, <1>2 DEF Control

LEMMA CreateType ==
    ASSUME TypeOK, Control, NEW t \in Task, NEW p \in Plugin, ApiCreate(t, p) \/ CliCreate(t, p)
    PROVE  TypeOK' /\ Control'
<1> USE DEF ApiCreate, CliCreate, Create
<1> DEFINE row == [status |-> "queued", attempts |-> 0, plugin |-> p, tried |-> {},
                   born |-> Cardinality(Created)]
<1>1. Cardinality(Created) \in Nat
  <2>1. IsFiniteSet(Created)
    BY FS_Subset DEF Created
  <2>. QED
    BY <2>1, FS_CardinalityType
<1>2. row \in Row /\ row.plugin \in Plugin /\ row.status # "none"
  BY <1>1 DEF Row, Status
<1>3. rows' = [rows EXCEPT ![t] = row]
  OBVIOUS
<1> HIDE DEF row
<1>4. /\ rows' \in [Task -> Row] /\ rows'[t] = row
      /\ \A x \in Task : x # t => rows'[x] = rows[x]
  BY <1>2, <1>3 DEF TypeOK
<1>5. Created \subseteq Created' /\ \A x \in Created' : rows'[x].plugin \in Plugin
  <2>1. \A x \in Task : rows'[x] = row \/ rows'[x] = rows[x]
    BY <1>4, Zenon
  <2>2. \A x \in Created : x \in Created'
    BY <1>2, <2>1 DEF Created
  <2>3. \A x \in Created' : rows'[x].plugin \in Plugin
    BY <1>2, <2>1 DEF Created, TypeOK
  <2>. QED
    BY <2>2, <2>3
<1>6. Control'
  BY <1>5, OthersMove
<1>7. TypeOK'
  BY <1>4, <1>5 DEF TypeOK
<1>. QED
  BY <1>6, <1>7

\* A request enters update(), or leaves it.
LEMMA RequestCalls ==
    ASSUME TypeOK, Control, NEW r \in Request, NEW call \in Call, rows' = rows, pc' = pc,
           rec' = rec, outcome' = outcome, upd' = [upd EXCEPT ![r] = call],
           call.stage = "none" \/ (call.stage = "read" /\ call.task \in Task /\ call.status = "stopped")
    PROVE  Control' /\ upd' \in [Client -> Call]
<1>1. /\ upd' \in [Client -> Call] /\ upd'[r] = call
      /\ \A c \in Client : c # r => upd'[c] = upd[c]
  BY DEF TypeOK, Request
<1>2. Created' = Created /\ r \in Client /\ r \notin Executor
  BY DEF Created, Request
<1>3. \A e \in Executor : ExecutorOK(e)'
  BY <1>1, <1>2 DEF Control, ExecutorOK, Cur
<1>4. \A c \in Client : CallOK(c)'
  BY <1>1, <1>2 DEF Control, CallOK, Terminal
<1>5. \A x \in Request : upd'[x].stage # "none" => upd'[x].status = "stopped"
  BY <1>1 DEF Control, Request
<1>. QED
  BY <1>1, <1>3, <1>4, <1>5 DEF Control

LEMMA StopType ==
    ASSUME TypeOK, Control, NEW r \in Request, NEW t \in Task, StopTask(r, t) \/ CliStopTask(r, t)
    PROVE  TypeOK' /\ Control'
<1> USE DEF StopTask, CliStopTask
<1>1. SetStatus(t, "stopped") \in Call
  BY SetStatusType DEF Status, Terminal
<1>2. Control' /\ upd' \in [Client -> Call]
  BY <1>1, RequestCalls DEF SetStatus
<1>3. aim' = [aim EXCEPT ![r] = t]
  OBVIOUS
<1>4. aim \in [Request -> Task \cup {NoTask}]
  BY DEF TypeOK
<1>5. aim' \in [Request -> Task \cup {NoTask}]
  BY <1>3, <1>4, Z3
<1>6. stops' = stops \/ stops' = stops \cup {t}
  OBVIOUS
<1>7. stops' \in SUBSET StopKey
  BY <1>6 DEF TypeOK, StopKey
<1>8. \A x \in Created' : rows'[x].plugin \in Plugin
  BY DEF TypeOK, Created
<1>. QED
  BY <1>2, <1>5, <1>7, <1>8 DEF TypeOK

LEMMA RequestReturnsType ==
    ASSUME TypeOK, Control, NEW r \in Request, RequestReturns(r)
    PROVE  TypeOK' /\ Control'
<1>1. NoCall \in Call /\ NoCall.stage = "none"
  BY DEF NoCall, Call, Stage, Status
<1>2. /\ upd' = [upd EXCEPT ![r] = NoCall] /\ rows' = rows
      /\ UNCHANGED <<pc, rec, outcome, hseq, ledger, scope, stops, overrun, faults, aim, crashes>>
  BY DEF RequestReturns, UpdateGet, UpdateUnknown
<1>3. Control' /\ upd' \in [Client -> Call]
  BY <1>1, <1>2, RequestCalls
<1>. QED
  BY <1>2, <1>3, RestType DEF TypeOK

LEMMA DatabaseRefusesType ==
    ASSUME TypeOK, Control, NEW r \in Request, DatabaseRefuses(r)
    PROVE  TypeOK' /\ Control'
<1>3. faults' \in 0..MaxFaults
  BY DatabaseFaultType DEF DatabaseRefuses
<1> USE DEF DatabaseRefuses, DatabaseFault
<1>1. NoCall \in Call /\ NoCall.stage = "none"
  BY DEF NoCall, Call, Stage, Status
<1>2. Control' /\ upd' \in [Client -> Call]
  BY <1>1, RequestCalls
<1>. QED
  BY <1>2, <1>3, RestType DEF TypeOK

\* Stops, resumes and a new scope.
LEMMA SettingsType ==
    ASSUME TypeOK, Control,
           \/ \E k \in Keys : EmergencyStop(k) \/ EmergencyResume(k)
           \/ \E s \in Scopes : SetScope(s)
    PROVE  TypeOK' /\ Control'
<1>1. /\ UNCHANGED <<rows, upd, pc, rec, outcome, hseq, ledger, faults, aim, crashes>>
      /\ stops' \in SUBSET StopKey /\ overrun' \in [Task -> Nat] /\ scope' \in Scopes
  BY DEF EmergencyStop, EmergencyResume, Unblock, SetScope, TypeOK
<1>2. Created' = Created
  BY <1>1 DEF Created
<1>3. Control'
  BY <1>1, <1>2, OthersMove
<1>. QED
  BY <1>1, <1>2, <1>3 DEF TypeOK

LEMMA CrashType ==
    ASSUME TypeOK, Control, Crash
    PROVE  TypeOK' /\ Control'
<1> USE DEF Crash
<1>1. \A e \in Executor : pc[e] \in Writing => Cur(e) \in Task
  BY DEF Writing, Control, ExecutorOK, Created
<1>2. ledger' = ledger => ledger' \in [Task -> Seq(Event \cup {Torn})]
  BY DEF TypeOK
<1>3. ledger' \in [Task -> Seq(Event \cup {Torn})]
  BY <1>1, <1>2, CutLineType
<1>4. NoCall \in Call /\ NoCall.stage = "none"
  BY DEF NoCall, Call, Stage, Status
<1>5. upd' \in [Client -> Call] /\ \A c \in Client : upd'[c] = upd[c] \/ upd'[c] = NoCall
  BY <1>4 DEF TypeOK
<1>6. \A e \in Executor : upd'[e] = NoCall /\ pc'[e] = "idle"
  OBVIOUS
<1>7. Created' = Created /\ \A x \in Created' : rows'[x].plugin \in Plugin
  BY DEF Created, TypeOK
<1>8. stops' \in SUBSET StopKey /\ overrun' \in [Task -> Nat]
  BY DEF Unblock, TypeOK
<1>9. TypeOK'
  BY <1>3, <1>5, <1>7, <1>8 DEF TypeOK, PC, Record, NoRecord, Outcome, Status
<1>10. \A e \in Executor : ExecutorOK(e)'
  BY <1>4, <1>6 DEF ExecutorOK, Updating, HasRecord
<1>11. \A c \in Client : CallOK(c)'
  BY <1>4, <1>5, <1>7 DEF CallOK, Control
<1>12. \A r \in Request : upd'[r].stage # "none" => upd'[r].status = "stopped"
  BY <1>4, <1>5 DEF Control, Request
<1>. QED
  BY <1>9, <1>10, <1>11, <1>12 DEF Control

LEMMA StutterType ==
    ASSUME TypeOK, Control, UNCHANGED desktopVars
    PROVE  TypeOK' /\ Control'
<1> USE DEF desktopVars, orchestratorVars
<1>1. Created' = Created
  BY DEF Created
<1>. QED
  BY <1>1, OthersMove DEF TypeOK

LEMMA TypeStep == TypeOK /\ Control /\ [Next]_desktopVars => TypeOK' /\ Control'
<1> SUFFICES ASSUME TypeOK, Control, [Next]_desktopVars
             PROVE  TypeOK' /\ Control'
  OBVIOUS
<1>1. CASE \E e \in Executor : WorkerStep(e)
  BY <1>1, WorkerStepType
<1>2. CASE \E e \in Executor : WriteFails(e) /\ UNCHANGED <<aim, crashes>>
  BY <1>2, FaultType DEF WriteFails, Writing
<1>3. CASE \E e \in Executor : HandlerFails(e)
  BY <1>3, FaultType DEF HandlerFails, Writing
<1>4. CASE \E t \in Task, p \in Plugin : ApiCreate(t, p) \/ CliCreate(t, p)
  BY <1>4, CreateType
<1>5. CASE \/ \E r \in ApiStop, t \in Task : StopTask(r, t)
           \/ \E r \in CliStop, t \in Task : CliStopTask(r, t)
  BY <1>5, StopType DEF Request
<1>6. CASE \E r \in Request : UpdateStep(r) \/ RequestReturns(r)
  BY <1>6, UpdateStepType, RequestReturnsType DEF Request
<1>7. CASE \/ \E k \in Keys : EmergencyStop(k) \/ EmergencyResume(k)
           \/ \E s \in Scopes : SetScope(s)
  BY <1>7, SettingsType
<1>8. CASE Crash
  BY <1>8, CrashType
<1>9. CASE \/ \E e \in Executor : DatabaseKills(e) \/ DatabaseRaises(e)
           \/ \E r \in Request : DatabaseRefuses(r)
  BY <1>9, DatabaseType, DatabaseRefusesType
<1>10. CASE UNCHANGED desktopVars
  BY <1>10, StutterType
<1>. QED
  BY <1>1, <1>2, <1>3, <1>4, <1>5, <1>6, <1>7, <1>8, <1>9, <1>10 DEF Next

\* The types hold in every reachable state: whatever stop requests, emergency stops,
\* scope changes, failed writes and kills do, a created task keeps a plugin to run.
THEOREM TypeCorrect == Spec => [](TypeOK /\ Control)
<1>1. Init => TypeOK /\ Control
  BY TypeInit
<1>2. (TypeOK /\ Control) /\ [Next]_desktopVars => (TypeOK /\ Control)'
  BY TypeStep
<1>. QED
  BY <1>1, <1>2, PTL DEF Spec

-----------------------------------------------------------------------------

\* The argument for AttemptsBounded: a task that is not open is never open again, so
\* what a request read while it was open can be written back later at no cost.

LEMMA LimitPositive == \A t \in Task : MaxAttempts[t] \in Nat /\ 0 < MaxAttempts[t]
<1> SUFFICES ASSUME NEW t \in Task PROVE MaxAttempts[t] \in Nat /\ 0 < MaxAttempts[t]
  OBVIOUS
<1>1. MaxAttempts[t] \in 1..20
  BY RepositoryAssumption
<1>. QED
  BY <1>1

LEMMA AttemptsInit == Init => Attempts
<1> SUFFICES ASSUME Init PROVE Attempts
  OBVIOUS
<1>1. /\ \A t \in Task : rows[t].status = "none" /\ rows[t].attempts = 0
      /\ \A c \in Client : upd[c].stage = "none"
      /\ \A e \in Executor : pc[e] = "idle"
  BY DEF Init, OrchestratorInit, RepositoryInit, NoRow, NoCall
<1>2. \A t \in Task : ~Open(t)
  BY <1>1 DEF Open, Live, HasRecord
<1>3. \A t \in Task : RowInBounds(t)
  BY <1>1, LimitPositive DEF RowInBounds
<1>4. \A c \in Client : WriteInBounds(c)
  BY <1>1 DEF WriteInBounds
<1>5. \A r \in Request : RequestInBounds(r)
  BY <1>1 DEF RequestInBounds, Request
<1>6. \A e \in Executor : ExecutorInBounds(e)
  BY <1>1 DEF ExecutorInBounds, HasRecord
<1>. QED
  BY <1>3, <1>4, <1>5, <1>6 DEF Attempts

\* A step that writes no row, opens no task and brings no call to its write keeps
\* the bounds, if it keeps the executor's.
LEMMA NothingOpens ==
    ASSUME TypeOK, Control, Attempts, rows' = rows, \A t \in Task : Open(t)' => Open(t),
           \A c \in Client : \/ upd'[c] = upd[c]
                             \/ upd'[c].stage = "none"
                             \/ upd'[c].stage = "read" /\ (c \in Request => upd'[c].keep),
           \A e \in Executor : ExecutorInBounds(e)'
    PROVE  Attempts'
<1>1. \A t \in Task : RowInBounds(t)'
  BY DEF Attempts, RowInBounds
<1>2. \A c \in Client : WriteInBounds(c)'
  BY DEF Attempts, WriteInBounds
<1>3. \A r \in Request : RequestInBounds(r)'
  <2> SUFFICES ASSUME NEW r \in Request, upd'[r] = upd[r]
               PROVE  RequestInBounds(r)'
    BY DEF RequestInBounds, Request
  <2>1. upd[r].stage = "write" => upd[r].task \in Task
    BY DEF Control, CallOK, Request
  <2>. QED
    BY <2>1 DEF Attempts, RequestInBounds
<1>. QED
  BY <1>1, <1>2, <1>3 DEF Attempts

\* The executor opens nothing if it is not live afterwards, or was live for the same
\* task before.
LEMMA ExecutorOpensNothing ==
    ASSUME rows' = rows, NEW e \in Executor,
           Live(e)' => Cur(e)' \in Task /\ Open(Cur(e)')
    PROVE  \A t \in Task : Open(t)' => Open(t)
BY DEF Open

\* Steps of run_until_terminal that stay with one record.
LEMMA GoesInBounds ==
    ASSUME TypeOK, Control, Attempts, NEW e \in Executor, rows' = rows, upd' = upd, rec' = rec,
           NEW label \in PC \ Updating, pc' = [pc EXCEPT ![e] = label], pc[e] \notin Updating,
           label \in HasRecord => pc[e] \in HasRecord,
           label \notin {"claim", "start"}
    PROVE  Attempts'
<1>1. pc'[e] = label /\ Cur(e)' = Cur(e) /\ upd[e].stage = "none"
  BY DEF TypeOK, Cur, Control, ExecutorOK
<1>2. Live(e)' => Live(e) /\ Cur(e) \in Task
  BY <1>1 DEF Live, Control, ExecutorOK, Created, HasRecord, Updating
<1>3. \A t \in Task : Open(t)' => Open(t)
  BY <1>1, <1>2, ExecutorOpensNothing DEF Open
<1>4. ExecutorInBounds(e)'
  BY <1>1 DEF Attempts, ExecutorInBounds
<1>. QED
  BY <1>3, <1>4, NothingOpens

\* A call that keeps the attempts, or counts one more while there was one left.
LEMMA CallsInBounds ==
    ASSUME TypeOK, Control, Attempts, NEW e \in Executor, NEW call \in Call, rows' = rows,
           rec' = rec, upd' = [upd EXCEPT ![e] = call], call.stage = "read", call.task = Cur(e),
           \/ pc' = [pc EXCEPT ![e] = "updating"]
           \/ pc' = [pc EXCEPT ![e] = "handling"],
           call.status \in {"queued", "running"} => pc[e] \in HasRecord,
           ~call.keep => /\ call.attempts <= MaxAttempts[Cur(e)]
                         /\ call.status \in {"queued", "running"} =>
                                call.attempts < MaxAttempts[Cur(e)]
    PROVE  Attempts'
<1>1. /\ pc'[e] \in Updating /\ Cur(e)' = Cur(e) /\ upd'[e] = call
      /\ \A c \in Client \ {e} : upd'[c] = upd[c]
  BY DEF TypeOK, Cur, Updating
<1>2. Live(e)' => Live(e) /\ Cur(e) \in Task
  BY <1>1 DEF Live, Control, ExecutorOK, Created, HasRecord, Updating
<1>3. \A t \in Task : Open(t)' => Open(t)
  BY <1>1, <1>2, ExecutorOpensNothing DEF Open
<1>4. ExecutorInBounds(e)'
  BY <1>1 DEF ExecutorInBounds, HasRecord, Updating
<1>5. e \notin Request
  BY DEF Request
<1>. QED
  BY <1>1, <1>3, <1>4, <1>5, NothingOpens

\* The executor is back outside: nothing of it is live.
LEMMA LeavesInBounds ==
    ASSUME TypeOK, Control, Attempts, NEW e \in Executor, NEW label \in {"idle", "dead"},
           Leave(e, label), rows' = rows, upd' = upd, pc[e] \notin Updating
    PROVE  Attempts'
<1>1. pc'[e] = label /\ upd[e].stage = "none"
  BY DEF Leave, Goto, TypeOK, Control, ExecutorOK
<1>2. \A t \in Task : Open(t)' => Open(t)
  BY <1>1, ExecutorOpensNothing DEF Live, HasRecord
<1>3. ExecutorInBounds(e)'
  BY <1>1 DEF ExecutorInBounds, HasRecord
<1>. QED
  BY <1>2, <1>3, NothingOpens

\* A row is read into the local record while its task is open.
LEMMA ReadsInBounds ==
    ASSUME TypeOK, Control, Attempts, NEW e \in Executor, rows' = rows, Live(e),
           rec' = [rec EXCEPT ![e] = RecordOf(Cur(e))],
           \A c \in Client : upd'[c] = upd[c] \/ upd'[c].stage = "none",
           upd'[e].stage = "none", pc'[e] \notin Updating
    PROVE  Attempts'
<1>1. Cur(e) \in Task /\ Open(Cur(e))
  BY DEF Live, Control, ExecutorOK, Created, HasRecord, Updating, Open
<1>2. rec'[e] = RecordOf(Cur(e)) /\ Cur(e)' = Cur(e)
  BY DEF TypeOK, RecordOf, Cur
<1>3. rec'[e].attempts < MaxAttempts[Cur(e)]
  BY <1>1, <1>2 DEF Attempts, RowInBounds, RecordOf
<1>4. \A t \in Task : Open(t)' => Open(t)
  BY <1>1, <1>2, ExecutorOpensNothing
<1>5. ExecutorInBounds(e)'
  BY <1>2, <1>3 DEF ExecutorInBounds
<1>. QED
  BY <1>4, <1>5, NothingOpens

LEMMA AfterAttemptInBounds ==
    ASSUME TypeOK, NEW e \in Executor, Cur(e) \in Task, rec[e].plugin \in Plugin,
           rec[e].attempts < MaxAttempts[Cur(e)]
    PROVE  /\ AfterAttempt(e).attempts <= MaxAttempts[Cur(e)]
           /\ AfterAttempt(e).status = "queued" => AfterAttempt(e).attempts < MaxAttempts[Cur(e)]
           /\ AfterAttempt(e).status # "running"
<1>1. rec[e].attempts \in Nat
  BY DEF TypeOK, Record
<1>2. MaxAttempts[Cur(e)] \in Nat
  BY LimitPositive
<1>. QED
  BY <1>1, <1>2 DEF AfterAttempt, SetProgress

LEMMA RunStepInBounds ==
    ASSUME TypeOK, Control, Attempts, NEW e \in Executor, RunStep(e)
    PROVE  Attempts'
<1>1. CASE OpenRun(e)
  <2>1. pc'[e] \notin Updating /\ Live(e) /\ upd[e].stage = "none"
    BY <1>1 DEF OpenRun, Goto, TypeOK, Updating, Live, Control, ExecutorOK
  <2>. QED
    BY <1>1, <2>1, ReadsInBounds DEF OpenRun
<1>2. CASE LogRunStart(e)
  <2>1. /\ rows' = rows /\ upd' = upd /\ rec' = rec /\ Goto(e, "loop")
        /\ pc[e] = "run_start"
    BY <1>2 DEF LogRunStart, WriteEvent
  <2>2. /\ "loop" \in PC \ Updating /\ "loop" \notin {"claim", "start"}
        /\ "loop" \in HasRecord => pc[e] \in HasRecord
        /\ pc[e] \notin Updating
    BY <2>1 DEF PC, Updating, HasRecord
  <2>. QED
    BY <2>1, <2>2, GoesInBounds DEF Goto
<1>3. CASE TestLoop(e)
  <2> USE <1>3 DEF TestLoop
  <2>1. Cur(e) \in Task /\ pc[e] \notin Updating
    BY DEF Control, ExecutorOK, Created, Updating
  <2>2. CASE rec[e].status \in Terminal
    BY <2>1, <2>2, LeavesInBounds
  <2>3. CASE rec[e].status \notin Terminal /\ rec[e].status = "running"
    BY <2>1, <2>3, GoesInBounds DEF Goto, PC, Updating, HasRecord
  <2>4. CASE rec[e].status \notin Terminal /\ rec[e].status # "running"
    <3>1. SetStatus(Cur(e), "running") \in Call
      BY <2>1, SetStatusType DEF Status
    <3>2. rows' = rows /\ rec' = rec /\ StartUpdate(e, SetStatus(Cur(e), "running"))
      BY <2>4
    <3>. QED
      BY <2>1, <3>1, <3>2, CallsInBounds DEF StartUpdate, Goto, SetStatus, HasRecord
  <2>. QED
    BY <2>2, <2>3, <2>4
<1>4. ASSUME NEW status \in Terminal, Deny(e, status), pc[e] \notin {"idle", "dead"},
             rows' = rows, rec' = rec
      PROVE  Attempts'
  <2>1. Cur(e) \in Task /\ SetStatus(Cur(e), status) \in Call
    BY <1>4, SetStatusType DEF Status, Control, ExecutorOK, Created
  <2>. QED
    BY <1>4, <2>1, CallsInBounds DEF Deny, StartUpdate, Goto, SetStatus, Terminal
<1>5. ASSUME NEW label \in {"policy_stops", "policy_action", "tool_call", "raised"},
             pc[e] \in {"policy_scope", "policy_stops", "policy_action"}, Goto(e, label),
             UNCHANGED <<upd, rows, rec>>
      PROVE  Attempts'
  BY <1>5, GoesInBounds DEF Goto, PC, Updating, HasRecord
<1>6. \A name : DenialStatus(name) \in Terminal
  BY DEF DenialStatus, Terminal
<1>7. CASE CheckScope(e)
  BY <1>4, <1>5, <1>6, <1>7 DEF CheckScope
<1>8. CASE CheckStops(e)
  BY <1>4, <1>5, <1>8 DEF CheckStops, Terminal
<1>9. CASE CheckAction(e)
  <2>1. CASE rec[e].plugin \in scope.prohibited
    BY <1>4, <1>6, <1>9, <2>1 DEF CheckAction
  <2>2. CASE rec[e].plugin \notin scope.prohibited
    BY <1>5, <1>9, <2>2 DEF CheckAction
  <2>. QED
    BY <2>1, <2>2
<1>10. CASE LogToolCall(e)
  <2>1. /\ rows' = rows /\ upd' = upd /\ rec' = rec /\ Goto(e, "plugin")
        /\ pc[e] = "tool_call"
    BY <1>10 DEF LogToolCall, WriteEvent
  <2>2. /\ "plugin" \in PC \ Updating /\ "plugin" \notin {"claim", "start"}
        /\ "plugin" \in HasRecord => pc[e] \in HasRecord
        /\ pc[e] \notin Updating
    BY <2>1 DEF PC, Updating, HasRecord
  <2>. QED
    BY <2>1, <2>2, GoesInBounds DEF Goto
<1>11. CASE RunPlugin(e)
  <2>1. /\ rows' = rows /\ upd' = upd /\ rec' = rec /\ pc[e] = "plugin"
        /\ Goto(e, "tool_result") \/ Goto(e, "raised")
    BY <1>11 DEF RunPlugin
  <2>. QED
    BY <2>1, GoesInBounds DEF Goto, PC, Updating, HasRecord
<1>12. CASE LogToolResult(e)
  <2> USE <1>12 DEF LogToolResult
  <2>1. Cur(e) \in Task /\ rec[e].plugin \in Plugin /\ rec[e].attempts < MaxAttempts[Cur(e)]
    BY DEF Control, ExecutorOK, Created, HasRecord, Attempts, ExecutorInBounds
  <2>2. /\ AfterAttempt(e) \in Call
        /\ AfterAttempt(e).task = Cur(e)
        /\ AfterAttempt(e).stage = "read"
    BY <2>1, AfterAttemptType
  <2>3. /\ rows' = rows /\ rec' = rec /\ upd' = [upd EXCEPT ![e] = AfterAttempt(e)]
        /\ pc' = [pc EXCEPT ![e] = "updating"] /\ pc[e] \in HasRecord
    BY DEF WriteEvent, StartUpdate, Goto, HasRecord
  <2>. QED
    BY <2>1, <2>2, <2>3, AfterAttemptInBounds, CallsInBounds
<1>13. CASE UpdateReturns(e)
  <2> USE <1>13 DEF UpdateReturns, UpdateGet
  <2>1. /\ \A c \in Client : upd'[c] = upd[c] \/ upd'[c].stage = "none"
        /\ upd'[e].stage = "none" /\ rows' = rows
        /\ upd[e].status \in {"queued", "running"} \cup Terminal
    BY DEF TypeOK, NoCall, Control, CallOK
  <2>2. CASE upd[e].status \in {"queued", "running"}
    <3>1. Live(e) /\ pc'[e] \notin Updating
      BY <2>2 DEF Live, Goto, TypeOK, Updating, Terminal
    <3>. QED
      BY <2>1, <3>1, ReadsInBounds
  <2>3. CASE upd[e].status \in Terminal
    <3> DEFINE label == CASE upd[e].status \in Terminal -> "run_end"
                         [] upd[e].status = "running" -> "policy_scope"
                         [] OTHER -> "loop"
    <3>1. label = "run_end"
      BY <2>3 DEF Terminal
    <3>2. pc' = [pc EXCEPT ![e] = label]
      BY DEF Goto
    <3> HIDE DEF label
    <3>3. pc'[e] = "run_end"
      BY <3>1, <3>2 DEF TypeOK
    <3>4. \A t \in Task : Open(t)' => Open(t)
      BY <2>1, <3>3, ExecutorOpensNothing DEF Live, HasRecord
    <3>5. ExecutorInBounds(e)'
      BY <2>1, <3>3 DEF ExecutorInBounds, HasRecord
    <3>. QED
      BY <2>1, <3>4, <3>5, NothingOpens
  <2>. QED
    BY <2>1, <2>2, <2>3
<1>14. CASE LogRunEnd(e)
  BY <1>14, LeavesInBounds DEF LogRunEnd, Updating
<1>. QED
  BY <1>1, <1>2, <1>3, <1>7, <1>8, <1>9, <1>10, <1>11, <1>12, <1>13, <1>14 DEF RunStep

LEMMA WorkerInBounds ==
    ASSUME TypeOK, Control, Attempts, NEW e \in Executor,
           \/ Handle(e) \/ HandlerUpdated(e) \/ HandlerOpen(e) \/ HandlerLog(e)
           \/ HandlerFails(e) \/ WriteFails(e)
    PROVE  Attempts'
<1>1. CASE Handle(e)
  <2>1. Cur(e) \in Task /\ SetStatus(Cur(e), "failed") \in Call
    BY <1>1, SetStatusType DEF Handle, Status, Terminal, Control, ExecutorOK, Created
  <2>. QED
    BY <1>1, <2>1, CallsInBounds DEF Handle, Goto, SetStatus
<1>2. CASE HandlerUpdated(e)
  <2> USE <1>2 DEF HandlerUpdated, UpdateGet
  <2>1. /\ \A c \in Client : upd'[c] = upd[c] \/ upd'[c].stage = "none"
        /\ upd'[e].stage = "none" /\ pc'[e] = "handler_open"
    BY DEF TypeOK, NoCall, Goto
  <2>2. \A t \in Task : Open(t)' => Open(t)
    BY <2>1, ExecutorOpensNothing DEF Live, HasRecord
  <2>3. ExecutorInBounds(e)'
    BY <2>1 DEF ExecutorInBounds, HasRecord
  <2>. QED
    BY <2>1, <2>2, <2>3, NothingOpens
<1>3. CASE HandlerOpen(e)
  <2>1. CASE Replayable(ledger[Cur(e)])
    <3>1. /\ rows' = rows /\ upd' = upd /\ rec' = rec /\ Goto(e, "handler_end")
          /\ pc[e] = "handler_open"
      BY <1>3, <2>1 DEF HandlerOpen
    <3>2. /\ "handler_end" \in PC \ Updating /\ "handler_end" \notin {"claim", "start"}
          /\ "handler_end" \in HasRecord => pc[e] \in HasRecord
          /\ pc[e] \notin Updating
      BY <3>1 DEF PC, Updating, HasRecord
    <3>. QED
      BY <3>1, <3>2, GoesInBounds DEF Goto
  <2>2. CASE ~Replayable(ledger[Cur(e)])
    BY <1>3, <2>2, LeavesInBounds DEF HandlerOpen, Updating
  <2>. QED
    BY <2>1, <2>2
<1>4. CASE HandlerLog(e)
  BY <1>4, LeavesInBounds DEF HandlerLog, Updating
<1>5. CASE HandlerFails(e)
  <2>1. /\ rows' = rows /\ upd' = upd /\ rec' = rec /\ Goto(e, "dead")
        /\ pc[e] = "handler_end"
    BY <1>5 DEF HandlerFails, LedgerFault
  <2>2. /\ "dead" \in PC \ Updating /\ "dead" \notin {"claim", "start"}
        /\ "dead" \in HasRecord => pc[e] \in HasRecord
        /\ pc[e] \notin Updating
    BY <2>1 DEF PC, Updating, HasRecord
  <2>. QED
    BY <2>1, <2>2, GoesInBounds DEF Goto
<1>6. CASE WriteFails(e)
  <2>1. /\ rows' = rows /\ upd' = upd /\ rec' = rec /\ Goto(e, "raised")
        /\ pc[e] \notin Updating
    BY <1>6 DEF WriteFails, LedgerFault, Updating
  <2>2. /\ "raised" \in PC \ Updating /\ "raised" \notin {"claim", "start"}
        /\ "raised" \in HasRecord => pc[e] \in HasRecord
        /\ pc[e] \notin Updating
    BY <2>1 DEF PC, Updating, HasRecord
  <2>. QED
    BY <2>1, <2>2, GoesInBounds DEF Goto
<1>. QED
  BY <1>1, <1>2, <1>3, <1>4, <1>5, <1>6

\* A statement that fails opens nothing: the row keeps its attempts.
LEMMA DatabaseInBounds ==
    ASSUME TypeOK, Control, Attempts, NEW e \in Executor, DatabaseKills(e) \/ DatabaseRaises(e)
    PROVE  Attempts'
<1> USE DEF DatabaseKills, DatabaseRaises, DatabaseFault
<1>1. /\ \A c \in Client : upd'[c] = upd[c] \/ upd'[c].stage = "none"
      /\ upd'[e].stage = "none"
  BY DEF TypeOK, NoCall
<1>2. pc'[e] \in {"dead", "raised"}
  BY DEF Leave, Goto, TypeOK
<1>3. \A t \in Task : Open(t)' => Open(t)
  BY <1>2, ExecutorOpensNothing DEF Live, HasRecord
<1>4. ExecutorInBounds(e)'
  BY <1>1, <1>2 DEF ExecutorInBounds, HasRecord
<1>. QED
  BY <1>1, <1>3, <1>4, NothingOpens

LEMMA ClaimInBounds ==
    ASSUME TypeOK, Control, Attempts, NEW e \in Executor, ClaimSelect(e) \/ ClaimUpdate(e)
    PROVE  Attempts'
<1>1. CASE ClaimSelect(e)
  <2> USE <1>1 DEF ClaimSelect
  <2>1. PICK t \in Task : FirstQueued(t) /\ rec' = [rec EXCEPT ![e] = [NoRecord EXCEPT !.task = t]]
    OBVIOUS
  <2>2. rec'[e].task = t /\ Open(t) /\ pc'[e] = "claim" /\ upd[e].stage = "none"
    BY <2>1 DEF TypeOK, NoRecord, FirstQueued, Queued, Open, Goto, Control, ExecutorOK, Updating
  <2>3. \A x \in Task : Open(x)' => Open(x)
    BY <2>2, ExecutorOpensNothing DEF Cur
  <2>4. ExecutorInBounds(e)'
    BY <2>2 DEF ExecutorInBounds, HasRecord
  <2>. QED
    BY <2>3, <2>4, NothingOpens
<1>2. CASE ClaimUpdate(e)
  <2> USE <1>2 DEF ClaimUpdate, ClaimWrite
  <2>1. Cur(e) \in Task /\ Open(Cur(e)) /\ upd[e].stage = "none" /\ Cur(e)' = Cur(e)
    BY DEF Control, ExecutorOK, Created, Open, Live, Updating, Cur
  <2>2. \A t \in Task : /\ rows'[t].attempts = rows[t].attempts
                        /\ t # Cur(e) => rows'[t] = rows[t]
    BY <2>1 DEF TypeOK, Row
  <2>3. \A t \in Task : Open(t)' => Open(t)
    BY <2>1, <2>2 DEF Open
  <2>4. \A t \in Task : RowInBounds(t)'
    BY <2>2, <2>3 DEF Attempts, RowInBounds
  <2>5. \A c \in Client : WriteInBounds(c)'
    BY DEF Attempts, WriteInBounds
  <2>6. \A r \in Request : RequestInBounds(r)'
    BY <2>3 DEF Attempts, RequestInBounds, Control, CallOK, Request
  <2>7. ExecutorInBounds(e)'
    BY <2>1 DEF ExecutorInBounds, HasRecord, Goto, TypeOK
  <2>. QED
    BY <2>4, <2>5, <2>6, <2>7 DEF Attempts
<1>. QED
  BY <1>1, <1>2

\* What update() merges: the attempts that were asked for, or those of the row.
LEMMA MergeAttempts ==
    ASSUME NEW call \in Call, NEW row \in Row
    PROVE  LET merged == Merge(call, row)
           IN  /\ merged.stage = "write" /\ merged.task = call.task /\ merged.status = call.status
               /\ merged.attempts = IF call.keep THEN row.attempts ELSE call.attempts
BY DEF Merge, Call, Row

LEMMA UpdateReadInBounds ==
    ASSUME TypeOK, Control, Attempts, NEW c \in Client, UpdateStep(c), UpdateRead(c)
    PROVE  Attempts'
<1> USE DEF UpdateStep, UpdateRead
<1> DEFINE t == upd[c].task
<1>1. upd[c] \in Call /\ t \in Task /\ rows[t] \in Row
  BY DEF TypeOK, Control, CallOK
<1>2. /\ upd'[c].stage = "write" /\ upd'[c].task = t /\ upd'[c].status = upd[c].status
      /\ upd'[c].attempts = IF upd[c].keep THEN rows[t].attempts ELSE upd[c].attempts
      /\ \A d \in Client : d # c => upd'[d] = upd[d]
  BY <1>1, MergeAttempts DEF TypeOK
<1>3. UNCHANGED <<rows, pc, rec>>
  OBVIOUS
<1>4. \A e \in Executor : Live(e)' => Live(e)
  BY <1>2, <1>3 DEF Live
<1>5. \A x \in Task : Open(x)' => Open(x)
  BY <1>3, <1>4 DEF Open, Cur
<1>6. \A x \in Task : RowInBounds(x)'
  BY <1>3, <1>5 DEF Attempts, RowInBounds
<1>7. /\ rows[t].attempts <= MaxAttempts[t]
      /\ Open(t) => rows[t].attempts < MaxAttempts[t]
  BY <1>1 DEF Attempts, RowInBounds
<1>8. CASE c \in Executor
  <2>2. upd[c].status \in {"queued", "running"} => Open(t)
    BY <1>8 DEF Open, Live, Control, ExecutorOK, Updating, Cur
  <2>3. WriteInBounds(c)'
    BY <1>2, <1>7, <1>8, <2>2 DEF WriteInBounds, Attempts, ExecutorInBounds
  <2>4. ExecutorInBounds(c)'
    BY <1>2, <1>3, <1>8 DEF ExecutorInBounds, Attempts, Cur
  <2>5. c \notin Request /\ \A e \in Executor : e = c
    BY <1>8 DEF Request
  <2>6. \A r \in Request : RequestInBounds(r)'
    BY <1>2, <1>5, <2>5 DEF Attempts, RequestInBounds, Control, CallOK, Request
  <2>7. \A d \in Client : WriteInBounds(d)'
    BY <1>2, <2>3 DEF Attempts, WriteInBounds
  <2>. QED
    BY <1>6, <2>4, <2>5, <2>6, <2>7 DEF Attempts
<1>9. CASE c \in Request
  <2>1. upd[c].keep /\ upd[c].status = "stopped"
    BY <1>9 DEF Attempts, RequestInBounds, Control
  <2>2. WriteInBounds(c)' /\ RequestInBounds(c)'
    BY <1>1, <1>2, <1>5, <1>7, <2>1 DEF WriteInBounds, RequestInBounds
  <2>3. \A d \in Client : WriteInBounds(d)'
    BY <1>2, <2>2 DEF Attempts, WriteInBounds
  <2>4. \A r \in Request : RequestInBounds(r)'
    BY <1>2, <1>5, <2>2 DEF Attempts, RequestInBounds, Control, CallOK, Request
  <2>5. \A e \in Executor : ExecutorInBounds(e)'
    BY <1>2, <1>3, <1>9 DEF Attempts, ExecutorInBounds, Cur, Request
  <2>. QED
    BY <1>6, <2>3, <2>4, <2>5 DEF Attempts
<1>. QED
  BY <1>8, <1>9 DEF Request

LEMMA UpdateWriteInBounds ==
    ASSUME TypeOK, Control, Attempts, NEW c \in Client, UpdateStep(c), UpdateWrite(c)
    PROVE  Attempts'
<1> USE DEF UpdateStep, UpdateWrite
<1> DEFINE t == upd[c].task
<1>1. upd[c] \in Call /\ t \in Task
  BY DEF TypeOK, Control, CallOK
<1>2. /\ upd'[c].stage = "get" /\ upd'[c].status = upd[c].status /\ upd'[c].task = t
      /\ \A d \in Client : d # c => upd'[d] = upd[d]
  BY <1>1 DEF TypeOK, Call
<1>3. /\ rows'[t].attempts = upd[c].attempts /\ rows'[t].status = upd[c].status
      /\ \A x \in Task : x # t => rows'[x] = rows[x]
  BY <1>1 DEF TypeOK
<1>4. UNCHANGED <<pc, rec>>
  OBVIOUS
<1>5. \A e \in Executor : Live(e)' <=> Live(e)
  BY <1>2, <1>4 DEF Live
<1>6. \A x \in Task : Open(x)' => Open(x)
  <2>1. upd[c].status \in {"queued", "running"} => Open(t)
    BY DEF Open, Live, Control, ExecutorOK, Updating, Cur, Request
  <2>. QED
    BY <1>3, <1>4, <1>5, <2>1 DEF Open, Cur
<1>7. Open(t)' => upd[c].attempts < MaxAttempts[t]
  <2>1. CASE upd[c].status \in {"queued", "running"}
    BY <2>1 DEF Attempts, WriteInBounds
  <2>2. CASE upd[c].status \notin {"queued", "running"} /\ c \in Request
    BY <1>6, <1>1, <2>2 DEF Attempts, RequestInBounds
  <2>3. CASE upd[c].status \notin {"queued", "running"} /\ c \in Executor
    <3>1. pc[c] \in Updating /\ ~Live(c)
      BY <2>3 DEF Control, ExecutorOK, Live, Updating, HasRecord
    <3>2. ~Open(t)'
      BY <1>3, <1>5, <2>3, <3>1 DEF Open
    <3>. QED
      BY <3>2
  <2>. QED
    BY <2>1, <2>2, <2>3 DEF Request
<1>8. \A x \in Task : RowInBounds(x)'
  <2>1. RowInBounds(t)'
    BY <1>1, <1>3, <1>7 DEF RowInBounds, Attempts, WriteInBounds
  <2>2. \A x \in Task : x # t => RowInBounds(x)'
    BY <1>3, <1>6 DEF RowInBounds, Attempts
  <2>. QED
    BY <2>1, <2>2
<1>9. \A d \in Client : WriteInBounds(d)'
  BY <1>2 DEF Attempts, WriteInBounds
<1>10. \A r \in Request : RequestInBounds(r)'
  BY <1>2, <1>6 DEF Attempts, RequestInBounds, Control, CallOK, Request
<1>11. \A e \in Executor : ExecutorInBounds(e)'
  BY <1>2, <1>4 DEF Attempts, ExecutorInBounds, Cur
<1>. QED
  BY <1>8, <1>9, <1>10, <1>11 DEF Attempts

\* A new task starts with no attempt, and no request has read it.
LEMMA CreateInBounds ==
    ASSUME TypeOK, Control, Attempts, NEW t \in Task, NEW p \in Plugin,
           ApiCreate(t, p) \/ CliCreate(t, p)
    PROVE  Attempts'
<1>1. /\ t \notin Created /\ rows'[t].attempts = 0
      /\ \A x \in Task : x # t => rows'[x] = rows[x]
      /\ UNCHANGED <<upd, pc, rec>>
  BY DEF ApiCreate, CliCreate, Create, TypeOK, Created
<1>2. \A x \in Task : x # t => (Open(x)' <=> Open(x))
  BY <1>1 DEF Open, Live, Cur
<1>3. \A x \in Task : RowInBounds(x)'
  <2>1. RowInBounds(t)'
    BY <1>1, LimitPositive DEF RowInBounds
  <2>2. \A x \in Task : x # t => RowInBounds(x)'
    BY <1>1, <1>2 DEF Attempts, RowInBounds
  <2>. QED
    BY <2>1, <2>2
<1>4. \A c \in Client : WriteInBounds(c)'
  BY <1>1 DEF Attempts, WriteInBounds
<1>5. \A r \in Request : RequestInBounds(r)'
  BY <1>1, <1>2 DEF Attempts, RequestInBounds, Control, CallOK, Request, Created
<1>6. \A e \in Executor : ExecutorInBounds(e)'
  BY <1>1 DEF Attempts, ExecutorInBounds, Cur
<1>. QED
  BY <1>3, <1>4, <1>5, <1>6 DEF Attempts

\* Everything else the process does.
LEMMA OthersInBounds ==
    ASSUME TypeOK, Control, Attempts,
           \/ \E r \in Request, t \in Task : StopTask(r, t) \/ CliStopTask(r, t)
           \/ \E r \in Request : RequestReturns(r) \/ DatabaseRefuses(r)
           \/ \E k \in Keys : EmergencyStop(k) \/ EmergencyResume(k)
           \/ \E s \in Scopes : SetScope(s)
           \/ Crash
           \/ UNCHANGED desktopVars
    PROVE  Attempts'
<1>1. rows' = rows
  BY DEF StopTask, CliStopTask, RequestReturns, UpdateGet, UpdateUnknown, EmergencyStop,
     EmergencyResume, SetScope, Crash, DatabaseRefuses, DatabaseFault, desktopVars,
     orchestratorVars
<1>2. CASE Crash
  <2> USE <1>2 DEF Crash
  <2>1. \A e \in Executor : pc'[e] = "idle" /\ upd'[e].stage = "none"
    BY DEF NoCall
  <2>2. \A c \in Client : upd'[c] = upd[c] \/ upd'[c].stage = "none"
    BY DEF NoCall
  <2>3. \A t \in Task : Open(t)' => Open(t)
    BY <1>1, <2>1 DEF Open, Live, HasRecord
  <2>4. \A e \in Executor : ExecutorInBounds(e)'
    BY <2>1 DEF ExecutorInBounds, HasRecord
  <2>. QED
    BY <1>1, <2>2, <2>3, <2>4, NothingOpens
<1>3. ASSUME UNCHANGED <<pc, rec>>,
             \A c \in Client : \/ upd'[c] = upd[c]
                               \/ /\ c \in Request
                                  /\ \/ upd'[c].stage = "none"
                                     \/ upd'[c].stage = "read" /\ upd'[c].keep
      PROVE  Attempts'
  <2>1. \A e \in Executor : e \in Client /\ upd'[e] = upd[e]
    BY <1>3 DEF Request
  <2>2. \A t \in Task : Open(t)' => Open(t)
    BY <1>1, <1>3, <2>1 DEF Open, Live, Cur
  <2>3. \A e \in Executor : ExecutorInBounds(e)'
    BY <1>3, <2>1 DEF Attempts, ExecutorInBounds, Cur
  <2>. QED
    BY <1>1, <1>3, <2>2, <2>3, NothingOpens
<1>4. ASSUME NEW r \in Request, NEW t \in Task, StopTask(r, t) \/ CliStopTask(r, t)
      PROVE  Attempts'
  <2>1. upd' = [upd EXCEPT ![r] = SetStatus(t, "stopped")] /\ UNCHANGED <<pc, rec>>
    BY <1>4 DEF StopTask, CliStopTask
  <2>. QED
    BY <1>3, <2>1 DEF SetStatus, TypeOK
<1>5. ASSUME NEW r \in Request, RequestReturns(r) \/ DatabaseRefuses(r)
      PROVE  Attempts'
  <2>1. upd' = [upd EXCEPT ![r] = NoCall] /\ UNCHANGED <<pc, rec>>
    BY <1>5 DEF RequestReturns, UpdateGet, UpdateUnknown, DatabaseRefuses, DatabaseFault
  <2>. QED
    BY <1>3, <2>1 DEF NoCall, TypeOK
<1>6. CASE \/ \E k \in Keys : EmergencyStop(k) \/ EmergencyResume(k)
           \/ \E s \in Scopes : SetScope(s)
           \/ UNCHANGED desktopVars
  <2>1. upd' = upd /\ UNCHANGED <<pc, rec>>
    BY <1>6 DEF EmergencyStop, EmergencyResume, SetScope, desktopVars, orchestratorVars
  <2>. QED
    BY <1>3, <2>1
<1>. QED
  BY <1>2, <1>4, <1>5, <1>6

LEMMA AttemptsStep == TypeOK /\ Control /\ Attempts /\ [Next]_desktopVars => Attempts'
<1> SUFFICES ASSUME TypeOK, Control, Attempts, [Next]_desktopVars
             PROVE  Attempts'
  OBVIOUS
<1>1. ASSUME NEW e \in Executor, WorkerStep(e)
      PROVE  Attempts'
  BY <1>1, RunStepInBounds, UpdateReadInBounds, UpdateWriteInBounds, ClaimInBounds, WorkerInBounds
     DEF WorkerStep, UpdateStep
<1>2. ASSUME NEW e \in Executor,
             WriteFails(e) \/ HandlerFails(e) \/ DatabaseKills(e) \/ DatabaseRaises(e)
      PROVE  Attempts'
  BY <1>2, WorkerInBounds, DatabaseInBounds
<1>3. ASSUME NEW t \in Task, NEW p \in Plugin, ApiCreate(t, p) \/ CliCreate(t, p)
      PROVE  Attempts'
  BY <1>3, CreateInBounds
<1>4. ASSUME NEW r \in Request, UpdateStep(r)
      PROVE  Attempts'
  BY <1>4, UpdateReadInBounds, UpdateWriteInBounds DEF UpdateStep, Request
<1>5. CASE \/ \E r \in ApiStop, t \in Task : StopTask(r, t)
           \/ \E r \in CliStop, t \in Task : CliStopTask(r, t)
           \/ \E r \in Request : RequestReturns(r) \/ DatabaseRefuses(r)
           \/ \E k \in Keys : EmergencyStop(k) \/ EmergencyResume(k)
           \/ \E s \in Scopes : SetScope(s)
           \/ Crash
           \/ UNCHANGED desktopVars
  BY <1>5, OthersInBounds DEF Request
<1>. QED
  BY <1>1, <1>2, <1>3, <1>4, <1>5 DEF Next

\* Whatever stop requests read and when they write it back, whatever fails and however
\* often the process is killed, no row counts more attempts than its specification
\* allows, and a row that can still run has one left.
THEOREM AttemptsCorrect == Spec => []AttemptsBounded
<1>1. Init => TypeOK /\ Control /\ Attempts
  BY TypeInit, AttemptsInit
<1>2. (TypeOK /\ Control /\ Attempts) /\ [Next]_desktopVars => (TypeOK /\ Control /\ Attempts)'
  BY TypeStep, AttemptsStep
<1>3. TypeOK /\ Control /\ Attempts => AttemptsBounded
  BY DEF Attempts, RowInBounds, Open, AttemptsBounded
<1>. QED
  BY <1>1, <1>2, <1>3, PTL DEF Spec

=============================================================================
