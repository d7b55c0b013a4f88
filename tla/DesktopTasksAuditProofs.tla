---------------------- MODULE DesktopTasksAuditProofs ----------------------
(***************************************************************************)
(* More proofs about DesktopTasks: what a stop costs at most, that a run   *)
(* whose end is on record is over, that a row that says succeeded or       *)
(* failed is never run again, and how rows and ledgers belong together.    *)
(***************************************************************************)
EXTENDS DesktopTasksProofs

\* The executor has asked the registry for its next call and not made it yet.
PastStops(e) == pc[e] \in {"policy_action", "tool_call"}

\* A task is blocked since its overrun was counted, and nobody is past the registry.
StopsHeld ==
    \A t \in Task :
        /\ overrun[t] <= 1
        /\ overrun[t] > 0 => Blocked(t) /\ \A e \in Executor : Cur(e) = t => ~PastStops(e)

USE RepositoryAssumption, OrchestratorAssumption, DesktopAssumption

\* A step that counts no overrun, lifts no stop and brings nobody past the registry
\* for a blocked task.
LEMMA StopsKept ==
    ASSUME StopsHeld, overrun' = overrun, stops \subseteq stops',
           \A e \in Executor : PastStops(e)' =>
               \/ PastStops(e) /\ Cur(e)' = Cur(e)
               \/ ~Blocked(Cur(e)')
    PROVE  StopsHeld'
<1> SUFFICES ASSUME NEW t \in Task, overrun[t] > 0
             PROVE  Blocked(t)' /\ \A e \in Executor : Cur(e)' = t => ~PastStops(e)'
  BY DEF StopsHeld
<1>1. Blocked(t) /\ \A e \in Executor : Cur(e) = t => ~PastStops(e)
  BY DEF StopsHeld
<1>2. Blocked(t)'
  BY <1>1 DEF Blocked
<1>. QED
  BY <1>1, <1>2 DEF Blocked

\* The only step that counts an overrun: it counts the first one of a blocked task,
\* and leaves nobody past the registry.
LEMMA LogToolCallStops ==
    ASSUME TypeOK, Control, StopsHeld, NEW e \in Executor, LogToolCall(e)
    PROVE  StopsHeld'
<1> USE DEF LogToolCall
<1>1. PastStops(e) /\ Cur(e) \in Task
  BY DEF PastStops, Control, ExecutorOK, Created
<1>2. rec' = rec /\ stops' = stops /\ pc'[e] = "plugin"
  BY DEF WriteEvent, Goto, TypeOK
<1>3. ~PastStops(e)'
  BY <1>2 DEF PastStops
<1>4. overrun \in [Task -> Nat]
  BY DEF TypeOK
<1>5. CASE Blocked(Cur(e))
  <2>1. overrun[Cur(e)] = 0
    <3>1. ~ (overrun[Cur(e)] > 0)
      BY <1>1, Zenon DEF StopsHeld
    <3>2. overrun[Cur(e)] \in Nat
      BY <1>1, <1>4
    <3>. QED
      BY <3>1, <3>2
  <2>2. \A t \in Task : overrun'[t] = IF t = Cur(e) THEN 1 ELSE overrun[t]
    <3>1. overrun' = [overrun EXCEPT ![Cur(e)] = overrun[Cur(e)] + 1]
      BY <1>5
    <3>. QED
      BY <1>1, <1>4, <2>1, <3>1
  <2>3. \A t \in Task : Blocked(t)' <=> Blocked(t)
    BY <1>2 DEF Blocked
  <2>4. \A x \in Executor : ~PastStops(x)'
    BY <1>3
  <2>. QED
    BY <1>5, <2>2, <2>3, <2>4 DEF StopsHeld
<1>6. CASE ~Blocked(Cur(e))
  <2>1. overrun' = overrun
    BY <1>4, <1>6
  <2>. QED
    BY <1>2, <1>3, <2>1, StopsKept
<1>. QED
  BY <1>5, <1>6

\* The other steps of the worker.
LEMMA WorkerStops ==
    ASSUME TypeOK, Control, StopsHeld, NEW e \in Executor,
           WorkerStep(e) \/ WriteFails(e) \/ HandlerFails(e) \/ DatabaseKills(e) \/ DatabaseRaises(e)
    PROVE  StopsHeld'
<1>1. CASE LogToolCall(e)
  BY <1>1, LogToolCallStops
<1>2. CASE CheckStops(e)
  <2>1. overrun' = overrun /\ stops' = stops /\ rec' = rec
    BY <1>2 DEF CheckStops
  <2>2. PastStops(e)' => ~Blocked(Cur(e))
    BY <1>2 DEF CheckStops, Deny, StartUpdate, Goto, TypeOK, PastStops
  <2>. QED
    BY <2>1, <2>2, StopsKept DEF Cur
<1>3. CASE CheckAction(e)
  <2>1. overrun' = overrun /\ stops' = stops /\ rec' = rec /\ PastStops(e)
    BY <1>3 DEF CheckAction, PastStops
  <2>. QED
    BY <2>1, StopsKept DEF Cur
<1>4. CASE OpenRun(e) \/ LogRunStart(e) \/ TestLoop(e) \/ CheckScope(e) \/ RunPlugin(e)
           \/ LogToolResult(e) \/ UpdateReturns(e) \/ LogRunEnd(e) \/ ClaimSelect(e)
           \/ ClaimUpdate(e) \/ Handle(e) \/ HandlerUpdated(e) \/ HandlerOpen(e) \/ HandlerLog(e)
           \/ WriteFails(e) \/ HandlerFails(e) \/ DatabaseKills(e) \/ DatabaseRaises(e)
  <2>1. overrun' = overrun /\ stops' = stops
    BY <1>4 DEF OpenRun, LogRunStart, TestLoop, CheckScope, RunPlugin, LogToolResult,
       UpdateReturns, LogRunEnd, ClaimSelect, ClaimUpdate, Handle, HandlerUpdated, HandlerOpen,
       HandlerLog, WriteFails, HandlerFails, LedgerFault, DatabaseKills, DatabaseRaises,
       DatabaseFault, WriteEvent
  <2>2. ~PastStops(e)'
    <3>1. \E label \in PC \ {"policy_action", "tool_call"} : Goto(e, label)
      BY <1>4 DEF OpenRun, LogRunStart, TestLoop, CheckScope, RunPlugin, LogToolResult,
         UpdateReturns, LogRunEnd, ClaimSelect, ClaimUpdate, Handle, HandlerUpdated, HandlerOpen,
         HandlerLog, WriteFails, HandlerFails, LedgerFault, DatabaseKills, DatabaseRaises,
         Leave, Deny, StartUpdate, PC, Updating
    <3>. QED
      BY <3>1 DEF Goto, TypeOK, PastStops
  <2>. QED
    BY <2>1, <2>2, StopsKept
<1>5. CASE UpdateStep(e)
  <2>1. overrun' = overrun /\ stops' = stops /\ pc' = pc /\ rec' = rec
    BY <1>5 DEF UpdateStep
  <2>. QED
    BY <2>1, StopsKept DEF PastStops, Cur
<1>. QED
  BY <1>1, <1>2, <1>3, <1>4, <1>5 DEF WorkerStep, RunStep

\* A resume, or a kill, starts the count again where it lifts a stop.
LEMMA UnblockStops ==
    ASSUME TypeOK, StopsHeld, NEW remaining, Unblock(remaining),
           \A e \in Executor : PastStops(e)' => PastStops(e) /\ Cur(e)' = Cur(e)
    PROVE  StopsHeld'
<1> SUFFICES ASSUME NEW t \in Task
             PROVE  /\ overrun'[t] <= 1
                    /\ overrun'[t] > 0 =>
                           Blocked(t)' /\ \A e \in Executor : Cur(e)' = t => ~PastStops(e)'
  BY DEF StopsHeld
<1>1. overrun'[t] = IF Blocked(t)' THEN overrun[t] ELSE 0
  BY DEF Unblock, Blocked
<1>. QED
  BY <1>1 DEF StopsHeld

LEMMA StopsStep == TypeOK /\ Control /\ StopsHeld /\ [Next]_desktopVars => StopsHeld'
<1> SUFFICES ASSUME TypeOK, Control, StopsHeld, [Next]_desktopVars
             PROVE  StopsHeld'
  OBVIOUS
<1>1. CASE \E e \in Executor : WorkerStep(e) \/ WriteFails(e) \/ HandlerFails(e)
                               \/ DatabaseKills(e) \/ DatabaseRaises(e)
  BY <1>1, WorkerStops
<1>2. CASE \/ \E t \in Task, p \in Plugin : ApiCreate(t, p) \/ CliCreate(t, p)
           \/ \E r \in ApiStop, t \in Task : StopTask(r, t)
           \/ \E r \in CliStop, t \in Task : CliStopTask(r, t)
           \/ \E r \in Request : UpdateStep(r) \/ RequestReturns(r) \/ DatabaseRefuses(r)
           \/ \E k \in Keys : EmergencyStop(k)
           \/ \E s \in Scopes : SetScope(s)
           \/ UNCHANGED desktopVars
  <2>1. overrun' = overrun /\ stops \subseteq stops' /\ pc' = pc /\ rec' = rec
    BY <1>2 DEF ApiCreate, CliCreate, StopTask, CliStopTask, UpdateStep, RequestReturns,
       DatabaseRefuses, DatabaseFault, EmergencyStop, SetScope, desktopVars, orchestratorVars
  <2>. QED
    BY <2>1, StopsKept DEF PastStops, Cur
<1>3. CASE \E k \in Keys : EmergencyResume(k)
  <2>1. PICK k \in Keys : Unblock(stops \ {k}) /\ pc' = pc /\ rec' = rec
    BY <1>3 DEF EmergencyResume
  <2>. QED
    BY <2>1, UnblockStops DEF PastStops, Cur
<1>4. CASE Crash
  BY <1>4, UnblockStops DEF Crash, PastStops
<1>. QED
  BY <1>1, <1>2, <1>3, <1>4 DEF Next

\* Every stop that reaches the registry of the process, by task, by target or for
\* everything, lets at most one more plugin call through: evaluate() asks the registry
\* before every attempt, and only one thread can be past it.
THEOREM StopsOverrunOnce == Spec => []StopOverrunsOnce
<1>1. Init => StopsHeld
  BY DEF Init, OrchestratorInit, StopsHeld
<1>2. TypeOK /\ Control /\ StopsHeld /\ [Next]_desktopVars => StopsHeld'
  BY StopsStep
<1>3. StopsHeld => StopOverrunsOnce
  BY DEF StopsHeld, StopOverrunsOnce
<1>. QED
  BY <1>1, <1>2, <1>3, TypeCorrect, PTL DEF Spec

-----------------------------------------------------------------------------

Ended(t) == \E i \in DOMAIN ledger[t] : ledger[t][i].type = "RUN_END"

\* The executor has not written yet how its run ends.
Undecided(e) == Live(e) \/ (pc[e] = "updating" /\ upd[e].stage # "get")

\* It has, and the end of the run is not in the ledger yet.
Settled(e) ==
    \/ pc[e] \in {"run_end", "handler_open", "handler_end"}
    \/ pc[e] \in Updating /\ upd[e].stage = "get" /\ upd[e].status \in Terminal

\* A run whose end is on record has a row that is not claimed, and nobody runs it.
Over(t) == rows[t].status \in Terminal /\ \A e \in Executor : Cur(e) = t => ~Live(e)

Ends ==
    /\ \A e \in Executor : Undecided(e) => rows[Cur(e)].status \notin {"succeeded", "failed"}
    /\ \A e \in Executor : Settled(e) => rows[Cur(e)].status \in Terminal
    /\ \A t \in Task : Ended(t) => Over(t)
    /\ NoCallAfterRunEnd

\* Nothing but another RUN_END follows a RUN_END of the task's ledger.
EndsLast(t) ==
    \A i, j \in DOMAIN ledger[t] :
        (i < j /\ ledger[t][i].type = "RUN_END") => ledger[t][j].type \in {"RUN_END", "torn"}

\* The place where the executor stands is no more open, and no more decided, than before.
Advances(e) ==
    /\ Undecided(e)' => Undecided(e) /\ Cur(e)' = Cur(e)
    /\ Settled(e)' => Settled(e) /\ Cur(e)' = Cur(e)
    /\ Live(e)' => Live(e)

\* What the ledger of a task may gain in a step.
Gains(t) ==
    \E line \in Event \cup {Torn} :
        /\ ledger'[t] = Append(ledger[t], line)
        /\ line.type \in {"RUN_END", "torn"} \/ ~Ended(t)
        /\ line.type = "RUN_END" => Over(t)'

\* One more line keeps the order of a ledger.
LEMMA LedgerEnds ==
    ASSUME TypeOK, NEW t \in Task, EndsLast(t), Ended(t) => Over(t)',
           ledger'[t] = ledger[t] \/ Gains(t)
    PROVE  EndsLast(t)' /\ (Ended(t)' => Over(t)')
<1>1. CASE ledger'[t] = ledger[t]
  BY <1>1 DEF EndsLast, Ended
<1>2. CASE Gains(t)
  <2>1. PICK line \in Event \cup {Torn} :
            /\ ledger'[t] = Append(ledger[t], line)
            /\ line.type \in {"RUN_END", "torn"} \/ ~Ended(t)
            /\ line.type = "RUN_END" => Over(t)'
    BY <1>2 DEF Gains
  <2>2. ledger[t] \in Seq(Event \cup {Torn})
    BY DEF TypeOK
  <2> DEFINE n == Len(ledger[t])
  <2>3. /\ n \in Nat /\ DOMAIN ledger[t] = 1..n /\ DOMAIN ledger'[t] = 1..(n + 1)
        /\ \A i \in 1..n : ledger'[t][i] = ledger[t][i]
        /\ ledger'[t][n + 1] = line
    BY <2>1, <2>2, LenProperties, AppendProperties
  <2> HIDE DEF n
  <2>4. Ended(t)' => Ended(t) \/ line.type = "RUN_END"
    BY <2>3 DEF Ended
  <2>5. EndsLast(t)'
    <3> SUFFICES ASSUME NEW i \in 1..(n + 1), NEW j \in 1..(n + 1), i < j,
                        ledger'[t][i].type = "RUN_END"
                 PROVE  ledger'[t][j].type \in {"RUN_END", "torn"}
      BY <2>3 DEF EndsLast
    <3>4. n \in Nat
      BY <2>3
    <3>5. i \in 1..n
      BY <3>4
    <3>1. i \in 1..n /\ ledger[t][i].type = "RUN_END" /\ Ended(t)
      BY <2>3, <3>5 DEF Ended
    <3>2. CASE j \in 1..n
      BY <2>3, <3>1, <3>2 DEF EndsLast
    <3>3. CASE j = n + 1
      BY <2>1, <2>3, <3>1, <3>3
    <3>. QED
      BY <2>3, <3>2, <3>3
  <2>. QED
    BY <2>1, <2>4, <2>5
<1>. QED
  BY <1>1, <1>2

\* Steps that write no row.
LEMMA EndsKept ==
    ASSUME TypeOK, Ends, rows' = rows,
           \A e \in Executor : Advances(e) \/ (~Settled(e)' /\ rows[Cur(e)'].status = "queued"),
           \A t \in Task : ledger'[t] = ledger[t] \/ Gains(t)
    PROVE  Ends'
<1>1. \A e \in Executor : Undecided(e)' => rows'[Cur(e)'].status \notin {"succeeded", "failed"}
  BY DEF Ends, Advances
<1>2. \A e \in Executor : Settled(e)' => rows'[Cur(e)'].status \in Terminal
  BY DEF Ends, Advances
<1>3. ASSUME NEW t \in Task
      PROVE  EndsLast(t)' /\ (Ended(t)' => Over(t)')
  <2>1. EndsLast(t)
    BY DEF Ends, NoCallAfterRunEnd, EndsLast
  <2>2. Ended(t) => Over(t)'
    <3> SUFFICES ASSUME Ended(t) PROVE Over(t)'
      OBVIOUS
    <3>1. rows'[t].status \in Terminal /\ \A e \in Executor : Cur(e) = t => ~Live(e)
      BY DEF Ends, Over
    <3>2. \A e \in Executor : Cur(e)' = t => ~Live(e)'
      BY <3>1 DEF Advances, Undecided, Terminal
    <3>. QED
      BY <3>1, <3>2 DEF Over
  <2>. QED
    BY <2>1, <2>2, LedgerEnds
<1>. QED
  BY <1>1, <1>2, <1>3 DEF Ends, NoCallAfterRunEnd, EndsLast

\* Steps that write one row and nothing else a run's end depends on.
LEMMA EndsWritten ==
    ASSUME TypeOK, Ends, NEW t \in Task, ledger' = ledger,
           \A s \in Task \ {t} : rows'[s] = rows[s],
           \A e \in Executor : Cur(e)' = Cur(e) /\ (Live(e)' => Live(e)),
           \A e \in Executor : Undecided(e)' =>
               /\ Undecided(e) /\ Cur(e) \in Task
               /\ Cur(e) = t => rows'[t].status \notin {"succeeded", "failed"},
           \A e \in Executor : Settled(e)' =>
               /\ Cur(e) \in Task
               /\ (Cur(e) # t => Settled(e)) /\ (Cur(e) = t => rows'[t].status \in Terminal),
           Ended(t) => rows'[t].status \in Terminal
    PROVE  Ends'
<1>1. \A e \in Executor : Undecided(e)' => rows'[Cur(e)'].status \notin {"succeeded", "failed"}
  <2> SUFFICES ASSUME NEW e \in Executor, Undecided(e)'
               PROVE  rows'[Cur(e)].status \notin {"succeeded", "failed"}
    OBVIOUS
  <2>1. CASE Cur(e) = t
    BY <2>1
  <2>2. CASE Cur(e) # t
    <3>1. rows'[Cur(e)] = rows[Cur(e)] /\ Undecided(e)
      BY <2>2
    <3>. QED
      BY <3>1 DEF Ends
  <2>. QED
    BY <2>1, <2>2
<1>2. \A e \in Executor : Settled(e)' => rows'[Cur(e)'].status \in Terminal
  <2> SUFFICES ASSUME NEW e \in Executor, Settled(e)'
               PROVE  rows'[Cur(e)].status \in Terminal
    OBVIOUS
  <2>1. CASE Cur(e) = t
    BY <2>1
  <2>2. CASE Cur(e) # t
    <3>1. rows'[Cur(e)] = rows[Cur(e)] /\ Settled(e)
      BY <2>2
    <3>. QED
      BY <3>1 DEF Ends
  <2>. QED
    BY <2>1, <2>2
<1>3. \A s \in Task : Ended(s)' => Over(s)'
  <2> SUFFICES ASSUME NEW s \in Task, Ended(s)' PROVE Over(s)'
    OBVIOUS
  <2>1. Ended(s)
    BY DEF Ended
  <2>2. rows[s].status \in Terminal /\ \A e \in Executor : Cur(e) = s => ~Live(e)
    BY <2>1 DEF Ends, Over
  <2>3. rows'[s].status \in Terminal
    BY <2>1, <2>2
  <2>. QED
    BY <2>2, <2>3 DEF Over
<1>. QED
  BY <1>1, <1>2, <1>3 DEF Ends, NoCallAfterRunEnd

\* A run that still writes calls and results has no end on record.
LEMMA LiveNotEnded ==
    ASSUME Ends, NEW e \in Executor, Live(e), Cur(e) \in Task
    PROVE  ~Ended(Cur(e))
BY DEF Ends, Over

\* The lines of one write are lines that a ledger may gain.
LEMMA WriteGains ==
    ASSUME TypeOK, Control, Ends, NEW e \in Executor, pc[e] \in Writing, rows' = rows,
           ~Live(e)' \/ pc[e] \notin {"run_end", "handler_end"},
           WriteLine(e) \/ CutLine(e)
    PROVE  \A t \in Task : ledger'[t] = ledger[t] \/ Gains(t)
<1> DEFINE event == NextEvent(e, TypeAt(pc[e]))
<1>1. PICK line \in {event, Torn, Unended(event)} :
          ledger' = [ledger EXCEPT ![Cur(e)] = Append(@, line)]
  BY DEF WriteLine, CutLine
<1>2. Cur(e) \in Task
  BY DEF Control, ExecutorOK, Created, Writing
<1>3. /\ ledger'[Cur(e)] = Append(ledger[Cur(e)], line)
      /\ \A t \in Task : t # Cur(e) => ledger'[t] = ledger[t]
  BY <1>1, <1>2 DEF TypeOK
<1>4. line \in Event \cup {Torn}
  BY NextEventType
<1>5. line.type = "torn" \/ line.type = TypeAt(pc[e])
  BY DEF Torn, Unended, NextEvent
<1>6. CASE pc[e] \in {"run_end", "handler_end"}
  <2>1. TypeAt(pc[e]) = "RUN_END"
    BY <1>6 DEF TypeAt
  <2>2. rows[Cur(e)].status \in Terminal
    BY <1>6 DEF Ends, Settled
  <2>3. \A x \in Executor : ~Live(x)'
    BY <1>6
  <2>4. \A t \in Task : t = Cur(e) => Over(t)'
    BY <2>2, <2>3 DEF Over
  <2>. QED
    BY <1>3, <1>4, <1>5, <2>1, <2>4 DEF Gains
<1>7. CASE pc[e] \in {"run_start", "tool_call", "tool_result"}
  <2>1. ~Ended(Cur(e))
    BY <1>2, <1>7, LiveNotEnded DEF Live, HasRecord
  <2>2. line.type # "RUN_END"
    BY <1>5, <1>7 DEF TypeAt
  <2>. QED
    BY <1>3, <1>4, <2>1, <2>2 DEF Gains
<1>. QED
  BY <1>6, <1>7 DEF Writing

\* Every step of the executor that writes no row leads on.
LEMMA WorkerAdvances ==
    ASSUME TypeOK, Control, NEW e \in Executor,
           \/ RunStep(e) \/ (UpdateRead(e) /\ UpdateStep(e)) \/ Handle(e) \/ HandlerUpdated(e)
           \/ HandlerOpen(e) \/ HandlerLog(e)
           \/ WriteFails(e) \/ HandlerFails(e) \/ DatabaseKills(e) \/ DatabaseRaises(e)
    PROVE  Advances(e) /\ rows' = rows
<1> USE DEF Advances, Undecided, Settled, Live, HasRecord, Updating, Cur, Goto, TypeOK
<1>1. pc[e] \in Updating <=> upd[e].stage # "none"
  BY DEF Control, ExecutorOK
<1>2. CASE OpenRun(e) \/ UpdateReturns(e)
  <2>1. RecordOf(rec[e].task).task = rec[e].task
    BY DEF RecordOf
  <2>2. CASE OpenRun(e)
    BY <1>1, <2>1, <2>2 DEF OpenRun
  <2>3. CASE UpdateReturns(e)
    <3>1. /\ upd[e].stage = "get" /\ upd'[e] = NoCall /\ rows' = rows /\ pc[e] = "updating"
          /\ rec'[e] = RecordOf(Cur(e))
      BY <2>3, OrchestratorAssumption DEF UpdateReturns, UpdateGet
    <3>2. \/ upd[e].status \in Terminal /\ pc'[e] = "run_end"
          \/ upd[e].status \in {"queued", "running"} /\ pc'[e] \in {"policy_scope", "loop"}
      BY <2>3, <3>1 DEF UpdateReturns, Control, CallOK, Terminal
    <3>. QED
      BY <2>1, <3>1, <3>2
  <2>. QED
    BY <1>2, <2>2, <2>3
<1>3. CASE LogRunStart(e) \/ LogToolCall(e)
  BY <1>1, <1>3 DEF LogRunStart, LogToolCall, WriteEvent
<1>4. CASE TestLoop(e)
  BY <1>4 DEF TestLoop, Leave, StartUpdate, SetStatus
<1>5. CASE CheckScope(e) \/ CheckStops(e) \/ CheckAction(e)
  BY <1>5 DEF CheckScope, CheckStops, CheckAction, Deny, StartUpdate, SetStatus
<1>6. CASE RunPlugin(e)
  BY <1>1, <1>6 DEF RunPlugin
<1>7. CASE LogToolResult(e)
  <2>1. Cur(e) \in Task /\ rec[e].plugin \in Plugin
    BY <1>7 DEF LogToolResult, Control, ExecutorOK, Created
  <2>2. AfterAttempt(e).stage = "read"
    BY <2>1, AfterAttemptType
  <2>. QED
    BY <1>7, <2>2 DEF LogToolResult, WriteEvent, StartUpdate
<1>8. CASE LogRunEnd(e) \/ HandlerLog(e)
  BY <1>8 DEF LogRunEnd, HandlerLog, Leave
<1>9. CASE UpdateRead(e) /\ UpdateStep(e)
  <2>1. upd'[e] = Merge(upd[e], rows[upd[e].task]) /\ rows' = rows /\ pc' = pc /\ rec' = rec
        /\ upd[e].stage = "read"
    BY <1>9, OrchestratorAssumption DEF UpdateRead, UpdateStep
  <2>2. upd'[e].status = upd[e].status /\ upd'[e].stage = "write"
    BY <2>1, OrchestratorAssumption DEF Merge, Call
  <2>. QED
    BY <2>1, <2>2
<1>10. CASE Handle(e)
  BY <1>10 DEF Handle, SetStatus
<1>11. CASE HandlerUpdated(e)
  BY <1>11 DEF HandlerUpdated, UpdateGet, Control, ExecutorOK, Terminal
<1>12. CASE HandlerOpen(e)
  BY <1>1, <1>12 DEF HandlerOpen, Leave
<1>13. CASE WriteFails(e) \/ HandlerFails(e)
  <2>1. /\ pc'[e] \in {"raised", "dead"} /\ upd' = upd /\ rec' = rec /\ rows' = rows
    BY <1>13 DEF WriteFails, HandlerFails, LedgerFault
  <2>2. upd[e].stage = "none"
    BY <1>1, <1>13 DEF WriteFails, HandlerFails
  <2>. QED
    BY <2>1, <2>2
<1>14. CASE DatabaseKills(e) \/ DatabaseRaises(e)
  BY <1>14 DEF DatabaseKills, DatabaseRaises, DatabaseFault, Leave
<1>. QED
  BY <1>2, <1>3, <1>4, <1>5, <1>6, <1>7, <1>8, <1>9, <1>10, <1>11, <1>12, <1>13, <1>14 DEF RunStep

LEMMA WorkerEnds ==
    ASSUME TypeOK, Control, Ends, NEW e \in Executor,
           \/ RunStep(e) \/ (UpdateRead(e) /\ UpdateStep(e)) \/ Handle(e) \/ HandlerUpdated(e)
           \/ HandlerOpen(e) \/ HandlerLog(e)
           \/ WriteFails(e) \/ HandlerFails(e) \/ DatabaseKills(e) \/ DatabaseRaises(e)
    PROVE  Ends'
<1>1. Advances(e) /\ rows' = rows
  BY WorkerAdvances
<1>2. CASE ledger' = ledger
  BY <1>1, <1>2, EndsKept
<1>3. CASE ledger' # ledger
  <2>1. pc[e] \in Writing
    BY <1>3 DEF RunStep, OpenRun, LogRunStart, TestLoop, CheckScope, CheckStops, CheckAction,
       LogToolCall, RunPlugin, LogToolResult, UpdateReturns, LogRunEnd, UpdateStep, Handle,
       HandlerUpdated, HandlerOpen, HandlerLog, WriteFails, HandlerFails, LedgerFault,
       DatabaseKills, DatabaseRaises, DatabaseFault, Writing
  <2>2. WriteLine(e) \/ CutLine(e)
    BY <1>3, <2>1 DEF RunStep, OpenRun, LogRunStart, TestLoop, CheckScope, CheckStops,
       CheckAction, LogToolCall, RunPlugin, LogToolResult, UpdateReturns, LogRunEnd, UpdateStep,
       Handle, HandlerUpdated, HandlerOpen, HandlerLog, WriteFails, HandlerFails, LedgerFault,
       DatabaseKills, DatabaseRaises, DatabaseFault, WriteEvent
  <2>3. ~Live(e)' \/ pc[e] \notin {"run_end", "handler_end"}
    BY <1>1 DEF Advances, Live, HasRecord
  <2>4. \A t \in Task : ledger'[t] = ledger[t] \/ Gains(t)
    BY <1>1, <2>1, <2>2, <2>3, WriteGains
  <2>. QED
    BY <1>1, <2>4, EndsKept
<1>. QED
  BY <1>2, <1>3

LEMMA UpdateWriteEnds ==
    ASSUME TypeOK, Control, Ends, NEW c \in Client, UpdateWrite(c), UpdateStep(c)
    PROVE  /\ Ends'
           /\ \A t \in Task : rows[t].status \in {"succeeded", "failed"} =>
                  rows'[t].status \in {rows[t].status, "failed", "stopped"}
<1> DEFINE t == upd[c].task
<1>1. upd[c].stage = "write" /\ t \in Task
  BY DEF UpdateWrite, Control, CallOK
<1>2. /\ rows'[t].status = upd[c].status
      /\ \A s \in Task \ {t} : rows'[s] = rows[s]
      /\ upd'[c].stage = "get" /\ upd'[c].status = upd[c].status
      /\ \A d \in Client \ {c} : upd'[d] = upd[d]
      /\ ledger' = ledger /\ pc' = pc /\ rec' = rec
  BY <1>1 DEF UpdateWrite, UpdateStep, TypeOK, Call
<1>3. \A e \in Executor : Cur(e)' = Cur(e) /\ (Live(e)' <=> Live(e))
  BY <1>2, OrchestratorAssumption DEF Cur, Live
<1> HIDE DEF t
<1>4. CASE c \in Request
  <2>1. upd[c].status = "stopped" /\ c \notin Executor
    BY <1>1, <1>4 DEF Control, Request
  <2>2. \A e \in Executor : upd'[e] = upd[e]
    BY <1>2, <2>1, OrchestratorAssumption
  <2>3. \A e \in Executor : (Undecided(e)' <=> Undecided(e)) /\ (Settled(e)' <=> Settled(e))
    BY <1>2, <1>3, <2>2 DEF Undecided, Settled
  <2>4. \A e \in Executor : Undecided(e) \/ Settled(e) => Cur(e) \in Task
    BY DEF Control, ExecutorOK, Undecided, Settled, Live, HasRecord, Updating, Created
  <2>5. Ends'
    BY <1>1, <1>2, <1>3, <2>1, <2>3, <2>4, EndsWritten DEF Terminal
  <2>. QED
    BY <1>2, <2>1, <2>5
<1>5. CASE c \in Executor
  <2>1. /\ pc[c] \in Updating /\ Cur(c) = t
        /\ upd[c].status \in {"queued", "running"} \cup Terminal
        /\ pc[c] = "handling" => upd[c].status = "failed"
    BY <1>1, <1>5, OrchestratorAssumption DEF Control, ExecutorOK, CallOK, t
  <2>2. /\ Undecided(c)' => Live(c) /\ pc[c] = "updating" /\ upd[c].status \in {"queued", "running"}
        /\ Settled(c)' => upd[c].status \in Terminal
    BY <1>2, <1>3, <2>1 DEF Undecided, Settled, Live, HasRecord, Updating, Terminal
  <2>3. Ended(t) => upd[c].status \in Terminal
    <3>1. CASE Live(c)
      BY <1>1, <1>5, <2>1, <3>1, LiveNotEnded
    <3>2. CASE ~Live(c)
      BY <2>1, <3>2 DEF Live, Updating, Terminal
    <3>. QED
      BY <3>1, <3>2
  <2>4. \A e \in Executor : e = c
    BY <1>5, DesktopAssumption
  <2>5. Ends'
    <3>1. \A e \in Executor : Undecided(e)' =>
              /\ Undecided(e) /\ Cur(e) \in Task
              /\ Cur(e) = t => rows'[t].status \notin {"succeeded", "failed"}
      BY <1>1, <1>2, <2>1, <2>2, <2>4 DEF Undecided, Terminal
    <3>2. \A e \in Executor : Settled(e)' =>
              /\ Cur(e) \in Task
              /\ (Cur(e) # t => Settled(e)) /\ (Cur(e) = t => rows'[t].status \in Terminal)
      BY <1>1, <1>2, <2>1, <2>2, <2>4
    <3>. QED
      BY <1>1, <1>2, <1>3, <2>3, <3>1, <3>2, EndsWritten
  <2>6. rows[t].status \in {"succeeded", "failed"} => upd[c].status = "failed"
    <3>1. pc[c] = "updating" => Undecided(c)
      BY <1>1 DEF Undecided
    <3>. QED
      BY <1>5, <2>1, <3>1 DEF Ends, Updating
  <2>. QED
    BY <1>2, <2>5, <2>6
<1>. QED
  BY <1>4, <1>5, DesktopAssumption DEF Request

LEMMA ClaimEnds ==
    ASSUME TypeOK, Control, Ends, NEW e \in Executor, ClaimSelect(e) \/ ClaimUpdate(e)
    PROVE  /\ Ends'
           /\ \A t \in Task : rows[t].status \in {"succeeded", "failed"} => rows'[t] = rows[t]
<1>1. CASE ClaimSelect(e)
  <2>1. PICK t \in Task : FirstQueued(t) /\ rec' = [rec EXCEPT ![e] = [NoRecord EXCEPT !.task = t]]
    BY <1>1 DEF ClaimSelect
  <2>2. Cur(e)' = t /\ rows[t].status = "queued"
    BY <2>1 DEF Cur, TypeOK, NoRecord, FirstQueued, Queued
  <2>3. /\ rows' = rows /\ ledger' = ledger /\ ~Settled(e)'
    BY <1>1 DEF ClaimSelect, Goto, TypeOK, Settled, Updating
  <2>. QED
    BY <2>2, <2>3, EndsKept
<1>2. CASE ClaimUpdate(e)
  <2> DEFINE t == Cur(e)
  <2>1. t \in Task /\ Live(e) /\ pc[e] = "claim" /\ upd' = upd /\ rec' = rec /\ ledger' = ledger
    BY <1>2 DEF ClaimUpdate, Control, ExecutorOK, Created, Live
  <2>2. /\ rows'[t].status = "running"
        /\ \A s \in Task \ {t} : rows'[s] = rows[s]
    BY <1>2, <2>1 DEF ClaimUpdate, ClaimWrite, TypeOK, Row
  <2>3. rows[t].status \notin {"succeeded", "failed"}
    BY <2>1 DEF Ends, Undecided
  <2>4. pc'[e] = "start" /\ Cur(e)' = t
    BY <1>2, <2>1 DEF ClaimUpdate, Goto, TypeOK, Cur
  <2>5. Undecided(e) /\ ~Settled(e)'
    BY <2>1, <2>4 DEF Undecided, Settled, Updating
  <2>6. ~Ended(t)
    BY <2>1, LiveNotEnded
  <2>7. \A x \in Executor : x = e
    BY DesktopAssumption
  <2> HIDE DEF t
  <2>8. Ends'
    <3>1. /\ \A x \in Executor : Cur(x)' = Cur(x) /\ (Live(x)' => Live(x)) /\ ~Settled(x)'
          /\ \A x \in Executor : Undecided(x) /\ Cur(x) \in Task
      BY <2>1, <2>4, <2>5, <2>7 DEF t
    <3>. QED
      BY <2>1, <2>2, <2>6, <3>1, EndsWritten
  <2>. QED
    BY <2>2, <2>3, <2>8
<1>. QED
  BY <1>1, <1>2

LEMMA CreateEnds ==
    ASSUME TypeOK, Control, Ends, NEW t \in Task, NEW p \in Plugin, ApiCreate(t, p) \/ CliCreate(t, p)
    PROVE  /\ Ends'
           /\ \A s \in Task : rows[s].status \in {"succeeded", "failed"} => rows'[s] = rows[s]
<1>1. /\ rows[t].status = "none"
      /\ \A s \in Task \ {t} : rows'[s] = rows[s]
      /\ UNCHANGED <<upd, pc, rec, ledger>>
  BY DEF ApiCreate, CliCreate, Create, TypeOK
<1>2. \A e \in Executor : Undecided(e) \/ Settled(e) => Cur(e) \in Task \ {t}
  BY <1>1 DEF Control, ExecutorOK, Undecided, Settled, Live, HasRecord, Updating, Created
<1>3. ~Ended(t)
  BY <1>1 DEF Ends, Over, Terminal
<1>4. \A e \in Executor : /\ Cur(e)' = Cur(e) /\ (Live(e)' <=> Live(e))
                          /\ (Undecided(e)' <=> Undecided(e)) /\ (Settled(e)' <=> Settled(e))
  BY <1>1 DEF Cur, Live, Undecided, Settled
<1>. QED
  BY <1>1, <1>2, <1>3, <1>4, EndsWritten

\* A kill leaves no executor in a run and may tear lines.
LEMMA CrashEnds ==
    ASSUME TypeOK, Control, Ends, Crash
    PROVE  Ends'
<1>1. rows' = rows /\ \A e \in Executor : ~Live(e)'
  BY DEF Crash, Live, HasRecord
<1>2. \A t \in Task : ledger'[t] = ledger[t] \/ Gains(t)
  <2>1. CASE ledger' = ledger
    BY <2>1
  <2>2. ASSUME NEW e \in Executor, pc[e] \in Writing, CutLine(e)
        PROVE  \A t \in Task : ledger'[t] = ledger[t] \/ Gains(t)
    BY <1>1, <2>2, WriteGains
  <2>. QED
    BY <2>1, <2>2 DEF Crash
<1>3. \A e \in Executor : Advances(e)
  BY DEF Crash, Advances, Undecided, Settled, Live, HasRecord, Updating
<1>. QED
  BY <1>2, <1>3, EndsKept DEF Crash

\* Everybody else leaves the runs and the ledgers alone.
LEMMA OthersEnds ==
    ASSUME Ends, TypeOK, Control,
           \/ \E r \in Request : RequestReturns(r) \/ DatabaseRefuses(r)
           \/ \E r \in Request : UpdateRead(r) /\ UpdateStep(r)
           \/ \E r \in Request, t \in Task : StopTask(r, t) \/ CliStopTask(r, t)
           \/ \E k \in Keys : EmergencyStop(k) \/ EmergencyResume(k)
           \/ \E s \in Scopes : SetScope(s)
           \/ UNCHANGED desktopVars
    PROVE  Ends' /\ rows' = rows
<1>1. UNCHANGED <<rows, pc, rec, ledger>>
  BY DEF RequestReturns, UpdateGet, UpdateUnknown, DatabaseRefuses, DatabaseFault, UpdateRead,
     UpdateStep, StopTask, CliStopTask, EmergencyStop, EmergencyResume, SetScope, desktopVars,
     orchestratorVars
<1>2. \A e \in Executor : upd'[e] = upd[e]
  <2>1. upd' = upd \/ \E r \in Request : \E call : upd' = [upd EXCEPT ![r] = call]
    BY DEF RequestReturns, UpdateGet, UpdateUnknown, DatabaseRefuses, DatabaseFault, UpdateRead,
       UpdateStep, StopTask, CliStopTask, EmergencyStop, EmergencyResume, SetScope, desktopVars,
       orchestratorVars
  <2>. QED
    BY <2>1, OrchestratorAssumption, DesktopAssumption DEF TypeOK, Request
<1>3. \A e \in Executor : Advances(e)
  BY <1>1, <1>2 DEF Advances, Undecided, Settled, Live, Cur
<1>. QED
  BY <1>1, <1>3, EndsKept

\* A completed row, step by step.
LEMMA EndsStep ==
    TypeOK /\ Control /\ Ends /\ [Next]_desktopVars =>
        /\ Ends'
        /\ \A t \in Task : rows[t].status \in {"succeeded", "failed"} =>
               rows'[t].status \in {rows[t].status, "failed", "stopped"}
<1> DEFINE Goal == /\ Ends'
                   /\ \A t \in Task : rows[t].status \in {"succeeded", "failed"} =>
                          rows'[t].status \in {rows[t].status, "failed", "stopped"}
<1> SUFFICES ASSUME TypeOK, Control, Ends, [Next]_desktopVars
             PROVE  Goal
  OBVIOUS
<1>1. ASSUME NEW c \in Client, UpdateStep(c), UpdateWrite(c)
      PROVE  Goal
  BY <1>1, UpdateWriteEnds
<1>2. ASSUME NEW e \in Executor,
             WorkerStep(e) \/ WriteFails(e) \/ HandlerFails(e) \/ DatabaseKills(e) \/ DatabaseRaises(e)
      PROVE  Goal
  <2>1. CASE ClaimSelect(e) \/ ClaimUpdate(e)
    BY <2>1, ClaimEnds
  <2>2. CASE UpdateStep(e) /\ UpdateWrite(e)
    BY <1>1, <2>2, OrchestratorAssumption
  <2>3. CASE ~(ClaimSelect(e) \/ ClaimUpdate(e)) /\ ~(UpdateStep(e) /\ UpdateWrite(e))
    <3>1. \/ RunStep(e) \/ (UpdateRead(e) /\ UpdateStep(e)) \/ Handle(e) \/ HandlerUpdated(e)
          \/ HandlerOpen(e) \/ HandlerLog(e)
          \/ WriteFails(e) \/ HandlerFails(e) \/ DatabaseKills(e) \/ DatabaseRaises(e)
      BY <1>2, <2>3 DEF WorkerStep, UpdateStep
    <3>2. rows' = rows
      BY <3>1, WorkerAdvances
    <3>. QED
      BY <3>1, <3>2, WorkerEnds
  <2>. QED
    BY <2>1, <2>2, <2>3
<1>3. ASSUME NEW t \in Task, NEW p \in Plugin, ApiCreate(t, p) \/ CliCreate(t, p)
      PROVE  Goal
  BY <1>3, CreateEnds
<1>4. CASE Crash
  BY <1>4, CrashEnds DEF Crash
<1>5. ASSUME NEW r \in Request, UpdateStep(r)
      PROVE  Goal
  <2>1. CASE UpdateWrite(r)
    BY <1>1, <1>5, <2>1, DesktopAssumption DEF Request
  <2>2. CASE UpdateRead(r)
    BY <1>5, <2>2, OthersEnds
  <2>. QED
    BY <1>5, <2>1, <2>2 DEF UpdateStep
<1>6. CASE \/ \E r \in Request : RequestReturns(r) \/ DatabaseRefuses(r)
           \/ \E r \in ApiStop, t \in Task : StopTask(r, t)
           \/ \E r \in CliStop, t \in Task : CliStopTask(r, t)
           \/ \E k \in Keys : EmergencyStop(k) \/ EmergencyResume(k)
           \/ \E s \in Scopes : SetScope(s)
           \/ UNCHANGED desktopVars
  BY <1>6, OthersEnds DEF Request
<1>. QED
  BY <1>2, <1>3, <1>4, <1>5, <1>6 DEF Next

LEMMA EndsInit == Init => Ends
<1> SUFFICES ASSUME Init PROVE Ends
  OBVIOUS
<1>1. /\ \A e \in Executor : pc[e] = "idle"
      /\ \A t \in Task : ledger[t] = <<>>
  BY DEF Init, OrchestratorInit
<1>2. \A e \in Executor : ~Undecided(e) /\ ~Settled(e)
  BY <1>1 DEF Undecided, Settled, Live, HasRecord, Updating
<1>3. \A t \in Task : DOMAIN ledger[t] = {}
  BY <1>1, EmptySeq
<1>. QED
  BY <1>2, <1>3 DEF Ends, Ended, NoCallAfterRunEnd

\* A run whose end is on record is over: whatever stop requests, kills and failing
\* statements do to its row, nothing but another RUN_END follows a RUN_END.
THEOREM EndedRunsAreOver == Spec => []NoCallAfterRunEnd
<1>1. TypeOK /\ Control /\ Ends /\ [Next]_desktopVars => Ends'
  BY EndsStep
<1>2. Ends => NoCallAfterRunEnd
  BY DEF Ends
<1>. QED
  BY <1>1, <1>2, EndsInit, TypeCorrect, PTL DEF Spec

\* A row that says succeeded or failed is never claimed or run again: what the worker
\* still has in hand when it writes is a row that is open or was stopped.
THEOREM CompletedRowsStay == Spec => CompletedStaysCompleted
<1>1. TypeOK /\ Control /\ Ends /\ [Next]_desktopVars => Ends'
  BY EndsStep
<1>2. TypeOK /\ Control /\ Ends /\ [Next]_desktopVars =>
          [\A t \in Task : rows[t].status \in {"succeeded", "failed"} =>
               rows'[t].status \in {rows[t].status, "failed", "stopped"}]_desktopVars
  BY EndsStep
<1>. QED
  BY <1>1, <1>2, EndsInit, TypeCorrect, PTL DEF Spec, CompletedStaysCompleted

-----------------------------------------------------------------------------

\* What an executor will report, and what a call of update() is about.
ExecutorReports(e) ==
    /\ pc[e] = "idle" => Cur(e) = NoTask
    /\ pc[e] = "dead" => Cur(e) \in Created \cup {NoTask}
    /\ (pc[e] = "updating" /\ upd[e].status \in Terminal) => outcome[e] = upd[e].status
    /\ pc[e] \in {"handling", "handler_open", "handler_end"} => outcome[e] = "failed"

KeepsPlugin(c) == (upd[c].stage = "read" /\ upd[c].keep) => upd[c].plugin = NoPlugin

Unused(t) == ledger[t] = <<>> /\ rows[t].attempts = 0

Reports ==
    /\ \A e \in Executor : ExecutorReports(e)
    /\ \A c \in Client : KeepsPlugin(c)
    /\ \A r \in Request : upd[r].stage # "none" => upd[r].task = aim[r]
    /\ \A t \in Task \ Created : Unused(t)

\* Every step of an executor but the selection of a task.
ExecutorStepOf(e) ==
    \/ RunStep(e) /\ UNCHANGED <<aim, crashes>>
    \/ UpdateStep(e) \/ ClaimUpdate(e) \/ Handle(e) \/ HandlerUpdated(e) \/ HandlerOpen(e)
    \/ HandlerLog(e)
    \/ WriteFails(e) /\ UNCHANGED <<aim, crashes>>
    \/ HandlerFails(e) \/ DatabaseKills(e) \/ DatabaseRaises(e)

\* It leaves every other task, and every other call, alone.
LEMMA ExecutorFrame ==
    ASSUME TypeOK, Control, NEW e \in Executor, ExecutorStepOf(e)
    PROVE  /\ aim' = aim /\ crashes' = crashes
           /\ \A c \in Client \ {e} : upd'[c] = upd[c]
           /\ \A t \in Task \ {Cur(e)} : rows'[t] = rows[t] /\ ledger'[t] = ledger[t]
           /\ Cur(e)' \in {Cur(e), NoTask}
<1> USE DEF Goto, TypeOK
<1>1. aim' = aim /\ crashes' = crashes
  BY DEF ExecutorStepOf, UpdateStep, ClaimUpdate, Handle, HandlerUpdated, HandlerOpen,
     HandlerLog, HandlerFails, DatabaseKills, DatabaseRaises, DatabaseFault
<1>2. upd' = upd \/ \E call : upd' = [upd EXCEPT ![e] = call]
  BY DEF ExecutorStepOf, UpdateStep, ClaimUpdate, Handle, HandlerUpdated, HandlerOpen,
     HandlerLog, HandlerFails, DatabaseKills, DatabaseRaises, DatabaseFault, UpdateRead,
     UpdateWrite, UpdateGet, RunStep, OpenRun, LogRunStart, TestLoop, CheckScope, CheckStops,
     CheckAction, LogToolCall, RunPlugin, LogToolResult, UpdateReturns, LogRunEnd, Deny,
     StartUpdate, WriteFails, LedgerFault
<1>3. \A c \in Client \ {e} : upd'[c] = upd[c]
  BY <1>2
<1>4. upd[e].stage # "none" => upd[e].task = Cur(e)
  BY DEF Control, ExecutorOK
<1>5. rows' = rows \/ \E row : rows' = [rows EXCEPT ![Cur(e)] = row]
  BY <1>4 DEF ExecutorStepOf, UpdateStep, ClaimUpdate, ClaimWrite, Handle, HandlerUpdated,
     HandlerOpen, HandlerLog, HandlerFails, DatabaseKills, DatabaseRaises, DatabaseFault,
     UpdateRead, UpdateWrite, UpdateGet, RunStep, OpenRun, LogRunStart, TestLoop, CheckScope,
     CheckStops, CheckAction, LogToolCall, RunPlugin, LogToolResult, UpdateReturns, LogRunEnd,
     WriteFails, LedgerFault, WriteEvent
<1>6. ledger' = ledger \/ \E file : ledger' = [ledger EXCEPT ![Cur(e)] = file]
  <2>1. ledger' = ledger \/ WriteLine(e) \/ CutLine(e)
    BY DEF ExecutorStepOf, UpdateStep, ClaimUpdate, Handle, HandlerUpdated, HandlerOpen,
       HandlerLog, HandlerFails, DatabaseKills, DatabaseRaises, DatabaseFault, RunStep, OpenRun,
       LogRunStart, TestLoop, CheckScope, CheckStops, CheckAction, LogToolCall, RunPlugin,
       LogToolResult, UpdateReturns, LogRunEnd, WriteFails, WriteEvent, LedgerFault
  <2>. QED
    BY <2>1 DEF WriteLine, CutLine
<1>7. Cur(e)' \in {Cur(e), NoTask}
  <2>1. rec' = rec \/ rec'[e] = RecordOf(Cur(e)) \/ rec'[e] = NoRecord
    BY DEF ExecutorStepOf, UpdateStep, ClaimUpdate, Handle, HandlerUpdated, HandlerOpen,
       HandlerLog, HandlerFails, DatabaseKills, DatabaseRaises, DatabaseFault, RunStep, OpenRun,
       LogRunStart, TestLoop, CheckScope, CheckStops, CheckAction, LogToolCall, RunPlugin,
       LogToolResult, UpdateReturns, LogRunEnd, WriteFails, WriteEvent, LedgerFault, Leave
  <2>. QED
    BY <2>1 DEF Cur, RecordOf, NoRecord
<1>8. \A t \in Task \ {Cur(e)} : rows'[t] = rows[t] /\ ledger'[t] = ledger[t]
  BY <1>5, <1>6
<1>. QED
  BY <1>1, <1>3, <1>7, <1>8

\* A step of an executor keeps the reports if it keeps its own.
LEMMA ReportsKept ==
    ASSUME TypeOK, Control, Reports, NEW e \in Executor, aim' = aim,
           \A c \in Client \ {e} : upd'[c] = upd[c],
           \A t \in Task \ Created : rows'[t] = rows[t] /\ ledger'[t] = ledger[t],
           \A t \in Created : rows'[t].status # "none",
           ExecutorReports(e)', KeepsPlugin(e)'
    PROVE  Reports'
<1>1. \A x \in Executor : ExecutorReports(x)'
  BY DesktopAssumption
<1>2. \A c \in Client : KeepsPlugin(c)'
  BY DEF Reports, KeepsPlugin
<1>3. \A r \in Request : r \in Client \ {e}
  BY DesktopAssumption DEF Request
<1>4. \A t \in Task \ Created' : Unused(t)'
  BY DEF Reports, Unused, Created
<1>. QED
  BY <1>1, <1>2, <1>3, <1>4 DEF Reports

\* A call moves on in update() and keeps its task and its status.
LEMMA UpdateMoves ==
    ASSUME TypeOK, NEW c \in Client, UpdateStep(c)
    PROVE  /\ upd'[c].status = upd[c].status /\ upd'[c].task = upd[c].task
           /\ upd'[c].stage # "read" /\ upd[c].stage # "none"
           /\ \A d \in Client \ {c} : upd'[d] = upd[d]
<1>1. upd \in [Client -> Call] /\ upd[c] \in Call
  BY DEF TypeOK
<1>2. CASE UpdateRead(c)
  <2>1. upd' = [upd EXCEPT ![c] = Merge(upd[c], rows[upd[c].task])] /\ upd[c].stage = "read"
    BY <1>2 DEF UpdateRead
  <2>2. \A row : /\ Merge(upd[c], row).status = upd[c].status
                 /\ Merge(upd[c], row).task = upd[c].task
                 /\ Merge(upd[c], row).stage = "write"
    BY <1>1 DEF Merge, Call
  <2>. QED
    BY <1>1, <2>1, <2>2
<1>3. CASE UpdateWrite(c)
  BY <1>1, <1>3 DEF UpdateWrite, Call
<1>. QED
  BY <1>2, <1>3 DEF UpdateStep

LEMMA ExecutorReportsOn ==
    ASSUME TypeOK, Control, Reports, NEW e \in Executor, ExecutorStepOf(e)
    PROVE  Reports'
<1> USE DEF Goto, TypeOK, Cur
<1>1. /\ aim' = aim /\ \A c \in Client \ {e} : upd'[c] = upd[c]
      /\ \A t \in Task \ {Cur(e)} : rows'[t] = rows[t] /\ ledger'[t] = ledger[t]
  BY ExecutorFrame
<1>2. ExecutorReports(e) /\ KeepsPlugin(e) /\ ExecutorOK(e) /\ CallOK(e) /\ e \in Client
  BY OrchestratorAssumption DEF Reports, Control
<1>3. CASE pc[e] \in {"idle", "dead"}
  <2>1. DatabaseKills(e) /\ pc[e] = "idle"
    BY <1>2, <1>3 DEF ExecutorOK, Updating, ExecutorStepOf, UpdateStep, UpdateRead, UpdateWrite,
       ClaimUpdate, Handle, HandlerUpdated, HandlerOpen, HandlerLog, HandlerFails, DatabaseKills,
       DatabaseRaises, RunStep, OpenRun, LogRunStart, TestLoop, CheckScope, CheckStops, CheckAction,
       LogToolCall, RunPlugin, LogToolResult, UpdateReturns, LogRunEnd, WriteFails
  <2>2. rows' = rows /\ ledger' = ledger /\ pc'[e] = "dead" /\ Cur(e)' = NoTask /\ upd'[e] = NoCall
    BY <1>2, <2>1 DEF DatabaseKills, DatabaseFault, Leave, NoRecord
  <2>3. ExecutorReports(e)' /\ KeepsPlugin(e)'
    BY <2>2 DEF ExecutorReports, KeepsPlugin, NoCall
  <2>4. \A t \in Created : rows'[t].status # "none"
    BY <2>2 DEF Created
  <2>. QED
    BY <1>1, <2>2, <2>3, <2>4, ReportsKept
<1>4. CASE pc[e] \notin {"idle", "dead"}
  <2>1. Cur(e) \in Created /\ Cur(e) \in Task
    BY <1>2, <1>4 DEF ExecutorOK, Created
  <2>2. rows'[Cur(e)].status # "none"
    <3>1. CASE rows' = rows
      BY <2>1, <3>1 DEF Created
    <3>2. CASE ClaimUpdate(e)
      BY <2>1, <3>2 DEF ClaimUpdate, ClaimWrite, Row
    <3>3. CASE UpdateWrite(e)
      BY <1>2, <2>1, <3>3 DEF UpdateWrite, CallOK, ExecutorOK, Terminal
    <3>. QED
      BY <3>1, <3>2, <3>3 DEF ExecutorStepOf, UpdateStep, UpdateRead, Handle, HandlerUpdated,
         HandlerOpen, HandlerLog, HandlerFails, DatabaseKills, DatabaseRaises, DatabaseFault,
         UpdateGet, RunStep, OpenRun, LogRunStart, TestLoop, CheckScope, CheckStops, CheckAction,
         LogToolCall, RunPlugin, LogToolResult, UpdateReturns, LogRunEnd, WriteFails, LedgerFault,
         WriteEvent
  <2>3. /\ \A t \in Task \ Created : rows'[t] = rows[t] /\ ledger'[t] = ledger[t]
        /\ \A t \in Created : rows'[t].status # "none"
    BY <1>1, <2>1, <2>2 DEF Created
  <2>4. Cur(e)' \in Created' \cup {NoTask}
    BY <2>1, <2>2, ExecutorFrame DEF Created
  <2>5. SUFFICES ExecutorReports(e)' /\ KeepsPlugin(e)'
    BY <1>1, <2>3, ReportsKept
  <2> USE <1>2, <2>4 DEF ExecutorReports, KeepsPlugin
  <2>6. CASE OpenRun(e) \/ LogRunStart(e) \/ LogToolCall(e) \/ RunPlugin(e)
    BY <2>6 DEF OpenRun, LogRunStart, LogToolCall, RunPlugin, WriteEvent
  <2>7. CASE TestLoop(e)
    BY <2>7 DEF TestLoop, Leave, StartUpdate, SetStatus, NoRecord, Terminal
  <2>8. CASE CheckScope(e) \/ CheckStops(e) \/ CheckAction(e)
    BY <2>8 DEF CheckScope, CheckStops, CheckAction, Deny, StartUpdate, SetStatus
  <2>9. CASE LogToolResult(e)
    <3>1. rec[e].plugin \in Plugin
      BY <2>9 DEF LogToolResult, ExecutorOK, HasRecord
    <3>2. AfterAttempt(e).status \in {"succeeded", "queued", "failed"} /\ ~AfterAttempt(e).keep
      BY <2>1, <3>1, AfterAttemptType DEF AfterAttempt, SetProgress
    <3>3. /\ pc'[e] = "updating" /\ upd'[e] = AfterAttempt(e)
          /\ AfterAttempt(e).status \in Terminal => outcome'[e] = AfterAttempt(e).status
      BY <2>9 DEF LogToolResult, StartUpdate
    <3>. QED
      BY <3>2, <3>3
  <2>10. CASE UpdateReturns(e) \/ HandlerUpdated(e)
    <3>1. upd'[e] = NoCall
      BY <2>10 DEF UpdateReturns, HandlerUpdated, UpdateGet
    <3>2. pc'[e] \in {"run_end", "policy_scope", "loop"} \/ (HandlerUpdated(e) /\ pc'[e] = "handler_open")
      BY <2>10 DEF UpdateReturns, HandlerUpdated
    <3>. QED
      BY <3>1, <3>2 DEF HandlerUpdated, NoCall
  <2>11. CASE LogRunEnd(e) \/ HandlerLog(e)
    BY <2>11 DEF LogRunEnd, HandlerLog, Leave, NoRecord
  <2>12. CASE UpdateStep(e)
    <3>1. UNCHANGED <<pc, rec, outcome>>
      BY <2>12 DEF UpdateStep
    <3>2. upd'[e].status = upd[e].status /\ upd'[e].stage # "read"
      BY <2>12, UpdateMoves
    <3>. QED
      BY <3>1, <3>2
  <2>13. CASE ClaimUpdate(e) \/ Handle(e) \/ HandlerOpen(e)
    BY <2>13 DEF ClaimUpdate, Handle, HandlerOpen, SetStatus, Leave, NoRecord
  <2>14. CASE WriteFails(e) \/ HandlerFails(e)
    BY <2>14 DEF WriteFails, HandlerFails, LedgerFault
  <2>15. CASE DatabaseKills(e) \/ DatabaseRaises(e)
    BY <2>15 DEF DatabaseKills, DatabaseRaises, DatabaseFault, Leave, NoRecord, NoCall
  <2>. QED
    BY <2>6, <2>7, <2>8, <2>9, <2>10, <2>11, <2>12, <2>13, <2>14, <2>15 DEF ExecutorStepOf, RunStep
<1>. QED
  BY <1>3, <1>4

\* Selecting a task reports nothing.
LEMMA ClaimReports ==
    ASSUME TypeOK, Control, Reports, NEW e \in Executor, ClaimSelect(e)
    PROVE  Reports'
<1>1. PICK t \in Task : FirstQueued(t) /\ rec' = [rec EXCEPT ![e] = [NoRecord EXCEPT !.task = t]]
  BY DEF ClaimSelect
<1>2. pc'[e] = "claim" /\ UNCHANGED <<rows, upd, ledger, aim>>
  BY DEF ClaimSelect, Goto, TypeOK
<1>. QED
  BY <1>2, ReportsKept, OrchestratorAssumption DEF ExecutorReports, KeepsPlugin, Reports, Created

LEMMA CreateReports ==
    ASSUME TypeOK, Reports, NEW t \in Task, NEW p \in Plugin, ApiCreate(t, p) \/ CliCreate(t, p)
    PROVE  Reports'
<1>1. /\ rows'[t].status = "queued" /\ \A s \in Task \ {t} : rows'[s] = rows[s]
      /\ UNCHANGED <<upd, pc, rec, outcome, ledger, aim>>
  BY DEF ApiCreate, CliCreate, Create, TypeOK
<1>2. Created \subseteq Created' /\ t \in Created'
  BY <1>1 DEF Created
<1>3. \A e \in Executor : ExecutorReports(e)'
  BY <1>1, <1>2 DEF Reports, ExecutorReports, Cur
<1>4. \A s \in Task \ Created' : Unused(s)'
  BY <1>1, <1>2 DEF Reports, Unused
<1>. QED
  BY <1>1, <1>3, <1>4 DEF Reports, KeepsPlugin

\* Requests and kills.
LEMMA RequestReports ==
    ASSUME TypeOK, Control, Reports, NEW r \in Request,
           \/ UpdateStep(r) \/ RequestReturns(r) \/ DatabaseRefuses(r)
           \/ \E t \in Task : StopTask(r, t) \/ CliStopTask(r, t)
    PROVE  Reports'
<1>1. UNCHANGED <<pc, rec, outcome, ledger>> /\ r \in Client /\ r \notin Executor
  BY DesktopAssumption DEF Request, UpdateStep, RequestReturns, DatabaseRefuses, DatabaseFault,
     StopTask, CliStopTask
<1>2. /\ \A c \in Client \ {r} : upd'[c] = upd[c]
      /\ \A x \in Request \ {r} : aim'[x] = aim[x]
      /\ KeepsPlugin(r)'
      /\ upd'[r].stage # "none" => upd'[r].task = aim'[r]
  <2>1. upd[r].stage # "none" => upd[r].task = aim[r]
    BY DEF Reports
  <2>2. CASE UpdateStep(r)
    <3>1. /\ upd'[r].task = upd[r].task /\ upd'[r].stage # "read" /\ upd[r].stage # "none"
          /\ \A c \in Client \ {r} : upd'[c] = upd[c]
      BY <1>1, <2>2, UpdateMoves
    <3>. QED
      BY <2>1, <2>2, <3>1 DEF UpdateStep, KeepsPlugin
  <2>3. CASE RequestReturns(r) \/ DatabaseRefuses(r)
    BY <1>1, <2>3 DEF RequestReturns, UpdateGet, UpdateUnknown, DatabaseRefuses, DatabaseFault,
       NoCall, TypeOK, KeepsPlugin
  <2>4. CASE \E t \in Task : StopTask(r, t) \/ CliStopTask(r, t)
    BY <1>1, <2>4 DEF StopTask, CliStopTask, SetStatus, TypeOK, KeepsPlugin
  <2>. QED
    BY <2>2, <2>3, <2>4
<1>3. Created' = Created /\ \A t \in Task \ Created : rows'[t] = rows[t]
  <2>1. CASE UpdateWrite(r)
    <3>1. upd[r].stage # "none" => upd[r].task \in Task /\ upd[r].status # "none"
      BY <1>1 DEF Control, CallOK, Terminal
    <3>2. upd[r].stage = "write" /\ upd[r].task \in Created
      BY <1>1, <2>1 DEF UpdateWrite, Control, CallOK
    <3>. QED
      BY <2>1, <3>1, <3>2 DEF UpdateWrite, Created, TypeOK
  <2>2. CASE rows' = rows
    BY <2>2 DEF Created
  <2>. QED
    BY <2>1, <2>2 DEF UpdateStep, UpdateRead, RequestReturns, UpdateGet, UpdateUnknown,
       DatabaseRefuses, DatabaseFault, StopTask, CliStopTask
<1>4. \A e \in Executor : ExecutorReports(e)'
  <2>1. \A e \in Executor : upd'[e] = upd[e]
    BY <1>1, <1>2, OrchestratorAssumption
  <2>. QED
    BY <1>1, <1>3, <2>1 DEF Reports, ExecutorReports, Cur
<1>5. \A t \in Task \ Created' : Unused(t)'
  BY <1>1, <1>3 DEF Reports, Unused
<1>6. \A x \in Request : upd'[x].stage # "none" => upd'[x].task = aim'[x]
  BY <1>2, DesktopAssumption DEF Reports, Request
<1>7. \A c \in Client : KeepsPlugin(c)'
  BY <1>2 DEF Reports, KeepsPlugin
<1>. QED
  BY <1>4, <1>5, <1>6, <1>7 DEF Reports

LEMMA CrashReports ==
    ASSUME TypeOK, Control, Reports, Crash
    PROVE  Reports'
<1>1. /\ \A e \in Executor : pc'[e] = "idle" /\ Cur(e)' = NoTask
      /\ \A c \in Client : upd'[c] = upd[c] \/ upd'[c] = NoCall
      /\ rows' = rows /\ aim' = aim
  BY DEF Crash, Cur, NoRecord
<1>2. \A t \in Task \ Created : ledger'[t] = ledger[t]
  <2>1. \A e \in Executor : pc[e] \in Writing => Cur(e) \in Created
    BY DEF Control, ExecutorOK, Writing
  <2>2. \A e \in Executor : CutLine(e) => \A t \in Task \ {Cur(e)} : ledger'[t] = ledger[t]
    BY DEF CutLine, TypeOK
  <2>. QED
    BY <2>1, <2>2 DEF Crash
<1>3. NoCall.stage = "none"
  BY DEF NoCall
<1>4. \A e \in Executor : ExecutorReports(e)'
  BY <1>1 DEF ExecutorReports
<1>5. \A c \in Client : KeepsPlugin(c)'
  BY <1>1, <1>3 DEF Reports, KeepsPlugin
<1>6. \A r \in Request : upd'[r].stage # "none" => upd'[r].task = aim'[r]
  BY <1>1, <1>3 DEF Reports, Request
<1>7. \A t \in Task \ Created' : Unused(t)'
  BY <1>1, <1>2 DEF Reports, Unused, Created
<1>. QED
  BY <1>4, <1>5, <1>6, <1>7 DEF Reports

LEMMA ReportsInit == Init => Reports
BY DEF Init, OrchestratorInit, RepositoryInit, Reports, ExecutorReports, KeepsPlugin, Unused, Cur,
   NoRecord, NoCall, NoRow, Request

\* The executors' steps, and everybody else's.
LEMMA NextStep ==
    ASSUME Next
    PROVE  \/ \E e \in Executor : ExecutorStepOf(e) \/ ClaimSelect(e)
           \/ \E t \in Task, p \in Plugin : ApiCreate(t, p) \/ CliCreate(t, p)
           \/ \E r \in Request :
                  \/ UpdateStep(r) \/ RequestReturns(r) \/ DatabaseRefuses(r)
                  \/ \E t \in Task : StopTask(r, t) \/ CliStopTask(r, t)
           \/ \E k \in Keys : EmergencyStop(k) \/ EmergencyResume(k)
           \/ \E s \in Scopes : SetScope(s)
           \/ Crash
<1>1. CASE \E e \in Executor : WorkerStep(e) \/ (WriteFails(e) /\ UNCHANGED <<aim, crashes>>)
  BY <1>1 DEF WorkerStep, ExecutorStepOf
<1>2. CASE \E e \in Executor : HandlerFails(e) \/ DatabaseKills(e) \/ DatabaseRaises(e)
  BY <1>2 DEF ExecutorStepOf
<1>. QED
  BY <1>1, <1>2 DEF Next, Request

LEMMA ReportsStep == TypeOK /\ Control /\ Reports /\ [Next]_desktopVars => Reports'
<1> SUFFICES ASSUME TypeOK, Control, Reports, [Next]_desktopVars
             PROVE  Reports'
  OBVIOUS
<1>1. CASE \/ \E k \in Keys : EmergencyStop(k) \/ EmergencyResume(k)
           \/ \E s \in Scopes : SetScope(s)
           \/ UNCHANGED desktopVars
  <2>1. UNCHANGED <<rows, upd, pc, rec, outcome, ledger, aim>>
    BY <1>1 DEF EmergencyStop, EmergencyResume, SetScope, desktopVars, orchestratorVars
  <2>. QED
    BY <2>1 DEF Reports, ExecutorReports, KeepsPlugin, Unused, Cur, Created
<1>. QED
  BY <1>1, NextStep, ExecutorReportsOn, ClaimReports, CreateReports, RequestReports, CrashReports

Calls(t) == Count(t, "TOOL_CALL")
Results(t) == Count(t, "TOOL_RESULT")

\* The plugins that were called for the task.
Called(t) ==
    {ledger[t][i].plugin : i \in {j \in DOMAIN ledger[t] : ledger[t][j].type = "TOOL_CALL"}}

CalledOnce(t) ==
    \A i, j \in DOMAIN ledger[t] :
        /\ ledger[t][i].type = "TOOL_CALL"
        /\ ledger[t][j].type = "TOOL_CALL"
        /\ ledger[t][i].plugin = ledger[t][j].plugin
        => i = j

\* The next plugin was not called for the task.
Fresh(t, plugin, tried) == Called(t) \subseteq tried /\ plugin \notin tried

Level(t, attempts) == Results(t) = attempts /\ Calls(t) = attempts

\* No attempt is under way, and the row names a plugin for the next one.
Ready(t) == Level(t, rows[t].attempts) /\ Fresh(t, rows[t].plugin, rows[t].tried)

RowAudit(t) ==
    /\ rows[t].attempts <= Results(t)
    /\ Results(t) <= Calls(t)
    /\ Calls(t) <= rows[t].attempts + 1
    /\ Calls(t) <= MaxAttempts[t]
    /\ CalledOnce(t)
    /\ rows[t].status = "queued" => Ready(t)

\* What is known while an executor is in update(), in the run and in the handler.
UpdateAudit(e, t) ==
    /\ upd[e].stage \in {"read", "write"} => rows[t].status \in {"queued", "running"}
    /\ (upd[e].stage = "read" /\ upd[e].keep) => Ready(t)
    /\ (upd[e].stage = "read" /\ ~upd[e].keep) =>
           /\ rows[t].status = "running"
           /\ upd[e].plugin = NoPlugin => upd[e].status \in Terminal
    /\ (upd[e].stage = "write" \/ (upd[e].stage = "read" /\ ~upd[e].keep)) =>
           /\ Level(t, upd[e].attempts)
           /\ upd[e].status \in {"queued", "running"} => Fresh(t, upd[e].plugin, upd[e].tried)
    /\ upd[e].stage = "get" =>
           /\ rows[t].status = upd[e].status
           /\ Level(t, rows[t].attempts)
           /\ upd[e].status \in {"queued", "running"} => Ready(t)

HandlerAudit(e, t) ==
    /\ upd[e].stage = "read" => upd[e].keep
    /\ upd[e].stage = "write" => upd[e].attempts = rows[t].attempts
    /\ upd[e].stage = "get" => rows[t].status = "failed"

\* What is known of the task at each place of the program.
ExecutorAudit(e, t) ==
    /\ pc[e] = "claim" => rows[t].status = "queued"
    /\ pc[e] = "start" => rows[t].status = "running" /\ Ready(t)
    /\ pc[e] \in HasRecord => rec[e] = RecordOf(t) /\ rows[t].status \in {"queued", "running"}
    /\ pc[e] \in HasRecord \ {"run_start", "loop"} => rows[t].status = "running"
    /\ pc[e] \in HasRecord \ {"plugin", "tool_result"} => Ready(t)
    /\ pc[e] \in {"plugin", "tool_result"} =>
           /\ Results(t) = rows[t].attempts
           /\ Calls(t) = rows[t].attempts + 1
           /\ Called(t) \subseteq rows[t].tried \cup {rows[t].plugin}
    /\ pc[e] = "updating" => UpdateAudit(e, t)
    /\ pc[e] = "handling" => HandlerAudit(e, t)
    /\ pc[e] \in {"handler_open", "handler_end"} => rows[t].status = "failed"
    /\ pc[e] = "run_end" => rows[t].status = outcome[e]

\* The ledger ends as the row does.
EndLogged(t) ==
    /\ ledger[t] # <<>>
    /\ ledger[t][Len(ledger[t])].type = "RUN_END"
    /\ ledger[t][Len(ledger[t])].status = rows[t].status

Undisturbed == crashes = 0 /\ \A e \in Executor : pc[e] # "dead"

TaskAudit(t) ==
    Untouched(t) =>
        /\ RowAudit(t)
        /\ \A e \in Executor : Cur(e) = t => ExecutorAudit(e, t)
        /\ (Undisturbed /\ rows[t].status \in Terminal /\ \A e \in Executor : Cur(e) # t)
               => EndLogged(t)

Audit == \A t \in Task : TaskAudit(t)

-----------------------------------------------------------------------------

Counts(line, type) == line.type = type /\ line.ended

\* What one more line does to the counts of a ledger.
LEMMA CountAdded ==
    ASSUME TypeOK, NEW t \in Task, NEW line \in Event \cup {Torn}, NEW type,
           ledger'[t] = Append(ledger[t], line)
    PROVE  /\ Count(t, type) \in Nat
           /\ Count(t, type)' = IF Counts(line, type) THEN Count(t, type) + 1 ELSE Count(t, type)
<1> DEFINE n == Len(ledger[t])
           S == {i \in DOMAIN ledger[t] : Counts(ledger[t][i], type)}
<1>1. /\ n \in Nat /\ DOMAIN ledger[t] = 1..n /\ DOMAIN ledger'[t] = 1..(n + 1)
      /\ \A i \in 1..n : ledger'[t][i] = ledger[t][i]
      /\ ledger'[t][n + 1] = line
  BY LenProperties, AppendProperties DEF TypeOK
<1>2. {i \in DOMAIN ledger'[t] : Counts(ledger'[t][i], type)}
          = IF Counts(line, type) THEN S \cup {n + 1} ELSE S
  <2> HIDE DEF n
  <2>1. 1..(n + 1) = 1..n \cup {n + 1} /\ n + 1 \notin 1..n
    BY <1>1
  <2>2. \A i : i \in S <=> i \in 1..n /\ Counts(ledger[t][i], type)
    BY <1>1
  <2>3. \A i : i \in {k \in DOMAIN ledger'[t] : Counts(ledger'[t][k], type)}
               <=> i \in 1..(n + 1) /\ Counts(ledger'[t][i], type)
    BY <1>1
  <2> HIDE DEF S
  <2>4. CASE Counts(line, type)
    BY <1>1, <2>1, <2>2, <2>3, <2>4
  <2>5. CASE ~Counts(line, type)
    BY <1>1, <2>1, <2>2, <2>3, <2>5
  <2>. QED
    BY <2>4, <2>5
<1>3. IsFiniteSet(S) /\ n + 1 \notin S
  <2>2. \A m \in Nat : IsFiniteSet(1..m)
    BY FS_Interval
  <2>1. IsFiniteSet(1..n)
    BY <1>1, <2>2
  <2>. QED
    BY <1>1, <2>1, FS_Subset
<1>4. Cardinality(S) \in Nat /\ Cardinality(S \cup {n + 1}) = Cardinality(S) + 1
  BY <1>3, FS_CardinalityType, FS_AddElement
<1>. QED
  BY <1>2, <1>4 DEF Count, Counts

\* What it does to the plugins that were called.
LEMMA CallAdded ==
    ASSUME TypeOK, NEW t \in Task, NEW line \in Event \cup {Torn},
           ledger'[t] = Append(ledger[t], line)
    PROVE  /\ Called(t)' = IF line.type = "TOOL_CALL" THEN Called(t) \cup {line.plugin}
                           ELSE Called(t)
           /\ (CalledOnce(t) /\ (line.type = "TOOL_CALL" => line.plugin \notin Called(t)))
                  => CalledOnce(t)'
<1> DEFINE n == Len(ledger[t])
<1>1. /\ n \in Nat /\ DOMAIN ledger[t] = 1..n /\ DOMAIN ledger'[t] = 1..(n + 1)
      /\ \A i \in 1..n : ledger'[t][i] = ledger[t][i]
      /\ ledger'[t][n + 1] = line
  BY LenProperties, AppendProperties DEF TypeOK
<1> HIDE DEF n
<1>2. 1..(n + 1) = 1..n \cup {n + 1} /\ n + 1 \notin 1..n
  BY <1>1
<1>3. Called(t)' = IF line.type = "TOOL_CALL" THEN Called(t) \cup {line.plugin} ELSE Called(t)
  <2>1. \A p : p \in Called(t) <=> \E i \in 1..n : ledger[t][i].type = "TOOL_CALL" /\ ledger[t][i].plugin = p
    BY <1>1 DEF Called
  <2>2. \A p : p \in Called(t)' <=>
            \E i \in 1..(n + 1) : ledger'[t][i].type = "TOOL_CALL" /\ ledger'[t][i].plugin = p
    BY <1>1 DEF Called
  <2>3. ASSUME NEW p
        PROVE  p \in Called(t)' <=> p \in Called(t) \/ (line.type = "TOOL_CALL" /\ line.plugin = p)
    <3>1. ASSUME p \in Called(t)'
          PROVE  p \in Called(t) \/ (line.type = "TOOL_CALL" /\ line.plugin = p)
      <4>1. PICK i \in 1..(n + 1) : ledger'[t][i].type = "TOOL_CALL" /\ ledger'[t][i].plugin = p
        BY <2>2, <3>1
      <4>2. CASE i \in 1..n
        BY <1>1, <2>1, <4>1, <4>2
      <4>3. CASE i = n + 1
        BY <1>1, <4>1, <4>3
      <4>. QED
        BY <1>2, <4>1, <4>2, <4>3
    <3>2. ASSUME p \in Called(t)
          PROVE  p \in Called(t)'
      <4>1. PICK i \in 1..n : ledger[t][i].type = "TOOL_CALL" /\ ledger[t][i].plugin = p
        BY <2>1, <3>2
      <4>2. i \in 1..(n + 1) /\ ledger'[t][i] = ledger[t][i]
        BY <1>1, <1>2, <4>1
      <4>. QED
        BY <2>2, <4>1, <4>2
    <3>3. ASSUME line.type = "TOOL_CALL", line.plugin = p
          PROVE  p \in Called(t)'
      <4>1. n + 1 \in 1..(n + 1)
        BY <1>2
      <4>. QED
        BY <1>1, <2>2, <3>3, <4>1
    <3>. QED
      BY <3>1, <3>2, <3>3
  <2>. QED
    BY <2>3
<1>4. ASSUME CalledOnce(t), line.type = "TOOL_CALL" => line.plugin \notin Called(t)
      PROVE  CalledOnce(t)'
  <2> SUFFICES ASSUME NEW i \in 1..(n + 1), NEW j \in 1..(n + 1),
                      ledger'[t][i].type = "TOOL_CALL", ledger'[t][j].type = "TOOL_CALL",
                      ledger'[t][i].plugin = ledger'[t][j].plugin
               PROVE  i = j
    BY <1>1 DEF CalledOnce
  <2>1. \A k \in 1..n : ledger[t][k].type = "TOOL_CALL" => ledger[t][k].plugin \in Called(t)
    BY <1>1 DEF Called
  <2>2. CASE i \in 1..n /\ j \in 1..n
    BY <1>1, <1>4, <2>2 DEF CalledOnce
  <2>3. CASE i = n + 1 /\ j \in 1..n
    BY <1>1, <1>4, <2>1, <2>3
  <2>4. CASE i \in 1..n /\ j = n + 1
    BY <1>1, <1>4, <2>1, <2>4
  <2>. QED
    BY <1>2, <2>2, <2>3, <2>4
<1>. QED
  BY <1>3, <1>4

LEMMA CountType ==
    ASSUME TypeOK, NEW t \in Task, NEW type
    PROVE  Count(t, type) \in Nat
<1>1. DOMAIN ledger[t] = 1..Len(ledger[t]) /\ Len(ledger[t]) \in Nat
  BY LenProperties DEF TypeOK
<1>2. \A m \in Nat : IsFiniteSet(1..m)
  BY FS_Interval
<1>3. IsFiniteSet({i \in DOMAIN ledger[t] : ledger[t][i].type = type /\ ledger[t][i].ended})
  BY <1>1, <1>2, FS_Subset
<1>. QED
  BY <1>3, FS_CardinalityType DEF Count

\* A ledger with the same calls and results as before.
SameCalls(t) ==
    /\ Calls(t)' = Calls(t) /\ Results(t)' = Results(t) /\ Called(t)' = Called(t)
    /\ CalledOnce(t) => CalledOnce(t)'

LEMMA NoLine ==
    ASSUME NEW t, ledger'[t] = ledger[t]
    PROVE  SameCalls(t)
BY DEF SameCalls, Calls, Results, Called, CalledOnce, Count

LEMMA OtherLine ==
    ASSUME TypeOK, NEW t \in Task, NEW line \in Event \cup {Torn},
           line.type # "TOOL_CALL", ~Counts(line, "TOOL_RESULT"),
           ledger'[t] = Append(ledger[t], line)
    PROVE  SameCalls(t)
<1>1. \A type \in {"TOOL_CALL", "TOOL_RESULT"} : Count(t, type)' = Count(t, type)
  BY CountAdded DEF Counts
<1>. QED
  BY <1>1, CallAdded DEF SameCalls, Calls, Results

\* A row that stays in the same state of attempts, with the same calls.
LEMMA RowAuditKept ==
    ASSUME NEW t, RowAudit(t), SameCalls(t), rows'[t] = rows[t]
    PROVE  RowAudit(t)'
BY DEF RowAudit, SameCalls, Ready, Level, Fresh

\* What holds of the task of an executor after a step.
AuditAfter(e, t) ==
    /\ RowAudit(t)'
    /\ Cur(e)' = t => ExecutorAudit(e, t)'
    /\ (Undisturbed' /\ rows'[t].status \in Terminal /\ Cur(e)' # t) => EndLogged(t)'

\* A task that no executor has, before or after the step.
LEMMA AuditElsewhere ==
    ASSUME NEW t \in Task, TaskAudit(t), rows'[t] = rows[t], ledger'[t] = ledger[t],
           Untouched(t)' => Untouched(t), Undisturbed' => Undisturbed,
           \A e \in Executor : Cur(e) # t, \A e \in Executor : Cur(e)' # t
    PROVE  TaskAudit(t)'
<1>1. RowAudit(t) => RowAudit(t)'
  BY NoLine, RowAuditKept
<1>2. EndLogged(t) => EndLogged(t)'
  BY DEF EndLogged
<1>. QED
  BY <1>1, <1>2 DEF TaskAudit

LEMMA AuditKept ==
    ASSUME TypeOK, Control, Audit, NEW e \in Executor, ExecutorStepOf(e),
           \A t \in Task : (t = Cur(e) /\ RowAudit(t) /\ ExecutorAudit(e, t)) => AuditAfter(e, t)
    PROVE  Audit'
<1>1. /\ aim' = aim /\ crashes' = crashes
      /\ \A t \in Task \ {Cur(e)} : rows'[t] = rows[t] /\ ledger'[t] = ledger[t]
      /\ Cur(e)' \in {Cur(e), NoTask}
  BY ExecutorFrame
<1>2. \A x \in Executor : x = e
  BY DesktopAssumption
<1>3. pc[e] # "dead"
  BY DEF Control, ExecutorOK, Updating, ExecutorStepOf, UpdateStep, UpdateRead, UpdateWrite,
     ClaimUpdate, Handle, HandlerUpdated, HandlerOpen, HandlerLog, HandlerFails, DatabaseKills,
     DatabaseRaises, RunStep, OpenRun, LogRunStart, TestLoop, CheckScope, CheckStops, CheckAction,
     LogToolCall, RunPlugin, LogToolResult, UpdateReturns, LogRunEnd, WriteFails
<1>4. Undisturbed' => Undisturbed
  BY <1>1, <1>2, <1>3 DEF Undisturbed
<1>5. ASSUME NEW t \in Task, t # Cur(e)
      PROVE  TaskAudit(t)'
  <2>1. Cur(e)' # t
    BY <1>1, <1>5, RepositoryAssumption
  <2>. QED
    BY <1>1, <1>2, <1>4, <1>5, <2>1, AuditElsewhere DEF Audit, Untouched
<1>6. ASSUME NEW t \in Task, t = Cur(e)
      PROVE  TaskAudit(t)'
  <2> SUFFICES ASSUME Untouched(t)
               PROVE  /\ RowAudit(t)'
                      /\ \A x \in Executor : Cur(x)' = t => ExecutorAudit(x, t)'
                      /\ (Undisturbed' /\ rows'[t].status \in Terminal /\ \A x \in Executor : Cur(x)' # t)
                             => EndLogged(t)'
    BY <1>1 DEF TaskAudit, Untouched
  <2>1. RowAudit(t) /\ ExecutorAudit(e, t)
    BY <1>6 DEF Audit, TaskAudit
  <2>2. AuditAfter(e, t)
    BY <1>6, <2>1
  <2>. QED
    BY <1>2, <2>2 DEF AuditAfter
<1>. QED
  BY <1>5, <1>6 DEF Audit

-----------------------------------------------------------------------------

\* Steps of the run that move the executor and write neither the row nor the ledger.
LEMMA MovesAudit ==
    ASSUME TypeOK, Control, Reports, NEW e \in Executor, NEW t \in Task, t = Cur(e),
           RowAudit(t), ExecutorAudit(e, t),
           \/ OpenRun(e) \/ CheckScope(e) \/ CheckStops(e) \/ CheckAction(e) \/ RunPlugin(e)
           \/ TestLoop(e) \/ UpdateReturns(e)
    PROVE  AuditAfter(e, t)
<1> USE DEF Goto, TypeOK, Cur
<1>1. rows' = rows /\ ledger' = ledger
  BY DEF OpenRun, CheckScope, CheckStops, CheckAction, RunPlugin, TestLoop, UpdateReturns, UpdateGet
<1>2. SameCalls(t) /\ RowAudit(t)'
  BY <1>1, NoLine, RowAuditKept
<1>3. ExecutorReports(e) /\ ExecutorOK(e)
  BY DEF Reports, Control
<1> SUFFICES /\ Cur(e)' = t => ExecutorAudit(e, t)'
             /\ (rows[t].status \in Terminal /\ Cur(e)' # t) => FALSE
  BY <1>1, <1>2 DEF AuditAfter
<1> DEFINE AtT == Cur(e)' = t
<1>4. CASE OpenRun(e)
  <2>1. rec'[e] = RecordOf(t) /\ pc'[e] \in {"raised", "run_start", "loop"} /\ AtT
    BY <1>4 DEF OpenRun, RecordOf
  <2>2. pc[e] = "start"
    BY <1>4 DEF OpenRun
  <2>. QED
    BY <1>1, <1>2, <2>1, <2>2 DEF ExecutorAudit, HasRecord, RecordOf, Ready, Level, Fresh, SameCalls
<1>5. CASE CheckScope(e) \/ CheckStops(e) \/ CheckAction(e)
  <2>1. /\ pc[e] \in HasRecord \ {"run_start", "loop", "plugin", "tool_result"} /\ rec' = rec
        /\ \/ pc'[e] \in {"policy_stops", "policy_action", "tool_call", "raised"}
           \/ pc'[e] = "updating" /\ \E status \in Terminal : upd'[e] = SetStatus(t, status)
    BY <1>5 DEF CheckScope, CheckStops, CheckAction, Deny, DenialStatus, StartUpdate, HasRecord,
       Terminal
  <2>2. rows[t].status = "running" /\ Ready(t) /\ rec[e] = RecordOf(t)
    BY <2>1 DEF ExecutorAudit, HasRecord
  <2>. QED
    BY <1>1, <1>2, <2>1, <2>2
       DEF ExecutorAudit, UpdateAudit, HasRecord, RecordOf, Ready, Level, Fresh, SameCalls, SetStatus,
           Terminal
<1>6. CASE RunPlugin(e)
  BY <1>1, <1>2, <1>6
     DEF RunPlugin, ExecutorAudit, HasRecord, RecordOf, Ready, Level, Fresh, SameCalls, Terminal
<1>7. CASE TestLoop(e)
  <2>1. rec[e] = RecordOf(t) /\ rows[t].status \in {"queued", "running"} /\ Ready(t)
    BY <1>7 DEF TestLoop, ExecutorAudit, HasRecord
  <2>2. rec[e].status = rows[t].status
    BY <2>1 DEF RecordOf
  <2>3. /\ rec' = rec
        /\ \/ pc'[e] = "policy_scope" /\ rows[t].status = "running"
           \/ pc'[e] = "updating" /\ upd'[e] = SetStatus(t, "running")
    BY <1>7, <2>1, <2>2 DEF TestLoop, StartUpdate, Terminal
  <2>4. Ready(t)' /\ rows[t].status \notin Terminal
    BY <1>1, <1>2, <2>1 DEF Ready, Level, Fresh, SameCalls, Terminal
  <2>5. CASE pc'[e] = "policy_scope"
    <3>1. rec'[e] = RecordOf(t)' /\ rows'[t].status = "running"
      BY <1>1, <2>1, <2>3, <2>5 DEF RecordOf
    <3>. QED
      BY <1>1, <2>4, <2>5, <3>1 DEF ExecutorAudit, HasRecord
  <2>6. CASE pc'[e] = "updating" /\ upd'[e] = SetStatus(t, "running")
    <3>1. UpdateAudit(e, t)'
      BY <1>1, <2>1, <2>4, <2>6 DEF UpdateAudit, SetStatus
    <3>. QED
      BY <1>1, <2>4, <2>6, <3>1 DEF ExecutorAudit, HasRecord
  <2>. QED
    BY <2>3, <2>5, <2>6
<1>8. CASE UpdateReturns(e)
  <2>1. /\ pc[e] = "updating" /\ upd[e].stage = "get" /\ rec'[e] = RecordOf(t) /\ outcome' = outcome
        /\ \/ upd[e].status \in Terminal /\ pc'[e] = "run_end"
           \/ upd[e].status = "running" /\ pc'[e] = "policy_scope"
           \/ upd[e].status = "queued" /\ pc'[e] = "loop"
    <3>1. upd[e].status \in {"queued", "running"} \cup Terminal
      BY <1>8, OrchestratorAssumption DEF UpdateReturns, UpdateGet, Control, CallOK
    <3>. QED
      BY <1>8, <3>1 DEF UpdateReturns, UpdateGet, Terminal
  <2>2. /\ rows[t].status = upd[e].status
        /\ upd[e].status \in {"queued", "running"} => Ready(t)
        /\ upd[e].status \in Terminal => outcome[e] = upd[e].status
    BY <1>3, <2>1 DEF ExecutorAudit, UpdateAudit, ExecutorReports
  <2>3. AtT
    BY <2>1 DEF RecordOf
  <2>. QED
    BY <1>1, <1>2, <2>1, <2>2, <2>3
       DEF ExecutorAudit, HasRecord, RecordOf, Ready, Level, Fresh, SameCalls, Terminal
<1>. QED
  BY <1>4, <1>5, <1>6, <1>7, <1>8

\* The same in the handler, and when a statement fails.
LEMMA HandlerAuditKept ==
    ASSUME TypeOK, Control, Reports, NEW e \in Executor, NEW t \in Task, t = Cur(e),
           RowAudit(t), ExecutorAudit(e, t),
           \/ Handle(e) \/ HandlerUpdated(e) \/ HandlerOpen(e)
           \/ DatabaseKills(e) \/ DatabaseRaises(e)
    PROVE  AuditAfter(e, t)
<1> USE DEF Goto, TypeOK, Cur
<1>1. rows' = rows /\ ledger' = ledger
  BY DEF Handle, HandlerUpdated, HandlerOpen, UpdateGet, DatabaseKills, DatabaseRaises, DatabaseFault
<1>2. RowAudit(t)'
  BY <1>1, NoLine, RowAuditKept
<1>3. CASE Handle(e)
  BY <1>1, <1>2, <1>3 DEF Handle, AuditAfter, ExecutorAudit, HandlerAudit, HasRecord, SetStatus
<1>4. CASE HandlerUpdated(e)
  <2>1. rows[t].status = "failed" /\ pc'[e] = "handler_open" /\ rec' = rec
    BY <1>4 DEF HandlerUpdated, UpdateGet, ExecutorAudit, HandlerAudit
  <2>. QED
    BY <1>1, <1>2, <2>1 DEF AuditAfter, ExecutorAudit, HasRecord
<1>5. CASE HandlerOpen(e)
  <2>1. rows[t].status = "failed" /\ (pc'[e] = "dead" \/ (pc'[e] = "handler_end" /\ rec' = rec))
    BY <1>5 DEF HandlerOpen, Leave, ExecutorAudit
  <2>. QED
    BY <1>1, <1>2, <2>1 DEF AuditAfter, ExecutorAudit, HasRecord, Undisturbed
<1>6. CASE DatabaseKills(e)
  BY <1>1, <1>2, <1>6 DEF DatabaseKills, Leave, AuditAfter, ExecutorAudit, HasRecord, Undisturbed
<1>7. CASE DatabaseRaises(e)
  BY <1>1, <1>2, <1>7 DEF DatabaseRaises, AuditAfter, ExecutorAudit, HasRecord
<1>. QED
  BY <1>3, <1>4, <1>5, <1>6, <1>7

\* The line of a plugin call: it is the next one, of a plugin that was not called.
LEMMA CallAudit ==
    ASSUME TypeOK, Attempts, NEW e \in Executor, NEW t \in Task, t = Cur(e),
           RowAudit(t), ExecutorAudit(e, t), pc[e] = "tool_call", rows' = rows,
           ledger'[t] = Append(ledger[t], NextEvent(e, "TOOL_CALL"))
    PROVE  /\ RowAudit(t)' /\ rows[t].status = "running" /\ rec[e] = RecordOf(t)
           /\ Results(t)' = rows[t].attempts /\ Calls(t)' = rows[t].attempts + 1
           /\ Called(t)' \subseteq rows[t].tried \cup {rows[t].plugin}
<1> DEFINE line == NextEvent(e, "TOOL_CALL")
<1>1. Ready(t) /\ rec[e] = RecordOf(t) /\ rows[t].status = "running"
  BY DEF ExecutorAudit, HasRecord
<1>2. line.type = "TOOL_CALL" /\ line.plugin = rows[t].plugin /\ Counts(line, "TOOL_CALL")
  BY <1>1 DEF NextEvent, RecordOf, Counts
<1>3. line \in Event \cup {Torn}
  <2>1. TypeAt(pc[e]) = "TOOL_CALL"
    BY DEF TypeAt
  <2>. QED
    BY <2>1, NextEventType
<1> HIDE DEF line
<1>4. /\ Calls(t)' = Calls(t) + 1 /\ Results(t)' = Results(t)
      /\ Calls(t) = rows[t].attempts /\ Results(t) = rows[t].attempts
  <2>1. ledger'[t] = Append(ledger[t], line)
    BY DEF line
  <2>2. \A type : Count(t, type)' = IF Counts(line, type) THEN Count(t, type) + 1 ELSE Count(t, type)
    BY <1>3, <2>1, CountAdded
  <2>3. ~Counts(line, "TOOL_RESULT")
    BY <1>2 DEF Counts
  <2>. QED
    BY <1>1, <1>2, <2>2, <2>3 DEF Calls, Results, Ready, Level
<1>5. Called(t)' = Called(t) \cup {rows[t].plugin} /\ Called(t) \subseteq rows[t].tried
      /\ CalledOnce(t)'
  <2>1. rows[t].plugin \notin Called(t) /\ Called(t) \subseteq rows[t].tried /\ CalledOnce(t)
    BY <1>1 DEF Ready, Fresh, RowAudit
  <2>. QED
    BY <1>2, <1>3, <2>1, CallAdded DEF line
<1>6. rows[t].attempts \in Nat /\ rows[t].attempts < MaxAttempts[t] /\ MaxAttempts[t] \in Nat
  BY <1>1, LimitPositive DEF Attempts, ExecutorInBounds, HasRecord, RecordOf, TypeOK, Row
<1>7. RowAudit(t)'
  BY <1>1, <1>4, <1>5, <1>6 DEF RowAudit
<1>. QED
  BY <1>1, <1>4, <1>5, <1>7

\* The line of a result: the call it belongs to is no longer open.
LEMMA ResultAudit ==
    ASSUME TypeOK, NEW e \in Executor, NEW t \in Task, t = Cur(e),
           RowAudit(t), ExecutorAudit(e, t), pc[e] = "tool_result", rows' = rows,
           ledger'[t] = Append(ledger[t], NextEvent(e, "TOOL_RESULT"))
    PROVE  /\ RowAudit(t)' /\ rows[t].status = "running" /\ rec[e] = RecordOf(t)
           /\ Results(t)' = rows[t].attempts + 1 /\ Calls(t)' = rows[t].attempts + 1
           /\ Called(t)' \subseteq rows[t].tried \cup {rows[t].plugin}
<1> DEFINE line == NextEvent(e, "TOOL_RESULT")
<1>1. rec[e] = RecordOf(t) /\ rows[t].status = "running"
      /\ Results(t) = rows[t].attempts /\ Calls(t) = rows[t].attempts + 1
      /\ Called(t) \subseteq rows[t].tried \cup {rows[t].plugin}
  BY DEF ExecutorAudit, HasRecord
<1>2. line.type = "TOOL_RESULT" /\ Counts(line, "TOOL_RESULT")
  BY DEF NextEvent, Counts
<1>3. line \in Event \cup {Torn}
  <2>1. TypeAt(pc[e]) = "TOOL_RESULT"
    BY DEF TypeAt
  <2>. QED
    BY <2>1, NextEventType
<1> HIDE DEF line
<1>4. Calls(t)' = Calls(t) /\ Results(t)' = Results(t) + 1
  <2>1. ledger'[t] = Append(ledger[t], line)
    BY DEF line
  <2>2. \A type : Count(t, type)' = IF Counts(line, type) THEN Count(t, type) + 1 ELSE Count(t, type)
    BY <1>3, <2>1, CountAdded
  <2>3. ~Counts(line, "TOOL_CALL")
    BY <1>2 DEF Counts
  <2>. QED
    BY <1>2, <2>2, <2>3 DEF Calls, Results
<1>5. Called(t)' = Called(t) /\ (CalledOnce(t) => CalledOnce(t)')
  BY <1>2, <1>3, CallAdded DEF line
<1>6. rows[t].attempts \in Nat
  BY DEF TypeOK, Row
<1>7. RowAudit(t)'
  BY <1>1, <1>4, <1>5, <1>6 DEF RowAudit
<1>. QED
  BY <1>1, <1>4, <1>5, <1>7

\* A line that is neither keeps what is known of the attempts.
LEMMA NeutralLine ==
    ASSUME TypeOK, NEW e \in Executor, NEW t \in Task, t = Cur(e), RowAudit(t), rows' = rows,
           pc[e] \in {"run_start", "run_end", "handler_end"},
           ledger'[t] = Append(ledger[t], NextEvent(e, TypeAt(pc[e])))
    PROVE  SameCalls(t) /\ RowAudit(t)'
<1>1. NextEvent(e, TypeAt(pc[e])).type \notin {"TOOL_CALL", "TOOL_RESULT"}
  BY DEF NextEvent, TypeAt
<1>2. SameCalls(t)
  BY <1>1, NextEventType, OtherLine DEF Counts
<1>. QED
  BY <1>2, RowAuditKept

\* Steps that write a line.
LEMMA LinesAudit ==
    ASSUME TypeOK, Control, Reports, Attempts, NEW e \in Executor, NEW t \in Task, t = Cur(e),
           RowAudit(t), ExecutorAudit(e, t),
           LogRunStart(e) \/ LogToolCall(e) \/ LogToolResult(e) \/ LogRunEnd(e) \/ HandlerLog(e)
    PROVE  AuditAfter(e, t)
<1> USE DEF Goto, Cur
<1> DEFINE line == NextEvent(e, TypeAt(pc[e]))
<1>1. rows' = rows /\ ledger'[t] = Append(ledger[t], line)
  BY DEF LogRunStart, LogToolCall, LogToolResult, LogRunEnd, HandlerLog, WriteEvent, WriteLine,
     TypeOK
<1>2. CASE LogRunStart(e)
  <2>1. pc[e] = "run_start" /\ pc'[e] = "loop" /\ rec' = rec
    BY <1>2 DEF LogRunStart, WriteEvent, TypeOK
  <2>2. SameCalls(t) /\ RowAudit(t)'
    BY <1>1, <2>1, NeutralLine
  <2>3. rec[e] = RecordOf(t) /\ rows[t].status \in {"queued", "running"} /\ Ready(t)
    BY <2>1 DEF ExecutorAudit, HasRecord
  <2>. QED
    BY <1>1, <2>1, <2>2, <2>3
       DEF AuditAfter, ExecutorAudit, HasRecord, RecordOf, Ready, Level, Fresh, SameCalls
<1>3. CASE LogToolCall(e)
  <2>1. pc[e] = "tool_call" /\ pc'[e] = "plugin" /\ rec' = rec
    BY <1>3 DEF LogToolCall, WriteEvent, TypeOK
  <2>2. TypeAt(pc[e]) = "TOOL_CALL"
    BY <2>1 DEF TypeAt
  <2>. QED
    BY <1>1, <2>1, <2>2, CallAudit DEF AuditAfter, ExecutorAudit, HasRecord, RecordOf
<1>4. CASE LogToolResult(e)
  <2>1. pc[e] = "tool_result" /\ pc'[e] = "updating" /\ rec' = rec /\ upd'[e] = AfterAttempt(e)
    BY <1>4, OrchestratorAssumption DEF LogToolResult, WriteEvent, StartUpdate, TypeOK
  <2>2. TypeAt(pc[e]) = "TOOL_RESULT"
    BY <2>1 DEF TypeAt
  <2>3. /\ RowAudit(t)' /\ rows[t].status = "running" /\ rec[e] = RecordOf(t)
        /\ Results(t)' = rows[t].attempts + 1 /\ Calls(t)' = rows[t].attempts + 1
        /\ Called(t)' \subseteq rows[t].tried \cup {rows[t].plugin}
    BY <1>1, <2>1, <2>2, ResultAudit
  <2> DEFINE tried == rows[t].tried \cup {rows[t].plugin}
             next == NextPlugin(rows[t].plugin, tried)
  <2>4. rows[t].plugin \in Plugin /\ tried \in SUBSET Plugin
    BY <2>1, <2>3 DEF TypeOK, Created, Row
  <2>5. next \in (Plugin \ tried) \cup {NoPlugin}
    BY <2>4, NextPluginType
  <2>6. /\ upd'[e].stage = "read" /\ ~upd'[e].keep /\ upd'[e].attempts = rows[t].attempts + 1
        /\ upd'[e].status \in {"succeeded", "queued", "failed"}
        /\ upd'[e].status = "queued" =>
               upd'[e].plugin = next /\ next # NoPlugin /\ upd'[e].tried = tried
    BY <2>1, <2>3 DEF AfterAttempt, SetProgress, RecordOf
  <2> HIDE DEF next, tried
  <2>8. upd'[e].status = "queued" => Called(t)' \subseteq upd'[e].tried /\ upd'[e].plugin \notin upd'[e].tried
    BY <2>3, <2>5, <2>6 DEF tried
  <2>9. UpdateAudit(e, t)'
    BY <1>1, <2>3, <2>6, <2>8 DEF UpdateAudit, Level, Fresh, Terminal
  <2>. QED
    BY <1>1, <2>1, <2>3, <2>9 DEF AuditAfter, ExecutorAudit, HasRecord, Terminal
<1>5. CASE LogRunEnd(e) \/ HandlerLog(e)
  <2>1. pc[e] \in {"run_end", "handler_end"} /\ Cur(e)' = NoTask
    BY <1>5 DEF LogRunEnd, HandlerLog, Leave, TypeOK, NoRecord
  <2>2. RowAudit(t)'
    BY <1>1, <2>1, NeutralLine
  <2>3. line.type = "RUN_END" /\ line.status = rows[t].status
    BY <2>1 DEF NextEvent, TypeAt, ExecutorAudit, Reports, ExecutorReports
  <2>4. EndLogged(t)'
    <3>1. ledger[t] \in Seq(Event \cup {Torn}) /\ line \in Event \cup {Torn}
      BY NextEventType DEF TypeOK
    <3> HIDE DEF line
    <3>2. /\ Len(ledger'[t]) = Len(ledger[t]) + 1 /\ Len(ledger[t]) \in Nat
          /\ ledger'[t][Len(ledger[t]) + 1] = line
      BY <1>1, <3>1, AppendProperties, LenProperties
    <3>3. ledger'[t] # <<>>
      BY <3>2, EmptySeq
    <3>. QED
      BY <1>1, <2>3, <3>2, <3>3 DEF EndLogged
  <2>5. Cur(e)' # t
    BY <2>1, RepositoryAssumption
  <2>. QED
    BY <2>2, <2>4, <2>5 DEF AuditAfter
<1>. QED
  BY <1>2, <1>3, <1>4, <1>5

\* A line that was cut counts for nothing, and the plugin it may name was not called.
LEMMA CutAudit ==
    ASSUME TypeOK, Control, NEW e \in Executor, NEW t \in Task, t = Cur(e), pc[e] \in Writing,
           RowAudit(t), ExecutorAudit(e, t), rows' = rows, CutLine(e)
    PROVE  RowAudit(t)'
<1> DEFINE event == NextEvent(e, TypeAt(pc[e]))
<1>1. PICK line \in {Torn, Unended(event)} : ledger' = [ledger EXCEPT ![t] = Append(@, line)]
  BY DEF CutLine
<1>2. line \in Event \cup {Torn} /\ ledger'[t] = Append(ledger[t], line)
  BY <1>1, NextEventType DEF TypeOK
<1>3. \A type : ~Counts(line, type) \/ line.type = "torn"
  BY DEF Counts, Torn, Unended, NextEvent
<1>4. CASE line.type # "TOOL_CALL"
  <2>1. ~Counts(line, "TOOL_RESULT")
    BY <1>3 DEF Counts
  <2>. QED
    BY <1>2, <1>4, <2>1, OtherLine, RowAuditKept
<1>5. CASE line.type = "TOOL_CALL"
  <2>1. line = Unended(event) /\ event.type = "TOOL_CALL"
    BY <1>1, <1>5 DEF Torn, Unended, NextEvent
  <2>2. pc[e] = "tool_call" /\ line.plugin = rec[e].plugin
    BY <2>1 DEF Unended, NextEvent, TypeAt, Writing
  <2>3. Ready(t) /\ rec[e] = RecordOf(t) /\ rows[t].status = "running"
    BY <2>2 DEF ExecutorAudit, HasRecord
  <2>4. line.plugin \notin Called(t)
    BY <2>2, <2>3 DEF Ready, Fresh, RecordOf
  <2>5. Calls(t)' = Calls(t) /\ Results(t)' = Results(t)
    BY <1>2, <1>3, <1>5, CountAdded DEF Calls, Results
  <2>6. CalledOnce(t)'
    BY <1>2, <2>4, CallAdded DEF RowAudit
  <2>. QED
    BY <2>3, <2>5, <2>6 DEF RowAudit
<1>. QED
  BY <1>4, <1>5

\* A write that fails leaves nothing, a cut line, or the line.
LEMMA FaultAudit ==
    ASSUME TypeOK, Control, Reports, Attempts, NEW e \in Executor, NEW t \in Task, t = Cur(e),
           RowAudit(t), ExecutorAudit(e, t), WriteFails(e) \/ HandlerFails(e)
    PROVE  AuditAfter(e, t)
<1> DEFINE line == NextEvent(e, TypeAt(pc[e]))
<1>1. PICK label \in {"raised", "dead"} :
          LedgerFault(e, label) /\ (label = "raised" => WriteFails(e))
  BY DEF WriteFails, HandlerFails
<1>2. pc[e] \in Writing /\ (HandlerFails(e) => pc[e] = "handler_end")
  BY DEF WriteFails, HandlerFails, Writing
<1>3. rows' = rows /\ pc'[e] = label /\ Cur(e)' = t
  BY <1>1 DEF LedgerFault, Goto, TypeOK, Cur
<1>4. ledger' = ledger \/ CutLine(e) \/ ledger'[t] = Append(ledger[t], line)
  BY <1>1 DEF LedgerFault, WriteLine, TypeOK
<1>5. RowAudit(t)'
  <2>1. CASE ledger' = ledger
    BY <1>3, <2>1, NoLine, RowAuditKept
  <2>2. CASE CutLine(e)
    BY <1>2, <1>3, <2>2, CutAudit
  <2>3. CASE ledger'[t] = Append(ledger[t], line)
    <3>1. CASE pc[e] = "tool_call"
      BY <1>3, <2>3, <3>1, CallAudit DEF TypeAt
    <3>2. CASE pc[e] = "tool_result"
      BY <1>3, <2>3, <3>2, ResultAudit DEF TypeAt
    <3>3. CASE pc[e] \in {"run_start", "run_end", "handler_end"}
      BY <1>3, <2>3, <3>3, NeutralLine
    <3>. QED
      BY <1>2, <3>1, <3>2, <3>3 DEF Writing
  <2>. QED
    BY <1>4, <2>1, <2>2, <2>3
<1>. QED
  BY <1>3, <1>5 DEF AuditAfter, ExecutorAudit, HasRecord, Undisturbed

\* What the executor reads in update() is the row it will write.
LEMMA ReadAudit ==
    ASSUME TypeOK, Control, Reports, NEW e \in Executor, NEW t \in Task, t = Cur(e),
           RowAudit(t), ExecutorAudit(e, t), UpdateStep(e), UpdateRead(e)
    PROVE  AuditAfter(e, t)
<1>1. /\ pc' = pc /\ rec' = rec /\ rows' = rows /\ ledger' = ledger /\ outcome' = outcome
      /\ upd[e].stage = "read" /\ upd[e].task = t /\ pc[e] \in Updating /\ e \in Client
      /\ upd' = [upd EXCEPT ![e] = Merge(upd[e], rows[t])]
  BY OrchestratorAssumption DEF UpdateStep, UpdateRead, Control, ExecutorOK
<1>2. SameCalls(t) /\ RowAudit(t)' /\ Cur(e)' = t
  BY <1>1, NoLine, RowAuditKept DEF Cur
<1>3. upd'[e] = Merge(upd[e], rows[t]) /\ upd[e] \in Call /\ KeepsPlugin(e)
  BY <1>1 DEF TypeOK, Reports
<1>4. /\ upd'[e].stage = "write" /\ upd'[e].status = upd[e].status
      /\ upd[e].keep => /\ upd'[e].attempts = rows[t].attempts /\ upd'[e].tried = rows[t].tried
                        /\ upd'[e].plugin = rows[t].plugin
      /\ ~upd[e].keep => /\ upd'[e].attempts = upd[e].attempts /\ upd'[e].tried = upd[e].tried
                         /\ upd[e].plugin # NoPlugin => upd'[e].plugin = upd[e].plugin
  <2>1. upd'[e] = [upd[e] EXCEPT !.stage = "write", !.keep = FALSE,
                       !.attempts = IF upd[e].keep THEN rows[t].attempts ELSE upd[e].attempts,
                       !.tried = IF upd[e].keep THEN rows[t].tried ELSE upd[e].tried,
                       !.plugin = IF upd[e].plugin = NoPlugin THEN rows[t].plugin
                                  ELSE upd[e].plugin]
    BY <1>3 DEF Merge
  <2>2. /\ upd'[e].stage = "write" /\ upd'[e].status = upd[e].status
        /\ upd'[e].attempts = IF upd[e].keep THEN rows[t].attempts ELSE upd[e].attempts
        /\ upd'[e].tried = IF upd[e].keep THEN rows[t].tried ELSE upd[e].tried
        /\ upd'[e].plugin = IF upd[e].plugin = NoPlugin THEN rows[t].plugin ELSE upd[e].plugin
    BY <1>3, <2>1 DEF Call
  <2>3. upd[e].keep => upd[e].plugin = NoPlugin
    BY <1>1, <1>3 DEF KeepsPlugin
  <2>. QED
    BY <2>2, <2>3
<1>5. CASE pc[e] = "updating"
  <2>1. UpdateAudit(e, t)
    BY <1>5 DEF ExecutorAudit
  <2>2. Ready(t)' = Ready(t)
    BY <1>1, <1>2 DEF Ready, Level, Fresh, SameCalls
  <2>3. UpdateAudit(e, t)'
    <3>1. CASE upd[e].keep
      <4>1. Ready(t) /\ rows[t].status \in {"queued", "running"}
        BY <1>1, <2>1, <3>1 DEF UpdateAudit
      <4>. QED
        BY <1>1, <1>2, <1>4, <3>1, <4>1 DEF UpdateAudit, Ready, Level, Fresh, SameCalls
    <3>2. CASE ~upd[e].keep
      <4>1. /\ rows[t].status = "running"
            /\ upd[e].plugin = NoPlugin => upd[e].status \in Terminal
            /\ Level(t, upd[e].attempts)
            /\ upd[e].status \in {"queued", "running"} => Fresh(t, upd[e].plugin, upd[e].tried)
        BY <1>1, <2>1, <3>2 DEF UpdateAudit
      <4>2. upd[e].status \in {"queued", "running"} => upd'[e].plugin = upd[e].plugin
        BY <1>4, <3>2, <4>1 DEF Terminal
      <4>. QED
        BY <1>1, <1>2, <1>4, <3>2, <4>1, <4>2 DEF UpdateAudit, Level, Fresh, SameCalls
    <3>. QED
      BY <3>1, <3>2
  <2>. QED
    BY <1>1, <1>2, <1>5, <2>1, <2>3 DEF AuditAfter, ExecutorAudit, HasRecord, Updating
<1>6. CASE pc[e] = "handling"
  <2>1. upd[e].keep
    BY <1>1, <1>6 DEF ExecutorAudit, HandlerAudit
  <2>2. HandlerAudit(e, t)'
    BY <1>1, <1>4, <2>1 DEF HandlerAudit
  <2>. QED
    BY <1>1, <1>2, <1>6, <2>2 DEF AuditAfter, ExecutorAudit, HasRecord
<1>. QED
  BY <1>1, <1>5, <1>6 DEF Updating

LEMMA WriteAudit ==
    ASSUME TypeOK, Control, Reports, NEW e \in Executor, NEW t \in Task, t = Cur(e),
           RowAudit(t), ExecutorAudit(e, t), UpdateStep(e), UpdateWrite(e)
    PROVE  AuditAfter(e, t)
<1>1. /\ pc' = pc /\ rec' = rec /\ ledger' = ledger
      /\ upd[e].stage = "write" /\ upd[e].task = t /\ pc[e] \in Updating /\ e \in Client
  BY OrchestratorAssumption DEF UpdateStep, UpdateWrite, Control, ExecutorOK
<1>2. SameCalls(t) /\ Cur(e)' = t
  BY <1>1, NoLine DEF Cur
<1>3. /\ rows'[t].status = upd[e].status /\ rows'[t].attempts = upd[e].attempts
      /\ rows'[t].plugin = upd[e].plugin /\ rows'[t].tried = upd[e].tried
      /\ upd'[e].stage = "get" /\ upd'[e].status = upd[e].status
  BY <1>1 DEF UpdateWrite, TypeOK, Call
<1>4. CASE pc[e] = "updating"
  <2>1. /\ Level(t, upd[e].attempts)
        /\ upd[e].status \in {"queued", "running"} => Fresh(t, upd[e].plugin, upd[e].tried)
    BY <1>1, <1>4 DEF ExecutorAudit, UpdateAudit
  <2>2. /\ Level(t, rows[t].attempts)'
        /\ upd[e].status \in {"queued", "running"} => Ready(t)'
    BY <1>2, <1>3, <2>1 DEF Level, Fresh, Ready, SameCalls
  <2>3. RowAudit(t)'
    <3>1. Calls(t)' = upd[e].attempts /\ Results(t)' = upd[e].attempts /\ upd[e].attempts \in Nat
      BY <1>1, <1>2, <2>1 DEF Level, SameCalls, TypeOK, Call
    <3>2. Calls(t)' <= MaxAttempts[t] /\ CalledOnce(t)'
      BY <1>2 DEF RowAudit, SameCalls
    <3>. QED
      BY <1>3, <2>2, <3>1, <3>2 DEF RowAudit
  <2>4. UpdateAudit(e, t)'
    BY <1>3, <2>2 DEF UpdateAudit
  <2>. QED
    BY <1>1, <1>2, <1>4, <2>3, <2>4 DEF AuditAfter, ExecutorAudit, HasRecord
<1>5. CASE pc[e] = "handling"
  <2>1. upd[e].attempts = rows[t].attempts /\ upd[e].status = "failed"
    BY <1>1, <1>5 DEF ExecutorAudit, HandlerAudit, Control, ExecutorOK
  <2>2. RowAudit(t)'
    BY <1>2, <1>3, <2>1 DEF RowAudit, SameCalls
  <2>3. HandlerAudit(e, t)'
    BY <1>3, <2>1 DEF HandlerAudit
  <2>. QED
    BY <1>1, <1>2, <1>5, <2>2, <2>3 DEF AuditAfter, ExecutorAudit, HasRecord
<1>. QED
  BY <1>1, <1>4, <1>5 DEF Updating

LEMMA ClaimUpdateAudit ==
    ASSUME TypeOK, Control, NEW e \in Executor, NEW t \in Task, t = Cur(e),
           RowAudit(t), ExecutorAudit(e, t), ClaimUpdate(e)
    PROVE  AuditAfter(e, t)
<1>1. pc[e] = "claim" /\ pc'[e] = "start" /\ Cur(e)' = t /\ ledger' = ledger
  BY DEF ClaimUpdate, Goto, TypeOK, Cur
<1>2. /\ rows'[t].status = "running" /\ rows'[t].attempts = rows[t].attempts
      /\ rows'[t].plugin = rows[t].plugin /\ rows'[t].tried = rows[t].tried
  BY DEF ClaimUpdate, ClaimWrite, TypeOK, Row
<1>3. SameCalls(t)
  BY <1>1, NoLine
<1>4. Ready(t)'
  BY <1>1, <1>2, <1>3 DEF ExecutorAudit, RowAudit, Ready, Level, Fresh, SameCalls
<1>5. RowAudit(t)'
  BY <1>2, <1>3 DEF RowAudit, SameCalls
<1>. QED
  BY <1>1, <1>2, <1>4, <1>5 DEF AuditAfter, ExecutorAudit, HasRecord, Terminal

LEMMA ExecutorAudits ==
    ASSUME TypeOK, Control, Reports, Attempts, Audit, NEW e \in Executor, ExecutorStepOf(e)
    PROVE  Audit'
<1> SUFFICES ASSUME NEW t \in Task, t = Cur(e), RowAudit(t), ExecutorAudit(e, t)
             PROVE  AuditAfter(e, t)
  BY AuditKept
<1>. QED
  BY MovesAudit, HandlerAuditKept, LinesAudit, FaultAudit, ReadAudit, WriteAudit, ClaimUpdateAudit
     DEF ExecutorStepOf, RunStep, UpdateStep

\* A task that nothing happened to.
LEMMA AuditUndisturbed ==
    ASSUME NEW t \in Task, TaskAudit(t), rows'[t] = rows[t], UNCHANGED <<pc, rec, outcome, ledger, crashes>>,
           \A e \in Executor : upd'[e] = upd[e], Untouched(t)' => Untouched(t)
    PROVE  TaskAudit(t)'
<1>1. SameCalls(t)
  BY NoLine
<1>2. RowAudit(t) => RowAudit(t)'
  BY <1>1, RowAuditKept
<1>3. \A e \in Executor : Cur(e) = Cur(e)'
  BY DEF Cur
<1>4. \A e \in Executor : ExecutorAudit(e, t) => ExecutorAudit(e, t)'
  BY <1>1 DEF ExecutorAudit, UpdateAudit, HandlerAudit, Ready, Level, Fresh, SameCalls, RecordOf
<1>5. (Undisturbed' => Undisturbed) /\ (EndLogged(t) => EndLogged(t)')
  BY DEF Undisturbed, EndLogged
<1>. QED
  BY <1>2, <1>3, <1>4, <1>5 DEF TaskAudit

\* A queued task that the worker selects has no attempt under way.
LEMMA SelectAudit ==
    ASSUME TypeOK, Control, Reports, Audit, NEW e \in Executor, ClaimSelect(e)
    PROVE  Audit'
<1>1. PICK s \in Task : FirstQueued(s) /\ rec' = [rec EXCEPT ![e] = [NoRecord EXCEPT !.task = s]]
  BY DEF ClaimSelect
<1>2. /\ Cur(e) = NoTask /\ Cur(e)' = s /\ pc'[e] = "claim" /\ rows[s].status = "queued"
      /\ UNCHANGED <<rows, ledger, aim, crashes>> /\ pc[e] = "idle"
  BY <1>1 DEF ClaimSelect, Goto, TypeOK, NoRecord, Cur, Reports, ExecutorReports, FirstQueued, Queued
<1>3. \A x \in Executor : x = e
  BY DesktopAssumption
<1>4. Undisturbed' => Undisturbed
  BY <1>2, <1>3 DEF Undisturbed
<1>5. ASSUME NEW t \in Task, t # s
      PROVE  TaskAudit(t)'
  BY <1>2, <1>3, <1>4, <1>5, AuditElsewhere, RepositoryAssumption DEF Audit, Untouched
<1>6. TaskAudit(s)'
  <2>1. Untouched(s)' => RowAudit(s)
    BY <1>2 DEF Audit, TaskAudit, Untouched
  <2>2. RowAudit(s) => RowAudit(s)'
    BY <1>2, NoLine, RowAuditKept
  <2>3. ExecutorAudit(e, s)'
    BY <1>2 DEF ExecutorAudit, HasRecord
  <2>. QED
    BY <1>2, <1>3, <2>1, <2>2, <2>3 DEF TaskAudit, Terminal
<1>. QED
  BY <1>5, <1>6 DEF Audit

\* A new task starts with an empty ledger and no plugin tried.
LEMMA UnusedAudit ==
    ASSUME TypeOK, NEW t \in Task, ledger[t] = <<>>
    PROVE  Calls(t) = 0 /\ Results(t) = 0 /\ Called(t) = {} /\ CalledOnce(t)
<1>1. DOMAIN ledger[t] = {}
  BY EmptySeq
<1>2. \A type : {i \in DOMAIN ledger[t] : ledger[t][i].type = type} = {}
  BY <1>1
<1>. QED
  BY <1>1, <1>2, FS_EmptySet DEF Calls, Results, Called, CalledOnce, Count

LEMMA CreateAudit ==
    ASSUME TypeOK, Control, Reports, Audit, NEW s \in Task, NEW p \in Plugin,
           ApiCreate(s, p) \/ CliCreate(s, p)
    PROVE  Audit'
<1>1. /\ rows[s].status = "none" /\ rows'[s].status = "queued" /\ rows'[s].attempts = 0
      /\ rows'[s].tried = {} /\ rows'[s].plugin = p
      /\ \A t \in Task \ {s} : rows'[t] = rows[t]
      /\ UNCHANGED <<upd, pc, rec, outcome, ledger, aim, crashes>>
  BY DEF ApiCreate, CliCreate, Create, TypeOK
<1>2. \A e \in Executor : Cur(e) # s
  <2>1. s \notin Created /\ s # NoTask
    BY <1>1, RepositoryAssumption DEF Created
  <2>. QED
    BY <2>1 DEF Control, ExecutorOK, Reports, ExecutorReports
<1>3. TaskAudit(s)'
  <2>1. ledger[s] = <<>>
    BY <1>1 DEF Reports, Unused, Created
  <2>2. Calls(s) = 0 /\ Results(s) = 0 /\ Called(s) = {} /\ CalledOnce(s)
    BY <2>1, UnusedAudit
  <2>3. Calls(s)' = 0 /\ Results(s)' = 0 /\ Called(s)' = {} /\ CalledOnce(s)'
    BY <1>1, <2>2, NoLine DEF SameCalls
  <2>4. MaxAttempts[s] \in Nat
    BY LimitPositive
  <2>5. RowAudit(s)'
    BY <1>1, <2>3, <2>4 DEF RowAudit, Ready, Level, Fresh
  <2>6. \A e \in Executor : Cur(e)' # s
    BY <1>1, <1>2 DEF Cur
  <2>. QED
    BY <1>1, <2>5, <2>6 DEF TaskAudit, Terminal
<1>4. ASSUME NEW t \in Task, t # s
      PROVE  TaskAudit(t)'
  <2>1. rows'[t] = rows[t]
    BY <1>1, <1>4
  <2>2. Untouched(t)' => Untouched(t)
    BY <1>1 DEF Untouched
  <2>. QED
    BY <1>1, <2>1, <2>2, AuditUndisturbed DEF Audit
<1>. QED
  BY <1>3, <1>4 DEF Audit

\* A request writes no row but that of the task it is about, which is not untouched.
LEMMA RequestFrame ==
    ASSUME TypeOK, Reports, NEW r \in Request,
           \/ UpdateStep(r) \/ RequestReturns(r) \/ DatabaseRefuses(r)
           \/ \E t \in Task : StopTask(r, t) \/ CliStopTask(r, t)
    PROVE  /\ UNCHANGED <<pc, rec, outcome, hseq, ledger, crashes>>
           /\ \A e \in Executor : upd'[e] = upd[e]
           /\ \A t \in Task : Untouched(t)' => Untouched(t) /\ rows'[t] = rows[t]
<1>1. UNCHANGED <<pc, rec, outcome, hseq, ledger, crashes>> /\ r \in Client /\ r \notin Executor
  BY DesktopAssumption DEF Request, UpdateStep, RequestReturns, DatabaseRefuses, DatabaseFault,
     StopTask, CliStopTask
<1>2. \A e \in Executor : upd'[e] = upd[e]
  <2>1. upd' = upd \/ \E call : upd' = [upd EXCEPT ![r] = call]
    BY DEF UpdateStep, UpdateRead, UpdateWrite, RequestReturns, UpdateGet, UpdateUnknown,
       DatabaseRefuses, DatabaseFault, StopTask, CliStopTask
  <2>. QED
    BY <1>1, <2>1, OrchestratorAssumption DEF TypeOK
<1>3. \A t \in Task : Untouched(t)' => Untouched(t)
  <2>1. \A x \in Request : aim'[x] = aim[x] \/ aim[x] = NoTask
    BY DEF UpdateStep, RequestReturns, DatabaseRefuses, DatabaseFault, StopTask, CliStopTask, TypeOK
  <2>. QED
    BY <2>1, RepositoryAssumption DEF Untouched
<1>4. \A t \in Task : Untouched(t)' => rows'[t] = rows[t]
  <2>1. CASE UpdateWrite(r) /\ UpdateStep(r)
    <3>1. upd[r].task = aim[r] /\ aim' = aim
      BY <2>1 DEF UpdateWrite, UpdateStep, Reports
    <3>. QED
      BY <2>1, <3>1 DEF UpdateWrite, Untouched, TypeOK
  <2>2. CASE rows' = rows
    BY <2>2
  <2>. QED
    BY <2>1, <2>2 DEF UpdateStep, UpdateRead, RequestReturns, UpdateGet, UpdateUnknown,
       DatabaseRefuses, DatabaseFault, StopTask, CliStopTask
<1>. QED
  BY <1>1, <1>2, <1>3, <1>4

LEMMA RequestAudit ==
    ASSUME TypeOK, Control, Reports, Audit, NEW r \in Request,
           \/ UpdateStep(r) \/ RequestReturns(r) \/ DatabaseRefuses(r)
           \/ \E t \in Task : StopTask(r, t) \/ CliStopTask(r, t)
    PROVE  Audit'
<1>1. ASSUME NEW t \in Task
      PROVE  TaskAudit(t)'
  <2>1. CASE ~Untouched(t)'
    BY <2>1 DEF TaskAudit
  <2>2. CASE Untouched(t)'
    BY <2>2, RequestFrame, AuditUndisturbed DEF Audit
  <2>. QED
    BY <2>1, <2>2
<1>. QED
  BY <1>1 DEF Audit

\* A kill may cut a line, and ends every run.
LEMMA CrashAudit ==
    ASSUME TypeOK, Control, Audit, Crash
    PROVE  Audit'
<1>1. rows' = rows /\ aim' = aim /\ crashes' = crashes + 1 /\ crashes \in Nat
  BY DEF Crash, TypeOK
<1>2. \A e \in Executor : Cur(e)' = NoTask
  BY DEF Crash, Cur, NoRecord
<1>3. ASSUME NEW t \in Task
      PROVE  TaskAudit(t)'
  <2>4. Untouched(t) /\ RowAudit(t) => RowAudit(t)'
    <3>1. CASE ledger'[t] = ledger[t]
      BY <1>1, <3>1, NoLine, RowAuditKept
    <3>2. ASSUME NEW e \in Executor, pc[e] \in Writing, CutLine(e), Cur(e) = t, Untouched(t)
          PROVE  RowAudit(t)'
      BY <1>1, <3>2, CutAudit DEF Audit, TaskAudit
    <3>3. \A e \in Executor : CutLine(e) /\ Cur(e) # t => ledger'[t] = ledger[t]
      BY DEF CutLine, TypeOK
    <3>. QED
      BY <3>1, <3>2, <3>3 DEF Crash
  <2>5. ~Undisturbed'
    BY <1>1 DEF Undisturbed
  <2>6. \A e \in Executor : Cur(e)' # t
    BY <1>2, RepositoryAssumption
  <2>. QED
    BY <1>1, <2>4, <2>5, <2>6 DEF Audit, TaskAudit, Untouched
<1>. QED
  BY <1>3 DEF Audit

LEMMA AuditInit == Init => Audit
<1> SUFFICES ASSUME Init, NEW t \in Task PROVE TaskAudit(t)
  BY DEF Audit
<1>1. ledger[t] = <<>> /\ rows[t].attempts = 0 /\ rows[t].status = "none"
  BY DEF Init, OrchestratorInit, RepositoryInit, NoRow
<1>2. Calls(t) = 0 /\ Results(t) = 0 /\ CalledOnce(t)
  BY <1>1, TypeInit, UnusedAudit
<1>3. \A e \in Executor : Cur(e) # t
  BY RepositoryAssumption DEF Init, OrchestratorInit, Cur, NoRecord
<1>4. MaxAttempts[t] \in Nat
  BY LimitPositive
<1>5. RowAudit(t)
  BY <1>1, <1>2, <1>4 DEF RowAudit
<1>. QED
  BY <1>1, <1>3, <1>5 DEF TaskAudit, Terminal

LEMMA AuditStep ==
    TypeOK /\ Control /\ Reports /\ Attempts /\ Audit /\ [Next]_desktopVars => Audit'
<1> SUFFICES ASSUME TypeOK, Control, Reports, Attempts, Audit, [Next]_desktopVars
             PROVE  Audit'
  OBVIOUS
<1>1. CASE \/ \E k \in Keys : EmergencyStop(k) \/ EmergencyResume(k)
           \/ \E s \in Scopes : SetScope(s)
           \/ UNCHANGED desktopVars
  <2>1. UNCHANGED <<rows, upd, pc, rec, outcome, ledger, aim, crashes>>
    BY <1>1 DEF EmergencyStop, EmergencyResume, SetScope, desktopVars, orchestratorVars
  <2>. QED
    BY <2>1, AuditUndisturbed DEF Audit, Untouched
<1>. QED
  BY <1>1, NextStep, ExecutorAudits, SelectAudit, CreateAudit, RequestAudit, CrashAudit

LEMMA AuditInvariant == Spec => [](TypeOK /\ Audit)
<1> DEFINE Inv == TypeOK /\ Control /\ Attempts /\ Reports /\ Audit
<1>1. Init => Inv
  BY TypeInit, AttemptsInit, ReportsInit, AuditInit
<1>2. Inv /\ [Next]_desktopVars => Inv'
  BY TypeStep, AttemptsStep, ReportsStep, AuditStep
<1>. QED
  BY <1>1, <1>2, PTL DEF Spec

\* Over restarts, failed writes and emergency stops, recovery calls no plugin twice and
\* no more plugins than the specification allows: the row a claim reads names a plugin
\* that is not among those the ledger says were called.
THEOREM RecoveryIsBounded == Spec => []RecoveryBounded
<1>1. TypeOK /\ Audit => RecoveryBounded
  BY DEF Audit, TaskAudit, RowAudit, Calls, CalledOnce, RecoveryBounded
<1>. QED
  BY <1>1, AuditInvariant, PTL

\* The ledger is never behind the row: an attempt is counted after its call and its
\* result are on disk, and at most one call is not counted yet.
THEOREM LedgerCoversAttempts == Spec => []AuditCoversAttempts
<1>1. TypeOK /\ Audit => AuditCoversAttempts
  BY DEF Audit, TaskAudit, RowAudit, Calls, Results, AuditCoversAttempts
<1>. QED
  BY <1>1, AuditInvariant, PTL

-----------------------------------------------------------------------------

\* A ledger that replays and whose last line has its end.
Sound(file) == \A i \in DOMAIN file : file[i].type # "torn" /\ file[i].seq = i /\ file[i].ended

\* What is known of the ledger at each place of the program.
FileAudit(e, t) ==
    /\ pc[e] \in {"claim", "start"} => ledger[t] = <<>>
    /\ pc[e] \in HasRecord \cup {"updating", "run_end"} =>
           Sound(ledger[t]) /\ hseq[e] = Len(ledger[t])
    /\ pc[e] = "handler_end" => Replayable(ledger[t]) /\ hseq[e] = Len(ledger[t])

\* A ledger replays, or its last line runs on in the one before.
RunOn(file) ==
    /\ Replayable(SubSeq(file, 1, Len(file) - 1))
    /\ ~file[Len(file) - 1].ended

ReadsBack(t) == Replayable(ledger[t]) \/ (rows[t].status = "failed" /\ RunOn(ledger[t]))

TaskFiles(t) ==
    (Untouched(t) /\ Undisturbed) =>
        /\ \A e \in Executor : Cur(e) = t => FileAudit(e, t)
        /\ (\A e \in Executor : Cur(e) # t) =>
               /\ rows[t].status = "queued" => ledger[t] = <<>>
               /\ rows[t].status \in Terminal => ReadsBack(t)

Files == \A t \in Task : TaskFiles(t)

\* One more line on a ledger whose last line has its end, or not.
LEMMA LineAdded ==
    ASSUME NEW file \in Seq(Event \cup {Torn}), NEW line \in Event, line.ended,
           line.seq = Len(file) + 1
    PROVE  /\ Sound(file) => Sound(Append(file, line))
           /\ Len(Append(file, line)) = Len(file) + 1
           /\ Replayable(file) => Replayable(Append(file, line)) \/ RunOn(Append(file, line))
<1> DEFINE n == Len(file)
           more == Append(file, line)
<1>1. /\ n \in Nat /\ DOMAIN file = 1..n /\ DOMAIN more = 1..(n + 1) /\ Len(more) = n + 1
      /\ \A i \in 1..n : more[i] = file[i]
      /\ more[n + 1] = line
  BY LenProperties, AppendProperties
<1>2. SubSeq(more, 1, Len(more) - 1) = file
  BY <1>1
<1>3. line.type # "torn"
  BY DEF Event, EventType
<1>4. 1..(n + 1) = 1..n \cup {n + 1} /\ (n > 0 => n \in 1..n)
  BY <1>1
<1>5. ASSUME Replayable(file)
      PROVE  \A i \in 1..n : i # n => file[i].ended
  BY <1>1, <1>5, Zenon DEF Replayable, n
<1> HIDE DEF n, more
<1>6. Sound(file) => Sound(more)
  <2> SUFFICES ASSUME Sound(file), NEW i \in 1..(n + 1)
               PROVE  more[i].type # "torn" /\ more[i].seq = i /\ more[i].ended
    BY <1>1 DEF Sound
  <2>1. CASE i \in 1..n
    BY <1>1, <2>1 DEF Sound
  <2>2. CASE i = n + 1
    BY <1>1, <1>3, <2>2 DEF n
  <2>. QED
    BY <1>4, <2>1, <2>2
<1>7. ASSUME Replayable(file)
      PROVE  Replayable(more) \/ RunOn(more)
  <2>1. CASE n > 0 /\ ~file[n].ended
    <3>1. Len(more) - 1 = n /\ more[n] = file[n]
      BY <1>1, <1>4, <2>1
    <3>. QED
      BY <1>2, <1>7, <2>1, <3>1 DEF RunOn
  <2>2. CASE n = 0 \/ file[n].ended
    <3>1. Sound(file)
      <4>1. \A i \in 1..n : file[i].ended
        BY <1>1, <1>5, <1>7, <2>2
      <4>. QED
        BY <1>1, <1>7, <4>1 DEF Sound, Replayable
    <3>2. Sound(more)
      BY <1>6, <3>1
    <3>. QED
      BY <3>2 DEF Sound, Replayable
  <2>. QED
    BY <1>1, <2>1, <2>2
<1>. QED
  BY <1>1, <1>6, <1>7 DEF n, more

\* What holds of the ledger of an executor's task after a step.
FilesAfter(e, t) ==
    /\ Cur(e)' = t => FileAudit(e, t)'
    /\ Cur(e)' # t =>
           /\ rows'[t].status # "queued"
           /\ rows'[t].status \in Terminal => ReadsBack(t)'

LEMMA FilesKept ==
    ASSUME TypeOK, Control, Audit, Files, NEW e \in Executor, ExecutorStepOf(e),
           \A t \in Task : (t = Cur(e) /\ Undisturbed' /\ ExecutorAudit(e, t) /\ FileAudit(e, t))
                               => FilesAfter(e, t)
    PROVE  Files'
<1>1. /\ aim' = aim /\ crashes' = crashes
      /\ \A t \in Task \ {Cur(e)} : rows'[t] = rows[t] /\ ledger'[t] = ledger[t]
      /\ Cur(e)' \in {Cur(e), NoTask}
  BY ExecutorFrame
<1>2. \A x \in Executor : x = e
  BY DesktopAssumption
<1>3. pc[e] # "dead"
  BY DEF Control, ExecutorOK, Updating, ExecutorStepOf, UpdateStep, UpdateRead, UpdateWrite,
     ClaimUpdate, Handle, HandlerUpdated, HandlerOpen, HandlerLog, HandlerFails, DatabaseKills,
     DatabaseRaises, RunStep, OpenRun, LogRunStart, TestLoop, CheckScope, CheckStops, CheckAction,
     LogToolCall, RunPlugin, LogToolResult, UpdateReturns, LogRunEnd, WriteFails
<1>4. Undisturbed' => Undisturbed
  BY <1>1, <1>2, <1>3 DEF Undisturbed
<1>5. ASSUME NEW t \in Task, t # Cur(e)
      PROVE  TaskFiles(t)'
  <2>1. Cur(e)' # t
    BY <1>1, <1>5, RepositoryAssumption
  <2>2. rows'[t] = rows[t] /\ ledger'[t] = ledger[t] /\ (Untouched(t)' => Untouched(t))
    BY <1>1, <1>5 DEF Untouched
  <2>. QED
    BY <1>2, <1>4, <1>5, <2>1, <2>2 DEF Files, TaskFiles, ReadsBack
<1>6. ASSUME NEW t \in Task, t = Cur(e)
      PROVE  TaskFiles(t)'
  <2> SUFFICES ASSUME Untouched(t)', Undisturbed'
               PROVE  /\ \A x \in Executor : Cur(x)' = t => FileAudit(x, t)'
                      /\ (\A x \in Executor : Cur(x)' # t) =>
                             /\ rows'[t].status = "queued" => ledger'[t] = <<>>
                             /\ rows'[t].status \in Terminal => ReadsBack(t)'
    BY DEF TaskFiles
  <2>1. Untouched(t)
    BY <1>1 DEF Untouched
  <2>2. ExecutorAudit(e, t) /\ FileAudit(e, t)
    BY <1>4, <1>6, <2>1 DEF Audit, TaskAudit, Files, TaskFiles
  <2>3. FilesAfter(e, t)
    BY <1>6, <2>2
  <2>. QED
    BY <1>2, <2>3 DEF FilesAfter
<1>. QED
  BY <1>5, <1>6 DEF Files

\* Steps that write no line.
LEMMA MovesFiles ==
    ASSUME TypeOK, Control, NEW e \in Executor, NEW t \in Task, t = Cur(e),
           ExecutorAudit(e, t), FileAudit(e, t), Undisturbed',
           \/ OpenRun(e) \/ CheckScope(e) \/ CheckStops(e) \/ CheckAction(e) \/ RunPlugin(e)
           \/ TestLoop(e) \/ UpdateReturns(e) \/ UpdateStep(e) \/ ClaimUpdate(e)
           \/ Handle(e) \/ HandlerUpdated(e) \/ HandlerOpen(e)
           \/ DatabaseKills(e) \/ DatabaseRaises(e)
    PROVE  FilesAfter(e, t)
<1> USE DEF Goto, TypeOK, Cur
<1>1. ledger' = ledger
  BY DEF OpenRun, CheckScope, CheckStops, CheckAction, RunPlugin, TestLoop, UpdateReturns,
     UpdateStep, ClaimUpdate, Handle, HandlerUpdated, HandlerOpen, DatabaseKills, DatabaseRaises,
     DatabaseFault
<1>2. CASE OpenRun(e)
  <2>1. ledger[t] = <<>>
    BY <1>2 DEF OpenRun, FileAudit
  <2>2. Sound(ledger'[t]) /\ hseq'[e] = Len(ledger'[t]) /\ Cur(e)' = t
    BY <1>1, <1>2, <2>1, EmptySeq DEF OpenRun, Sound, RecordOf
  <2>3. pc'[e] \in {"raised", "run_start", "loop"}
    BY <1>2 DEF OpenRun
  <2>. QED
    BY <2>2, <2>3 DEF FilesAfter, FileAudit
<1>3. CASE CheckScope(e) \/ CheckStops(e) \/ CheckAction(e) \/ RunPlugin(e)
  <2>1. pc[e] \in HasRecord /\ rec' = rec /\ hseq' = hseq
    BY <1>3 DEF CheckScope, CheckStops, CheckAction, RunPlugin, HasRecord
  <2>2. pc'[e] \in HasRecord \cup {"updating", "raised"}
    BY <1>3 DEF CheckScope, CheckStops, CheckAction, RunPlugin, HasRecord, Deny, StartUpdate
  <2>. QED
    BY <1>1, <2>1, <2>2 DEF FilesAfter, FileAudit, HasRecord
<1>4. CASE TestLoop(e)
  <2>1. rec[e] = RecordOf(t) /\ rows[t].status \in {"queued", "running"}
    BY <1>4 DEF TestLoop, ExecutorAudit, HasRecord
  <2>2. rec[e].status \notin Terminal
    BY <2>1 DEF RecordOf, Terminal
  <2>3. pc[e] = "loop" /\ rec' = rec /\ hseq' = hseq /\ pc'[e] \in {"policy_scope", "updating"}
    BY <1>4, <2>2 DEF TestLoop, StartUpdate
  <2>. QED
    BY <1>1, <2>3 DEF FilesAfter, FileAudit, HasRecord
<1>5. CASE UpdateReturns(e)
  <2>1. /\ pc[e] = "updating" /\ hseq' = hseq /\ Cur(e)' = t
        /\ pc'[e] \in {"run_end", "policy_scope", "loop"}
    BY <1>5 DEF UpdateReturns, RecordOf
  <2>. QED
    BY <1>1, <2>1 DEF FilesAfter, FileAudit, HasRecord
<1>6. CASE UpdateStep(e)
  BY <1>1, <1>6 DEF UpdateStep, FilesAfter, FileAudit
<1>7. CASE ClaimUpdate(e)
  BY <1>1, <1>7 DEF ClaimUpdate, FilesAfter, FileAudit, HasRecord
<1>8. CASE Handle(e) \/ HandlerUpdated(e) \/ DatabaseRaises(e)
  <2>1. rec' = rec /\ pc'[e] \in {"handling", "handler_open", "raised"}
    BY <1>8 DEF Handle, HandlerUpdated, DatabaseRaises
  <2>. QED
    BY <2>1 DEF FilesAfter, FileAudit, HasRecord
<1>9. CASE HandlerOpen(e)
  <2>1. pc'[e] # "dead"
    BY DEF Undisturbed
  <2>2. Replayable(ledger[t])
    BY <1>9, <2>1 DEF HandlerOpen, Leave
  <2>3. rec' = rec /\ pc'[e] = "handler_end" /\ hseq'[e] = Len(ledger[t])
    BY <1>9, <2>2 DEF HandlerOpen
  <2>. QED
    BY <1>1, <2>2, <2>3 DEF FilesAfter, FileAudit, HasRecord
<1>10. ~DatabaseKills(e)
  BY DEF DatabaseKills, Leave, Undisturbed
<1>. QED
  BY <1>2, <1>3, <1>4, <1>5, <1>6, <1>7, <1>8, <1>9, <1>10

\* Steps that write one, or fail to.
LEMMA LinesFiles ==
    ASSUME TypeOK, Control, Ends, NEW e \in Executor, NEW t \in Task, t = Cur(e),
           ExecutorAudit(e, t), FileAudit(e, t), Undisturbed',
           \/ LogRunStart(e) \/ LogToolCall(e) \/ LogToolResult(e) \/ LogRunEnd(e) \/ HandlerLog(e)
           \/ WriteFails(e) \/ HandlerFails(e)
    PROVE  FilesAfter(e, t)
<1> USE DEF Goto, Cur
<1> DEFINE line == NextEvent(e, TypeAt(pc[e]))
<1>1. line \in Event /\ line.ended /\ line.seq = hseq[e] + 1 /\ ledger[t] \in Seq(Event \cup {Torn})
  BY NextEventType DEF NextEvent, TypeOK
<1> HIDE DEF line
<1>2. CASE LogRunStart(e) \/ LogToolCall(e) \/ LogToolResult(e)
  <2>1. /\ pc[e] \in HasRecord /\ pc'[e] \in HasRecord \cup {"updating"} /\ rec' = rec
        /\ hseq'[e] = hseq[e] + 1 /\ ledger'[t] = Append(ledger[t], line)
    BY <1>2 DEF LogRunStart, LogToolCall, LogToolResult, WriteEvent, WriteLine, StartUpdate,
       HasRecord, TypeOK, line
  <2>2. Sound(ledger[t]) /\ hseq[e] = Len(ledger[t])
    BY <2>1 DEF FileAudit
  <2>3. line.seq = Len(ledger[t]) + 1
    BY <1>1, <2>2
  <2>4. Sound(Append(ledger[t], line)) /\ Len(Append(ledger[t], line)) = Len(ledger[t]) + 1
    BY <1>1, <2>2, <2>3, LineAdded, Zenon
  <2>5. Sound(ledger'[t]) /\ hseq'[e] = Len(ledger'[t])
    BY <2>1, <2>2, <2>4
  <2>. QED
    BY <2>1, <2>5 DEF FilesAfter, FileAudit, HasRecord
<1>3. CASE LogRunEnd(e) \/ HandlerLog(e)
  <2>1. /\ pc[e] \in {"run_end", "handler_end"} /\ rows' = rows /\ Cur(e)' = NoTask
        /\ ledger'[t] = Append(ledger[t], line)
    BY <1>3 DEF LogRunEnd, HandlerLog, WriteLine, Leave, NoRecord, TypeOK, line
  <2>2. line.seq = Len(ledger[t]) + 1
    BY <1>1, <2>1 DEF FileAudit
  <2>3. rows[t].status \in Terminal
    BY <2>1 DEF Ends, Settled
  <2>4. ReadsBack(t)'
    <3>1. CASE pc[e] = "run_end"
      <4>1. Sound(ledger[t])
        BY <3>1 DEF FileAudit
      <4>2. Sound(Append(ledger[t], line))
        BY <1>1, <2>2, <4>1, LineAdded, Zenon
      <4>. QED
        BY <2>1, <4>2 DEF ReadsBack, Sound, Replayable
    <3>2. CASE pc[e] = "handler_end"
      <4>1. rows[t].status = "failed" /\ Replayable(ledger[t])
        BY <3>2 DEF FileAudit, ExecutorAudit
      <4>2. Replayable(Append(ledger[t], line)) \/ RunOn(Append(ledger[t], line))
        BY <1>1, <2>2, <4>1, LineAdded, Zenon
      <4>. QED
        BY <2>1, <4>1, <4>2 DEF ReadsBack
    <3>. QED
      BY <2>1, <3>1, <3>2
  <2>. QED
    BY <2>1, <2>3, <2>4, RepositoryAssumption DEF FilesAfter, Terminal
<1>4. CASE WriteFails(e)
  BY <1>4 DEF WriteFails, LedgerFault, FilesAfter, FileAudit, HasRecord, TypeOK
<1>5. ~HandlerFails(e)
  BY DEF HandlerFails, LedgerFault, Undisturbed, TypeOK
<1>. QED
  BY <1>2, <1>3, <1>4, <1>5

\* A task that nothing happened to.
LEMMA FilesUndisturbed ==
    ASSUME NEW t \in Task, TaskFiles(t), rows'[t] = rows[t],
           UNCHANGED <<pc, rec, hseq, ledger, crashes>>, Untouched(t)' => Untouched(t)
    PROVE  TaskFiles(t)'
BY DEF TaskFiles, FileAudit, ReadsBack, Undisturbed, Cur

LEMMA SelectFiles ==
    ASSUME TypeOK, Reports, Files, NEW e \in Executor, ClaimSelect(e)
    PROVE  Files'
<1>1. PICK s \in Task : FirstQueued(s) /\ rec' = [rec EXCEPT ![e] = [NoRecord EXCEPT !.task = s]]
  BY DEF ClaimSelect
<1>2. /\ Cur(e) = NoTask /\ Cur(e)' = s /\ pc'[e] = "claim" /\ rows[s].status = "queued"
      /\ UNCHANGED <<rows, ledger, aim, crashes>> /\ pc[e] = "idle"
  BY <1>1 DEF ClaimSelect, Goto, TypeOK, NoRecord, Cur, Reports, ExecutorReports, FirstQueued, Queued
<1>3. \A x \in Executor : x = e
  BY DesktopAssumption
<1>4. (Undisturbed' => Undisturbed) /\ \A t \in Task : Untouched(t)' = Untouched(t)
  BY <1>2, <1>3 DEF Undisturbed, Untouched
<1>5. ASSUME NEW t \in Task, t # s
      PROVE  TaskFiles(t)'
  BY <1>2, <1>3, <1>4, <1>5, RepositoryAssumption DEF Files, TaskFiles, ReadsBack
<1>6. TaskFiles(s)'
  <2>1. Untouched(s) /\ Undisturbed => ledger[s] = <<>>
    BY <1>2, <1>3, RepositoryAssumption DEF Files, TaskFiles
  <2>. QED
    BY <1>2, <1>3, <1>4, <2>1 DEF TaskFiles, FileAudit, HasRecord
<1>. QED
  BY <1>5, <1>6 DEF Files

LEMMA CreateFiles ==
    ASSUME TypeOK, Control, Reports, Files, NEW s \in Task, NEW p \in Plugin,
           ApiCreate(s, p) \/ CliCreate(s, p)
    PROVE  Files'
<1>1. /\ rows[s].status = "none" /\ rows'[s].status = "queued"
      /\ \A t \in Task \ {s} : rows'[t] = rows[t]
      /\ UNCHANGED <<pc, rec, hseq, ledger, aim, crashes>>
  BY DEF ApiCreate, CliCreate, Create, TypeOK
<1>2. ledger[s] = <<>> /\ \A e \in Executor : Cur(e) # s
  <2>1. s \notin Created /\ s # NoTask
    BY <1>1, RepositoryAssumption DEF Created
  <2>. QED
    BY <2>1 DEF Control, ExecutorOK, Reports, ExecutorReports, Unused
<1>3. TaskFiles(s)'
  BY <1>1, <1>2 DEF TaskFiles, Cur, Terminal
<1>4. ASSUME NEW t \in Task, t # s
      PROVE  TaskFiles(t)'
  BY <1>1, <1>4, FilesUndisturbed DEF Files, Untouched
<1>. QED
  BY <1>3, <1>4 DEF Files

LEMMA FilesStep ==
    TypeOK /\ Control /\ Ends /\ Reports /\ Audit /\ Files /\ [Next]_desktopVars => Files'
<1> SUFFICES ASSUME TypeOK, Control, Ends, Reports, Audit, Files, [Next]_desktopVars
             PROVE  Files'
  OBVIOUS
<1>1. ASSUME NEW e \in Executor, ExecutorStepOf(e)
      PROVE  Files'
  BY <1>1, FilesKept, MovesFiles, LinesFiles DEF ExecutorStepOf, RunStep
<1>2. ASSUME NEW r \in Request,
             \/ UpdateStep(r) \/ RequestReturns(r) \/ DatabaseRefuses(r)
             \/ \E t \in Task : StopTask(r, t) \/ CliStopTask(r, t)
      PROVE  Files'
  <2>1. /\ UNCHANGED <<pc, rec, hseq, ledger, crashes>>
        /\ \A t \in Task : Untouched(t)' => Untouched(t) /\ rows'[t] = rows[t]
    BY <1>2, RequestFrame
  <2>2. ASSUME NEW t \in Task
        PROVE  TaskFiles(t)'
    <3>1. CASE ~Untouched(t)'
      BY <3>1 DEF TaskFiles
    <3>2. CASE Untouched(t)'
      BY <2>1, <3>2, FilesUndisturbed DEF Files
    <3>. QED
      BY <3>1, <3>2
  <2>. QED
    BY <2>2 DEF Files
<1>3. CASE \/ \E k \in Keys : EmergencyStop(k) \/ EmergencyResume(k)
           \/ \E s \in Scopes : SetScope(s)
           \/ UNCHANGED desktopVars
  <2>1. UNCHANGED <<rows, pc, rec, hseq, ledger, aim, crashes>>
    BY <1>3 DEF EmergencyStop, EmergencyResume, SetScope, desktopVars, orchestratorVars
  <2>. QED
    BY <2>1, FilesUndisturbed DEF Files, Untouched
<1>4. CASE Crash
  BY <1>4 DEF Crash, Files, TaskFiles, Undisturbed, TypeOK
<1>. QED
  BY <1>1, <1>2, <1>3, <1>4, NextStep, SelectFiles, CreateFiles

LEMMA FilesInit == Init => Files
BY RepositoryAssumption
   DEF Init, OrchestratorInit, RepositoryInit, NoRow, Files, TaskFiles, Cur, NoRecord, Terminal

\* A run that was not killed, and whose worker did not die, ends with a RUN_END that
\* reports the status in the row, and its ledger replays; but for a run that failed
\* because a write stopped just before its line end, where the RUN_END runs on in that
\* line: without the RUN_END the ledger replays, with it only the lines before that one.
THEOREM LedgerAgreesWithRow == Spec => []AuditAgrees
<1> DEFINE Inv == TypeOK /\ Control /\ Attempts /\ Ends /\ Reports /\ Audit /\ Files
<1>1. Init => Inv
  BY TypeInit, AttemptsInit, EndsInit, ReportsInit, AuditInit, FilesInit
<1>2. Inv /\ [Next]_desktopVars => Inv'
  BY TypeStep, AttemptsStep, EndsStep, ReportsStep, AuditStep, FilesStep
<1>3. Inv => AuditAgrees
  BY DEF Audit, TaskAudit, Files, TaskFiles, Undisturbed, EndLogged, ReadsBack, RunOn, AuditAgrees
<1>. QED
  BY <1>1, <1>2, <1>3, PTL DEF Spec

=============================================================================
