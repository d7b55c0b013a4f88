---------------------------- MODULE WorkflowProofs ----------------------------
(***************************************************************************)
(* Proofs about Workflow, for any plugins, targets, scopes, registries and *)
(* findings and any number of calls, failed writes and kills.              *)
(***************************************************************************)
EXTENDS Workflow, SequenceTheorems, FiniteSetTheorems, TLAPS

Status == {"running", "pending_approval"} \cup Terminal

Line(f) == [type |-> "FINDING", finding |-> f]

Event ==
    [type : {"RUN_START", "torn"}]
      \cup [type : {"TOOL_CALL"}, stage : Range(Stage), plugin : Plugin]
      \cup [type : {"TOOL_RESULT"}, stage : Range(Stage), plugin : Plugin, success : BOOLEAN]
      \cup [type : {"FINDING"}, finding : Finding]
      \cup [type : {"RUN_END"}, status : Status]

Results == [success : BOOLEAN, parsed : Seq(Target) \cup Seq(Finding)]

File == {"absent", "part", "whole"}

Labels ==
    {"idle", "open", "run_start", "loop", "discover", "plan", "assess", "validate", "evidence",
     "report", "cleanup", "call", "plugin", "result", "findings", "bin_rest", "meta",
     "meta_rest", "report_rest", "save", "save_pending", "succeed", "fail", "run_end"}

Types ==
    /\ pc \in Labels
    /\ state \in WorkflowState \cup {NoState}
    /\ saved \in WorkflowState \cup {NoState}
    /\ left \in Seq(Plugin)
    /\ result \in Results
    /\ ledger \in Seq(Event)
    /\ bin \in [Found -> File]
    /\ meta \in [Found -> File]
    /\ [scope |-> scope, registry |-> registry] \in Setups
    /\ approval \in [Requests -> {"none", "pending", "approved", "rejected"}]
    /\ revoked \subseteq Requests

\* What each place in the code knows of the local state and of the files.
Control ==
    /\ pc = "idle" <=> state = NoState
    /\ pc \in Range(Stage) => state.stage = pc
    /\ pc \in {"bin_rest", "meta", "meta_rest"} => state.stage = "evidence"
    /\ pc = "report_rest" => state.stage = "report"
    /\ pc = "findings" => state.stage = "assess" /\ result.parsed \in Seq(Finding)
    /\ pc = "succeed" => state.stage = "complete"
    /\ pc \in {"call", "plugin", "result"} =>
           /\ state.stage \in {"discover", "assess", "validate", "cleanup"}
           /\ left # <<>>
    /\ pc = "result" /\ result.success => result.parsed \in Parsed
    /\ pc \in {"meta", "meta_rest"} => bin[state.findings] # "absent"
    /\ pc \notin {"idle", "run_end", "save_pending"} => state.status = "running"
    /\ pc = "save_pending" => state.status = "pending_approval"
    /\ pc = "run_end" => saved = state /\ state.status \in Terminal
    /\ pc \notin {"idle", "run_end"} => saved = NoState \/ saved.status \notin Terminal

\* Which fields of a state are filled in at which stage.
Shape(st) ==
    /\ Rank(st.stage) > 1 => st.targets # <<>>
    /\ Rank(st.stage) < 6 => st.evidence = <<>>
    /\ Rank(st.stage) >= 6 => st.evidence = <<st.findings>>

\* What the ledger, or the want of a plugin, says of the stages behind a state.
Success(stage, events) == \E p \in Plugin :
    [type |-> "TOOL_RESULT", stage |-> stage, plugin |-> p, success |-> TRUE] \in events

CleanedUp(events, without) ==
    "cleanup" \in without \/ \E e \in events : e.type = "TOOL_RESULT" /\ e.stage = "cleanup"

Done(st, events, without) ==
    /\ Rank(st.stage) >= 4 => Success("assess", events)
    /\ Rank(st.stage) >= 5 => st.skip \/ "validate" \in without \/ Success("validate", events)
    /\ Rank(st.stage) = 8 => CleanedUp(events, without)
    /\ st.status = "succeeded" => st.stage = "complete"

\* The report says what a state found, and refers to what the state refers to.
Whole(r, st) ==
    /\ r.files = "whole"
    /\ r.findings = st.findings
    /\ \A f \in Range(st.findings) \ Referring : r.evidence[f] = st.evidence

\* The files that exist behind a state.
Filed(st, b, m, r) ==
    /\ Rank(st.stage) >= 6 => b[st.findings] # "absent" /\ m[st.findings] # "absent"
    /\ Rank(st.stage) >= 7 => Whole(r, st)

\* The findings of a state are all in the ledger.
Covered(st, lines) == \A f \in Finding : Times(f, st.findings) <= Times(Line(f), lines)

\* A state that may be saved.
Sound(st, lines, without, b, m, r) ==
    /\ Shape(st)
    /\ Rank(st.stage) < 4 => st.findings = <<>>
    /\ Rank(st.stage) >= 4 => st.findings \in Found
    /\ Done(st, Range(lines), without)
    /\ Filed(st, b, m, r)
    /\ Covered(st, lines)

\* While findings are being logged: what is not in the ledger yet is still to come.
Midway(st, rest, lines) ==
    /\ Shape(st)
    /\ st.findings \in Found
    /\ Success("assess", Range(lines))
    /\ \A f \in Finding : Times(f, st.findings) <= Times(f, rest) + Times(Line(f), lines)

\* A later state of the same run.
Continues(old, new) ==
    /\ Rank(old.stage) <= Rank(new.stage)
    /\ new.skip = old.skip
    /\ Rank(old.stage) >= 2 => new.targets = old.targets
    /\ Rank(old.stage) >= 4 => new.findings = old.findings

Saved == saved # NoState => Sound(saved, ledger, passed, bin, meta, report)

Current ==
    /\ pc \notin {"idle", "findings"} => Sound(state, ledger, passed, bin, meta, report)
    /\ pc = "findings" => Midway(state, result.parsed, ledger)
    /\ pc # "idle" /\ saved # NoState => Continues(saved, state)

\* A RUN_END in the ledger is that of the saved state, which has ended.
Ends ==
    \A e \in Range(ledger) : e.type = "RUN_END" =>
        saved # NoState /\ saved.status \in Terminal /\ saved.status = e.status

Inv ==
    /\ Types
    /\ Control
    /\ Saved
    /\ Current
    /\ Ends

-----------------------------------------------------------------------------

\* The stages and their ranks.
LEMMA Ranks ==
    /\ Range(Stage) = {"discover", "plan", "assess", "validate", "evidence", "report",
                       "cleanup", "complete"}
    /\ Rank("discover") = 1
    /\ Rank("plan") = 2
    /\ Rank("assess") = 3
    /\ Rank("validate") = 4
    /\ Rank("evidence") = 5
    /\ Rank("report") = 6
    /\ Rank("cleanup") = 7
    /\ Rank("complete") = 8
<1>1. DOMAIN Stage = 1..8
  BY DEF Stage
<1>2. \A i, j \in 1..8 : Stage[i] = Stage[j] => i = j
  BY DEF Stage
<1>3. \A i \in 1..8 : Rank(Stage[i]) = i
  BY <1>1, <1>2 DEF Rank
<1>4. /\ Stage[1] = "discover" /\ Stage[2] = "plan" /\ Stage[3] = "assess"
      /\ Stage[4] = "validate" /\ Stage[5] = "evidence" /\ Stage[6] = "report"
      /\ Stage[7] = "cleanup" /\ Stage[8] = "complete"
  BY DEF Stage
<1>5. Range(Stage) = {Stage[i] : i \in 1..8}
  BY <1>1 DEF Range
<1>6. 1..8 = {1, 2, 3, 4, 5, 6, 7, 8}
  OBVIOUS
<1>7. Range(Stage) = {Stage[1], Stage[2], Stage[3], Stage[4], Stage[5], Stage[6], Stage[7], Stage[8]}
  BY <1>5, <1>6
<1>. QED
  BY <1>3, <1>4, <1>7

\* What follows another line in a list.
LEMMA Appended ==
    ASSUME NEW S, NEW lines \in Seq(S), NEW e \in S
    PROVE  /\ Append(lines, e) \in Seq(S)
           /\ Range(Append(lines, e)) = Range(lines) \cup {e}
<1>1. /\ Append(lines, e) \in Seq(S)
      /\ Len(Append(lines, e)) = Len(lines) + 1
      /\ \A i \in 1..Len(lines) : Append(lines, e)[i] = lines[i]
      /\ Append(lines, e)[Len(lines) + 1] = e
  BY AppendProperties
<1>2. DOMAIN lines = 1..Len(lines) /\ Len(lines) \in Nat
  BY LenProperties
<1>3. DOMAIN Append(lines, e) = 1..(Len(lines) + 1)
  BY <1>1, LenProperties
<1>4. 1..(Len(lines) + 1) = (1..Len(lines)) \cup {Len(lines) + 1}
  BY <1>2
<1>5. Range(Append(lines, e)) =
        {Append(lines, e)[i] : i \in (1..Len(lines)) \cup {Len(lines) + 1}}
  BY <1>3, <1>4 DEF Range
<1>6. Range(lines) = {lines[i] : i \in 1..Len(lines)}
  BY <1>2 DEF Range
<1>. QED
  BY <1>1, <1>5, <1>6

LEMMA TimesFinite ==
    ASSUME NEW S, NEW list \in Seq(S), NEW x
    PROVE  /\ IsFiniteSet({i \in DOMAIN list : list[i] = x})
           /\ Times(x, list) \in Nat
<1>1. DOMAIN list = 1..Len(list) /\ Len(list) \in Nat
  BY LenProperties
<1>2. IsFiniteSet(1..Len(list))
  BY <1>1, FS_Interval
<1>3. {i \in DOMAIN list : list[i] = x} \subseteq 1..Len(list)
  BY <1>1
<1>4. IsFiniteSet({i \in DOMAIN list : list[i] = x})
  BY <1>2, <1>3, FS_Subset
<1>. QED
  BY <1>4, FS_CardinalityType DEF Times

LEMMA TimesAppend ==
    ASSUME NEW S, NEW lines \in Seq(S), NEW e \in S, NEW x
    PROVE  /\ Times(x, lines) <= Times(x, Append(lines, e))
           /\ e = x => Times(x, Append(lines, e)) = Times(x, lines) + 1
<1> DEFINE n == Len(lines) + 1
           A == {i \in DOMAIN lines : lines[i] = x}
           B == {i \in DOMAIN Append(lines, e) : Append(lines, e)[i] = x}
<1>1. /\ Append(lines, e) \in Seq(S)
      /\ Len(Append(lines, e)) = n
      /\ \A i \in 1..Len(lines) : Append(lines, e)[i] = lines[i]
      /\ Append(lines, e)[n] = e
  BY AppendProperties
<1>2. /\ DOMAIN lines = 1..Len(lines) /\ Len(lines) \in Nat
      /\ DOMAIN Append(lines, e) = 1..n
  BY <1>1, LenProperties
<1>3. 1..n = (1..Len(lines)) \cup {n} /\ n \notin 1..Len(lines)
  BY <1>2
<1>4. IsFiniteSet(A) /\ IsFiniteSet(B)
  BY <1>1, TimesFinite
<1>5. A \subseteq B /\ n \notin A
  BY <1>1, <1>2, <1>3
<1>6. e = x => B = A \cup {n}
  BY <1>1, <1>2, <1>3
<1>7. Times(x, lines) = Cardinality(A) /\ Times(x, Append(lines, e)) = Cardinality(B)
  BY DEF Times
<1>8. Cardinality(A) <= Cardinality(B)
  BY <1>4, <1>5, FS_Subset
<1>9. Cardinality(A \cup {n}) = Cardinality(A) + 1
  BY <1>4, <1>5, FS_AddElement
<1>. QED
  BY <1>6, <1>7, <1>8, <1>9

\* Taking the first element off a list takes at most that one away.
LEMMA TimesTail ==
    ASSUME NEW S, NEW list \in Seq(S), list # <<>>, NEW x
    PROVE  /\ Times(x, list) <= Times(x, Tail(list)) + 1
           /\ Head(list) # x => Times(x, list) <= Times(x, Tail(list))
<1> DEFINE A == {i \in DOMAIN list : list[i] = x}
           B == {i \in DOMAIN Tail(list) : Tail(list)[i] = x}
           D == A \ {1}
           g == [i \in D |-> i - 1]
<1>1. /\ Tail(list) \in Seq(S)
      /\ Len(Tail(list)) = Len(list) - 1
      /\ \A i \in 1..Len(Tail(list)) : Tail(list)[i] = list[i + 1]
      /\ Head(list) = list[1]
  BY HeadTailProperties
<1>2. /\ DOMAIN list = 1..Len(list) /\ Len(list) \in Nat
      /\ DOMAIN Tail(list) = 1..(Len(list) - 1)
  BY <1>1, LenProperties
<1>3. IsFiniteSet(A) /\ IsFiniteSet(B)
  BY <1>1, TimesFinite
<1>4. ASSUME NEW i \in D
      PROVE  i - 1 \in B
  <2>1. i \in 2..Len(list) /\ list[i] = x
    BY <1>2
  <2>2. PICK k \in 1..(Len(list) - 1) : k = i - 1 /\ k + 1 = i
    BY <1>2, <2>1
  <2>3. Tail(list)[k] = list[k + 1]
    BY <1>1, <2>2
  <2>. QED
    BY <1>2, <2>1, <2>2, <2>3
<1>5. g \in Injection(D, B)
  <2>1. g \in [D -> B]
    BY <1>4
  <2>2. \A i, j \in D : g[i] = g[j] => i = j
    BY <1>2
  <2>. QED
    BY <2>1, <2>2 DEF Injection, IsInjective
<1>6. Times(x, list) = Cardinality(A) /\ Times(x, Tail(list)) = Cardinality(B)
  BY DEF Times
<1>7. Head(list) # x => 1 \notin A
  BY <1>1
<1>8. /\ D \subseteq A
      /\ 1 \notin D
      /\ 1 \in A => A = D \cup {1}
      /\ 1 \notin A => A = D
  OBVIOUS
<1> HIDE DEF A, B, D, g
<1>9. Cardinality(D) <= Cardinality(B)
  BY <1>3, <1>5, FS_Injection
<1>10. IsFiniteSet(D)
  BY <1>3, <1>8, FS_Subset
<1>11. /\ Cardinality(D) \in Nat
       /\ Cardinality(B) \in Nat
  BY <1>3, <1>10, FS_CardinalityType
<1>12. CASE 1 \in A
  <2>1. Cardinality(D \cup {1}) = Cardinality(D) + 1
    BY <1>8, <1>10, FS_AddElement
  <2>2. Cardinality(A) = Cardinality(D) + 1
    BY <1>8, <1>12, <2>1, Zenon
  <2>. QED
    BY <1>6, <1>7, <1>9, <1>11, <1>12, <2>2
<1>13. CASE 1 \notin A
  <2>1. Cardinality(A) = Cardinality(D)
    BY <1>8, <1>13, Zenon
  <2>. QED
    BY <1>6, <1>9, <1>11, <2>1
<1>. QED
  BY <1>12, <1>13

-----------------------------------------------------------------------------

\* The fields of a state.
LEMMA Fields ==
    ASSUME NEW s \in WorkflowState
    PROVE  /\ s.status \in Status /\ s.stage \in Range(Stage) /\ s.targets \in Seq(Target)
           /\ s.findings \in Found \cup {<<>>} /\ s.evidence \in Seq(Found \cup {<<>>})
           /\ s.skip \in BOOLEAN
           /\ Rank(s.stage) \in 1..8
<1>1. /\ s.status \in Status /\ s.stage \in Range(Stage) /\ s.targets \in Seq(Target)
      /\ s.findings \in Found \cup {<<>>} /\ s.evidence \in Seq(Found \cup {<<>>})
      /\ s.skip \in BOOLEAN
  BY DEF WorkflowState, Status
<1>. QED
  BY <1>1, Ranks

LEMMA EvidenceChanged ==
    ASSUME NEW s \in WorkflowState, NEW n,
           n = [s EXCEPT !.evidence = <<s.findings>>, !.stage = "report"]
    PROVE  /\ n \in WorkflowState
           /\ n.stage = "report" /\ n.status = s.status /\ n.targets = s.targets
           /\ n.findings = s.findings /\ n.evidence = <<s.findings>> /\ n.skip = s.skip
<1>1. "report" \in Range(Stage)
  BY Ranks
<1>2. <<s.findings>> \in Seq(Found \cup {<<>>})
  BY Fields
<1> DEFINE reference == <<s.findings>>
<1> HIDE DEF reference
<1>3. reference \in Seq(Found \cup {<<>>}) /\ n = [s EXCEPT !.evidence = reference, !.stage = "report"]
  BY <1>2 DEF reference
<1>4. /\ n \in WorkflowState
      /\ n.stage = "report" /\ n.status = s.status /\ n.targets = s.targets
      /\ n.findings = s.findings /\ n.evidence = reference /\ n.skip = s.skip
  BY <1>1, <1>3 DEF WorkflowState
<1>. QED
  BY <1>4 DEF reference

LEMMA NewStateSound ==
    ASSUME NEW skip \in BOOLEAN, NEW lines \in Seq(Event), NEW without, NEW b, NEW m, NEW r
    PROVE  /\ NewState(skip) \in WorkflowState
           /\ NewState(skip).status = "running"
           /\ Sound(NewState(skip), lines, without, b, m, r)
<1> DEFINE s == NewState(skip)
<1>1. /\ s.status = "running" /\ s.stage = "discover" /\ s.targets = <<>>
      /\ s.findings = <<>> /\ s.evidence = <<>> /\ s.skip = skip
  BY DEF NewState
<1>2. s \in WorkflowState
  <2>1. <<>> \in Seq(Target) /\ <<>> \in Seq(Found \cup {<<>>})
    BY EmptySeq
  <2>2. "discover" \in Range(Stage)
    BY Ranks
  <2>. QED
    BY <2>1, <2>2 DEF NewState, WorkflowState, Terminal
<1>3. Covered(s, lines)
  <2>1. ASSUME NEW f \in Finding
        PROVE  Times(f, <<>>) = 0 /\ Times(Line(f), lines) \in Nat
    <3>1. {i \in DOMAIN <<>> : <<>>[i] = f} = {}
      OBVIOUS
    <3>2. Times(f, <<>>) = 0
      BY <3>1, FS_EmptySet DEF Times
    <3>. QED
      BY <3>2, TimesFinite
  <2>. QED
    BY <1>1, <2>1 DEF Covered
<1>4. Shape(s) /\ Done(s, Range(lines), without) /\ Filed(s, b, m, r)
  BY <1>1, Ranks DEF Shape, Done, Filed
<1>. QED
  BY <1>1, <1>2, <1>3, <1>4, Ranks DEF Sound

-----------------------------------------------------------------------------

Extends(lines, more) == more = lines \/ \E e \in Event : more = Append(lines, e)

Fills(b, c) == \A x \in Found : b[x] # "absent" => c[x] # "absent"

LEMMA ExtendsKeeps ==
    ASSUME NEW lines \in Seq(Event), NEW more, Extends(lines, more)
    PROVE  /\ more \in Seq(Event)
           /\ Range(lines) \subseteq Range(more)
           /\ \A x : /\ Times(x, lines) \in Nat /\ Times(x, more) \in Nat
                     /\ Times(x, lines) <= Times(x, more)
<1>1. ASSUME more = lines, NEW x
      PROVE  Times(x, more) = Times(x, lines) /\ Times(x, lines) \in Nat
  <2>1. Times(x, lines) \in Nat
    BY TimesFinite
  <2>. QED
    BY <1>1, <2>1, Zenon
<1>2. ASSUME NEW e \in Event, more = Append(lines, e)
      PROVE  /\ more \in Seq(Event)
             /\ Range(lines) \subseteq Range(more)
             /\ \A x : Times(x, lines) <= Times(x, more)
  BY <1>2, Appended, TimesAppend
<1>3. more \in Seq(Event) /\ Range(lines) \subseteq Range(more)
  BY <1>1, <1>2 DEF Extends
<1>4. ASSUME NEW x
      PROVE  /\ Times(x, lines) \in Nat /\ Times(x, more) \in Nat
             /\ Times(x, lines) <= Times(x, more)
  <2>1. CASE more = lines
    BY <1>1, <2>1
  <2>2. CASE \E e \in Event : more = Append(lines, e)
    BY <1>2, <1>3, <2>2, TimesFinite
  <2>. QED
    BY <2>1, <2>2 DEF Extends
<1>. QED
  BY <1>3, <1>4

LEMMA CoveredGrows ==
    ASSUME NEW s \in WorkflowState, NEW t, t.findings = s.findings,
           NEW lines \in Seq(Event), NEW more, Extends(lines, more), Covered(s, lines)
    PROVE  Covered(t, more)
<1>1. s.findings \in Seq(Finding)
  BY Fields, WorkflowAssumption, EmptySeq
<1>2. ASSUME NEW f \in Finding
      PROVE  Times(f, t.findings) <= Times(Line(f), more)
  <2>1. Times(f, s.findings) \in Nat
    BY <1>1, TimesFinite
  <2>2. Times(f, s.findings) <= Times(Line(f), lines)
    BY DEF Covered
  <2>3. /\ Times(Line(f), lines) \in Nat
        /\ Times(Line(f), more) \in Nat
        /\ Times(Line(f), lines) <= Times(Line(f), more)
    BY ExtendsKeeps
  <2>4. Times(f, t.findings) = Times(f, s.findings)
    BY Zenon
  <2>. QED
    BY <2>1, <2>2, <2>3, <2>4
<1>. QED
  BY <1>2 DEF Covered

\* A sound state stays sound while ledger and evidence grow; the report is written again
\* only for a state before the cleanup.
LEMMA SoundGrows ==
    ASSUME NEW s \in WorkflowState,
           NEW lines \in Seq(Event), NEW without, NEW b, NEW m, NEW r,
           NEW lines2, NEW without2, NEW b2, NEW m2, NEW r2,
           Sound(s, lines, without, b, m, r), Extends(lines, lines2), without \subseteq without2,
           Fills(b, b2), Fills(m, m2), r2 = r \/ Rank(s.stage) < 7
    PROVE  Sound(s, lines2, without2, b2, m2, r2)
<1>1. Range(lines) \subseteq Range(lines2)
  BY ExtendsKeeps
<1>2. Covered(s, lines2)
  BY CoveredGrows DEF Sound
<1>3. Done(s, Range(lines2), without2)
  BY <1>1 DEF Sound, Done, Success, CleanedUp
<1>4. Filed(s, b2, m2, r2)
  BY Fields DEF Sound, Filed, Fills
<1>. QED
  BY <1>2, <1>3, <1>4 DEF Sound

\* The next finding moves from those to come into the ledger.
LEMMA MidwayMoves ==
    ASSUME NEW s \in WorkflowState, NEW rest \in Seq(Finding), rest # <<>>,
           NEW lines \in Seq(Event), Midway(s, rest, lines)
    PROVE  /\ Line(Head(rest)) \in Event
           /\ Tail(rest) \in Seq(Finding)
           /\ Midway(s, Tail(rest), Append(lines, Line(Head(rest))))
<1> DEFINE more == Append(lines, Line(Head(rest)))
<1>1. Head(rest) \in Finding /\ Tail(rest) \in Seq(Finding)
  BY HeadTailProperties
<1>2. Line(Head(rest)) \in Event
  BY <1>1 DEF Line, Event
<1>3. Extends(lines, more)
  BY <1>2 DEF Extends
<1>4. Range(lines) \subseteq Range(more)
  BY <1>3, ExtendsKeeps
<1>5. s.findings \in Seq(Finding)
  BY Fields, WorkflowAssumption, EmptySeq
<1>6. ASSUME NEW f \in Finding
      PROVE  Times(f, s.findings) <= Times(f, Tail(rest)) + Times(Line(f), more)
  <2>1. /\ Times(f, s.findings) \in Nat
        /\ Times(f, rest) \in Nat
        /\ Times(f, Tail(rest)) \in Nat
    BY <1>1, <1>5, TimesFinite
  <2>2. Times(f, s.findings) <= Times(f, rest) + Times(Line(f), lines)
    BY DEF Midway
  <2>3. /\ Times(Line(f), lines) \in Nat
        /\ Times(Line(f), more) \in Nat
        /\ Times(Line(f), lines) <= Times(Line(f), more)
    BY <1>3, ExtendsKeeps
  <2>4. Head(rest) = f => Times(Line(f), more) = Times(Line(f), lines) + 1
    BY <1>2, TimesAppend
  <2>5. /\ Times(f, rest) <= Times(f, Tail(rest)) + 1
        /\ Head(rest) # f => Times(f, rest) <= Times(f, Tail(rest))
    BY TimesTail
  <2> HIDE DEF more
  <2>. QED
    BY <2>1, <2>2, <2>3, <2>4, <2>5
<1>. QED
  BY <1>1, <1>2, <1>4, <1>6 DEF Midway, Success

-----------------------------------------------------------------------------

\* What a stage leaves behind is sound if the stage before it was.

LEMMA SoundTargets ==
    ASSUME NEW s \in WorkflowState, s.stage = "discover", NEW n \in WorkflowState,
           n.stage = "plan", n.status = s.status, n.targets # <<>>,
           n.findings = s.findings, n.evidence = s.evidence, n.skip = s.skip,
           NEW lines \in Seq(Event), NEW without, NEW b, NEW m, NEW r,
           Sound(s, lines, without, b, m, r)
    PROVE  Continues(s, n) /\ Sound(n, lines, without, b, m, r)
<1>1. Covered(n, lines)
  BY CoveredGrows DEF Sound, Extends
<1>2. Rank(s.stage) = 1 /\ Rank(n.stage) = 2
  BY Ranks
<1>3. Continues(s, n)
  BY <1>2 DEF Continues
<1>. QED
  BY <1>1, <1>2, <1>3 DEF Sound, Shape, Done, Filed

LEMMA SoundPlanned ==
    ASSUME NEW s \in WorkflowState, s.stage = "plan", NEW n, n = [s EXCEPT !.stage = "assess"],
           NEW lines \in Seq(Event), NEW without, NEW b, NEW m, NEW r,
           Sound(s, lines, without, b, m, r)
    PROVE  /\ n \in WorkflowState /\ n.status = s.status /\ Continues(s, n)
           /\ Sound(n, lines, without, b, m, r)
<1>1. "assess" \in Range(Stage)
  BY Ranks
<1>2. /\ n \in WorkflowState
      /\ n.stage = "assess" /\ n.status = s.status /\ n.targets = s.targets
      /\ n.findings = s.findings /\ n.evidence = s.evidence /\ n.skip = s.skip
  BY <1>1 DEF WorkflowState
<1>3. Covered(n, lines)
  BY <1>2, CoveredGrows DEF Sound, Extends
<1>4. Rank(s.stage) = 2 /\ Rank(n.stage) = 3
  BY <1>2, Ranks
<1>5. Done(n, Range(lines), without)
  BY <1>2, <1>4 DEF Sound, Done
<1>6. Shape(n) /\ Filed(n, b, m, r)
  BY <1>2, <1>4 DEF Sound, Shape, Filed
<1>7. Continues(s, n)
  BY <1>2, Ranks, Fields DEF Continues
<1>. QED
  BY <1>2, <1>3, <1>4, <1>5, <1>6, <1>7 DEF Sound

LEMMA SoundValidated ==
    ASSUME NEW s \in WorkflowState, s.stage = "validate", NEW n, n = [s EXCEPT !.stage = "evidence"],
           NEW lines \in Seq(Event), NEW without, NEW b, NEW m, NEW r,
           Sound(s, lines, without, b, m, r),
           "validate" \in without \/ Success("validate", Range(lines))
    PROVE  /\ n \in WorkflowState /\ n.status = s.status /\ Continues(s, n)
           /\ Sound(n, lines, without, b, m, r)
<1>1. "evidence" \in Range(Stage)
  BY Ranks
<1>2. /\ n \in WorkflowState
      /\ n.stage = "evidence" /\ n.status = s.status /\ n.targets = s.targets
      /\ n.findings = s.findings /\ n.evidence = s.evidence /\ n.skip = s.skip
  BY <1>1 DEF WorkflowState
<1>3. Covered(n, lines)
  BY <1>2, CoveredGrows DEF Sound, Extends
<1>4. Rank(s.stage) = 4 /\ Rank(n.stage) = 5
  BY <1>2, Ranks
<1>5. Done(n, Range(lines), without)
  BY <1>2, <1>4 DEF Sound, Done
<1>6. Shape(n) /\ Filed(n, b, m, r)
  BY <1>2, <1>4 DEF Sound, Shape, Filed
<1>7. Continues(s, n)
  BY <1>2, Ranks, Fields DEF Continues
<1>. QED
  BY <1>2, <1>3, <1>4, <1>5, <1>6, <1>7 DEF Sound

LEMMA SoundReported ==
    ASSUME NEW s \in WorkflowState, s.stage = "report", NEW n, n = [s EXCEPT !.stage = "cleanup"],
           NEW lines \in Seq(Event), NEW without, NEW b, NEW m, NEW r,
           Sound(s, lines, without, b, m, r),
           Whole(r, s)
    PROVE  /\ n \in WorkflowState /\ n.status = s.status /\ Continues(s, n)
           /\ Sound(n, lines, without, b, m, r)
<1>1. "cleanup" \in Range(Stage)
  BY Ranks
<1>2. /\ n \in WorkflowState
      /\ n.stage = "cleanup" /\ n.status = s.status /\ n.targets = s.targets
      /\ n.findings = s.findings /\ n.evidence = s.evidence /\ n.skip = s.skip
  BY <1>1 DEF WorkflowState
<1>3. Covered(n, lines)
  BY <1>2, CoveredGrows DEF Sound, Extends
<1>4. Rank(s.stage) = 6 /\ Rank(n.stage) = 7
  BY <1>2, Ranks
<1>5. Done(n, Range(lines), without)
  BY <1>2, <1>4 DEF Sound, Done
<1>6. Shape(n) /\ Filed(n, b, m, r)
  BY <1>2, <1>4 DEF Sound, Shape, Filed, Whole
<1>7. Continues(s, n)
  BY <1>2, Ranks, Fields DEF Continues
<1>. QED
  BY <1>2, <1>3, <1>4, <1>5, <1>6, <1>7 DEF Sound

LEMMA SoundCleaned ==
    ASSUME NEW s \in WorkflowState, s.stage = "cleanup", NEW n, n = [s EXCEPT !.stage = "complete"],
           NEW lines \in Seq(Event), NEW without, NEW b, NEW m, NEW r,
           Sound(s, lines, without, b, m, r),
           CleanedUp(Range(lines), without)
    PROVE  /\ n \in WorkflowState /\ n.status = s.status /\ Continues(s, n)
           /\ Sound(n, lines, without, b, m, r)
<1>1. "complete" \in Range(Stage)
  BY Ranks
<1>2. /\ n \in WorkflowState
      /\ n.stage = "complete" /\ n.status = s.status /\ n.targets = s.targets
      /\ n.findings = s.findings /\ n.evidence = s.evidence /\ n.skip = s.skip
  BY <1>1 DEF WorkflowState
<1>3. Covered(n, lines)
  BY <1>2, CoveredGrows DEF Sound, Extends
<1>4. Rank(s.stage) = 7 /\ Rank(n.stage) = 8
  BY <1>2, Ranks
<1>5. Done(n, Range(lines), without)
  BY <1>2, <1>4 DEF Sound, Done
<1>6. Shape(n) /\ Filed(n, b, m, r)
  BY <1>2, <1>4 DEF Sound, Shape, Filed, Whole
<1>7. Continues(s, n)
  BY <1>2, Ranks, Fields DEF Continues
<1>. QED
  BY <1>2, <1>3, <1>4, <1>5, <1>6, <1>7 DEF Sound

LEMMA SoundAssessed ==
    ASSUME NEW s \in WorkflowState, s.stage = "assess", s.status # "succeeded", NEW n,
           n = [s EXCEPT !.stage = IF s.skip THEN "evidence" ELSE "validate"],
           NEW lines \in Seq(Event), NEW without, NEW b, NEW m, NEW r,
           Midway(s, <<>>, lines)
    PROVE  /\ n \in WorkflowState /\ n.status = s.status /\ Continues(s, n)
           /\ Sound(n, lines, without, b, m, r)
<1> DEFINE g == IF s.skip THEN "evidence" ELSE "validate"
<1>1. g \in Range(Stage) /\ n = [s EXCEPT !.stage = g]
  BY Ranks
<1>2. g = "validate" \/ (g = "evidence" /\ s.skip)
  BY Zenon
<1> HIDE DEF g
<1>3. /\ n \in WorkflowState
      /\ n.stage = g /\ n.status = s.status /\ n.targets = s.targets
      /\ n.findings = s.findings /\ n.evidence = s.evidence /\ n.skip = s.skip
  BY <1>1 DEF WorkflowState
<1>4. Covered(s, lines)
  <2>1. ASSUME NEW f \in Finding
        PROVE  Times(f, s.findings) <= Times(Line(f), lines)
    <3>1. {i \in DOMAIN <<>> : <<>>[i] = f} = {}
      OBVIOUS
    <3>2. Times(f, <<>>) = 0
      BY <3>1, FS_EmptySet DEF Times
    <3>3. Times(Line(f), lines) \in Nat
      BY TimesFinite
    <3>. QED
      BY <3>2, <3>3 DEF Midway
  <2>. QED
    BY <2>1 DEF Covered
<1>5. Covered(n, lines)
  BY <1>3, <1>4, CoveredGrows DEF Extends
<1>6. Rank(s.stage) = 3 /\ Rank(n.stage) \in {4, 5} /\ (Rank(n.stage) = 5 => n.skip)
  BY <1>2, <1>3, Ranks
<1>7. Done(n, Range(lines), without)
  BY <1>3, <1>6 DEF Midway, Done
<1>8. Shape(n) /\ Filed(n, b, m, r) /\ n.findings \in Found
  BY <1>3, <1>6 DEF Midway, Shape, Filed
<1>9. Continues(s, n)
  BY <1>3, <1>2, Ranks, Fields DEF Continues
<1>. QED
  BY <1>3, <1>5, <1>6, <1>7, <1>8, <1>9 DEF Sound

LEMMA SoundReferenced ==
    ASSUME NEW s \in WorkflowState, s.stage = "evidence", NEW n \in WorkflowState,
           n.stage = "report", n.status = s.status, n.targets = s.targets,
           n.findings = s.findings, n.evidence = <<s.findings>>, n.skip = s.skip,
           NEW lines \in Seq(Event), NEW without, NEW b, NEW m, NEW r,
           Sound(s, lines, without, b, m, r),
           b[s.findings] # "absent", m[s.findings] # "absent"
    PROVE  Continues(s, n) /\ Sound(n, lines, without, b, m, r)
<1>1. Covered(n, lines)
  BY CoveredGrows DEF Sound, Extends
<1>2. Rank(s.stage) = 5 /\ Rank(n.stage) = 6
  BY Ranks
<1>3. Shape(n) /\ Filed(n, b, m, r)
  BY <1>2 DEF Sound, Shape, Filed
<1>4. Done(n, Range(lines), without)
  BY <1>2 DEF Sound, Done
<1>5. Continues(s, n)
  BY <1>2 DEF Continues
<1>. QED
  BY <1>1, <1>2, <1>3, <1>4, <1>5 DEF Sound

\* The status says nothing about the stages, but for success.
LEMMA SoundStatus ==
    ASSUME NEW s \in WorkflowState, NEW u \in Status, u = "succeeded" => s.stage = "complete",
           NEW n, n = [s EXCEPT !.status = u],
           NEW lines \in Seq(Event), NEW without, NEW b, NEW m, NEW r,
           Sound(s, lines, without, b, m, r)
    PROVE  /\ n \in WorkflowState /\ n.status = u /\ Continues(s, n)
           /\ Sound(n, lines, without, b, m, r)
<1>1. /\ n \in WorkflowState
      /\ n.stage = s.stage /\ n.status = u /\ n.targets = s.targets
      /\ n.findings = s.findings /\ n.evidence = s.evidence /\ n.skip = s.skip
  BY DEF WorkflowState, Status
<1>2. Covered(n, lines)
  BY <1>1, CoveredGrows DEF Sound, Extends
<1>3. Continues(s, n)
  BY <1>1, Ranks, Fields DEF Continues
<1>4. Whole(r, n) <=> Whole(r, s)
  BY <1>1 DEF Whole
<1>. QED
  BY <1>1, <1>2, <1>3, <1>4 DEF Sound, Shape, Done, Filed

\* What an assessment reports becomes the findings of the state.
LEMMA MidwayBegins ==
    ASSUME NEW s \in WorkflowState, s.stage = "assess", NEW found \in Found,
           NEW n, n = [s EXCEPT !.findings = s.findings \o found],
           NEW lines \in Seq(Event), NEW without, NEW b, NEW m, NEW r,
           Sound(s, lines, without, b, m, r),
           NEW more, Extends(lines, more),
           Success("assess", Range(more))
    PROVE  /\ n \in WorkflowState /\ n.stage = "assess" /\ n.status = s.status /\ Continues(s, n)
           /\ Midway(n, found, more)
<1>1. s.findings = <<>>
  BY Ranks DEF Sound
<1>2. found \in Seq(Finding)
  BY WorkflowAssumption
<1>3. s.findings \o found = found
  BY <1>1, <1>2
<1>4. n = [s EXCEPT !.findings = found]
  BY <1>3
<1>5. /\ n \in WorkflowState
      /\ n.stage = s.stage /\ n.status = s.status /\ n.targets = s.targets
      /\ n.findings = found /\ n.evidence = s.evidence /\ n.skip = s.skip
  BY <1>4 DEF WorkflowState
<1>6. ASSUME NEW f \in Finding
      PROVE  Times(f, n.findings) <= Times(f, found) + Times(Line(f), more)
  <2>1. Times(f, found) \in Nat
    BY <1>2, TimesFinite
  <2>2. Times(Line(f), more) \in Nat
    BY ExtendsKeeps
  <2>3. Times(f, n.findings) = Times(f, found)
    BY <1>5
  <2>. QED
    BY <2>1, <2>2, <2>3
<1>7. Shape(n)
  BY <1>5, Ranks DEF Sound, Shape
<1>8. Continues(s, n)
  BY <1>5, Ranks, Fields DEF Continues
<1>. QED
  BY <1>5, <1>6, <1>7, <1>8 DEF Midway

\* A later state of a later state is a later state.
LEMMA ContinuesTransitive ==
    ASSUME NEW a \in WorkflowState, NEW b \in WorkflowState, NEW c \in WorkflowState,
           Continues(a, b), Continues(b, c)
    PROVE  Continues(a, c)
<1>1. Rank(a.stage) \in 1..8 /\ Rank(b.stage) \in 1..8 /\ Rank(c.stage) \in 1..8
  BY Fields
<1>. QED
  BY <1>1 DEF Continues

-----------------------------------------------------------------------------

\* A line that may be logged now: the end of a run only when it has been saved.
MayLog(e) ==
    /\ e \in Event
    /\ e.type = "RUN_END" =>
           saved # NoState /\ saved.status \in Terminal /\ saved.status = e.status

\* A step that saves no state: what it may do to the files.
DiskStep ==
    /\ saved' = saved
    /\ ledger' = ledger \/ \E e : MayLog(e) /\ ledger' = Append(ledger, e)
    /\ passed \subseteq passed'
    /\ Fills(bin, bin')
    /\ Fills(meta, meta')
    /\ report' = report \/ pc \in {"report", "report_rest"}

\* In a call the local state is a state.
LEMMA InCall ==
    ASSUME Types, Control, pc # "idle"
    PROVE  state \in WorkflowState /\ Rank(state.stage) \in 1..8
BY Fields DEF Types, Control

LEMMA DiskStepKeeps ==
    ASSUME Inv, DiskStep
    PROVE  Extends(ledger, ledger') /\ ledger' \in Seq(Event) /\ Saved' /\ Ends'
<1>1. Extends(ledger, ledger')
  BY DEF DiskStep, Extends, MayLog
<1>2. ledger \in Seq(Event) /\ ledger' \in Seq(Event)
  BY <1>1, ExtendsKeeps DEF Inv, Types
<1>3. Saved'
  <2>1. SUFFICES ASSUME saved # NoState
                 PROVE  Sound(saved, ledger', passed', bin', meta', report')
    BY DEF DiskStep, Saved
  <2>2. saved \in WorkflowState /\ Rank(saved.stage) \in 1..8
    BY <2>1, Fields DEF Inv, Types
  <2>3. report' = report \/ Rank(saved.stage) < 7
    <3>1. CASE pc \in {"report", "report_rest"}
      <4>1. state.stage = "report"
        BY <3>1, Ranks DEF Inv, Control
      <4>2. Rank(saved.stage) <= Rank(state.stage)
        BY <2>1, <3>1 DEF Inv, Current, Continues
      <4>. QED
        BY <2>2, <4>1, <4>2, Ranks
    <3>. QED
      BY <3>1 DEF DiskStep
  <2>4. Sound(saved, ledger, passed, bin, meta, report)
    BY <2>1 DEF Inv, Saved
  <2>. QED
    BY <1>1, <1>2, <2>2, <2>3, <2>4, SoundGrows DEF DiskStep
<1>4. Ends'
  <2>1. CASE ledger' = ledger
    BY <2>1 DEF DiskStep, Inv, Ends
  <2>2. ASSUME NEW e, MayLog(e), ledger' = Append(ledger, e)
        PROVE  Ends'
    <3>1. Range(ledger') = Range(ledger) \cup {e}
      BY <1>2, <2>2, Appended DEF MayLog
    <3>. QED
      BY <2>2, <3>1 DEF DiskStep, Inv, Ends, MayLog
  <2>. QED
    BY <2>1, <2>2 DEF DiskStep
<1>. QED
  BY <1>1, <1>2, <1>3, <1>4

\* The local state stays sound.
LEMMA StillSound ==
    ASSUME Inv, DiskStep, pc \notin {"idle", "findings"}
    PROVE  Sound(state, ledger', passed', bin', meta', report')
<1>1. state \in WorkflowState /\ Rank(state.stage) \in 1..8
  BY InCall DEF Inv
<1>2. report' = report \/ Rank(state.stage) < 7
  BY Ranks DEF Inv, Control, DiskStep
<1>3. Extends(ledger, ledger') /\ ledger \in Seq(Event)
  BY DiskStepKeeps DEF Inv, Types
<1>. QED
  BY <1>1, <1>2, <1>3, SoundGrows DEF Inv, Current, DiskStep

LEMMA SameState ==
    ASSUME Inv, DiskStep, state' = state,
           pc \notin {"idle", "findings"}, pc' \notin {"idle", "findings"}
    PROVE  Current'
BY StillSound DEF Inv, Current, DiskStep

\* The local state moves on.
LEMMA NextState ==
    ASSUME Inv, saved' = saved, pc # "idle", pc' \notin {"idle", "findings"},
           state' \in WorkflowState, Continues(state, state'),
           Sound(state', ledger', passed', bin', meta', report')
    PROVE  Current'
<1>1. state \in WorkflowState
  BY InCall DEF Inv
<1>2. saved # NoState => Continues(saved, state')
  BY <1>1, ContinuesTransitive DEF Inv, Types, Current
<1>. QED
  BY <1>2 DEF Current

LEMMA NoneLeft ==
    ASSUME Leave
    PROVE  Current'
BY DEF Leave, Current

-----------------------------------------------------------------------------

LEMMA Initially == Init => Inv
<1> SUFFICES ASSUME Init
             PROVE  Inv
  OBVIOUS
<1>1. ledger = <<>> /\ Range(ledger) = {}
  BY DEF Init, Range
<1>2. Types
  <2>1. PICK s \in Setups : scope = s.scope /\ registry = s.registry
    BY DEF Init
  <2>2. [scope |-> scope, registry |-> registry] = s
    BY <2>1, WorkflowAssumption
  <2>3. left \in Seq(Plugin) /\ ledger \in Seq(Event)
    BY EmptySeq DEF Init
  <2>4. result \in Results
    BY EmptySeq DEF Init, Failure, Results
  <2>. QED
    BY <2>1, <2>2, <2>3, <2>4 DEF Init, Types, Labels, File
<1>3. Control
  <2>1. "idle" \notin Range(Stage)
    BY Ranks
  <2>. QED
    BY <2>1 DEF Init, Control
<1>. QED
  BY <1>1, <1>2, <1>3 DEF Inv, Init, Saved, Current, Ends

LEMMA CallKeeps == \A skip \in BOOLEAN : Inv /\ Call(skip) => Inv'
<1> SUFFICES ASSUME NEW skip \in BOOLEAN, Inv, Call(skip)
             PROVE  Inv'
  OBVIOUS
<1>1. ledger \in Seq(Event)
  BY DEF Inv, Types
<1>2. /\ state' \in WorkflowState
      /\ state'.status = "running"
      /\ Sound(state', ledger, passed, bin, meta, report)
      /\ saved # NoState => Continues(saved, state') /\ saved.status \notin Terminal
  <2>1. CASE saved = NoState
    <3>1. state' = NewState(skip)
      BY <2>1 DEF Call, Load
    <3>. QED
      BY <1>1, <2>1, <3>1, NewStateSound
  <2>2. CASE saved # NoState
    <3>1. saved \in WorkflowState /\ saved.status \notin Terminal
      BY <2>2 DEF Inv, Types, Call, Ended
    <3>2. saved.status = "running" \/ saved.status = "pending_approval"
      BY <3>1, Fields DEF Status
    <3>3. state' = [saved EXCEPT !.status = "running"]
      BY <2>2, <3>1, <3>2 DEF Call, Load, WorkflowState
    <3>4. "running" \in Status /\ Sound(saved, ledger, passed, bin, meta, report)
      BY <2>2 DEF Status, Inv, Saved
    <3>5. /\ state' \in WorkflowState /\ state'.status = "running" /\ Continues(saved, state')
          /\ Sound(state', ledger, passed, bin, meta, report)
      BY <1>1, <3>1, <3>3, <3>4, SoundStatus
    <3>. QED
      BY <3>1, <3>5
  <2>. QED
    BY <2>1, <2>2
<1>3. state' # NoState
  BY <1>2, StateAssumption
<1>4. pc' = "open" /\ pc' \notin Range(Stage)
  BY Ranks DEF Call
<1>5. UNCHANGED <<left, result, saved, ledger, bin, meta, report, scope, registry, approval,
                  revoked, passed>>
  BY DEF Call, disk, setup, policy
<1>6. Types'
  BY <1>2, <1>4, <1>5 DEF Inv, Types, Labels
<1>7. Control'
  BY <1>2, <1>3, <1>4, <1>5 DEF Control
<1>. QED
  BY <1>2, <1>4, <1>5, <1>6, <1>7 DEF Inv, Saved, Current, Ends

-----------------------------------------------------------------------------

\* What every step of a call that saves no state has in common.
LEMMA Frame ==
    ASSUME Inv, DiskStep, UNCHANGED <<scope, registry, approval, revoked>>,
           pc' \in Labels, state' \in WorkflowState \cup {NoState}, left' \in Seq(Plugin),
           result' \in Results, bin' \in [Found -> File], meta' \in [Found -> File]
    PROVE  Types' /\ Saved' /\ Ends'
<1>1. ledger' \in Seq(Event) /\ saved' = saved
  BY DiskStepKeeps DEF DiskStep
<1>2. Types'
  BY <1>1 DEF Inv, Types, Results
<1>. QED
  BY <1>2, DiskStepKeeps DEF Inv

\* Nothing but the place in the code and the candidates that are left has changed.
LEMMA Jump ==
    ASSUME Inv, UNCHANGED <<state, result, disk, setup, passed, approval, revoked>>,
           pc' \in Labels, left' \in Seq(Plugin),
           pc \notin {"idle", "findings"}, pc' \notin {"idle", "findings"}, Control'
    PROVE  Inv'
<1>1. DiskStep
  BY DEF DiskStep, Fills, disk
<1>2. Types' /\ Saved' /\ Ends'
  BY <1>1, Frame DEF Inv, Types, Results, disk, setup
<1>3. Current'
  BY <1>1, SameState
<1>. QED
  BY <1>2, <1>3 DEF Inv

\* The call is over and has changed nothing on disk but the ledger.
LEMMA Left ==
    ASSUME Inv, DiskStep, Leave, UNCHANGED <<scope, registry, approval, revoked>>,
           bin' \in [Found -> File], meta' \in [Found -> File]
    PROVE  Inv'
<1>1. pc' = "idle" /\ state' = NoState /\ left' = <<>> /\ result' = Failure
  BY DEF Leave
<1>2. left' \in Seq(Plugin) /\ result' \in Results /\ pc' \in Labels
  BY <1>1, EmptySeq DEF Failure, Results, Labels
<1>3. Types' /\ Saved' /\ Ends'
  BY <1>1, <1>2, Frame
<1>4. "idle" \notin Range(Stage)
  BY Ranks
<1>5. Control'
  BY <1>1, <1>4 DEF Control
<1>. QED
  BY <1>3, <1>5, NoneLeft DEF Inv

LEMMA OpenLedgerKeeps == Inv /\ OpenLedger => Inv'
<1> SUFFICES ASSUME Inv, OpenLedger
             PROVE  Inv'
  OBVIOUS
<1>1. UNCHANGED <<disk, setup, passed, approval, revoked>> /\ pc = "open"
  BY DEF OpenLedger, policy
<1>2. CASE Leave
  BY <1>1, <1>2, Left DEF Inv, Types, DiskStep, Fills, disk, setup
<1>3. CASE Goto("run_start") \/ Goto("loop")
  <2>1. pc' \in {"run_start", "loop"} /\ UNCHANGED <<state, left, result>>
    BY <1>3 DEF Goto
  <2>2. Control'
    BY <1>1, <2>1, Ranks DEF Inv, Control, disk
  <2>. QED
    BY <1>1, <2>1, <2>2, Jump DEF Inv, Types, Labels
<1>. QED
  BY <1>2, <1>3 DEF OpenLedger

LEMMA LogRunStartKeeps == Inv /\ LogRunStart => Inv'
<1> SUFFICES ASSUME Inv, LogRunStart
             PROVE  Inv'
  OBVIOUS
<1>1. /\ pc = "run_start" /\ pc' = "loop"
      /\ ledger' = Append(ledger, [type |-> "RUN_START"])
      /\ UNCHANGED <<state, left, result, saved, bin, meta, report, scope, registry, passed,
                     approval, revoked>>
  BY DEF LogRunStart, Log, Goto, setup, policy
<1>2. MayLog([type |-> "RUN_START"])
  BY DEF MayLog, Event
<1>3. DiskStep
  BY <1>1, <1>2 DEF DiskStep, Fills
<1>4. Types' /\ Saved' /\ Ends'
  BY <1>1, <1>3, Frame DEF Inv, Types, Labels, Results
<1>5. Control'
  BY <1>1, Ranks DEF Inv, Control
<1>6. Current'
  BY <1>1, <1>3, SameState
<1>. QED
  BY <1>4, <1>5, <1>6 DEF Inv

LEMMA LoopKeeps == Inv /\ Loop => Inv'
<1> SUFFICES ASSUME Inv, Loop
             PROVE  Inv'
  OBVIOUS
<1>1. /\ pc = "loop"
      /\ UNCHANGED <<state, left, result, disk, setup, passed, approval, revoked>>
  BY DEF Loop, Goto, policy
<1>2. \/ pc' = "succeed" /\ state.stage = "complete"
      \/ pc' = "fail"
      \/ pc' = state.stage /\ state.stage # "complete"
  BY DEF Loop, Goto
<1>3. state.stage \in Range(Stage)
  BY <1>1, InCall, Fields DEF Inv
<1>4. pc' \in Labels \ {"idle", "findings", "call", "plugin", "result", "save_pending", "run_end",
                        "bin_rest", "meta", "meta_rest", "report_rest"}
  BY <1>2, <1>3, Ranks DEF Labels
<1>5. pc' \in Range(Stage) => pc' = state.stage
  BY <1>2, Ranks
<1>6. pc' = "succeed" => state.stage = "complete"
  BY <1>2, <1>3, Ranks
<1>7. Control'
  BY <1>1, <1>4, <1>5, <1>6 DEF Inv, Control, disk
<1>. QED
  BY <1>1, <1>4, <1>7, Jump DEF Inv, Types

\* The stage is done: a sound later state is about to be saved.
LEMMA Advanced ==
    ASSUME Inv, DiskStep, UNCHANGED <<left, result, scope, registry, approval, revoked>>,
           pc \notin {"idle", "run_end", "save_pending"}, pc' = "save",
           state' \in WorkflowState, state'.status = state.status, Continues(state, state'),
           Sound(state', ledger', passed', bin', meta', report'),
           bin' \in [Found -> File], meta' \in [Found -> File]
    PROVE  Inv'
<1>1. Types' /\ Saved' /\ Ends'
  BY Frame DEF Inv, Types, Labels
<1>2. state' # NoState
  BY StateAssumption
<1>3. Control'
  BY <1>2, Ranks DEF Inv, Control, DiskStep
<1>4. Current'
  BY NextState DEF DiskStep
<1>. QED
  BY <1>1, <1>3, <1>4 DEF Inv

LEMMA SetUp ==
    ASSUME Types
    PROVE  /\ scope.targets \in Seq(Target) /\ scope.targets # <<>>
           /\ <<Head(scope.targets)>> \in Seq(Target)
           /\ \A stage \in {"discover", "assess", "validate", "cleanup"} : Able(stage) \in Seq(Plugin)
<1>1. PICK s \in Setups : s = [scope |-> scope, registry |-> registry]
  BY DEF Types
<1>2. s \in [scope : [targets : Seq(Target) \ {<<>>}, prohibited : SUBSET Plugin],
             registry : [Capability -> Seq(Plugin)]]
  BY WorkflowAssumption
<1>3. s.scope = scope /\ s.registry = registry
  BY <1>1
<1>4. /\ scope \in [targets : Seq(Target) \ {<<>>}, prohibited : SUBSET Plugin]
      /\ registry \in [Capability -> Seq(Plugin)]
  BY <1>2, <1>3
<1>5. scope.targets \in Seq(Target) /\ scope.targets # <<>>
  BY <1>4
<1>6. Head(scope.targets) \in Target
  BY <1>5, HeadTailProperties
<1>7. <<Head(scope.targets)>> \in Seq(Target)
  BY <1>6
<1>8. \A stage \in {"discover", "assess", "validate", "cleanup"} : Able(stage) \in Seq(Plugin)
  BY <1>4 DEF Able, CapabilityOf, Capability
<1>. QED
  BY <1>5, <1>7, <1>8

LEMMA DiscoverKeeps == Inv /\ Discover => Inv'
<1> SUFFICES ASSUME Inv, Discover
             PROVE  Inv'
  OBVIOUS
<1>1. pc = "discover" /\ UNCHANGED <<result, disk, setup, passed, approval, revoked>>
  BY DEF Discover, Advance, Execute, policy
<1>2. state \in WorkflowState /\ state.stage = "discover"
  BY <1>1, InCall, Ranks DEF Inv, Control
<1>3. CASE Able("discover") = <<>>
  <2> DEFINE targets == <<Head(scope.targets)>>
  <2>1. targets \in Seq(Target) /\ targets # <<>>
    BY SetUp DEF Inv
  <2>2. pc' = "save" /\ state' = [state EXCEPT !.targets = targets, !.stage = "plan"] /\ left' = left
    BY <1>3 DEF Discover, Advance
  <2> HIDE DEF targets
  <2>3. "plan" \in Range(Stage)
    BY Ranks
  <2>4. state' \in WorkflowState
    BY <1>2, <2>1, <2>2, <2>3 DEF WorkflowState
  <2>5. /\ state'.stage = "plan" /\ state'.targets # <<>> /\ state'.findings = state.findings
        /\ state'.evidence = state.evidence /\ state'.skip = state.skip
        /\ state'.status = state.status
    BY <1>2, <2>1, <2>2 DEF WorkflowState
  <2>6. Continues(state, state') /\ Sound(state', ledger, passed, bin, meta, report)
    BY <1>1, <1>2, <2>4, <2>5, SoundTargets DEF Inv, Types, Current
  <2>. QED
    BY <1>1, <2>2, <2>4, <2>5, <2>6, Advanced DEF Inv, Types, DiskStep, Fills, disk, setup
<1>4. CASE Able("discover") # <<>>
  <2>1. pc' = "call" /\ left' = Able("discover") /\ state' = state
    BY <1>4 DEF Discover, Execute
  <2>2. left' \in Seq(Plugin)
    BY <2>1, SetUp DEF Inv
  <2>3. Control'
    BY <1>1, <1>2, <1>4, <2>1, Ranks DEF Inv, Control, disk
  <2>. QED
    BY <1>1, <2>1, <2>2, <2>3, Jump DEF Labels
<1>. QED
  BY <1>3, <1>4

LEMMA PlanKeeps == Inv /\ Plan => Inv'
<1> SUFFICES ASSUME Inv, Plan
             PROVE  Inv'
  OBVIOUS
<1>1. pc = "plan" /\ UNCHANGED <<left, result, disk, setup, passed, approval, revoked>>
  BY DEF Plan, Advance, Goto, policy
<1>2. state \in WorkflowState /\ state.stage = "plan"
  BY <1>1, InCall, Ranks DEF Inv, Control
<1>3. CASE pc' = "save" /\ state' = [state EXCEPT !.stage = "assess"]
  <2>1. /\ state' \in WorkflowState /\ state'.status = state.status /\ Continues(state, state')
        /\ Sound(state', ledger, passed, bin, meta, report)
    BY <1>1, <1>2, <1>3, SoundPlanned DEF Inv, Types, Current
  <2>. QED
    BY <1>1, <1>3, <2>1, Advanced DEF Inv, Types, DiskStep, Fills, disk, setup
<1>4. CASE pc' = "fail" /\ state' = state
  <2>1. Control'
    BY <1>1, <1>2, <1>4, Ranks DEF Inv, Control, disk
  <2>. QED
    BY <1>1, <1>4, <2>1, Jump DEF Inv, Types, Labels
<1>. QED
  BY <1>3, <1>4 DEF Plan, Advance, Goto

LEMMA SkipKeeps == Inv /\ Skip => Inv'
<1> SUFFICES ASSUME Inv, Skip
             PROVE  Inv'
  OBVIOUS
<1>1. /\ pc \in {"assess", "validate", "cleanup"}
      /\ UNCHANGED <<left, result, disk, setup, approval, revoked>>
      /\ passed' = passed \cup {pc}
  BY DEF Skip, Advance, Goto
<1>2. state \in WorkflowState /\ state.stage = pc
  BY <1>1, InCall, Ranks DEF Inv, Control
<1>3. DiskStep
  BY <1>1 DEF DiskStep, Fills, disk
<1>4. Sound(state, ledger, passed', bin, meta, report)
  BY <1>1, <1>2, SoundGrows DEF Inv, Types, Current, Extends, Fills
<1>5. CASE pc = "assess"
  <2>1. pc' = "fail" /\ state' = state
    BY <1>5 DEF Skip, Goto
  <2>2. Types' /\ Saved' /\ Ends'
    BY <1>1, <1>3, <2>1, Frame DEF Inv, Types, Labels, disk, setup
  <2>3. Control'
    BY <1>1, <1>2, <2>1, Ranks DEF Inv, Control, disk
  <2>. QED
    BY <1>1, <1>3, <2>1, <2>2, <2>3, SameState DEF Inv
<1>6. CASE pc = "validate"
  <2>1. pc' = "save" /\ state' = [state EXCEPT !.stage = "evidence"]
    BY <1>6 DEF Skip, Advance
  <2>2. /\ state' \in WorkflowState /\ state'.status = state.status /\ Continues(state, state')
        /\ Sound(state', ledger, passed', bin, meta, report)
    BY <1>1, <1>2, <1>4, <1>6, <2>1, SoundValidated DEF Inv, Types
  <2>. QED
    BY <1>1, <1>3, <2>1, <2>2, Advanced DEF Inv, Types, disk, setup
<1>7. CASE pc = "cleanup"
  <2>1. pc' = "save" /\ state' = [state EXCEPT !.stage = "complete"]
    BY <1>7 DEF Skip, Advance
  <2>2. CleanedUp(Range(ledger), passed')
    BY <1>1, <1>7 DEF CleanedUp
  <2>3. /\ state' \in WorkflowState /\ state'.status = state.status /\ Continues(state, state')
        /\ Sound(state', ledger, passed', bin, meta, report)
    BY <1>1, <1>2, <1>4, <1>7, <2>1, <2>2, SoundCleaned DEF Inv, Types
  <2>. QED
    BY <1>1, <1>3, <2>1, <2>3, Advanced DEF Inv, Types, disk, setup
<1>. QED
  BY <1>1, <1>5, <1>6, <1>7

LEMMA AskKeeps == Inv /\ Ask => Inv'
<1> SUFFICES ASSUME Inv, Ask
             PROVE  Inv'
  OBVIOUS
<1>1. /\ pc \in {"assess", "validate", "cleanup"} /\ Able(pc) # <<>>
      /\ UNCHANGED <<result, disk, setup, passed>>
      /\ revoked' \subseteq Requests
  BY DEF Ask, Goto, Execute, Inv, Types
<1>2. state \in WorkflowState /\ state.stage = pc
  BY <1>1, InCall, Ranks DEF Inv, Control
<1>3. state.targets \in Seq(Target) /\ state.targets # <<>>
  BY <1>1, <1>2, Fields, Ranks DEF Inv, Current, Sound, Shape
<1>4. approval' \in [Requests -> {"none", "pending", "approved", "rejected"}]
  BY DEF Ask, Inv, Types
<1>5. DiskStep
  BY <1>1 DEF DiskStep, Fills, disk
<1>6. Saved' /\ Ends'
  BY <1>5, DiskStepKeeps
<1>7. CASE pc' = "fail" /\ UNCHANGED <<state, left>>
  <2>1. Types'
    BY <1>1, <1>4, <1>7 DEF Inv, Types, Labels, disk, setup
  <2>2. Control'
    BY <1>1, <1>2, <1>7, Ranks DEF Inv, Control, disk
  <2>3. Current'
    BY <1>1, <1>5, <1>7, SameState
  <2>. QED
    BY <1>6, <2>1, <2>2, <2>3 DEF Inv
<1>8. CASE /\ pc' = "save_pending" /\ state' = [state EXCEPT !.status = "pending_approval"]
           /\ left' = left
  <2>1. "pending_approval" \in Status
    BY DEF Status
  <2>2. /\ state' \in WorkflowState /\ state'.status = "pending_approval"
        /\ Continues(state, state') /\ Sound(state', ledger, passed, bin, meta, report)
    BY <1>1, <1>2, <1>8, <2>1, SoundStatus DEF Inv, Types, Current
  <2>3. Types'
    BY <1>1, <1>4, <1>8, <2>2 DEF Inv, Types, Labels, disk, setup
  <2>4. state' # NoState
    BY <2>2, StateAssumption
  <2>5. Control'
    BY <1>1, <1>2, <1>8, <2>2, <2>4, Ranks DEF Inv, Control, disk
  <2>6. Current'
    BY <1>1, <1>8, <2>2, NextState DEF disk
  <2>. QED
    BY <1>6, <2>3, <2>5, <2>6 DEF Inv
<1>9. CASE pc' = "call" /\ left' = Able(pc) /\ UNCHANGED state
  <2>1. left' \in Seq(Plugin)
    BY <1>1, <1>9, SetUp DEF Inv
  <2>2. Types'
    BY <1>1, <1>4, <1>9, <2>1 DEF Inv, Types, Labels, disk, setup
  <2>3. Control'
    BY <1>1, <1>2, <1>9, Ranks DEF Inv, Control, disk
  <2>4. Current'
    BY <1>1, <1>5, <1>9, SameState
  <2>. QED
    BY <1>6, <2>2, <2>3, <2>4 DEF Inv
<1>. QED
  BY <1>7, <1>8, <1>9 DEF Ask, Goto, Execute

LEMMA LogToolCallKeeps == Inv /\ LogToolCall => Inv'
<1> SUFFICES ASSUME Inv, LogToolCall
             PROVE  Inv'
  OBVIOUS
<1>1. /\ pc = "call" /\ pc' = "plugin" /\ ledger' = Append(ledger, ToolCall)
      /\ UNCHANGED <<state, left, result, saved, bin, meta, report, scope, registry, passed,
                     approval, revoked>>
  BY DEF LogToolCall, Log, Goto, setup, policy
<1>2. MayLog(ToolCall)
  <2>1. state.stage \in Range(Stage)
    BY <1>1, InCall, Fields DEF Inv
  <2>2. Head(left) \in Plugin
    BY <1>1, HeadTailProperties DEF Inv, Types, Control
  <2>3. ToolCall \in Event
    BY <2>1, <2>2 DEF ToolCall, Event
  <2>4. ToolCall.type # "RUN_END"
    BY DEF ToolCall
  <2>. QED
    BY <2>3, <2>4 DEF MayLog
<1>3. DiskStep
  BY <1>1, <1>2 DEF DiskStep, Fills
<1>4. Types' /\ Saved' /\ Ends'
  BY <1>1, <1>3, Frame DEF Inv, Types, Labels
<1>5. Control'
  BY <1>1, Ranks DEF Inv, Control
<1>6. Current'
  BY <1>1, <1>3, SameState
<1>. QED
  BY <1>4, <1>5, <1>6 DEF Inv

LEMMA RunPluginKeeps == Inv /\ RunPlugin => Inv'
<1> SUFFICES ASSUME Inv, RunPlugin
             PROVE  Inv'
  OBVIOUS
<1>1. pc = "plugin" /\ UNCHANGED <<disk, setup, passed, approval, revoked>>
  BY DEF RunPlugin, policy
<1>2. DiskStep
  BY <1>1 DEF DiskStep, Fills, disk
<1>3. ASSUME pc' = "result", UNCHANGED <<state, left>>, result' \in Results,
             result'.success => result'.parsed \in Parsed
      PROVE  Inv'
  <2>1. Types' /\ Saved' /\ Ends'
    BY <1>1, <1>2, <1>3, Frame DEF Inv, Types, Labels, disk, setup
  <2>2. Parsed' = Parsed
    BY <1>3 DEF Parsed
  <2>3. Control'
    BY <1>1, <1>3, <2>2, Ranks DEF Inv, Control, disk
  <2>4. Current'
    BY <1>1, <1>2, <1>3, SameState
  <2>. QED
    BY <2>1, <2>3, <2>4 DEF Inv
<1>4. ASSUME NEW parsed \in Parsed, result' = [success |-> TRUE, parsed |-> parsed]
      PROVE  result' \in Results /\ (result'.success => result'.parsed \in Parsed)
  <2>1. parsed \in Seq(Target) \cup Seq(Finding)
    BY <1>4, WorkflowAssumption, EmptySeq DEF Parsed
  <2>. QED
    BY <1>4, <2>1 DEF Results
<1>5. Failure \in Results /\ ~Failure.success
  BY EmptySeq DEF Failure, Results
<1>6. CASE Goto("fail")
  <2>1. pc' = "fail" /\ UNCHANGED <<state, left, result>>
    BY <1>6 DEF Goto
  <2>2. Control'
    BY <1>1, <2>1, Ranks DEF Inv, Control, disk
  <2>. QED
    BY <1>1, <2>1, <2>2, Jump DEF Inv, Types, Labels
<1>7. CASE Leave
  BY <1>1, <1>2, <1>7, Left DEF Inv, Types, disk, setup
<1>. QED
  BY <1>3, <1>4, <1>5, <1>6, <1>7 DEF RunPlugin

\* The result is logged before it is used.
LEMMA ResultLogged ==
    ASSUME Inv, LogToolResult
    PROVE  /\ pc = "result" /\ DiskStep
           /\ UNCHANGED <<saved, bin, meta, report, scope, registry, passed, approval, revoked>>
           /\ state \in WorkflowState
           /\ state.stage \in {"discover", "assess", "validate", "cleanup"}
           /\ ledger' \in Seq(Event)
           /\ Extends(ledger, ledger')
           /\ Sound(state, ledger', passed', bin', meta', report')
           /\ result.success => Success(state.stage, Range(ledger'))
           /\ state.stage = "cleanup" => CleanedUp(Range(ledger'), passed')
<1>1. /\ pc = "result" /\ ledger' = Append(ledger, ToolResult)
      /\ UNCHANGED <<saved, bin, meta, report, scope, registry, passed, approval, revoked>>
  BY DEF LogToolResult, Log, setup, policy
<1>2. state \in WorkflowState /\ state.stage \in {"discover", "assess", "validate", "cleanup"}
  BY <1>1, InCall DEF Inv, Control
<1>3. state.stage \in Range(Stage) /\ Head(left) \in Plugin /\ result.success \in BOOLEAN
  BY <1>1, <1>2, Fields, HeadTailProperties DEF Inv, Types, Control, Results
<1>4. ToolResult \in Event /\ ToolResult.type = "TOOL_RESULT" /\ ToolResult.stage = state.stage
  BY <1>3 DEF ToolResult, Event
<1>5. DiskStep
  BY <1>1, <1>4 DEF DiskStep, Fills, MayLog
<1>6. Extends(ledger, ledger') /\ ledger' \in Seq(Event)
  BY <1>5, DiskStepKeeps
<1>7. Sound(state, ledger', passed', bin', meta', report')
  BY <1>1, <1>5, StillSound
<1>8. ToolResult \in Range(ledger')
  BY <1>1, <1>4, Appended DEF Inv, Types
<1>9. result.success => Success(state.stage, Range(ledger'))
  <2>1. ASSUME result.success
        PROVE  ToolResult = [type |-> "TOOL_RESULT", stage |-> state.stage,
                             plugin |-> Head(left), success |-> TRUE]
    <3>1. result.success = TRUE
      BY <1>3, <2>1
    <3>. QED
      BY <3>1 DEF ToolResult
  <2>. QED
    BY <1>3, <1>8, <2>1 DEF Success
<1>10. state.stage = "cleanup" => CleanedUp(Range(ledger'), passed')
  BY <1>4, <1>8 DEF CleanedUp
<1>. QED
  BY <1>1, <1>2, <1>5, <1>6, <1>7, <1>9, <1>10

LEMMA LogToolResultKeeps == Inv /\ LogToolResult => Inv'
<1> SUFFICES ASSUME Inv, LogToolResult
             PROVE  Inv'
  OBVIOUS
<1>1. /\ pc = "result" /\ DiskStep
      /\ UNCHANGED <<saved, bin, meta, report, scope, registry, passed, approval, revoked>>
      /\ state \in WorkflowState
      /\ state.stage \in {"discover", "assess", "validate", "cleanup"}
      /\ ledger' \in Seq(Event)
      /\ Extends(ledger, ledger')
      /\ Sound(state, ledger', passed', bin', meta', report')
      /\ result.success => Success(state.stage, Range(ledger'))
      /\ state.stage = "cleanup" => CleanedUp(Range(ledger'), passed')
  BY ResultLogged
<1>2. CASE Goto("fail")
  <2>1. pc' = "fail" /\ UNCHANGED <<state, left, result>>
    BY <1>2 DEF Goto
  <2>2. Types' /\ Saved' /\ Ends'
    BY <1>1, <2>1, Frame DEF Inv, Types, Labels
  <2>3. Control'
    BY <1>1, <2>1, Ranks DEF Inv, Control
  <2>. QED
    BY <1>1, <2>1, <2>2, <2>3, SameState DEF Inv
<1>3. ASSUME Len(left) > 1, Execute(Tail(left))
      PROVE  Inv'
  <2>1. pc' = "call" /\ UNCHANGED <<state, result>> /\ left' = Tail(left)
    BY <1>3 DEF Execute
  <2>2. left' \in Seq(Plugin) /\ left' # <<>>
    <3>1. left \in Seq(Plugin) /\ left # <<>>
      BY <1>3 DEF Inv, Types
    <3>2. Tail(left) \in Seq(Plugin) /\ Len(Tail(left)) = Len(left) - 1 /\ Len(left) \in Nat
      BY <3>1, HeadTailProperties, LenProperties
    <3>3. Len(Tail(left)) # 0
      BY <1>3, <3>2
    <3>. QED
      BY <2>1, <3>2, <3>3, EmptySeq
  <2>3. Types' /\ Saved' /\ Ends'
    BY <1>1, <2>1, <2>2, Frame DEF Inv, Types, Labels
  <2>4. Control'
    BY <1>1, <2>1, <2>2, Ranks DEF Inv, Control
  <2>. QED
    BY <1>1, <2>1, <2>3, <2>4, SameState DEF Inv
<1>4. ASSUME state.stage = "cleanup", Advance([state EXCEPT !.stage = "complete"])
      PROVE  Inv'
  <2>1. /\ pc' = "save" /\ UNCHANGED <<left, result>>
        /\ state' = [state EXCEPT !.stage = "complete"]
    BY <1>4 DEF Advance
  <2>2. /\ state' \in WorkflowState /\ state'.status = state.status /\ Continues(state, state')
        /\ Sound(state', ledger', passed', bin', meta', report')
    BY <1>1, <1>4, <2>1, SoundCleaned
  <2>. QED
    BY <1>1, <2>1, <2>2, Advanced DEF Inv, Types
<1>5. ASSUME result.success, state.stage = "validate",
             Advance([state EXCEPT !.stage = "evidence"])
      PROVE  Inv'
  <2>1. /\ pc' = "save" /\ UNCHANGED <<left, result>>
        /\ state' = [state EXCEPT !.stage = "evidence"]
    BY <1>5 DEF Advance
  <2>2. /\ state' \in WorkflowState /\ state'.status = state.status /\ Continues(state, state')
        /\ Sound(state', ledger', passed', bin', meta', report')
    BY <1>1, <1>5, <2>1, SoundValidated
  <2>. QED
    BY <1>1, <2>1, <2>2, Advanced DEF Inv, Types
<1>6. ASSUME result.success, state.stage = "assess", pc' = "findings",
             state' = [state EXCEPT !.findings = @ \o result.parsed],
             UNCHANGED <<left, result>>
      PROVE  Inv'
  <2>1. result.parsed \in Found
    BY <1>1, <1>6 DEF Inv, Control, Parsed
  <2> DEFINE found == result.parsed
  <2> HIDE DEF found
  <2>2. found \in Found /\ state' = [state EXCEPT !.findings = state.findings \o found]
    BY <1>6, <2>1 DEF found
  <2>3. Sound(state, ledger', passed', bin', meta', report') /\ Extends(ledger', ledger')
    BY <1>1 DEF Extends
  <2>4. /\ state' \in WorkflowState /\ state'.stage = "assess" /\ state'.status = state.status
        /\ Continues(state, state') /\ Midway(state', found, ledger')
    BY <1>1, <1>6, <2>2, <2>3, MidwayBegins
  <2>5. Types' /\ Saved' /\ Ends'
    BY <1>1, <1>6, <2>4, Frame DEF Inv, Types, Labels
  <2>6. state' # NoState /\ "findings" \notin Range(Stage)
    BY <2>4, StateAssumption, Ranks
  <2>7. result'.parsed \in Seq(Finding)
    BY <1>6, <2>1, WorkflowAssumption
  <2>8. Control'
    BY <1>1, <1>6, <2>4, <2>6, <2>7 DEF Inv, Control
  <2>9. Midway(state', result'.parsed, ledger')
    BY <1>6, <2>4 DEF found
  <2>10. saved # NoState => Continues(saved, state')
    BY <1>1, <2>4, ContinuesTransitive DEF Inv, Types, Current
  <2>11. Current'
    BY <1>1, <1>6, <2>9, <2>10 DEF Current
  <2>. QED
    BY <2>5, <2>8, <2>11 DEF Inv
<1>7. ASSUME result.success, state.stage = "discover",
             Advance([state EXCEPT !.targets = Reported, !.stage = "plan"])
      PROVE  Inv'
  <2> DEFINE targets == Reported
  <2>1. targets \in Seq(Target) /\ targets # <<>>
    <3>1. result.parsed \in Seq(Target)
      BY <1>1, <1>7, WorkflowAssumption DEF Inv, Control, Parsed
    <3>. QED
      BY <3>1, SetUp DEF Inv, Reported
  <2>2. /\ pc' = "save" /\ UNCHANGED <<left, result>>
        /\ state' = [state EXCEPT !.targets = targets, !.stage = "plan"]
    BY <1>7 DEF Advance
  <2> HIDE DEF targets
  <2>3. "plan" \in Range(Stage)
    BY Ranks
  <2>4. state' \in WorkflowState
    BY <1>1, <2>1, <2>2, <2>3 DEF WorkflowState
  <2>5. /\ state'.stage = "plan" /\ state'.targets # <<>> /\ state'.findings = state.findings
        /\ state'.evidence = state.evidence /\ state'.skip = state.skip
        /\ state'.status = state.status
    BY <1>1, <2>1, <2>2 DEF WorkflowState
  <2>6. Continues(state, state') /\ Sound(state', ledger', passed', bin', meta', report')
    BY <1>1, <1>7, <2>4, <2>5, SoundTargets
  <2>. QED
    BY <1>1, <2>2, <2>4, <2>5, <2>6, Advanced DEF Inv, Types
<1>8. CASE result.success
  <2>1. UseResult
    BY <1>8 DEF LogToolResult
  <2>2. CASE state.stage = "discover"
    BY <1>2, <1>7, <1>8, <2>1, <2>2 DEF UseResult
  <2>3. CASE state.stage = "assess"
    BY <1>6, <1>8, <2>1, <2>3 DEF UseResult
  <2>4. CASE state.stage = "validate"
    BY <1>5, <1>8, <2>1, <2>4 DEF UseResult
  <2>5. CASE state.stage = "cleanup"
    BY <1>4, <1>8, <2>1, <2>5 DEF UseResult
  <2>. QED
    BY <1>1, <2>2, <2>3, <2>4, <2>5
<1>9. CASE ~result.success
  BY <1>2, <1>3, <1>4, <1>9 DEF LogToolResult
<1>. QED
  BY <1>8, <1>9

LEMMA LogFindingKeeps == Inv /\ LogFinding => Inv'
<1> SUFFICES ASSUME Inv, LogFinding
             PROVE  Inv'
  OBVIOUS
<1>1. /\ pc = "findings"
      /\ UNCHANGED <<saved, bin, meta, report, scope, registry, passed, approval, revoked>>
  BY DEF LogFinding, Advance, Log, disk, setup, policy
<1>2. /\ state \in WorkflowState /\ state.stage = "assess" /\ state.status = "running"
      /\ result.parsed \in Seq(Finding) /\ Midway(state, result.parsed, ledger)
      /\ ledger \in Seq(Event)
  BY <1>1, InCall DEF Inv, Types, Control, Current
<1>3. CASE result.parsed = <<>>
  <2>1. /\ pc' = "save" /\ UNCHANGED <<left, result, ledger>>
        /\ state' = [state EXCEPT !.stage = IF state.skip THEN "evidence" ELSE "validate"]
    BY <1>3 DEF LogFinding, Advance, Assessed, disk
  <2>2. Midway(state, <<>>, ledger)
    BY <1>2, <1>3
  <2>3. /\ state' \in WorkflowState /\ state'.status = state.status /\ Continues(state, state')
        /\ Sound(state', ledger, passed, bin, meta, report)
    BY <1>2, <2>1, <2>2, SoundAssessed
  <2>4. DiskStep
    BY <1>1, <2>1 DEF DiskStep, Fills
  <2>. QED
    BY <1>1, <2>1, <2>3, <2>4, Advanced DEF Inv, Types
<1>4. CASE result.parsed # <<>>
  <2> DEFINE e == Line(Head(result.parsed))
  <2>1. /\ ledger' = Append(ledger, e)
        /\ result' = [result EXCEPT !.parsed = Tail(@)]
        /\ UNCHANGED <<pc, state, left>>
    BY <1>4 DEF LogFinding, Log, Line
  <2>2. e \in Event /\ Tail(result.parsed) \in Seq(Finding)
        /\ Midway(state, Tail(result.parsed), ledger')
    BY <1>2, <1>4, <2>1, MidwayMoves
  <2>3. MayLog(e)
    BY <2>2 DEF MayLog, Line
  <2>4. DiskStep
    BY <1>1, <2>1, <2>3 DEF DiskStep, Fills
  <2>5. result' \in Results /\ result'.parsed = Tail(result.parsed)
    BY <2>1, <2>2 DEF Inv, Types, Results
  <2>6. Types' /\ Saved' /\ Ends'
    BY <1>1, <2>1, <2>4, <2>5, Frame DEF Inv, Types
  <2>7. Control'
    BY <1>1, <2>1, <2>2, <2>5, Ranks DEF Inv, Control
  <2>8. Midway(state', result'.parsed, ledger')
    BY <2>1, <2>2, <2>5
  <2>9. Current'
    BY <1>1, <2>1, <2>8 DEF Inv, Current
  <2>. QED
    BY <2>6, <2>7, <2>9 DEF Inv
<1>. QED
  BY <1>3, <1>4

\* With findings to keep evidence for, the files have a name.
LEMMA FindingsFound ==
    ASSUME Inv, pc \notin {"idle", "findings"}, Rank(state.stage) >= 4
    PROVE  state.findings \in Found
BY DEF Inv, Current, Sound

LEMMA WriteBinKeeps == Inv /\ WriteBin => Inv'
<1> SUFFICES ASSUME Inv, WriteBin
             PROVE  Inv'
  OBVIOUS
<1>1. /\ pc \in {"evidence", "bin_rest"}
      /\ UNCHANGED <<state, left, result, saved, ledger, meta, report, scope, registry, passed,
                     approval, revoked>>
  BY DEF WriteBin, Goto, setup, policy
<1>2. state.stage = "evidence"
  BY <1>1, Ranks DEF Inv, Control
<1>3. state.findings \in Found /\ bin \in [Found -> File] /\ meta \in [Found -> File]
  BY <1>1, <1>2, Ranks, FindingsFound DEF Inv, Types
<1>4. /\ bin' \in [Found -> File]
      /\ Fills(bin, bin')
      /\ pc' \in {"bin_rest", "meta"}
      /\ pc' = "meta" => bin'[state.findings] # "absent"
  <2>1. CASE pc = "evidence" /\ bin[state.findings] = "absent"
    <3>1. bin' = [bin EXCEPT ![state.findings] = "part"] /\ pc' = "bin_rest"
      BY <2>1 DEF WriteBin, Goto
    <3>. QED
      BY <1>3, <3>1 DEF File, Fills
  <2>2. CASE ~(pc = "evidence" /\ bin[state.findings] = "absent")
    <3>1. pc' = "meta" /\ (bin' = [bin EXCEPT ![state.findings] = "whole"]
                           \/ (bin' = bin /\ bin[state.findings] # "absent"))
      <4>1. CASE pc = "bin_rest"
        BY <2>2, <4>1 DEF WriteBin, Goto
      <4>2. CASE pc # "bin_rest"
        <5>1. bin' = [bin EXCEPT ![state.findings] = @] /\ pc' = "meta"
          BY <2>2, <4>2 DEF WriteBin, Goto
        <5>2. bin' = bin
          BY <1>3, <5>1
        <5>. QED
          BY <1>1, <2>2, <4>2, <5>1, <5>2
      <4>. QED
        BY <4>1, <4>2
    <3>. QED
      BY <1>3, <3>1 DEF File, Fills
  <2>. QED
    BY <2>1, <2>2
<1>5. DiskStep
  BY <1>1, <1>4 DEF DiskStep, Fills
<1>6. Types' /\ Saved' /\ Ends'
  BY <1>1, <1>3, <1>4, <1>5, Frame DEF Inv, Types, Labels
<1>7. Control'
  BY <1>1, <1>2, <1>4, Ranks DEF Inv, Control
<1>8. Current'
  BY <1>1, <1>4, <1>5, SameState
<1>. QED
  BY <1>6, <1>7, <1>8 DEF Inv

LEMMA WriteMetaKeeps == Inv /\ WriteMeta => Inv'
<1> SUFFICES ASSUME Inv, WriteMeta
             PROVE  Inv'
  OBVIOUS
<1>1. /\ pc \in {"meta", "meta_rest"}
      /\ UNCHANGED <<left, result, saved, ledger, bin, report, scope, registry, passed,
                     approval, revoked>>
  BY DEF WriteMeta, Goto, Advance, setup, policy
<1>2. state \in WorkflowState /\ state.stage = "evidence" /\ bin[state.findings] # "absent"
  BY <1>1, InCall DEF Inv, Control
<1>3. state.findings \in Found /\ bin \in [Found -> File] /\ meta \in [Found -> File]
  BY <1>1, <1>2, Ranks, FindingsFound DEF Inv, Types
<1>4. CASE pc = "meta" /\ meta[state.findings] = "absent"
  <2>1. /\ meta' = [meta EXCEPT ![state.findings] = "part"]
        /\ pc' = "meta_rest" /\ state' = state
    BY <1>4 DEF WriteMeta, Goto
  <2>2. meta' \in [Found -> File] /\ Fills(meta, meta')
    BY <1>3, <2>1 DEF File, Fills
  <2>3. DiskStep
    BY <1>1, <2>2 DEF DiskStep, Fills
  <2>4. Types' /\ Saved' /\ Ends'
    BY <1>1, <1>3, <2>1, <2>2, <2>3, Frame DEF Inv, Types, Labels
  <2>5. Control'
    BY <1>1, <1>2, <2>1, Ranks DEF Inv, Control
  <2>. QED
    BY <1>1, <2>1, <2>3, <2>4, <2>5, SameState DEF Inv
<1>5. CASE ~(pc = "meta" /\ meta[state.findings] = "absent")
  <2>1. pc' = "save" /\ state' = [state EXCEPT !.evidence = <<state.findings>>, !.stage = "report"]
    BY <1>5 DEF WriteMeta, Advance, Referenced
  <2>2. meta' = [meta EXCEPT ![state.findings] = "whole"]
        \/ (meta' = meta /\ meta[state.findings] # "absent")
    <3>1. CASE pc = "meta_rest"
      BY <1>5, <3>1 DEF WriteMeta
    <3>2. CASE pc # "meta_rest"
      <4>1. meta' = [meta EXCEPT ![state.findings] = @]
        BY <1>5, <3>2 DEF WriteMeta
      <4>2. meta' = meta
        BY <1>3, <4>1
      <4>. QED
        BY <1>1, <1>5, <3>2, <4>2
    <3>. QED
      BY <3>1, <3>2
  <2>3. meta' \in [Found -> File] /\ Fills(meta, meta') /\ meta'[state.findings] # "absent"
    BY <1>3, <2>2 DEF File, Fills
  <2>4. DiskStep
    BY <1>1, <2>3 DEF DiskStep, Fills
  <2>5. Sound(state, ledger', passed', bin', meta', report')
    BY <1>1, <2>4, StillSound
  <2>6. ledger' \in Seq(Event) /\ bin'[state.findings] # "absent"
    BY <1>1, <1>2 DEF Inv, Types
  <2>7. /\ state' \in WorkflowState
        /\ state'.stage = "report" /\ state'.status = state.status
        /\ state'.targets = state.targets /\ state'.findings = state.findings
        /\ state'.evidence = <<state.findings>> /\ state'.skip = state.skip
    BY <1>2, <2>1, EvidenceChanged
  <2>8. Continues(state, state') /\ Sound(state', ledger', passed', bin', meta', report')
    BY <1>2, <2>3, <2>5, <2>6, <2>7, SoundReferenced
  <2>. QED
    BY <1>1, <1>3, <2>1, <2>3, <2>4, <2>7, <2>8, Advanced
<1>. QED
  BY <1>4, <1>5

LEMMA StartReportKeeps == Inv /\ StartReport => Inv'
<1> SUFFICES ASSUME Inv, StartReport
             PROVE  Inv'
  OBVIOUS
<1>1. /\ pc = "report" /\ pc' \in {"fail", "report_rest"}
      /\ UNCHANGED <<state, left, result, saved, ledger, bin, meta, scope, registry, passed,
                     approval, revoked>>
  BY DEF StartReport, Goto, setup, policy
<1>2. DiskStep
  BY <1>1 DEF DiskStep, Fills
<1>3. Types' /\ Saved' /\ Ends'
  BY <1>1, <1>2, Frame DEF Inv, Types, Labels
<1>4. Control'
  BY <1>1, Ranks DEF Inv, Control
<1>. QED
  BY <1>1, <1>2, <1>3, <1>4, SameState DEF Inv

LEMMA FinishReportKeeps == Inv /\ FinishReport => Inv'
<1> SUFFICES ASSUME Inv, FinishReport
             PROVE  Inv'
  OBVIOUS
<1>1. /\ pc = "report_rest" /\ pc' = "save"
      /\ state' = [state EXCEPT !.stage = "cleanup"]
      /\ Whole(report', state)
      /\ UNCHANGED <<left, result, saved, ledger, bin, meta, scope, registry, passed,
                     approval, revoked>>
  BY DEF FinishReport, Advance, Whole, setup, policy
<1>2. state \in WorkflowState /\ state.stage = "report"
  BY <1>1, InCall DEF Inv, Control
<1>3. DiskStep
  BY <1>1 DEF DiskStep, Fills
<1>4. Sound(state, ledger', passed', bin', meta', report') /\ ledger' \in Seq(Event)
  BY <1>1, <1>3, StillSound, DiskStepKeeps
<1>5. /\ state' \in WorkflowState /\ state'.status = state.status /\ Continues(state, state')
      /\ Sound(state', ledger', passed', bin', meta', report')
  BY <1>1, <1>2, <1>4, SoundReported
<1>. QED
  BY <1>1, <1>3, <1>5, Advanced DEF Inv, Types

-----------------------------------------------------------------------------

\* A run that goes on has not ended.
LEMMA NotEnded ==
    ASSUME Inv, pc \notin {"idle", "run_end"}
    PROVE  \A e \in Range(ledger) : e.type # "RUN_END"
BY DEF Inv, Control, Ends

LEMMA SaveKeeps == Inv /\ Save => Inv'
<1> SUFFICES ASSUME Inv, Save
             PROVE  Inv'
  OBVIOUS
<1>1. /\ pc = "save" /\ pc' = "loop" /\ saved' = state
      /\ UNCHANGED <<state, left, result, ledger, bin, meta, report, scope, registry, passed,
                     approval, revoked>>
  BY DEF Save, SaveAs, Goto, setup, policy
<1>2. state \in WorkflowState /\ Rank(state.stage) \in 1..8 /\ state.status = "running"
  BY <1>1, InCall DEF Inv, Control
<1>3. Sound(state, ledger, passed, bin, meta, report)
  BY <1>1 DEF Inv, Current
<1>4. Types'
  BY <1>1, <1>2 DEF Inv, Types, Labels
<1>5. Control'
  BY <1>1, <1>2, Ranks DEF Inv, Control, Terminal
<1>6. Saved' /\ Current'
  BY <1>1, <1>2, <1>3 DEF Inv, Saved, Current, Continues
<1>7. Ends'
  BY <1>1, NotEnded DEF Ends
<1>. QED
  BY <1>4, <1>5, <1>6, <1>7 DEF Inv

LEMMA SavePendingKeeps == Inv /\ SavePending => Inv'
<1> SUFFICES ASSUME Inv, SavePending
             PROVE  Inv'
  OBVIOUS
<1>1. /\ pc = "save_pending" /\ saved' = state
      /\ pc' = "idle" /\ state' = NoState /\ left' = <<>> /\ result' = Failure
      /\ UNCHANGED <<ledger, bin, meta, report, scope, registry, passed, approval, revoked>>
  BY DEF SavePending, SaveAs, Leave, setup, policy
<1>2. state \in WorkflowState
  BY <1>1, InCall DEF Inv
<1>3. Sound(state, ledger, passed, bin, meta, report)
  BY <1>1 DEF Inv, Current
<1>4. left' \in Seq(Plugin) /\ result' \in Results
  BY <1>1, EmptySeq DEF Failure, Results
<1>5. Types'
  BY <1>1, <1>2, <1>4 DEF Inv, Types, Labels
<1>6. Control'
  BY <1>1, Ranks DEF Control
<1>7. Saved' /\ Current'
  BY <1>1, <1>3 DEF Inv, Saved, Current
<1>8. Ends'
  BY <1>1, NotEnded DEF Ends
<1>. QED
  BY <1>5, <1>6, <1>7, <1>8 DEF Inv

LEMMA EndKeeps == Inv /\ End => Inv'
<1> SUFFICES ASSUME Inv, End
             PROVE  Inv'
  OBVIOUS
<1> DEFINE u == IF pc = "succeed" THEN "succeeded" ELSE "failed"
<1>1. /\ pc \in {"succeed", "fail"} /\ pc' = "run_end" /\ saved' = state'
      /\ state' = [state EXCEPT !.status = u]
      /\ UNCHANGED <<left, result, ledger, bin, meta, report, scope, registry, passed,
                     approval, revoked>>
  BY DEF End, SaveAs, setup, policy
<1>2. state \in WorkflowState
  BY <1>1, InCall DEF Inv
<1>3. u \in Status /\ u \in Terminal /\ (u = "succeeded" => state.stage = "complete")
  BY DEF Status, Terminal, Inv, Control
<1> HIDE DEF u
<1>4. Sound(state, ledger, passed, bin, meta, report) /\ ledger \in Seq(Event)
  BY <1>1 DEF Inv, Types, Current
<1>5. /\ state' \in WorkflowState /\ state'.status = u
      /\ Sound(state', ledger, passed, bin, meta, report)
  BY <1>1, <1>2, <1>3, <1>4, SoundStatus
<1>6. Types'
  BY <1>1, <1>5 DEF Inv, Types, Labels
<1>7. state' # NoState /\ "run_end" \notin Range(Stage)
  BY <1>5, StateAssumption, Ranks
<1>8. Control'
  BY <1>1, <1>3, <1>5, <1>7 DEF Control
<1>9. Rank(state'.stage) \in 1..8
  BY <1>5, Fields
<1>10. Saved' /\ Current'
  BY <1>1, <1>5, <1>9 DEF Inv, Saved, Current, Continues
<1>11. Ends'
  BY <1>1, NotEnded DEF Ends
<1>. QED
  BY <1>6, <1>8, <1>10, <1>11 DEF Inv

\* Whatever a call logs next may be logged, and so may a part of it.
LEMMA MayLogNext ==
    ASSUME Inv, LoggingNow
    PROVE  MayLog(NextLine) /\ MayLog(Torn)
<1>1. MayLog(Torn)
  BY DEF MayLog, Event, Torn
<1>2. pc # "idle" /\ state \in WorkflowState
  BY InCall DEF Inv, LoggingNow
<1>3. state.stage \in Range(Stage) /\ state.status \in Status
  BY <1>2, Fields
<1>4. CASE pc = "run_start"
  <2> DEFINE e == [type |-> "RUN_START"]
  <2>1. e \in Event /\ e.type # "RUN_END"
    BY DEF Event
  <2>2. NextLine = e
    BY <1>4 DEF NextLine
  <2>. QED
    BY <1>1, <2>1, <2>2 DEF MayLog
<1>5. ASSUME pc \in {"call", "result"}
      PROVE  MayLog(ToolCall) /\ MayLog(ToolResult)
  <2>1. Head(left) \in Plugin /\ result.success \in BOOLEAN
    BY <1>5, HeadTailProperties DEF Inv, Types, Control, Results
  <2>2. ToolCall \in Event /\ ToolResult \in Event
    BY <1>3, <2>1 DEF Event, ToolCall, ToolResult
  <2>3. ToolCall.type # "RUN_END" /\ ToolResult.type # "RUN_END"
    BY DEF ToolCall, ToolResult
  <2>. QED
    BY <2>2, <2>3 DEF MayLog
<1>6. CASE pc = "run_end"
  <2> DEFINE e == [type |-> "RUN_END", status |-> state.status]
  <2>1. e \in Event /\ e.status = state.status
    BY <1>3 DEF Event
  <2>2. saved = state /\ state.status \in Terminal /\ saved # NoState
    BY <1>2, <1>6, StateAssumption DEF Inv, Control
  <2>3. NextLine = e
    BY <1>6 DEF NextLine
  <2>. QED
    BY <1>1, <2>1, <2>2, <2>3 DEF MayLog
<1>7. CASE pc = "findings" /\ result.parsed # <<>>
  <2> DEFINE e == Line(Head(result.parsed))
  <2>1. Head(result.parsed) \in Finding
    BY <1>7, HeadTailProperties DEF Inv, Control
  <2>2. e \in Event /\ e.type # "RUN_END"
    BY <2>1 DEF Event, Line
  <2>3. NextLine = e
    BY <1>7 DEF NextLine, Line
  <2>. QED
    BY <1>1, <2>2, <2>3 DEF MayLog
<1>8. CASE pc \in {"call", "result"}
  <2>1. NextLine = ToolCall \/ NextLine = ToolResult
    BY <1>8 DEF NextLine
  <2>. QED
    BY <1>1, <1>5, <1>8, <2>1
<1>. QED
  BY <1>1, <1>4, <1>6, <1>7, <1>8 DEF LoggingNow

LEMMA LogRunEndKeeps == Inv /\ LogRunEnd => Inv'
<1> SUFFICES ASSUME Inv, LogRunEnd
             PROVE  Inv'
  OBVIOUS
<1>1. /\ pc = "run_end" /\ Leave
      /\ ledger' = Append(ledger, NextLine)
      /\ UNCHANGED <<saved, bin, meta, report, scope, registry, passed, approval, revoked>>
  BY DEF LogRunEnd, Log, NextLine, setup, policy
<1>2. MayLog(NextLine)
  BY <1>1, MayLogNext DEF LoggingNow
<1>3. DiskStep
  BY <1>1, <1>2 DEF DiskStep, Fills
<1>. QED
  BY <1>1, <1>3, Left DEF Inv, Types

\* What a failed write or a kill leaves behind.
LEMMA UnfinishedStep ==
    ASSUME Inv, Unfinished, UNCHANGED passed
    PROVE  DiskStep /\ UNCHANGED <<bin, meta>>
<1>1. CASE UNCHANGED disk
  BY <1>1 DEF disk, DiskStep, Fills
<1>2. ASSUME LoggingNow, NEW e, e \in {Torn, NextLine}, Log(e)
      PROVE  DiskStep /\ UNCHANGED <<bin, meta>>
  BY <1>2, MayLogNext DEF Log, DiskStep, Fills
<1>. QED
  BY <1>1, <1>2 DEF Unfinished

LEMMA WriteFailsKeeps == Inv /\ WriteFails => Inv'
<1> SUFFICES ASSUME Inv, WriteFails
             PROVE  Inv'
  OBVIOUS
<1>1. Unfinished /\ Leave /\ UNCHANGED <<scope, registry, passed, approval, revoked>>
  BY DEF WriteFails, setup, policy
<1>2. DiskStep /\ UNCHANGED <<bin, meta>>
  BY <1>1, UnfinishedStep
<1>. QED
  BY <1>1, <1>2, Left DEF Inv, Types

LEMMA CrashKeeps == Inv /\ Crash => Inv'
<1> SUFFICES ASSUME Inv, Crash
             PROVE  Inv'
  OBVIOUS
<1>1. /\ Unfinished /\ UNCHANGED passed
      /\ pc' = "idle" /\ state' = NoState /\ left' = <<>> /\ result' = Failure
      /\ approval' = [r \in Requests |-> "none"] /\ revoked' = {}
  BY DEF Crash, Leave
<1>2. DiskStep /\ UNCHANGED <<bin, meta>>
  BY <1>1, UnfinishedStep
<1>3. ledger' \in Seq(Event) /\ Saved' /\ Ends' /\ saved' = saved
  BY <1>2, DiskStepKeeps DEF DiskStep
<1>4. [scope |-> scope', registry |-> registry'] \in Setups
  <2>1. PICK s \in Setups : scope' = s.scope /\ registry' = s.registry
    BY DEF Crash
  <2>2. [scope |-> scope', registry |-> registry'] = s
    BY <2>1, WorkflowAssumption
  <2>. QED
    BY <2>2
<1>5. left' \in Seq(Plugin) /\ result' \in Results
  BY <1>1, EmptySeq DEF Failure, Results
<1>6. Types'
  BY <1>1, <1>2, <1>3, <1>4, <1>5 DEF Inv, Types, Labels
<1>7. Control'
  BY <1>1, Ranks DEF Control
<1>8. Current'
  BY <1>1 DEF Current
<1>. QED
  BY <1>3, <1>6, <1>7, <1>8 DEF Inv

\* The operator, the stop registry and the clock change what the engine will be told.
LEMMA OutsideKeeps ==
    ASSUME Inv, UNCHANGED <<engine, disk, setup, passed>>, revoked' \subseteq Requests,
           approval' \in [Requests -> {"none", "pending", "approved", "rejected"}]
    PROVE  Inv'
<1>1. UNCHANGED <<pc, state, left, result, saved, ledger, bin, meta, report, scope, registry>>
  BY DEF engine, disk, setup
<1>2. Types'
  BY <1>1 DEF Inv, Types
<1>3. Parsed' = Parsed
  BY <1>1 DEF Parsed
<1>4. Control'
  BY <1>1, <1>3 DEF Inv, Control
<1>5. Saved' /\ Current' /\ Ends'
  BY <1>1 DEF Inv, Saved, Current, Ends
<1>. QED
  BY <1>2, <1>4, <1>5 DEF Inv

LEMMA DecideKeeps ==
    \A r \in Requests, status \in {"approved", "rejected"} : Inv /\ Decide(r, status) => Inv'
<1> SUFFICES ASSUME NEW r \in Requests, NEW status \in {"approved", "rejected"}, Inv,
                    Decide(r, status)
             PROVE  Inv'
  OBVIOUS
<1>1. approval' = [approval EXCEPT ![r] = status]
      /\ revoked' = IF status = "approved" THEN revoked \ {r} ELSE revoked \cup {r}
  BY DEF Decide
<1>2. approval' \in [Requests -> {"none", "pending", "approved", "rejected"}]
  BY <1>1 DEF Inv, Types
<1>3. revoked' \subseteq Requests
  BY <1>1 DEF Inv, Types
<1>. QED
  BY <1>2, <1>3, OutsideKeeps DEF Decide

LEMMA StepKeeps == Inv /\ [Next]_workflowVars => Inv'
<1> SUFFICES ASSUME Inv, [Next]_workflowVars
             PROVE  Inv'
  OBVIOUS
<1>1. CASE EngineStep
  BY <1>1, OpenLedgerKeeps, LogRunStartKeeps, LoopKeeps, DiscoverKeeps, PlanKeeps, SkipKeeps,
     AskKeeps, LogToolCallKeeps, RunPluginKeeps, LogToolResultKeeps, LogFindingKeeps,
     WriteBinKeeps, WriteMetaKeeps, StartReportKeeps, FinishReportKeeps, SaveKeeps,
     SavePendingKeeps, EndKeeps, LogRunEndKeeps DEF EngineStep
<1>2. ASSUME NEW on \in BOOLEAN, Stop(on)
      PROVE  Inv'
  BY <1>2, OutsideKeeps DEF Stop, Inv, Types
<1>3. CASE Time
  BY <1>3, OutsideKeeps DEF Time, Inv, Types
<1>4. CASE UNCHANGED workflowVars
  BY <1>4, OutsideKeeps DEF workflowVars, policy, Inv, Types
<1>. QED
  BY <1>1, <1>2, <1>3, <1>4, CallKeeps, WriteFailsKeeps, CrashKeeps, DecideKeeps DEF Next

LEMMA Invariance == Spec => []Inv
<1>1. Init => Inv
  BY Initially
<1>2. Inv /\ [Next]_workflowVars => Inv'
  BY StepKeeps
<1>. QED
  BY <1>1, <1>2, PTL DEF Spec

-----------------------------------------------------------------------------

\* The files, the ledger, the engine and the approvals are of their kinds.
THEOREM TypeCorrect == Spec => []TypeOK
<1>1. Inv => TypeOK
  <2> SUFFICES ASSUME Inv
               PROVE  TypeOK
    OBVIOUS
  <2>1. \A st \in {state, saved} \ {NoState} : st \in WorkflowState /\ Shape(st)
    <3>1. state # NoState => Shape(state)
      BY DEF Inv, Control, Current, Sound, Midway
    <3>2. saved # NoState => Shape(saved)
      BY DEF Inv, Saved, Sound
    <3>. QED
      BY <3>1, <3>2 DEF Inv, Types
  <2>2. \A st \in {state, saved} \ {NoState} :
            /\ st.evidence \in {<<>>, <<st.findings>>}
            /\ Rank(st.stage) > 1 => st.targets # <<>>
    <3>1. ASSUME NEW st \in WorkflowState, Shape(st)
          PROVE  /\ st.evidence \in {<<>>, <<st.findings>>}
                 /\ Rank(st.stage) > 1 => st.targets # <<>>
      <4>1. Rank(st.stage) \in 1..8
        BY Fields
      <4>2. Rank(st.stage) < 6 \/ Rank(st.stage) >= 6
        BY <4>1
      <4>. QED
        BY <3>1, <4>2 DEF Shape
    <3>. QED
      BY <2>1, <3>1
  <2>3. ASSUME NEW i \in DOMAIN ledger
        PROVE  ledger[i].type \in
                 {"RUN_START", "TOOL_CALL", "TOOL_RESULT", "FINDING", "RUN_END", "torn"}
    <3>1. ledger[i] \in Event
      BY DEF Inv, Types
    <3>. QED
      BY <3>1 DEF Event
  <2>. QED
    BY <2>2, <2>3 DEF Inv, Types, TypeOK, File
<1>. QED
  BY <1>1, Invariance, PTL

\* Once the audit ledger says that a run has ended, its saved state says so too, with
\* the same status, for good.
THEOREM EndIsFinal == Spec => []EndAgrees
<1>1. Inv => EndAgrees
  BY DEF Inv, Ends, EndAgrees, Range
<1>. QED
  BY <1>1, Invariance, PTL

\* Every finding that a saved state counts on is in the audit ledger as often.
THEOREM FindingsAreLogged == Spec => []FindingsAudited
<1>1. Inv => FindingsAudited
  BY DEF Inv, Saved, Sound, Covered, Line, FindingsAudited
<1>. QED
  BY <1>1, Invariance, PTL

\* The plugins still to be tried are the last of the candidates. The first of them is
\* called with an approval, and each other one after a failure of the one before.
Candidates ==
    (pc \in {"call", "plugin", "result"} /\ state.stage = "validate") =>
        /\ approval[Request] = "approved" \/ Request \in revoked
        /\ Len(left) <= Len(Able("validate"))
        /\ \A j \in 1..Len(left) :
               left[j] = Able("validate")[Len(Able("validate")) - Len(left) + j]
        /\ pc = "call" /\ Len(left) < Len(Able("validate")) =>
               Last(ledger) =
                   [type |-> "TOOL_RESULT", stage |-> "validate", success |-> FALSE,
                    plugin |-> Able("validate")[Len(Able("validate")) - Len(left)]]

\* A plugin that is not the last has failed: the next one is called.
LEMMA NextCandidate ==
    ASSUME Inv, Candidates, LogToolResult, pc' = "call", state.stage = "validate"
    PROVE  Candidates'
<1> DEFINE all == Able("validate")
           n == Len(all)
<1>1. /\ pc = "result" /\ ledger' = Append(ledger, ToolResult)
      /\ UNCHANGED <<scope, registry, approval, revoked>>
  BY DEF LogToolResult, Log, setup, policy
<1>2. ~result.success /\ Len(left) > 1 /\ left' = Tail(left) /\ state' = state
  BY DEF LogToolResult, UseResult, Execute, Advance, Goto
<1>3. left \in Seq(Plugin) /\ left # <<>> /\ Len(left) \in Nat /\ all \in Seq(Plugin) /\ n \in Nat
  BY <1>1, SetUp, LenProperties DEF Inv, Types, Control
<1>4. all' = all /\ Request' = Request
  BY <1>1, <1>2 DEF Able, CapabilityOf, Request
<1> HIDE DEF all
<1>5. /\ approval[Request] = "approved" \/ Request \in revoked
      /\ Len(left) <= n
      /\ \A j \in 1..Len(left) : left[j] = all[n - Len(left) + j]
  BY <1>1 DEF Candidates, all
<1>6. /\ Len(left') = Len(left) - 1
      /\ \A j \in 1..(Len(left) - 1) : left'[j] = left[j + 1]
      /\ Head(left) = left[1]
  BY <1>2, <1>3, HeadTailProperties
<1>7. Len(left') <= n /\ n - Len(left') = n - Len(left) + 1
  BY <1>3, <1>5, <1>6
<1>8. ASSUME NEW j \in 1..Len(left')
      PROVE  left'[j] = all[n - Len(left') + j]
  <2>1. j + 1 \in 1..Len(left) /\ j \in 1..(Len(left) - 1)
    BY <1>3, <1>6
  <2>2. n - Len(left) + (j + 1) = n - Len(left') + j
    BY <1>3, <1>6
  <2>. QED
    BY <1>5, <1>6, <2>1, <2>2
<1>9. Head(left) = all[n - Len(left')]
  <2>1. 1 \in 1..Len(left)
    BY <1>2, <1>3
  <2>. QED
    BY <1>5, <1>6, <1>7, <2>1
<1>10. Last(ledger') = ToolResult
  <2>1. ToolResult \in Event /\ ledger \in Seq(Event)
    <3>1. state.stage \in Range(Stage)
      BY Ranks
    <3>2. Head(left) \in Plugin /\ result.success \in BOOLEAN
      BY <1>3, HeadTailProperties DEF Inv, Types, Results
    <3>. QED
      BY <3>1, <3>2 DEF ToolResult, Event, Inv, Types
  <2>. QED
    BY <1>1, <2>1, AppendProperties DEF Last
<1>11. ToolResult = [type |-> "TOOL_RESULT", stage |-> "validate", success |-> FALSE,
                     plugin |-> all[n - Len(left')]]
  <2>1. result.success = FALSE
    BY <1>2 DEF Inv, Types, Results
  <2>. QED
    BY <1>9, <2>1 DEF ToolResult
<1>. QED
  BY <1>1, <1>4, <1>5, <1>7, <1>8, <1>10, <1>11 DEF Candidates, all

\* The policy lets the first candidate pass: it is approved.
LEMMA FirstCandidate ==
    ASSUME Inv, Ask, pc' = "call", state'.stage = "validate"
    PROVE  Candidates'
<1>1. /\ pc = state.stage /\ state' = state /\ pc \in {"assess", "validate", "cleanup"}
      /\ ~Denied /\ ~Pending /\ left' = Able(pc) /\ UNCHANGED <<scope, registry, approval>>
  BY Ranks DEF Ask, Goto, Execute, setup, Inv, Control
<1>2. pc = "validate" /\ left' = Able("validate") /\ Able("validate")' = Able("validate")
      /\ Request' = Request
  BY <1>1 DEF Able, CapabilityOf, Request
<1>3. Able("validate") \in Seq(Plugin) /\ Able("validate") # <<>> /\ state.targets[1] \in Target
  <2>1. state.targets \in Seq(Target) /\ state.targets # <<>>
    BY <1>1, <1>2, InCall, Fields, Ranks DEF Inv, Current, Sound, Shape
  <2>. QED
    BY <1>2, <2>1, SetUp DEF Ask, Inv
<1>4. Request \in Requests
  BY <1>1, <1>2, <1>3, HeadTailProperties DEF Request, Requests
<1>5. approval[Request] \in {"none", "pending", "approved", "rejected"}
  BY <1>4 DEF Inv, Types
<1>6. approval[Request] = "approved"
  BY <1>1, <1>2, <1>5 DEF Denied, Pending
<1>7. Len(left') = Len(Able("validate")) /\ Len(left') \in Nat
  BY <1>2, <1>3, LenProperties
<1>8. \A j \in 1..Len(left') : Len(Able("validate")) - Len(left') + j = j
  BY <1>7
<1>. QED
  BY <1>1, <1>2, <1>6, <1>7, <1>8 DEF Candidates

LEMMA CandidatesStep ==
    ASSUME Inv, Candidates, [Next]_workflowVars
    PROVE  Candidates'
<1>1. CASE UNCHANGED <<engine, ledger, registry, approval, revoked>>
  BY <1>1 DEF Candidates, Request, Able, engine
<1>2. ASSUME NEW r \in Requests, NEW status \in {"approved", "rejected"}, Decide(r, status)
      PROVE  Candidates'
  <2>1. /\ UNCHANGED <<pc, state, left, ledger, registry>>
        /\ approval' = [approval EXCEPT ![r] = status]
        /\ revoked' = IF status = "approved" THEN revoked \ {r} ELSE revoked \cup {r}
    BY <1>2 DEF Decide, engine, disk, setup
  <2>2. Request' = Request /\ Able("validate")' = Able("validate")
    BY <2>1 DEF Request, Able
  <2>3. approval[Request] = "approved" \/ Request \in revoked =>
            approval'[Request] = "approved" \/ Request \in revoked'
    BY <2>1 DEF Inv, Types
  <2>. QED
    BY <2>1, <2>2, <2>3 DEF Candidates
<1>3. CASE LogToolCall \/ RunPlugin
  <2>1. /\ pc \in {"call", "plugin"} /\ pc' # "call" /\ UNCHANGED <<registry, approval, revoked>>
        /\ pc' \in {"plugin", "result"} => UNCHANGED <<state, left>>
    BY <1>3 DEF LogToolCall, RunPlugin, Goto, Leave, setup, policy
  <2>. QED
    BY <2>1 DEF Candidates, Request, Able
<1>4. CASE LogToolResult
  <2>. state.stage \in {"discover", "assess", "validate", "cleanup"}
    BY <1>4 DEF Inv, Control, LogToolResult
  <2>1. pc' \in {"call", "plugin", "result"} => pc' = "call" /\ state' = state
    BY <1>4 DEF LogToolResult, UseResult, Execute, Advance, Goto
  <2>. QED
    BY <1>4, <2>1, NextCandidate DEF Candidates
<1>5. CASE Ask
  <2>1. pc' \in {"call", "plugin", "result"} => pc' = "call"
    BY <1>5 DEF Ask, Execute, Goto
  <2>. QED
    BY <1>5, <2>1, FirstCandidate DEF Candidates
<1>6. CASE Discover
  <2>1. pc' \in {"call", "plugin", "result"} => state'.stage = "discover"
    BY <1>6, Ranks DEF Discover, Execute, Advance, Inv, Control
  <2>. QED
    BY <2>1 DEF Candidates
<1>7. CASE \/ \E skip \in BOOLEAN : Call(skip)
           \/ OpenLedger \/ LogRunStart \/ Plan \/ Skip \/ LogFinding
           \/ WriteBin \/ WriteMeta \/ StartReport \/ FinishReport
           \/ Save \/ SavePending \/ End \/ LogRunEnd \/ WriteFails \/ Crash
  <2>1. pc' \notin {"call", "plugin", "result"}
    BY <1>7 DEF Call, OpenLedger, LogRunStart, Plan, Skip, LogFinding, WriteBin, WriteMeta,
       StartReport, FinishReport, Save, SavePending, End, LogRunEnd, WriteFails, Crash, Leave,
       Goto, Advance
  <2>. QED
    BY <2>1 DEF Candidates
<1>8. CASE Loop
  <2>1. state.stage \in Range(Stage)
    BY <1>8, InCall, Fields DEF Loop, Inv
  <2>2. pc' \notin {"call", "plugin", "result"}
    BY <1>8, <2>1, Ranks DEF Loop, Goto
  <2>. QED
    BY <2>2 DEF Candidates
<1>9. CASE (\E on \in BOOLEAN : Stop(on)) \/ Time \/ UNCHANGED workflowVars
  <2>1. UNCHANGED <<engine, ledger, registry, approval, revoked>>
    BY <1>9 DEF Stop, Time, workflowVars, disk, setup, policy
  <2>. QED
    BY <1>1, <2>1
<1>. QED
  BY <1>2, <1>3, <1>4, <1>5, <1>6, <1>7, <1>8, <1>9 DEF Next, EngineStep

\* Whatever calls, failures and kills came before, the first validation plugin is called
\* with an approval that stood when the policy was asked, and every other one only after
\* the one before it has failed.
THEOREM ValidationIsApproved == Spec => []ValidationApproved
<1>1. Init => Candidates
  BY DEF Init, Candidates
<1>2. Inv /\ Candidates /\ [Next]_workflowVars => Candidates'
  BY CandidatesStep
<1>3. Candidates => ValidationApproved
  BY DEF Candidates, ValidationApproved
<1>. QED
  BY <1>1, <1>2, <1>3, Invariance, PTL DEF Spec

\* What a saved state refers to is on disk; its report is the whole report, and has its
\* reference with every finding that brought none of its own.
THEOREM EvidenceStays == Spec => []EvidenceKept
<1>1. Inv => EvidenceKept
  <2> SUFFICES ASSUME Inv, saved # NoState
               PROVE  /\ Rank(saved.stage) >= Rank("report") =>
                             /\ saved.evidence = <<saved.findings>>
                             /\ bin[saved.findings] # "absent"
                             /\ meta[saved.findings] # "absent"
                      /\ Rank(saved.stage) >= Rank("cleanup") => Whole(report, saved)
    BY DEF EvidenceKept, Reached, Whole
  <2>. QED
    BY Ranks DEF Inv, Saved, Sound, Shape, Filed
<1>. QED
  BY <1>1, Invariance, PTL

\* A run that says it succeeded has been through every stage that could be done.
THEOREM SuccessIsComplete == Spec => []SucceededInFull
<1>1. Inv => SucceededInFull
  <2> SUFFICES ASSUME Inv, saved # NoState, saved.status = "succeeded"
               PROVE  /\ Success("assess", Range(ledger))
                      /\ saved.skip \/ "validate" \in passed \/ Success("validate", Range(ledger))
                      /\ CleanedUp(Range(ledger), passed)
    BY DEF SucceededInFull, Success, CleanedUp, Succeeded, Logged
  <2>1. Done(saved, Range(ledger), passed)
    BY DEF Inv, Saved, Sound
  <2>2. Rank(saved.stage) = 8
    BY <2>1, Ranks DEF Done
  <2>. QED
    BY <2>1, <2>2 DEF Done
<1>. QED
  BY <1>1, Invariance, PTL

\* Saved progress is never lost: a step that saves, saves a later state of the same run.
LEMMA SavedMoves ==
    ASSUME Inv, [Next]_workflowVars
    PROVE  \/ saved' = saved
           \/ /\ saved' \in WorkflowState
              /\ saved # NoState => Continues(saved, saved') /\ saved.status \notin Terminal
<1>1. CASE Save \/ SavePending
  <2>1. saved' = state /\ pc \in {"save", "save_pending"}
    BY <1>1 DEF Save, SavePending, SaveAs
  <2>. QED
    BY <2>1, InCall DEF Inv, Control, Current
<1>2. CASE End
  <2> DEFINE u == IF pc = "succeed" THEN "succeeded" ELSE "failed"
  <2>1. pc \in {"succeed", "fail"} /\ saved' = [state EXCEPT !.status = u]
    BY <1>2 DEF End, SaveAs
  <2>2. state \in WorkflowState /\ u \in Status
    BY <2>1, InCall DEF Inv, Status, Terminal
  <2>3. (u = "succeeded" => state.stage = "complete") /\ ledger \in Seq(Event)
        /\ Sound(state, ledger, passed, bin, meta, report)
    BY <2>1 DEF Inv, Types, Control, Current
  <2> HIDE DEF u
  <2>4. saved' \in WorkflowState /\ Continues(state, saved')
    BY <2>1, <2>2, <2>3, SoundStatus
  <2>5. saved # NoState => saved \in WorkflowState /\ Continues(saved, state)
                           /\ saved.status \notin Terminal
    BY <2>1 DEF Inv, Types, Control, Current
  <2>. QED
    BY <2>2, <2>4, <2>5, ContinuesTransitive
<1>3. CASE EngineStep /\ ~Save /\ ~SavePending /\ ~End
  BY <1>3 DEF EngineStep, OpenLedger, LogRunStart, Loop, Discover, Plan, Skip, Ask, LogToolCall,
     RunPlugin, LogToolResult, LogFinding, WriteBin, WriteMeta, StartReport, FinishReport,
     LogRunEnd, Log, disk
<1>4. CASE WriteFails \/ Crash
  BY <1>4 DEF WriteFails, Crash, Unfinished, Log, disk
<1>. QED
  BY <1>1, <1>2, <1>3, <1>4 DEF Next, Call, Decide, Stop, Time, workflowVars, disk

\* No call, failure or kill takes a saved run back, reopens it or changes what it found.
THEOREM ProgressStays == Spec => ProgressKept
<1>1. ASSUME Inv, [Next]_workflowVars
      PROVE  [saved # NoState =>
                /\ saved' # NoState
                /\ Rank(saved'.stage) >= Rank(saved.stage)
                /\ saved.status \in Terminal => saved' = saved
                /\ Reached("plan") => saved'.targets = saved.targets
                /\ Reached("validate") => saved'.findings = saved.findings
                /\ saved'.skip = saved.skip]_workflowVars
  <2>1. SUFFICES ASSUME saved # NoState
                 PROVE  /\ saved' # NoState
                        /\ Rank(saved'.stage) >= Rank(saved.stage)
                        /\ saved.status \in Terminal => saved' = saved
                        /\ Reached("plan") => saved'.targets = saved.targets
                        /\ Reached("validate") => saved'.findings = saved.findings
                        /\ saved'.skip = saved.skip
    OBVIOUS
  <2>2. Rank(saved.stage) \in 1..8
    BY <1>1, <2>1, Fields DEF Inv, Types
  <2>3. CASE saved' = saved
    BY <2>1, <2>2, <2>3
  <2>4. CASE saved' \in WorkflowState /\ Continues(saved, saved') /\ saved.status \notin Terminal
    <3>1. saved' # NoState /\ Rank(saved'.stage) \in 1..8
      BY <2>4, StateAssumption, Fields
    <3>. QED
      BY <2>2, <2>4, <3>1, Ranks DEF Continues, Reached
  <2>. QED
    BY <1>1, <2>1, <2>3, <2>4, SavedMoves
<1>. QED
  BY <1>1, Invariance, PTL DEF Spec, ProgressKept
=============================================================================
