----------------------- MODULE DesktopServerAuditProofs -----------------------
(***************************************************************************)
(* The audit file of the desktop server for any agents, callers, runs,     *)
(* scopes and providers: no backend is called that the file does not show, *)
(* no result is shown that no backend returned, and the file replays while *)
(* one ledger object writes it and no write is cut off.  Then the types of *)
(* the whole server, part of which rests on the same invariants.           *)
(***************************************************************************)
EXTENDS DesktopServerProofs, FiniteSetTheorems

-----------------------------------------------------------------------------

AuditType == [calls : Nat, results : Nat, spoiled : Nat,
              end : {"no", "part", "calls", "results"}, replays : BOOLEAN]

LedgerTypes ==
    /\ \A t \in Agent : phase[t] = "idle" <=> doing[t] = NoAction
    /\ uses \in [Agent -> Agent \cup {Nobody}]
    /\ ledgers \in [Run -> Agent \cup {Nobody}]
    /\ knows \in [Agent -> [Run -> Nat]]
    /\ audit \in AuditType
    /\ objects \subseteq Agent \X Run
    /\ shared \in BOOLEAN
    /\ performed \in Nat
    /\ cuts \in 0..MaxCuts
    /\ crashes \in 0..MaxCrashes

\* An object for a run that a thread or the dictionary has was made in this process.
Made(maker, run) == maker # Nobody /\ <<maker, run>> \in objects

Owned ==
    /\ \A run \in Run : ledgers[run] # Nobody => Made(ledgers[run], run)
    /\ \A t \in Agent :
        /\ phase[t] = "store" => Made(t, RunOf(t))
        /\ phase[t] = "take" => ledgers[RunOf(t)] # Nobody
        /\ phase[t] \in {"call", "act", "result"} => Made(uses[t], RunOf(t))
    /\ ~shared => \A o, p \in objects : o = p

\* Nothing has happened that could spoil the chain.
Unspoiled == ~shared /\ cuts = 0 /\ audit.end = "no" /\ audit.spoiled = 0

\* Then the file replays, and whoever writes next knows its last line.
Chained == Unspoiled => audit.replays /\ \A o \in objects : knows[o[1]][o[2]] = Lines

Count(p) == Cardinality({t \in Agent : phase[t] = p})

One(condition) == IF condition THEN 1 ELSE 0

\* The line that has lost its end may be taken away again by the next one.
Counted ==
    /\ performed + Count("act") + One(audit.end = "calls") <= audit.calls + audit.spoiled
    /\ audit.calls <= performed + Count("act") + Cardinality(Agent) * crashes + cuts
    /\ audit.results + Count("result") <= performed
    /\ audit.end = "calls" => audit.calls >= 1
    /\ audit.end = "results" => audit.results >= 1

AuditInv == LedgerTypes /\ Owned /\ Chained /\ Counted

-----------------------------------------------------------------------------

LEMMA NoActionIsNone ==
    ASSUME NEW r, NEW s \in Surfaces
    PROVE  [request |-> r, surface |-> s] # NoAction
  BY ControlAssumption DEF NoAction

LEMMA CountType ==
    ASSUME NEW p
    PROVE  Count(p) \in Nat /\ Count(p) <= Cardinality(Agent) /\ Cardinality(Agent) \in Nat
<1>1. {t \in Agent : phase[t] = p} \subseteq Agent
  OBVIOUS
<1>. QED
  BY <1>1, ControlAssumption, FS_Subset, FS_CardinalityType DEF Count

\* How many threads are in a phase changes with the one that moves.
LEMMA CountMoves ==
    ASSUME ControlTypes, NEW t \in Agent, NEW p \in Phase, Enter(t, p), NEW q \in Phase
    PROVE  Count(q)' = Count(q) + One(p = q /\ phase[t] # q) - One(p # q /\ phase[t] = q)
<1> DEFINE Before == {u \in Agent : phase[u] = q}
<1> DEFINE After == {u \in Agent : phase'[u] = q}
<1>1. /\ phase'[t] = p
      /\ \A u \in Agent \ {t} : phase'[u] = phase[u]
  BY DEF ControlTypes, Enter
<1>2. IsFiniteSet(Before)
  <2>1. Before \subseteq Agent
    OBVIOUS
  <2>. QED
    BY <2>1, ControlAssumption, FS_Subset
<1>3. Count(q) = Cardinality(Before) /\ Count(q)' = Cardinality(After)
  BY DEF Count
<1>4. Count(q) \in Nat
  BY CountType
<1>5. CASE p = q /\ phase[t] # q
  <2>1. After = Before \cup {t} /\ t \notin Before
    BY <1>1, <1>5
  <2>2. Cardinality(After) = Cardinality(Before) + 1
    BY <1>2, <2>1, FS_AddElement
  <2>. QED
    BY <1>3, <1>4, <1>5, <2>2 DEF One
<1>6. CASE p # q /\ phase[t] = q
  <2>1. After = Before \ {t} /\ t \in Before
    BY <1>1, <1>6
  <2>2. Cardinality(After) = Cardinality(Before) - 1
    BY <1>2, <2>1, FS_RemoveElement
  <2>. QED
    BY <1>3, <1>4, <1>6, <2>2 DEF One
<1>7. CASE p = q <=> phase[t] = q
  <2>1. After = Before
    BY <1>1, <1>7
  <2>2. One(p = q /\ phase[t] # q) = 0 /\ One(p # q /\ phase[t] = q) = 0
    BY <1>7 DEF One
  <2> HIDE DEF Before, After
  <2>. QED
    BY <1>3, <1>4, <2>1, <2>2
<1>. QED
  BY <1>5, <1>6, <1>7

-----------------------------------------------------------------------------

\* A line without its end is no event any more when something follows it.
LEMMA JoinedEffect ==
    ASSUME LedgerTypes, Counted
    PROVE  /\ Joined \in AuditType
           /\ Joined.calls = audit.calls - One(audit.end = "calls")
           /\ Joined.results = audit.results - One(audit.end = "results")
           /\ Joined.spoiled = audit.spoiled
<1> USE DEF LedgerTypes, AuditType, Counted, Joined, One
<1>1. CASE audit.end = "calls"
  <2>1. Joined = [audit EXCEPT !.calls = @ - 1]
    BY <1>1
  <2>. QED
    BY <1>1, <2>1
<1>2. CASE audit.end = "results"
  <2>1. Joined = [audit EXCEPT !.results = @ - 1]
    BY <1>2
  <2>. QED
    BY <1>2, <2>1
<1>3. CASE audit.end \notin {"calls", "results"}
  BY <1>3
<1>. QED
  BY <1>1, <1>2, <1>3

\* An event more, and what has become of the chain.
LEMMA EventFields ==
    ASSUME NEW old \in AuditType, NEW known \in BOOLEAN, NEW new
    PROVE  /\ new = [old EXCEPT !.calls = @ + 1, !.replays = known] =>
                /\ new \in AuditType /\ new.end = old.end /\ new.calls = old.calls + 1
                /\ new.results = old.results /\ new.spoiled = old.spoiled
                /\ new.replays = known
           /\ new = [old EXCEPT !.results = @ + 1, !.replays = known] =>
                /\ new \in AuditType /\ new.end = old.end /\ new.calls = old.calls
                /\ new.results = old.results + 1 /\ new.spoiled = old.spoiled
                /\ new.replays = known
<1> DEFINE Rec(c, r, s, e, k) ==
        [calls |-> c, results |-> r, spoiled |-> s, end |-> e, replays |-> k]
<1>1. /\ old.calls \in Nat /\ old.results \in Nat /\ old.spoiled \in Nat
      /\ old.end \in {"no", "part", "calls", "results"}
      /\ old = Rec(old.calls, old.results, old.spoiled, old.end, old.replays)
  BY DEF AuditType
<1>2. \A c, r \in Nat : Rec(c, r, old.spoiled, old.end, known) \in AuditType
  BY <1>1, Zenon DEF AuditType
<1>3. ASSUME new = [old EXCEPT !.calls = @ + 1, !.replays = known]
      PROVE  new = Rec(old.calls + 1, old.results, old.spoiled, old.end, known)
  BY <1>1, <1>3
<1>4. ASSUME new = [old EXCEPT !.results = @ + 1, !.replays = known]
      PROVE  new = Rec(old.calls, old.results + 1, old.spoiled, old.end, known)
  BY <1>1, <1>4
<1>5. old.calls + 1 \in Nat /\ old.results + 1 \in Nat
  BY <1>1
<1>. QED
  BY <1>1, <1>2, <1>3, <1>4, <1>5, Zenon

\* A line that is no event, and the part of one.
LEMMA SpoiltFields ==
    ASSUME NEW old \in AuditType, NEW new
    PROVE  /\ new = [old EXCEPT !.spoiled = @ + 1, !.end = "no", !.replays = FALSE] =>
                /\ new \in AuditType /\ new.end = "no" /\ new.calls = old.calls
                /\ new.results = old.results /\ new.spoiled = old.spoiled + 1
                /\ new.replays = FALSE
           /\ new = [old EXCEPT !.end = "part", !.replays = FALSE] =>
                /\ new \in AuditType /\ new.end = "part" /\ new.calls = old.calls
                /\ new.results = old.results /\ new.spoiled = old.spoiled
<1> DEFINE Rec(c, r, s, e, k) ==
        [calls |-> c, results |-> r, spoiled |-> s, end |-> e, replays |-> k]
<1>1. /\ old.calls \in Nat /\ old.results \in Nat /\ old.spoiled \in Nat
      /\ old = Rec(old.calls, old.results, old.spoiled, old.end, old.replays)
  BY DEF AuditType
<1>2. \A s \in Nat, e \in {"no", "part"} :
          Rec(old.calls, old.results, s, e, FALSE) \in AuditType
  BY <1>1, Zenon DEF AuditType
<1>3. ASSUME new = [old EXCEPT !.spoiled = @ + 1, !.end = "no", !.replays = FALSE]
      PROVE  new = Rec(old.calls, old.results, old.spoiled + 1, "no", FALSE)
  BY <1>1, <1>3
<1>4. ASSUME new = [old EXCEPT !.end = "part", !.replays = FALSE]
      PROVE  new = Rec(old.calls, old.results, old.spoiled, "part", FALSE)
  BY <1>1, <1>4
<1>5. old.spoiled + 1 \in Nat
  BY <1>1
<1>. QED
  BY <1>1, <1>2, <1>3, <1>4, <1>5, Zenon

\* A whole line: one event more, or one line that is spoiled by the part before it.
LEMMA WrittenEffect ==
    ASSUME LedgerTypes, Counted, NEW t \in Agent, NEW field \in {"calls", "results"},
           NEW new, new = Written(t, field)
    PROVE  /\ new \in AuditType /\ new.end = "no"
           /\ audit.end = "no" =>
                /\ new.calls = audit.calls + One(field = "calls")
                /\ new.results = audit.results + One(field = "results")
                /\ new.spoiled = audit.spoiled
                /\ new.replays = (audit.replays /\ knows[uses[t]][RunOf(t)] = Lines)
           /\ audit.end # "no" =>
                /\ new.calls = audit.calls - One(audit.end = "calls")
                /\ new.results = audit.results - One(audit.end = "results")
                /\ new.spoiled = audit.spoiled + 1
                /\ new.replays = FALSE
<1>0. PICK known \in BOOLEAN : known = (audit.replays /\ knows[uses[t]][RunOf(t)] = Lines)
  OBVIOUS
<1>1. audit \in AuditType
  BY DEF LedgerTypes
<1>2. CASE audit.end # "no"
  <2>1. new = [Joined EXCEPT !.spoiled = @ + 1, !.end = "no", !.replays = FALSE]
    BY <1>2 DEF Written
  <2>2. /\ new \in AuditType /\ new.end = "no" /\ new.calls = Joined.calls
        /\ new.results = Joined.results /\ new.spoiled = Joined.spoiled + 1
        /\ new.replays = FALSE
    BY <2>1, JoinedEffect, SpoiltFields
  <2>. QED
    BY <1>2, <2>2, JoinedEffect
<1>3. CASE audit.end = "no" /\ field = "calls"
  <2>1. new = [audit EXCEPT !.calls = @ + 1, !.replays = known]
    BY <1>0, <1>3, Zenon DEF Written
  <2>2. /\ new \in AuditType /\ new.end = audit.end /\ new.calls = audit.calls + 1
        /\ new.results = audit.results /\ new.spoiled = audit.spoiled /\ new.replays = known
    BY <1>0, <1>1, <2>1, EventFields, Zenon
  <2>3. audit.calls + 1 = audit.calls + One(field = "calls") /\ audit.results = audit.results + One(field = "results")
    BY <1>1, <1>3 DEF AuditType, One
  <2>. QED
    BY <1>0, <1>3, <2>2, <2>3, Zenon
<1>4. CASE audit.end = "no" /\ field = "results"
  <2>1. new = [audit EXCEPT !.results = @ + 1, !.replays = known]
    BY <1>0, <1>4, Zenon DEF Written
  <2>2. /\ new \in AuditType /\ new.end = audit.end /\ new.results = audit.results + 1
        /\ new.calls = audit.calls /\ new.spoiled = audit.spoiled /\ new.replays = known
    BY <1>0, <1>1, <2>1, EventFields, Zenon
  <2>3. audit.results + 1 = audit.results + One(field = "results") /\ audit.calls = audit.calls + One(field = "calls")
    BY <1>1, <1>4 DEF AuditType, One
  <2>. QED
    BY <1>0, <1>4, <2>2, <2>3, Zenon
<1>. QED
  BY <1>2, <1>3, <1>4

\* What a write has left at most and at least, however far it came.
LEMMA RemainsEffect ==
    ASSUME LedgerTypes, Counted, NEW t \in Agent, NEW field \in {"calls", "results"},
           NEW new \in Remains(t, field)
    PROVE  /\ new \in AuditType
           /\ audit.calls + audit.spoiled - One(audit.end = "calls")
                <= new.calls + new.spoiled - One(new.end = "calls")
           /\ new.calls <= audit.calls + One(field = "calls")
           /\ new.results <= audit.results + One(field = "results")
           /\ new.end = "calls" => new.calls >= 1
           /\ new.end = "results" => new.results >= 1
           /\ new.end = "no" /\ new.spoiled = 0 =>
                /\ audit.end = "no" /\ audit.spoiled = 0
                /\ new.replays = (audit.replays /\ knows[uses[t]][RunOf(t)] = Lines)
<1> DEFINE line == Written(t, field)
<1>1. audit \in AuditType
  BY DEF LedgerTypes
<1>2. CASE new = [Joined EXCEPT !.end = "part", !.replays = FALSE]
  <2>1. /\ new \in AuditType /\ new.end = "part" /\ new.calls = Joined.calls
        /\ new.results = Joined.results /\ new.spoiled = Joined.spoiled
    BY <1>2, JoinedEffect, SpoiltFields
  <2>. QED
    BY <1>1, <2>1, JoinedEffect DEF AuditType, One
<1>3. CASE new = line
  <2>1. CASE audit.end = "no"
    BY <1>1, <1>3, <2>1, WrittenEffect DEF AuditType, One
  <2>2. CASE audit.end # "no"
    <3>1. /\ new \in AuditType /\ new.end = "no"
          /\ new.calls = audit.calls - One(audit.end = "calls")
          /\ new.results = audit.results - One(audit.end = "results")
          /\ new.spoiled = audit.spoiled + 1
      BY <1>3, <2>2, WrittenEffect
    <3>. QED
      BY <1>1, <3>1 DEF AuditType, One
  <2>. QED
    BY <2>1, <2>2
<1>4. CASE audit.end = "no" /\ new = [line EXCEPT !.end = field]
  <2> HIDE DEF line
  <2>1. /\ line \in AuditType
        /\ line.calls = audit.calls + One(field = "calls")
        /\ line.results = audit.results + One(field = "results")
        /\ line.spoiled = audit.spoiled
    BY <1>4, WrittenEffect DEF line
  <2>2. /\ new \in AuditType /\ new.end = field /\ new.calls = line.calls
        /\ new.results = line.results /\ new.spoiled = line.spoiled
    BY <1>4, <2>1 DEF AuditType
  <2>. QED
    BY <1>1, <1>4, <2>1, <2>2 DEF AuditType, One
<1>. QED
  BY <1>2, <1>3, <1>4 DEF Remains

-----------------------------------------------------------------------------

LEMMA AuditInitially == Init => AuditInv
<1> SUFFICES ASSUME Init PROVE AuditInv
  OBVIOUS
<1> USE DEF Init, ControlInit, EmptyAudit
<1>1. LedgerTypes
  <2>1. audit \in AuditType
    <3>1. 0 \in Nat
      OBVIOUS
    <3>. QED
      BY <3>1, Zenon DEF AuditType
  <2>2. shared \in BOOLEAN
    OBVIOUS
  <2>3. cuts \in 0..MaxCuts /\ crashes \in 0..MaxCrashes
    BY ControlAssumption, ServerAssumption
  <2>4. \A t \in Agent : phase[t] = "idle" <=> doing[t] = NoAction
    OBVIOUS
  <2>. QED
    BY <2>1, <2>2, <2>3, <2>4 DEF LedgerTypes
<1>2. Owned
  BY DEF Owned
<1>3. Chained
  BY DEF Chained
<1>4. \A p \in {"act", "result"} : Count(p) = 0
  <2>1. \A p \in {"act", "result"} : {t \in Agent : phase[t] = p} = {}
    OBVIOUS
  <2>. QED
    BY <2>1, FS_EmptySet DEF Count
<1>5. Counted
  BY <1>4, CountType DEF Counted, One
<1>. QED
  BY <1>1, <1>2, <1>3, <1>5 DEF AuditInv

LEMMA RunKnown ==
    ASSUME ControlTypes, NEW t \in Agent, phase[t] # "idle"
    PROVE  RunOf(t) \in Run
  BY DEF ControlTypes, RunOf, Of, Request

LEMMA Moved ==
    ASSUME ControlTypes, NEW t \in Agent, NEW p \in Phase, Enter(t, p)
    PROVE  phase'[t] = p /\ \A u \in Agent \ {t} : phase'[u] = phase[u]
  BY DEF ControlTypes, Enter

\* A thread is idle when it has no call, whatever another one does.
LEMMA IdleGoesOn ==
    ASSUME ControlTypes, LedgerTypes, NEW t \in Agent, NEW p \in Phase, p # "idle",
           phase[t] # "idle", Enter(t, p), doing' = doing
    PROVE  \A u \in Agent : phase'[u] = "idle" <=> doing'[u] = NoAction
<1>1. \A u \in Agent : phase[u] = "idle" <=> doing[u] = NoAction
  BY DEF LedgerTypes
<1>. QED
  BY <1>1, Moved

LEMMA IdleLeaves ==
    ASSUME ControlTypes, LedgerTypes, NEW t \in Agent, Leave(t)
    PROVE  /\ \A u \in Agent : phase'[u] = "idle" <=> doing'[u] = NoAction
           /\ uses' \in [Agent -> Agent \cup {Nobody}]
           /\ \A u \in Agent \ {t} : doing'[u] = doing[u] /\ uses'[u] = uses[u]
           /\ Enter(t, "idle") /\ phase'[t] = "idle" /\ "idle" \in Phase
<1>1. \A u \in Agent : phase[u] = "idle" <=> doing[u] = NoAction
  BY DEF LedgerTypes
<1>2. Enter(t, "idle") /\ "idle" \in Phase
  BY DEF Leave, Phase
<1>3. doing'[t] = NoAction /\ \A u \in Agent \ {t} : doing'[u] = doing[u]
  BY DEF Leave, ControlTypes
<1>4. uses' \in [Agent -> Agent \cup {Nobody}] /\ \A u \in Agent \ {t} : uses'[u] = uses[u]
  BY DEF Leave, LedgerTypes
<1>. QED
  BY <1>1, <1>2, <1>3, <1>4, Moved

\* What one thread does takes nothing from another one.
LEMMA OwnedMoves ==
    ASSUME ControlTypes, LedgerTypes, Owned, NEW t \in Agent, NEW p \in Phase, Enter(t, p),
           objects \subseteq objects',
           \A u \in Agent \ {t} : doing'[u] = doing[u] /\ uses'[u] = uses[u],
           \A run \in Run : /\ ledgers[run] # Nobody => ledgers'[run] # Nobody
                            /\ ledgers'[run] # Nobody => Made(ledgers[run], run)'
    PROVE  /\ /\ p = "store" => Made(t, RunOf(t))'
              /\ p = "take" => (ledgers[RunOf(t)] # Nobody)'
              /\ p \in {"call", "act", "result"} => Made(uses[t], RunOf(t))'
              /\ ~shared' => \A o, q \in objects' : o = q
           => Owned'
<1> SUFFICES ASSUME p = "store" => Made(t, RunOf(t))',
                    p = "take" => (ledgers[RunOf(t)] # Nobody)',
                    p \in {"call", "act", "result"} => Made(uses[t], RunOf(t))',
                    ~shared' => \A o, q \in objects' : o = q
             PROVE  Owned'
  OBVIOUS
<1>1. ASSUME NEW u \in Agent
      PROVE  /\ phase'[u] = "store" => Made(u, RunOf(u))'
             /\ phase'[u] = "take" => (ledgers[RunOf(u)] # Nobody)'
             /\ phase'[u] \in {"call", "act", "result"} => Made(uses[u], RunOf(u))'
  <2>1. CASE u = t
    BY <2>1, Moved
  <2>2. CASE u # t
    <3>1. phase'[u] = phase[u] /\ RunOf(u)' = RunOf(u) /\ uses'[u] = uses[u]
      BY <2>2, Moved DEF RunOf, Of
    <3>2. phase[u] # "idle" => RunOf(u) \in Run
      BY RunKnown
    <3>. QED
      BY <3>1, <3>2 DEF Owned, Made
  <2>. QED
    BY <2>1, <2>2
<1>. QED
  BY <1>1 DEF Owned

\* A step that is neither before nor after a backend.
LEMMA QuietCount ==
    ASSUME ControlTypes, Counted, NEW t \in Agent, NEW p \in Phase, Enter(t, p),
           {phase[t], p} \cap {"act", "result"} = {},
           UNCHANGED <<audit, performed, cuts, crashes>>
    PROVE  Counted'
<1>1. "act" \in Phase /\ "result" \in Phase
  BY DEF Phase
<1>2. \A q \in {"act", "result"} : Count(q)' = Count(q)
  <2>1. ASSUME NEW q \in {"act", "result"}
        PROVE  One(p = q /\ phase[t] # q) = 0 /\ One(p # q /\ phase[t] = q) = 0
    BY DEF One
  <2>2. ASSUME NEW q \in {"act", "result"}
        PROVE  Count(q)' = Count(q) + One(p = q /\ phase[t] # q) - One(p # q /\ phase[t] = q)
    BY <1>1, CountMoves
  <2>. QED
    BY <2>1, <2>2, CountType
<1>. QED
  BY <1>2 DEF Counted

LEMMA ChainedFrame ==
    ASSUME Chained, UNCHANGED <<audit, knows, objects, shared, cuts>>
    PROVE  Chained'
  BY DEF Chained, Unspoiled, Lines

\* A call that is given up leaves the objects as they are.
LEMMA LeaveKeeps ==
    ASSUME ControlTypes, LedgerTypes, Owned, NEW t \in Agent, Leave(t),
           UNCHANGED <<ledgers, objects, shared>>
    PROVE  Owned'
<1>1. \A run \in Run : ledgers'[run] # Nobody => Made(ledgers[run], run)'
  BY DEF Owned, Made
<1>. QED
  BY <1>1, IdleLeaves, OwnedMoves DEF Owned

LEMMA QuietLeave ==
    ASSUME ControlTypes, AuditInv, NEW t \in Agent, Leave(t), phase[t] \notin {"act", "result"},
           UNCHANGED <<ledgerVars, audit, performed, cuts, crashes>>
    PROVE  AuditInv'
<1> USE DEF AuditInv, ledgerVars
<1>1. LedgerTypes'
  BY IdleLeaves DEF LedgerTypes
<1>2. Owned' /\ Chained'
  BY LeaveKeeps, ChainedFrame
<1>3. Counted'
  BY IdleLeaves, QuietCount
<1>. QED
  BY <1>1, <1>2, <1>3

-----------------------------------------------------------------------------

\* A call begins.
LEMMA BeginStep ==
    ASSUME ControlTypes, AuditInv, crashes' = crashes, NEW t \in Agent,
           NEW r \in Request, NEW s \in Surfaces, Execute(t, r, s)
    PROVE  AuditInv'
<1> USE DEF AuditInv
<1>1. /\ phase[t] = "idle" /\ Enter(t, "scope") /\ "scope" \in Phase
      /\ doing' = [doing EXCEPT ![t] = [request |-> r, surface |-> s]]
      /\ UNCHANGED <<uses, ledgers, knows, objects, shared, audit, performed, cuts>>
  BY DEF Execute, ledgerVars, Phase
<1>2. doing'[t] # NoAction /\ \A u \in Agent \ {t} : doing'[u] = doing[u]
  BY <1>1, NoActionIsNone DEF ControlTypes
<1>3. LedgerTypes'
  <2>1. \A u \in Agent : phase'[u] = "idle" <=> doing'[u] = NoAction
    BY <1>1, <1>2, Moved DEF LedgerTypes
  <2>. QED
    BY <1>1, <2>1 DEF LedgerTypes
<1>4. Owned'
  <2>1. \A run \in Run : ledgers'[run] # Nobody => Made(ledgers[run], run)'
    BY <1>1 DEF Owned, Made
  <2>. QED
    BY <1>1, <1>2, <2>1, OwnedMoves DEF Owned
<1>5. Chained' /\ Counted'
  BY <1>1, QuietCount, ChainedFrame
<1>. QED
  BY <1>3, <1>4, <1>5

\* evaluate() goes on or raises.
LEMMA QuestionStep ==
    ASSUME ControlTypes, AuditInv, crashes' = crashes, NEW t \in Agent,
           CheckScope(t) \/ CheckStops(t) \/ CheckProhibited(t) \/ CheckApproval(t)
    PROVE  AuditInv'
<1> DEFINE Questions == {"scope", "stops", "prohibited", "approval"}
<1> USE DEF AuditInv
<1>1. /\ phase[t] \in Questions
      /\ UNCHANGED <<ledgers, knows, objects, shared, audit, performed, cuts>>
      /\ \/ Leave(t)
         \/ \E p \in Questions \cup {"find"} : Enter(t, p) /\ UNCHANGED <<doing, uses>>
  BY DEF CheckScope, CheckStops, CheckProhibited, CheckApproval, Check, ledgerVars
<1>2. \A run \in Run : ledgers'[run] # Nobody => Made(ledgers[run], run)'
  BY <1>1 DEF Owned, Made
<1>3. CASE Leave(t)
  BY <1>1, <1>3, QuietLeave DEF ledgerVars
<1>4. ASSUME NEW p \in Questions \cup {"find"}, Enter(t, p), UNCHANGED <<doing, uses>>
      PROVE  AuditInv'
  <2>1. p \in Phase /\ p # "idle" /\ phase[t] # "idle"
    BY <1>1 DEF Phase
  <2>2. LedgerTypes'
    <3>1. \A u \in Agent : phase'[u] = "idle" <=> doing'[u] = NoAction
      BY <1>4, <2>1, IdleGoesOn
    <3>. QED
      BY <1>1, <1>4, <3>1 DEF LedgerTypes
  <2>3. Owned'
    BY <1>1, <1>2, <1>4, <2>1, OwnedMoves DEF Owned
  <2>4. Chained' /\ Counted'
    BY <1>1, <1>4, <2>1, QuietCount, ChainedFrame
  <2>. QED
    BY <2>2, <2>3, <2>4
<1>. QED
  BY <1>1, <1>3, <1>4

\* _ledger() looks an object up, keeps the new one, and takes what there is.
LEMMA LookupStep ==
    ASSUME ControlTypes, AuditInv, crashes' = crashes, NEW t \in Agent,
           FindLedger(t) \/ StoreLedger(t) \/ TakeLedger(t)
    PROVE  AuditInv'
<1> DEFINE Lookups == {"find", "make", "store", "take", "call"}
<1> USE DEF AuditInv, FindLedger, StoreLedger, TakeLedger, ledgerVars
<1>1. PICK p \in {"make", "take", "call"} : Enter(t, p)
  OBVIOUS
<1>2. /\ p \in Phase /\ p # "idle" /\ phase[t] # "idle" /\ doing' = doing
      /\ {phase[t], p} \cap {"act", "result"} = {}
      /\ UNCHANGED <<audit, knows, objects, shared, performed, cuts>>
  BY <1>1 DEF Phase
<1>3. RunOf(t) \in Run /\ RunOf(t)' = RunOf(t)
  BY <1>2, RunKnown DEF RunOf, Of
<1>4. phase'[t] = p
  BY <1>1, <1>2, Moved
<1>5. Chained' /\ Counted'
  BY <1>1, <1>2, QuietCount, ChainedFrame
<1>6. \A u \in Agent : phase'[u] = "idle" <=> doing'[u] = NoAction
  BY <1>1, <1>2, IdleGoesOn
<1>7. CASE FindLedger(t)
  <2>1. LedgerTypes'
    BY <1>2, <1>6, <1>7 DEF LedgerTypes
  <2>2. p = "make" \/ (p = "take" /\ ledgers[RunOf(t)] # Nobody)
    BY <1>4, <1>7 DEF Enter, ControlTypes
  <2>3. \A run \in Run : ledgers'[run] # Nobody => Made(ledgers[run], run)'
    BY <1>7 DEF Owned, Made
  <2>4. Owned'
    BY <1>1, <1>2, <1>3, <1>7, <2>2, <2>3, OwnedMoves DEF Owned
  <2>. QED
    BY <1>5, <2>1, <2>4
<1>8. CASE StoreLedger(t)
  <2>1. /\ ledgers' \in [Run -> Agent \cup {Nobody}] /\ ledgers'[RunOf(t)] = t
        /\ \A run \in Run \ {RunOf(t)} : ledgers'[run] = ledgers[run]
    BY <1>3, <1>8 DEF LedgerTypes
  <2>2. LedgerTypes'
    BY <1>2, <1>6, <1>8, <2>1 DEF LedgerTypes
  <2>3. p = "take"
    BY <1>4, <1>8 DEF Enter, ControlTypes
  <2>4. Made(t, RunOf(t)) /\ t # Nobody
    BY <1>8 DEF Owned, Made
  <2>5. \A run \in Run : /\ ledgers[run] # Nobody => ledgers'[run] # Nobody
                         /\ ledgers'[run] # Nobody => Made(ledgers[run], run)'
    BY <1>3, <1>8, <2>1, <2>4 DEF Owned, Made
  <2>6. Owned'
    BY <1>1, <1>2, <1>3, <1>8, <2>1, <2>3, <2>4, <2>5, OwnedMoves DEF Owned
  <2>. QED
    BY <1>5, <2>2, <2>6
<1>9. CASE TakeLedger(t)
  <2>1. /\ uses' \in [Agent -> Agent \cup {Nobody}] /\ uses'[t] = ledgers[RunOf(t)]
        /\ \A u \in Agent \ {t} : uses'[u] = uses[u]
    BY <1>3, <1>9 DEF LedgerTypes
  <2>2. LedgerTypes'
    BY <1>2, <1>6, <1>9, <2>1 DEF LedgerTypes
  <2>3. p = "call"
    BY <1>4, <1>9 DEF Enter, ControlTypes
  <2>4. Made(uses[t], RunOf(t))'
    BY <1>2, <1>3, <1>9, <2>1 DEF Owned, Made
  <2>5. \A run \in Run : ledgers'[run] # Nobody => Made(ledgers[run], run)'
    BY <1>9 DEF Owned, Made
  <2>6. Owned'
    BY <1>1, <1>2, <1>9, <2>1, <2>3, <2>4, <2>5, OwnedMoves DEF Owned
  <2>. QED
    BY <1>5, <2>2, <2>6
<1>. QED
  BY <1>7, <1>8, <1>9

-----------------------------------------------------------------------------

LEMMA LinesType ==
    ASSUME LedgerTypes
    PROVE  /\ audit.calls \in Nat /\ audit.results \in Nat /\ audit.spoiled \in Nat
           /\ Lines \in Nat
  BY DEF LedgerTypes, AuditType, Lines

\* _ledger() makes an object, which knows the last line.
LEMMA MakeStep ==
    ASSUME ControlTypes, AuditInv, crashes' = crashes, NEW t \in Agent, MakeLedger(t)
    PROVE  AuditInv'
<1> DEFINE run == RunOf(t)
<1> USE DEF AuditInv
<1>1. phase[t] = "make" /\ UNCHANGED <<ledgers, audit, performed, cuts>>
  BY DEF MakeLedger
<1>2. run \in Run
  BY <1>1, RunKnown
<1>3. CASE ~audit.replays
  BY <1>1, <1>3, QuietLeave DEF MakeLedger, ledgerVars
<1>4. CASE audit.replays
  <2>1. /\ knows' = [knows EXCEPT ![t][run] = Lines]
        /\ objects' = objects \cup {<<t, run>>}
        /\ shared' = (shared \/ objects # {})
        /\ Enter(t, "store") /\ "store" \in Phase /\ UNCHANGED <<doing, uses>>
    BY <1>4 DEF MakeLedger, Phase
  <2> HIDE DEF run
  <2>2. knows' \in [Agent -> [Run -> Nat]] /\ knows'[t][run] = Lines
    BY <1>2, <2>1, LinesType DEF LedgerTypes
  <2>3. LedgerTypes'
    <3>1. \A u \in Agent : phase'[u] = "idle" <=> doing'[u] = NoAction
      BY <1>1, <2>1, IdleGoesOn
    <3>2. shared' \in BOOLEAN
      BY <2>1, Zenon
    <3>3. objects' \subseteq Agent \X Run
      BY <1>2, <2>1 DEF LedgerTypes
    <3>. QED
      BY <1>1, <2>1, <2>2, <3>1, <3>2, <3>3 DEF LedgerTypes
  <2>4. ~shared' => ~shared /\ objects' = {<<t, run>>}
    BY <2>1
  <2>5. Owned'
    <3>1. \A r \in Run : ledgers'[r] # Nobody => Made(ledgers[r], r)'
      BY <1>1, <2>1 DEF Owned, Made
    <3>2. Made(t, RunOf(t))'
      BY <2>1, ControlAssumption DEF Made, RunOf, Of, run
    <3>3. ~shared' => \A o, q \in objects' : o = q
      BY <2>4
    <3>. QED
      BY <1>1, <2>1, <3>1, <3>2, <3>3, OwnedMoves
  <2>6. Chained'
    BY <1>1, <1>4, <2>2, <2>4 DEF Chained, Unspoiled, Lines
  <2>7. Counted'
    BY <1>1, <2>1, QuietCount
  <2>. QED
    BY <2>3, <2>5, <2>6, <2>7
<1>. QED
  BY <1>3, <1>4

\* EventLedger.append(): the object that wrote knows the last line again.
LEMMA AppendEffect ==
    ASSUME ControlTypes, AuditInv, NEW t \in Agent, phase[t] \in {"call", "result"},
           AppendLine(t), UNCHANGED <<objects, shared, cuts>>
    PROVE  knows' \in [Agent -> [Run -> Nat]] /\ audit' \in AuditType /\ Chained'
<1> DEFINE run == RunOf(t)
<1> DEFINE maker == uses[t]
<1> USE DEF AuditInv
<1>1. run \in Run
  BY RunKnown
<1>2. maker \in Agent /\ <<maker, run>> \in objects
  BY DEF Owned, Made, LedgerTypes
<1>3. Field(t) \in {"calls", "results"} /\ audit' = Written(t, Field(t))
  BY DEF Field, AppendLine
<1>4. knows' = [knows EXCEPT ![maker][run] = Lines + 1]
  BY DEF AppendLine
<1> HIDE DEF run, maker
<1>5. knows' \in [Agent -> [Run -> Nat]] /\ knows'[maker][run] = Lines + 1
  BY <1>1, <1>2, <1>4, LinesType DEF LedgerTypes
<1>6. audit' \in AuditType
  BY <1>3, WrittenEffect
<1>7. ASSUME Unspoiled' PROVE Unspoiled /\ Lines' = Lines + 1
  <2>1. audit.end = "no"
    <3>1. SUFFICES ASSUME audit.end # "no" PROVE FALSE
      OBVIOUS
    <3>2. audit'.spoiled = audit.spoiled + 1
      BY <1>3, <3>1, WrittenEffect
    <3>. QED
      BY <1>7, <3>2, LinesType DEF Unspoiled
  <2>2. /\ audit'.calls = audit.calls + One(Field(t) = "calls")
        /\ audit'.results = audit.results + One(Field(t) = "results")
        /\ audit'.spoiled = audit.spoiled
    BY <1>3, <2>1, WrittenEffect
  <2>3. Lines' = Lines + 1
    BY <1>3, <2>2, LinesType DEF Lines, One
  <2>. QED
    BY <1>7, <2>1, <2>2, <2>3 DEF Unspoiled
<1>8. ASSUME Unspoiled' PROVE audit'.replays
  <2>1. Unspoiled
    BY <1>7, <1>8
  <2>2. audit.end = "no" /\ audit.replays /\ knows[maker][run] = Lines
    BY <1>2, <2>1 DEF Unspoiled, Chained
  <2>3. audit'.replays = (audit.replays /\ knows[maker][run] = Lines)
    BY <1>3, <2>2, WrittenEffect, Zenon DEF maker, run
  <2>. QED
    BY <2>2, <2>3, Zenon
<1>9. ASSUME Unspoiled', NEW o \in objects' PROVE knows'[o[1]][o[2]] = Lines'
  <2>1. o = <<maker, run>>
    BY <1>2, <1>7, <1>9 DEF Owned, Unspoiled
  <2>. QED
    BY <1>5, <1>7, <1>9, <2>1
<1>. QED
  BY <1>5, <1>6, <1>8, <1>9 DEF Chained

\* The two phases that count, when a thread moves.
LEMMA CountsMove ==
    ASSUME ControlTypes, NEW t \in Agent, NEW p \in Phase, Enter(t, p)
    PROVE  /\ Count("act") \in Nat /\ Count("result") \in Nat
           /\ Count("act")' = Count("act") + (IF p = "act" /\ phase[t] # "act" THEN 1 ELSE 0)
                              - (IF p # "act" /\ phase[t] = "act" THEN 1 ELSE 0)
           /\ Count("result")' = Count("result")
                              + (IF p = "result" /\ phase[t] # "result" THEN 1 ELSE 0)
                              - (IF p # "result" /\ phase[t] = "result" THEN 1 ELSE 0)
<1>1. "act" \in Phase /\ "result" \in Phase
  BY DEF Phase
<1>2. /\ Count("act")' = Count("act") + One(p = "act" /\ phase[t] # "act")
                              - One(p # "act" /\ phase[t] = "act")
      /\ Count("result")' = Count("result") + One(p = "result" /\ phase[t] # "result")
                              - One(p # "result" /\ phase[t] = "result")
  BY <1>1, CountMoves
<1>. QED
  BY <1>2, CountType DEF One

LEMMA LogCallStep ==
    ASSUME ControlTypes, AuditInv, crashes' = crashes, NEW t \in Agent, LogCall(t)
    PROVE  AuditInv'
<1> USE DEF AuditInv
<1>1. /\ phase[t] = "call" /\ AppendLine(t) /\ Enter(t, "act") /\ "act" \in Phase
      /\ UNCHANGED <<doing, uses, ledgers, objects, shared, performed, cuts>>
  BY DEF LogCall, Phase
<1>2. knows' \in [Agent -> [Run -> Nat]] /\ audit' \in AuditType /\ Chained'
  BY <1>1, AppendEffect
<1>3. LedgerTypes'
  <2>1. \A u \in Agent : phase'[u] = "idle" <=> doing'[u] = NoAction
    BY <1>1, IdleGoesOn
  <2>. QED
    BY <1>1, <1>2, <2>1 DEF LedgerTypes
<1>4. Owned'
  <2>1. \A run \in Run : ledgers'[run] # Nobody => Made(ledgers[run], run)'
    BY <1>1 DEF Owned, Made
  <2>2. Made(uses[t], RunOf(t))'
    BY <1>1 DEF Owned, Made, RunOf, Of
  <2>. QED
    BY <1>1, <2>1, <2>2, OwnedMoves DEF Owned
<1>5. Count("act")' = Count("act") + 1 /\ Count("result")' = Count("result")
  BY <1>1, CountsMove
<1>6. audit' = Written(t, "calls")
  BY <1>1 DEF AppendLine, Field
<1>7. Counted'
  <2>1. audit'.end = "no"
    BY <1>6, WrittenEffect
  <2>2. CASE audit.end = "no"
    <3>1. /\ audit'.calls = audit.calls + 1 /\ audit'.results = audit.results
          /\ audit'.spoiled = audit.spoiled
      <4>1. /\ audit'.calls = audit.calls + One("calls" = "calls")
            /\ audit'.results = audit.results + One("calls" = "results")
            /\ audit'.spoiled = audit.spoiled
        BY <1>6, <2>2, WrittenEffect
      <4>. QED
        BY <4>1, LinesType DEF One
    <3>. QED
      BY <1>1, <1>5, <2>1, <2>2, <3>1, LinesType, CountType DEF Counted, LedgerTypes, One
  <2>3. CASE audit.end # "no"
    <3>1. /\ audit'.calls = audit.calls - One(audit.end = "calls")
          /\ audit'.results = audit.results - One(audit.end = "results")
          /\ audit'.spoiled = audit.spoiled + 1
      BY <1>6, <2>3, WrittenEffect
    <3>. QED
      BY <1>1, <1>5, <2>1, <2>3, <3>1, LinesType, CountType DEF Counted, LedgerTypes, One
  <2>. QED
    BY <2>2, <2>3
<1>. QED
  BY <1>2, <1>3, <1>4, <1>7

LEMMA LogResultStep ==
    ASSUME ControlTypes, AuditInv, crashes' = crashes, NEW t \in Agent, LogResult(t)
    PROVE  AuditInv'
<1> USE DEF AuditInv
<1>1. /\ phase[t] = "result" /\ AppendLine(t) /\ Leave(t)
      /\ UNCHANGED <<ledgers, objects, shared, performed, cuts>>
  BY DEF LogResult
<1>2. knows' \in [Agent -> [Run -> Nat]] /\ audit' \in AuditType /\ Chained'
  BY <1>1, AppendEffect
<1>3. LedgerTypes'
  BY <1>1, <1>2, IdleLeaves DEF LedgerTypes
<1>4. Owned'
  BY <1>1, LeaveKeeps
<1>5. Count("act")' = Count("act") /\ Count("result")' = Count("result") - 1
  BY <1>1, IdleLeaves, CountsMove
<1>6. audit' = Written(t, "results")
  BY <1>1 DEF AppendLine, Field
<1>7. Counted'
  <2>1. audit'.end = "no"
    BY <1>6, WrittenEffect
  <2>2. CASE audit.end = "no"
    <3>1. /\ audit'.calls = audit.calls /\ audit'.results = audit.results + 1
          /\ audit'.spoiled = audit.spoiled
      <4>1. /\ audit'.calls = audit.calls + One("results" = "calls")
            /\ audit'.results = audit.results + One("results" = "results")
            /\ audit'.spoiled = audit.spoiled
        BY <1>6, <2>2, WrittenEffect
      <4>. QED
        BY <4>1, LinesType DEF One
    <3>. QED
      BY <1>1, <1>5, <2>1, <2>2, <3>1, LinesType, CountType DEF Counted, LedgerTypes, One
  <2>3. CASE audit.end # "no"
    <3>1. /\ audit'.calls = audit.calls - One(audit.end = "calls")
          /\ audit'.results = audit.results - One(audit.end = "results")
          /\ audit'.spoiled = audit.spoiled + 1
      BY <1>6, <2>3, WrittenEffect
    <3>. QED
      BY <1>1, <1>5, <2>1, <2>3, <3>1, LinesType, CountType DEF Counted, LedgerTypes, One
  <2>. QED
    BY <2>2, <2>3
<1>. QED
  BY <1>2, <1>3, <1>4, <1>7

LEMMA ActStep ==
    ASSUME ControlTypes, AuditInv, crashes' = crashes, NEW t \in Agent, Act(t)
    PROVE  AuditInv'
<1> USE DEF AuditInv
<1>1. /\ phase[t] = "act" /\ performed' = performed + 1
      /\ UNCHANGED <<ledgers, knows, objects, shared, audit, cuts>>
  BY DEF Act, ledgerVars
<1>2. Chained'
  BY <1>1, ChainedFrame
<1>3. CASE Leave(t)
  <2>1. LedgerTypes'
    BY <1>1, <1>3, IdleLeaves DEF LedgerTypes
  <2>2. Count("act")' = Count("act") - 1 /\ Count("result")' = Count("result")
    BY <1>1, <1>3, IdleLeaves, CountsMove
  <2>3. Counted'
    BY <1>1, <2>2, LinesType, CountType DEF Counted, LedgerTypes, One
  <2>. QED
    BY <1>1, <1>2, <1>3, <2>1, <2>3, LeaveKeeps
<1>4. CASE Enter(t, "result") /\ UNCHANGED <<doing, uses>>
  <2>1. "result" \in Phase
    BY DEF Phase
  <2>2. LedgerTypes'
    <3>1. \A u \in Agent : phase'[u] = "idle" <=> doing'[u] = NoAction
      BY <1>1, <1>4, <2>1, IdleGoesOn
    <3>. QED
      BY <1>1, <1>4, <3>1 DEF LedgerTypes
  <2>3. Owned'
    <3>1. \A run \in Run : ledgers'[run] # Nobody => Made(ledgers[run], run)'
      BY <1>1 DEF Owned, Made
    <3>2. Made(uses[t], RunOf(t))'
      BY <1>1, <1>4 DEF Owned, Made, RunOf, Of
    <3>. QED
      BY <1>1, <1>4, <2>1, <3>1, <3>2, OwnedMoves DEF Owned
  <2>4. Count("act")' = Count("act") - 1 /\ Count("result")' = Count("result") + 1
    BY <1>1, <1>4, <2>1, CountsMove
  <2>5. Counted'
    BY <1>1, <2>4, LinesType, CountType DEF Counted, LedgerTypes, One
  <2>. QED
    BY <1>2, <2>2, <2>3, <2>5
<1>. QED
  BY <1>3, <1>4 DEF Act

\* An append that raises: nothing was written, or no object knows of what was.
LEMMA FailsStep ==
    ASSUME ControlTypes, AuditInv, crashes' = crashes, NEW t \in Agent, AppendFails(t)
    PROVE  AuditInv'
<1> USE DEF AuditInv
<1>1. /\ phase[t] \in {"call", "result"} /\ Leave(t)
      /\ UNCHANGED <<ledgers, knows, objects, shared, performed>>
  BY DEF AppendFails, ledgerVars
<1>2. Owned'
  BY <1>1, LeaveKeeps
<1>3. /\ Count("act")' = Count("act")
      /\ Count("result")' = Count("result") - One(phase[t] = "result")
  BY <1>1, IdleLeaves, CountsMove DEF One
<1>4. CASE UNCHANGED <<audit, cuts>>
  <2>1. LedgerTypes'
    BY <1>1, <1>4, IdleLeaves DEF LedgerTypes
  <2>2. Counted'
    BY <1>1, <1>3, <1>4, LinesType, CountType DEF Counted, LedgerTypes, One
  <2>. QED
    BY <1>1, <1>2, <1>4, <2>1, <2>2, ChainedFrame
<1>5. CASE cuts < MaxCuts /\ cuts' = cuts + 1 /\ audit' \in Remains(t, Field(t))
  <2>1. Field(t) \in {"calls", "results"} /\ One(Field(t) = "results") = One(phase[t] = "result")
        /\ One(Field(t) = "calls") \in {0, 1}
    BY <1>1 DEF Field, One
  <2>2. /\ audit' \in AuditType
        /\ audit.calls + audit.spoiled - One(audit.end = "calls")
             <= audit'.calls + audit'.spoiled - One(audit'.end = "calls")
        /\ audit'.calls <= audit.calls + One(Field(t) = "calls")
        /\ audit'.results <= audit.results + One(Field(t) = "results")
        /\ audit'.end = "calls" => audit'.calls >= 1
        /\ audit'.end = "results" => audit'.results >= 1
    BY <1>5, <2>1, RemainsEffect
  <2>3. cuts \in Nat /\ cuts' \in 0..MaxCuts /\ cuts' # 0
    BY <1>5, ControlAssumption DEF LedgerTypes
  <2>4. LedgerTypes'
    BY <1>1, <2>2, <2>3, IdleLeaves DEF LedgerTypes
  <2>5. Counted'
    <3>1. /\ audit'.calls \in Nat /\ audit'.results \in Nat /\ audit'.spoiled \in Nat
          /\ One(audit.end = "calls") \in {0, 1} /\ One(audit'.end = "calls") \in {0, 1}
          /\ One(phase[t] = "result") \in {0, 1}
      BY <2>2 DEF AuditType, One
    <3>. QED
      BY <1>1, <1>3, <1>5, <2>1, <2>2, <2>3, <3>1, LinesType, CountType DEF Counted, LedgerTypes
  <2>6. Chained'
    BY <2>3 DEF Chained, Unspoiled
  <2>. QED
    BY <1>2, <2>4, <2>5, <2>6
<1>. QED
  BY <1>4, <1>5 DEF AppendFails

\* A kill: nobody goes on, and no object is left that would know less than the file.
LEMMA KilledStep ==
    ASSUME ControlTypes, AuditInv, crashes < MaxCrashes, crashes' = crashes + 1, ControlCrash
    PROVE  AuditInv'
<1> DEFINE N == Cardinality(Agent)
<1> USE DEF AuditInv
<1>1. /\ phase' = [t \in Agent |-> "idle"] /\ doing' = [t \in Agent |-> NoAction]
      /\ uses' = [t \in Agent |-> Nobody] /\ ledgers' = [run \in Run |-> Nobody]
      /\ knows' = [t \in Agent |-> [run \in Run |-> 0]] /\ objects' = {}
      /\ UNCHANGED <<shared, performed, cuts>>
  BY DEF ControlCrash
<1>2. Owned'
  BY <1>1 DEF Owned
<1>3. Count("act")' = 0 /\ Count("result")' = 0
  <2>1. {t \in Agent : phase'[t] = "act"} = {} /\ {t \in Agent : phase'[t] = "result"} = {}
    BY <1>1
  <2>. QED
    BY <2>1, FS_EmptySet DEF Count
<1>4. N \in Nat /\ crashes \in Nat /\ crashes' \in 0..MaxCrashes
      /\ N * crashes' = N * crashes + N
  <2>1. N \in Nat /\ crashes \in Nat /\ crashes' \in 0..MaxCrashes
    BY CountType, ServerAssumption DEF LedgerTypes
  <2> HIDE DEF N
  <2>2. N * (crashes + 1) = N * crashes + N
    BY <2>1
  <2>. QED
    BY <2>1, <2>2
<1>5. audit' \in AuditType => LedgerTypes'
  <2>1. \A t \in Agent : phase'[t] = "idle" <=> doing'[t] = NoAction
    BY <1>1
  <2>. QED
    BY <1>1, <1>4, <2>1 DEF LedgerTypes
<1>6. N * crashes \in Nat /\ cuts \in Nat
  <2>1. N * crashes \in Nat
    BY <1>4
  <2>. QED
    BY <2>1, ControlAssumption DEF LedgerTypes
<1>7. CASE UNCHANGED audit
  <2>1. LedgerTypes'
    BY <1>5, <1>7 DEF LedgerTypes
  <2>2. Chained'
    BY <1>1, <1>7 DEF Chained, Unspoiled
  <2>3. Counted'
    <3> HIDE DEF N
    <3>1. Count("act") <= N /\ Count("act") \in Nat /\ Count("result") \in Nat
      BY CountType DEF N
    <3>2. /\ performed + Count("act") + One(audit.end = "calls") <= audit.calls + audit.spoiled
          /\ audit.calls <= performed + Count("act") + N * crashes + cuts
          /\ audit.results + Count("result") <= performed
          /\ audit.end = "calls" => audit.calls >= 1
          /\ audit.end = "results" => audit.results >= 1
      BY DEF Counted, N
    <3>3. /\ performed + 0 + One(audit.end = "calls") <= audit.calls + audit.spoiled
          /\ audit.calls <= performed + 0 + N * crashes' + cuts
          /\ audit.results + 0 <= performed
      BY <1>4, <1>6, <3>1, <3>2, LinesType DEF LedgerTypes, One
    <3>. QED
      BY <1>1, <1>3, <1>7, <3>2, <3>3 DEF Counted, N
  <2>. QED
    BY <1>2, <2>1, <2>2, <2>3
<1>8. ASSUME NEW t \in Agent, phase[t] \in {"call", "result"}, audit' \in Remains(t, Field(t))
      PROVE  AuditInv'
  <2>1. Field(t) \in {"calls", "results"} /\ (Field(t) = "calls" <=> phase[t] = "call")
        /\ (Field(t) = "results" <=> phase[t] = "result")
    BY <1>8 DEF Field
  <2>2. /\ audit' \in AuditType
        /\ audit.calls + audit.spoiled - One(audit.end = "calls")
             <= audit'.calls + audit'.spoiled - One(audit'.end = "calls")
        /\ audit'.calls <= audit.calls + One(Field(t) = "calls")
        /\ audit'.results <= audit.results + One(Field(t) = "results")
        /\ audit'.end = "calls" => audit'.calls >= 1
        /\ audit'.end = "results" => audit'.results >= 1
        /\ audit'.end = "no" /\ audit'.spoiled = 0 =>
             /\ audit.end = "no" /\ audit.spoiled = 0
             /\ audit'.replays = (audit.replays /\ knows[uses[t]][RunOf(t)] = Lines)
    BY <1>8, <2>1, RemainsEffect
  <2>3. LedgerTypes'
    BY <1>5, <2>2
  <2>4. Chained'
    <3>1. ASSUME Unspoiled' PROVE audit'.replays
      <4>1. Unspoiled
        BY <1>1, <2>2, <3>1 DEF Unspoiled
      <4>2. <<uses[t], RunOf(t)>> \in objects
        BY <1>8 DEF Owned, Made
      <4>3. audit.replays /\ knows[uses[t]][RunOf(t)] = Lines
        BY <4>1, <4>2 DEF Chained
      <4>4. audit'.replays = (audit.replays /\ knows[uses[t]][RunOf(t)] = Lines)
        BY <2>2, <3>1 DEF Unspoiled
      <4>. QED
        BY <4>3, <4>4, Zenon
    <3>. QED
      BY <1>1, <3>1 DEF Chained
  <2>5. Count("act") + One(Field(t) = "calls") <= N
    <3>1. CASE Field(t) = "calls"
      <4> DEFINE Busied == {u \in Agent : phase[u] = "act"}
      <4>1. IsFiniteSet(Busied) /\ t \notin Busied /\ Busied \cup {t} \subseteq Agent
        <5>1. Busied \subseteq Agent
          OBVIOUS
        <5>. QED
          BY <2>1, <3>1, <5>1, ControlAssumption, FS_Subset
      <4>2. Cardinality(Busied \cup {t}) = Cardinality(Busied) + 1
        BY <4>1, FS_AddElement
      <4>3. Cardinality(Busied \cup {t}) <= N
        BY <4>1, ControlAssumption, FS_Subset
      <4>4. One(Field(t) = "calls") = 1
        BY <3>1 DEF One
      <4>. QED
        BY <4>2, <4>3, <4>4 DEF Count
    <3>2. CASE Field(t) # "calls"
      <4>1. One(Field(t) = "calls") = 0
        BY <3>2 DEF One
      <4>. QED
        BY <4>1, CountType
    <3>. QED
      BY <3>1, <3>2
  <2>6. One(Field(t) = "results") <= Count("result")
    <3>1. CASE Field(t) = "results"
      <4> DEFINE Shown == {u \in Agent : phase[u] = "result"}
      <4>1. IsFiniteSet(Shown \ {t}) /\ t \notin Shown \ {t} /\ Shown = (Shown \ {t}) \cup {t}
        <5>1. Shown \ {t} \subseteq Agent /\ t \in Shown
          BY <2>1, <3>1
        <5>. QED
          BY <5>1, ControlAssumption, FS_Subset
      <4> HIDE DEF Shown
      <4>2. Cardinality(Shown) = Cardinality(Shown \ {t}) + 1 /\ Cardinality(Shown \ {t}) \in Nat
        BY <4>1, FS_AddElement, FS_CardinalityType
      <4>3. Count("result") = Cardinality(Shown)
        BY DEF Count, Shown
      <4>4. One(Field(t) = "results") = 1
        BY <3>1 DEF One
      <4>. QED
        BY <4>2, <4>3, <4>4
    <3>2. CASE Field(t) # "results"
      <4>1. One(Field(t) = "results") = 0
        BY <3>2 DEF One
      <4>. QED
        BY <4>1, CountType
    <3>. QED
      BY <3>1, <3>2
  <2>7. Counted'
    <3> HIDE DEF N
    <3>1. Count("act") \in Nat /\ Count("result") \in Nat
      BY CountType
    <3>2. /\ audit'.calls \in Nat /\ audit'.results \in Nat /\ audit'.spoiled \in Nat
          /\ One(audit.end = "calls") \in {0, 1} /\ One(audit'.end = "calls") \in {0, 1}
          /\ One(Field(t) = "calls") \in {0, 1} /\ One(Field(t) = "results") \in {0, 1}
      BY <2>2 DEF AuditType, One
    <3>3. /\ performed + Count("act") + One(audit.end = "calls") <= audit.calls + audit.spoiled
          /\ audit.calls <= performed + Count("act") + N * crashes + cuts
          /\ audit.results + Count("result") <= performed
      BY DEF Counted, N
    <3>4. /\ performed + 0 + One(audit'.end = "calls") <= audit'.calls + audit'.spoiled
          /\ audit'.calls <= performed + 0 + N * crashes' + cuts
          /\ audit'.results + 0 <= performed
      BY <1>4, <1>6, <2>2, <2>5, <2>6, <3>1, <3>2, <3>3, LinesType DEF LedgerTypes
    <3>. QED
      BY <1>1, <1>3, <2>2, <3>4 DEF Counted, N
  <2>. QED
    BY <1>2, <2>3, <2>4, <2>7
<1>. QED
  BY <1>7, <1>8 DEF ControlCrash

LEMMA AuditKept ==
    ASSUME ControlInv, AuditInv, [Next]_vars
    PROVE  AuditInv'
<1>0. ControlTypes
  BY DEF ControlInv
<1>1. CASE UNCHANGED <<phase, doing, uses, ledgerVars, audit, performed, cuts, crashes>>
  <2>1. LedgerTypes' /\ Owned' /\ Chained'
    BY <1>1, ChainedFrame DEF AuditInv, LedgerTypes, Owned, Made, RunOf, Of, ledgerVars
  <2>2. Counted'
    BY <1>1 DEF AuditInv, Counted, Count, ledgerVars
  <2>. QED
    BY <2>1, <2>2 DEF AuditInv
<1>2. CASE Control /\ UNCHANGED crashes
  BY <1>0, <1>2, BeginStep, QuestionStep, LookupStep, MakeStep, LogCallStep, ActStep,
     LogResultStep, FailsStep DEF Control, ControlStep
<1>3. CASE Crash
  BY <1>0, <1>3, KilledStep DEF Crash
<1>4. CASE UNCHANGED vars
  BY <1>1, <1>4 DEF vars, controlVars
<1>. QED
  BY <1>1, <1>2, <1>3, <1>4 DEF Next

\* ActionsAudited: as many backends are called as the audit file shows, but for the
\* lines that were spoiled and for calls that a kill or a failed write prevented.
THEOREM ActionsAreAudited == Spec => []ActionsAudited
<1>1. AuditInv => ActionsAudited
  <2> SUFFICES ASSUME AuditInv PROVE ActionsAudited
    OBVIOUS
  <2>1. Acting = Count("act") /\ Count("act") \in Nat /\ Count("result") \in Nat
    BY CountType DEF Acting, Count
  <2>. QED
    BY <2>1, LinesType DEF AuditInv, Counted, ActionsAudited, LedgerTypes, One
<1>. QED
  BY <1>1, ControlInitially, ControlKept, AuditInitially, AuditKept, PTL DEF Spec

\* AuditReplays: the file replays until a second ledger object writes it, or a line of
\* it was cut off.
THEOREM AuditAlwaysReplays == Spec => []AuditReplays
<1>1. AuditInv => AuditReplays
  BY DEF AuditInv, LedgerTypes, Chained, Unspoiled, AuditReplays, AuditType
<1>. QED
  BY <1>1, ControlInitially, ControlKept, AuditInitially, AuditKept, PTL DEF Spec

-----------------------------------------------------------------------------

StopsType == [global : BOOLEAN, runs : SUBSET Run, targets : SUBSET Target]

\* The types that no other invariant has needed.
OtherTypes ==
    /\ scope \in Scope /\ apiScope \in Scope
    /\ overlapped \subseteq {"providers", "scope"}
    /\ broken \subseteq Name
    /\ changes \in 0..MaxChanges
    /\ failures \in 0..MaxFailures
    /\ stops \in StopsType
    /\ up \in BOOLEAN

LEMMA OtherInitially == Init => OtherTypes
<1> SUFFICES ASSUME Init PROVE OtherTypes
  OBVIOUS
<1> USE DEF Init, PolicyInit, SettingsInit
<1>1. stops \in StopsType
  BY Zenon DEF NoStops, StopsType
<1>2. changes \in 0..MaxChanges /\ failures \in 0..MaxFailures
  BY SettingsAssumption
<1>3. up \in BOOLEAN
  BY Zenon
<1>. QED
  BY <1>1, <1>2, <1>3, PolicyAssumption DEF OtherTypes

LEMMA NamesTyped ==
    ASSUME SettingsInv, NEW callers
    PROVE  NamesOf(callers) \subseteq Name
  BY DEF SettingsInv, Placed, NamesOf, OnProviders, Busy

LEMMA ScopeFileTyped ==
    ASSUME SettingsInv
    PROVE  scopeFile.holds \in Scope
  BY PolicyAssumption DEF SettingsInv, SettingsTypes, Authorization!FileState,
     Authorization!Blank, Authorization!Whole

LEMMA StopsTyped ==
    ASSUME OtherTypes, ApplyStop
    PROVE  stops' \in StopsType
<1>1. /\ stops.runs \in SUBSET Run /\ stops.targets \in SUBSET Target
      /\ stops.global \in BOOLEAN
      /\ stops = [global |-> stops.global, runs |-> stops.runs, targets |-> stops.targets]
  BY DEF OtherTypes, StopsType
<1>2. \A g \in BOOLEAN, r \in SUBSET Run, h \in SUBSET Target :
          [global |-> g, runs |-> r, targets |-> h] \in StopsType
  BY Zenon DEF StopsType
<1>3. CASE StopGlobal \/ ResumeGlobal
  <2>1. PICK g \in BOOLEAN : stops' = [stops EXCEPT !.global = g]
    BY <1>3, Zenon DEF StopGlobal, ResumeGlobal
  <2>2. stops' = [global |-> g, runs |-> stops.runs, targets |-> stops.targets]
    BY <1>1, <2>1
  <2>3. [global |-> g, runs |-> stops.runs, targets |-> stops.targets] \in StopsType
    BY <1>1, <2>1, <1>2
  <2>. QED
    BY <2>2, <2>3, Zenon
<1>4. ASSUME NEW run \in Run, StopRun(run) \/ ResumeRun(run)
      PROVE  stops' \in StopsType
  <2>1. PICK r \in SUBSET Run : stops' = [stops EXCEPT !.runs = r]
    <3>1. stops.runs \cup {run} \in SUBSET Run /\ stops.runs \ {run} \in SUBSET Run
      BY <1>1
    <3>. QED
      BY <1>4, <3>1 DEF StopRun, ResumeRun
  <2>2. stops' = [global |-> stops.global, runs |-> r, targets |-> stops.targets]
    BY <1>1, <2>1
  <2>3. [global |-> stops.global, runs |-> r, targets |-> stops.targets] \in StopsType
    BY <1>1, <2>1, <1>2
  <2>. QED
    BY <2>2, <2>3, Zenon
<1>5. ASSUME NEW target \in Target, StopTarget(target) \/ ResumeTarget(target)
      PROVE  stops' \in StopsType
  <2>1. PICK h \in SUBSET Target : stops' = [stops EXCEPT !.targets = h]
    <3>1. stops.targets \cup {target} \in SUBSET Target
          /\ stops.targets \ {target} \in SUBSET Target
      BY <1>1
    <3>. QED
      BY <1>5, <3>1 DEF StopTarget, ResumeTarget
  <2>2. stops' = [global |-> stops.global, runs |-> stops.runs, targets |-> h]
    BY <1>1, <2>1
  <2>3. [global |-> stops.global, runs |-> stops.runs, targets |-> h] \in StopsType
    BY <1>1, <2>1, <1>2
  <2>. QED
    BY <2>2, <2>3, Zenon
<1>. QED
  BY <1>3, <1>4, <1>5 DEF ApplyStop

LEMMA OperateTypes ==
    ASSUME OtherTypes, Operate, up' = up
    PROVE  OtherTypes'
<1>1. /\ UNCHANGED <<scope, apiScope, overlapped, broken, failures>>
      /\ changes < MaxChanges /\ changes' = changes + 1
      /\ ApplyStop \/ stops' = stops
  BY DEF Operate, ApplyStop, Decide
<1>2. changes' \in 0..MaxChanges
  BY <1>1, SettingsAssumption DEF OtherTypes
<1>3. stops' \in StopsType
  BY <1>1, StopsTyped, Zenon DEF OtherTypes
<1>. QED
  BY <1>1, <1>2, <1>3 DEF OtherTypes

LEMMA BeginTypes ==
    ASSUME OtherTypes, NEW c, NEW place, NEW what, NEW which \in {"providers", "scope"},
           NEW others, Begin(c, place, what, which, others),
           UNCHANGED <<scope, apiScope, stops, up>>
    PROVE  OtherTypes'
<1>1. changes' \in 0..MaxChanges
  BY SettingsAssumption DEF OtherTypes, Begin
<1>. QED
  BY <1>1 DEF OtherTypes, Begin

LEMMA ConfigureTypes ==
    ASSUME OtherTypes, SettingsInv, Configure, up' = up
    PROVE  OtherTypes'
<1>1. PICK c \in Caller :
        \/ \E n \in Name, e \in Entry, k \in Key \cup {NoKey} : SaveProvider(c, n, e, k)
        \/ \E n \in Name : DeleteProvider(c, n)
        \/ \E s \in Scope : UpdateScope(c, s)
        \/ RequestStep(c)
        \/ RequestFails(c)
  BY DEF Configure, SettingsStep
<1>2. stops' = stops
  BY DEF Configure
<1>3. job[c].scope \in Scope
  BY DEF SettingsInv, SettingsTypes, Job
<1>4. ASSUME NEW n \in Name, NEW e \in Entry, NEW k \in Key \cup {NoKey}, SaveProvider(c, n, e, k)
      PROVE  OtherTypes'
  BY <1>2, <1>4, BeginTypes DEF SaveProvider, scopeVars
<1>5. ASSUME NEW n \in Name, DeleteProvider(c, n) PROVE OtherTypes'
  BY <1>2, <1>5, BeginTypes DEF DeleteProvider, scopeVars
<1>6. ASSUME NEW s \in Scope, UpdateScope(c, s) PROVE OtherTypes'
  BY <1>2, <1>6, BeginTypes DEF UpdateScope, scopeVars
<1>7. CASE RequestStep(c)
  <2>1. /\ UNCHANGED <<overlapped, changes, failures>>
        /\ broken' \subseteq broken
        /\ scope' \in {scope, job[c].scope} /\ apiScope' \in {apiScope, job[c].scope}
    BY <1>7 DEF RequestStep, StoreKey, OpenTemp, FillTemp, ReplaceSettings, ForgetKey,
       ReplaceScope, SetPolicyScope, SetApiScope, scopeVars, historyVars
  <2>. QED
    BY <1>2, <1>3, <2>1 DEF OtherTypes
<1>8. CASE RequestFails(c)
  <2>1. broken' \subseteq Name
    BY <1>8, NamesTyped DEF RequestFails, OtherTypes
  <2>2. failures' \in 0..MaxFailures
    BY <1>8, SettingsAssumption DEF RequestFails, OtherTypes
  <2>. QED
    BY <1>2, <1>8, <2>1, <2>2 DEF RequestFails, OtherTypes
<1>. QED
  BY <1>1, <1>4, <1>5, <1>6, <1>7, <1>8

LEMMA OtherKept ==
    ASSUME OtherTypes, SettingsInv, [Next]_vars
    PROVE  OtherTypes'
<1>1. CASE Operate /\ up' = up
  BY <1>1, OperateTypes
<1>2. CASE Configure /\ up' = up
  BY <1>2, ConfigureTypes
<1>3. CASE Control /\ up' = up
  <2>1. stops' = stops /\ scope' = scope
    BY <1>3 DEF Control, settingsVars, scopeVars, ControlStep, Execute, CheckScope, CheckStops,
       CheckProhibited, CheckApproval, FindLedger, MakeLedger, StoreLedger, TakeLedger, LogCall,
       Act, LogResult, AppendFails, policyVars
  <2>. QED
    BY <1>3, <2>1 DEF Control, settingsVars, scopeVars, historyVars, OtherTypes
<1>4. CASE Crash
  <2>1. /\ broken' \subseteq Name /\ scope' \in Scope /\ apiScope' \in Scope
        /\ UNCHANGED <<overlapped, changes, failures>>
    BY <1>4, NamesTyped, ScopeFileTyped DEF Crash, SettingsCrash, OtherTypes
  <2>2. stops' \in StopsType
    BY <1>4, Zenon DEF Crash, PolicyLost, NoStops, StopsType
  <2>3. up' \in BOOLEAN
    <3>1. up' = Authorization!Readable
      BY <1>4 DEF Crash
    <3>2. Authorization!Readable \in BOOLEAN
      BY DEF Authorization!Readable
    <3>. QED
      BY <3>1, <3>2, Zenon
  <2>. QED
    BY <2>1, <2>2, <2>3 DEF OtherTypes
<1>5. CASE UNCHANGED vars
  BY <1>5 DEF vars, settingsVars, scopeVars, historyVars, policyVars, OtherTypes
<1>. QED
  BY <1>1, <1>2, <1>3, <1>4, <1>5 DEF Next

\* TypeOK: the types of the files, the requests, the calls and the audit file.
THEOREM TypeCorrect == Spec => []TypeOK
<1> DEFINE Everything == ControlInv /\ SettingsInv /\ KeyringType /\ AuditInv /\ OtherTypes
<1>1. Init => Everything
  BY ControlInitially, SettingsInitially, ProvidersInitially, AuditInitially, OtherInitially
<1>2. Everything /\ [Next]_vars => Everything'
  BY ControlKept, SettingsKept, KeyringTyped, AuditKept, OtherKept
<1>3. Everything => TypeOK
  <2> SUFFICES ASSUME Everything PROVE TypeOK
    OBVIOUS
  <2>1. Providers!FileTypeOK /\ Authorization!FileTypeOK /\ at \in [Caller -> Place]
        /\ made \in Entries
    BY DEF SettingsInv, SettingsTypes, Providers!FileTypeOK, Authorization!FileTypeOK,
       Providers!Handle, Authorization!Handle
  <2>2. \A c \in Caller : at[c] \notin {"idle", "policy", "api"} => job[c] # NoJob
    <3>1. NoJob.op = "none"
      BY DEF NoJob
    <3>. QED
      BY <3>1 DEF SettingsInv, Placed, PlaceOf
  <2>3. \A t \in Agent : phase[t] \in {"call", "act", "result"} => uses[t] # Nobody
    BY DEF AuditInv, Owned, Made
  <2>. QED
    BY <2>1, <2>2, <2>3 DEF TypeOK, ControlInv, ControlTypes, Decision, KeyringType, AuditInv,
       LedgerTypes, AuditType, OtherTypes, StopsType
<1>. QED
  BY <1>1, <1>2, <1>3, PTL DEF Spec

=============================================================================
