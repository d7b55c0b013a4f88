--------------------------- MODULE EventLedgerProofs ---------------------------
(***************************************************************************)
(* Proofs about EventLedger, for any objects, threads and payloads and any *)
(* number of events, failures and edits.                                   *)
(***************************************************************************)
EXTENDS EventLedger, SequenceTheorems, FiniteSetTheorems, WellFoundedInduction, TLAPS

EventLine ==
    [kind : {"event"}, payload : Payload, prev : Seq(Payload), hash : Seq(Payload)]

FileLine == EventLine \cup {Torn}

Cache == [seq : 0..MaxSequence, prev : Seq(Payload)]

Job == [stage : {"write", "adopt"}, handle : Handle, line : EventLine]

\* The payloads of a file, in order: what the hash of its last line stands for.
Chain(lines) == [i \in DOMAIN lines |-> lines[i].payload]

Types ==
    /\ file \in Seq(FileLine)
    /\ ended \in BOOLEAN
    /\ open \subseteq Handle
    /\ cache \in [Handle -> Cache]
    /\ lock \in [Handle -> Thread \cup {NoThread}]
    /\ job \in [Thread -> {NoJob} \cup Job]
    /\ shown \in Seq(EventLine)
    /\ acked \subseteq EventLine
    /\ chains \subseteq Seq(Payload)
    /\ forged \subseteq Seq(Payload)
    /\ faults \in 0..MaxFaults
    /\ damage \in 0..MaxDamage

\* One object at a time, and who holds its lock is in its append().
Locks ==
    /\ \A g, h \in open : g = h
    /\ \A t \in Thread : job[t] # NoJob => job[t].handle \in open
    /\ \A h \in Handle, t \in Thread :
           lock[h] = t <=> (job[t] # NoJob /\ job[t].handle = h)

\* Every hash in the file is that of a chain that was written or forged, whatever became
\* of the line it is in; what the stream has shown replays.
Written ==
    /\ \A i \in 1..Len(file) : file[i].kind = "event" => file[i].hash \in chains \cup forged
    /\ shown # <<>> =>
           /\ shown[Len(shown)].hash \in chains \cup forged
           /\ shown[Len(shown)].hash = Chain(shown)

\* Before anything goes wrong: the file replays, an object that nobody appends with has
\* cached its end, and one that is appended with is about to write the next line or has
\* written the last.
Untouched ==
    faults = 0 /\ damage = 0 =>
        /\ ended
        /\ \A i \in 1..Len(file) : ValidAt(file, i)
        /\ \A h \in open : lock[h] = NoThread =>
               cache[h] = [seq |-> Len(file), prev |-> LastHash(file)]
        /\ \A t \in Thread :
               /\ job[t].stage = "write" =>
                      Valid(job[t].line, Len(file) + 1, LastHash(file))
               /\ job[t].stage = "adopt" =>
                      file # <<>> /\ job[t].line = file[Len(file)]

\* An acknowledged line and all before it are valid, and the line that an unended write
\* would spoil is behind it.
Kept ==
    damage = 0 => \A line \in acked :
        /\ line.payload.seq \in 1..Len(file)
        /\ ~ended => line.payload.seq < Len(file)
        /\ file[line.payload.seq] = line
        /\ \A i \in 1..line.payload.seq : ValidAt(file, i)

USE LedgerAssumption

-----------------------------------------------------------------------------

\* A set of naturals has a smallest element.
LEMMA SmallestElement ==
    ASSUME NEW S \in SUBSET Nat, S # {}
    PROVE  \E i \in S : \A j \in S : i <= j
<1> DEFINE T == {1..n : n \in S}
<1>1. T \subseteq FiniteSubsetsOf(Nat) /\ T # {}
  <2>1. \A n \in Nat : IsFiniteSet(1..n)
    BY FS_Interval
  <2>2. \A n \in S : 1..n \in SUBSET Nat /\ IsFiniteSet(1..n)
    BY <2>1
  <2>. QED
    BY <2>2 DEF FiniteSubsetsOf
<1>2. IsWellFoundedOn(StrictSubsetOrdering(Nat), FiniteSubsetsOf(Nat))
  BY FS_StrictSubsetOrderingWellFounded
<1>3. PICK X \in T : \A Y \in T : ~ (<<Y, X>> \in StrictSubsetOrdering(Nat))
  BY <1>1, <1>2, WFMin
<1>4. PICK i \in S : X = 1..i
  BY <1>3
<1>5. ASSUME NEW j \in S, j < i
      PROVE  FALSE
  <2>1. 1..j \in T /\ 1..j \subseteq Nat /\ 1..i \subseteq Nat
    OBVIOUS
  <2>2. 1..j \subseteq 1..i /\ 1..j # 1..i
    <3>1. i \in 1..i /\ i \notin 1..j
      BY <1>5
    <3>. QED
      BY <1>5, <3>1
  <2>. QED
    BY <1>3, <1>4, <2>1, <2>2 DEF StrictSubsetOrdering
<1>. QED
  BY <1>5

LEMMA LineFields ==
    ASSUME NEW line \in FileLine
    PROVE  /\ line.hash \in Seq(Payload)
           /\ line.kind = "event" <=> line \in EventLine
           /\ line.kind = "event" => line.payload \in Payload /\ line.payload.seq \in 1..MaxSequence
<1>1. CASE line \in EventLine
  BY <1>1 DEF EventLine, Payload
<1>2. CASE line = Torn
  <2>1. Torn.kind = "torn" /\ Torn.hash = <<>>
    BY DEF Torn, Genesis
  <2>2. \A x \in EventLine : x.kind = "event"
    BY DEF EventLine
  <2>. QED
    BY <1>2, <2>1, <2>2, EmptySeq
<1>. QED
  BY <1>1, <1>2 DEF FileLine

LEMMA LastHashIs ==
    ASSUME NEW lines \in Seq(FileLine)
    PROVE  /\ LastHash(lines) = IF lines = <<>> THEN Genesis ELSE lines[Len(lines)].hash
           /\ LastHash(lines) \in Seq(Payload)
<1>1. LastHash(lines) = IF lines = <<>> THEN Genesis ELSE lines[Len(lines)].hash
  BY DEF LastHash, Last
<1>2. Genesis \in Seq(Payload)
  BY DEF Genesis
<1>3. lines # <<>> => lines[Len(lines)] \in FileLine
  BY ElementOfSeq
<1>. QED
  BY <1>1, <1>2, <1>3, LineFields

\* The hash that a line of this number must link to.
Link(lines, i) == IF i = 1 THEN Genesis ELSE lines[i - 1].hash

LEMMA ValidAtIs ==
    ASSUME NEW lines \in Seq(FileLine), NEW i \in 1..Len(lines)
    PROVE  ValidAt(lines, i) <=> Valid(lines[i], i, Link(lines, i))
<1> DEFINE before == SubSeq(lines, 1, i - 1)
<1>1. CASE i = 1
  <2>1. before = <<>>
    BY <1>1, SubSeqEmpty
  <2>. QED
    BY <1>1, <2>1 DEF ValidAt, LastHash, Link
<1>2. CASE i # 1
  <2>1. i - 1 \in 1..Len(lines) /\ \A k \in 1..(i - 1) : lines[k] \in FileLine
    BY <1>2, ElementOfSeq
  <2>2. before \in Seq(FileLine) /\ Len(before) = i - 1 /\ before[i - 1] = lines[i - 1]
    BY <2>1, SubSeqProperties
  <2>3. before # <<>>
    BY <2>1, <2>2
  <2>4. LastHash(before) = lines[i - 1].hash
    BY <2>2, <2>3 DEF LastHash, Last
  <2>. QED
    BY <1>2, <2>4 DEF ValidAt, Link
<1>. QED
  BY <1>1, <1>2

\* Whether a line is valid depends on the lines up to it.
LEMMA ValidStays ==
    ASSUME NEW lines \in Seq(FileLine), NEW more \in Seq(FileLine), NEW n \in Nat,
           n <= Len(lines), n <= Len(more), \A k \in 1..n : more[k] = lines[k],
           NEW i \in 1..n, ValidAt(lines, i)
    PROVE  ValidAt(more, i)
<1>1. i \in 1..Len(lines) /\ i \in 1..Len(more) /\ (i # 1 => i - 1 \in 1..n)
  OBVIOUS
<1>2. Link(more, i) = Link(lines, i)
  BY <1>1 DEF Link
<1>. QED
  BY <1>1, <1>2, ValidAtIs

\* The payloads of the first lines.
Prefix(lines, n) == [k \in 1..n |-> lines[k].payload]

LEMMA PrefixGrows ==
    ASSUME NEW lines, NEW i \in Nat \ {0}, \A k \in 1..i : lines[k].payload \in Payload
    PROVE  Append(Prefix(lines, i - 1), lines[i].payload) = Prefix(lines, i)
<1>1. i - 1 \in Nat /\ \A k \in 1..(i - 1) : lines[k].payload \in Payload
  OBVIOUS
<1>2. Prefix(lines, i - 1) \in Seq(Payload) /\ Len(Prefix(lines, i - 1)) = i - 1
  BY <1>1 DEF Prefix
<1>3. Prefix(lines, i) \in Seq(Payload) /\ Len(Prefix(lines, i)) = i
  BY DEF Prefix
<1>4. \A k \in 1..i : Append(Prefix(lines, i - 1), lines[i].payload)[k] = Prefix(lines, i)[k]
  <2>1. /\ \A k \in 1..(i - 1) : Append(Prefix(lines, i - 1), lines[i].payload)[k]
                                     = Prefix(lines, i - 1)[k]
        /\ Append(Prefix(lines, i - 1), lines[i].payload)[i] = lines[i].payload
    <3> DEFINE s == Prefix(lines, i - 1)
               p == lines[i].payload
    <3>1. s \in Seq(Payload) /\ Len(s) = i - 1 /\ p \in Payload /\ Len(s) + 1 = i
      BY <1>2
    <3> HIDE DEF s, p
    <3>2. /\ \A k \in 1..Len(s) : Append(s, p)[k] = s[k]
          /\ Append(s, p)[Len(s) + 1] = p
      BY <3>1, AppendProperties
    <3>3. (\A k \in 1..(i - 1) : Append(s, p)[k] = s[k]) /\ Append(s, p)[i] = p
      BY <3>1, <3>2
    <3>. QED
      BY <3>3 DEF s, p
  <2>2. \A k \in 1..(i - 1) : Prefix(lines, i - 1)[k] = lines[k].payload
    BY DEF Prefix
  <2>3. \A k \in 1..i : Prefix(lines, i)[k] = lines[k].payload
    BY DEF Prefix
  <2>4. \A k \in 1..i : k = i \/ k \in 1..(i - 1)
    OBVIOUS
  <2>. QED
    BY <2>1, <2>2, <2>3, <2>4, Zenon
<1>5. Append(Prefix(lines, i - 1), lines[i].payload) \in Seq(Payload)
      /\ Len(Append(Prefix(lines, i - 1), lines[i].payload)) = i
  BY <1>2, AppendProperties
<1>. QED
  BY <1>3, <1>4, <1>5, SeqEqual

LEMMA ValidType ==
    ASSUME NEW lines \in Seq(FileLine), NEW i \in 1..Len(lines), ValidAt(lines, i)
    PROVE  lines[i] \in EventLine /\ lines[i].payload \in Payload /\ lines[i].payload.seq = i
<1>1. lines[i] \in FileLine
  BY ElementOfSeq
<1>2. lines[i].kind = "event" /\ lines[i].payload.seq = i
  BY ValidAtIs DEF Valid
<1>. QED
  BY <1>1, <1>2, LineFields

\* In a file that replays, the hash of a line is the chain up to it.
LEMMA HashIsPrefix ==
    ASSUME NEW lines \in Seq(FileLine), \A i \in 1..Len(lines) : ValidAt(lines, i)
    PROVE  \A i \in 1..Len(lines) : lines[i].hash = Prefix(lines, i)
<1> DEFINE wrong == {i \in 1..Len(lines) : lines[i].hash # Prefix(lines, i)}
<1> SUFFICES ASSUME wrong # {} PROVE FALSE
  OBVIOUS
<1>1. PICK i \in wrong : \A j \in wrong : i <= j
  <2>1. wrong \in SUBSET Nat
    OBVIOUS
  <2>. QED
    BY <2>1, SmallestElement
<1>2. /\ i \in 1..Len(lines) /\ lines[i].hash # Prefix(lines, i)
      /\ \A k \in 1..Len(lines) : lines[k].payload \in Payload
  BY <1>1, ValidType
<1>3. lines[i].hash = Append(Link(lines, i), lines[i].payload)
  BY <1>2, ValidAtIs DEF Valid, Hash
<1>4. Link(lines, i) = Prefix(lines, i - 1)
  <2>1. CASE i = 1
    BY <2>1 DEF Link, Genesis, Prefix
  <2>2. CASE i # 1
    <3>1. i - 1 \in 1..Len(lines) /\ ~ (i <= i - 1)
      BY <1>2, <2>2
    <3>2. i - 1 \notin wrong
      BY <1>1, <3>1
    <3>. QED
      BY <2>2, <3>1, <3>2 DEF Link
  <2>. QED
    BY <2>1, <2>2
<1>5. Append(Prefix(lines, i - 1), lines[i].payload) = Prefix(lines, i)
  BY <1>2, PrefixGrows
<1>. QED
  BY <1>2, <1>3, <1>4, <1>5

\* What replay yields is at least any valid beginning of the file.
LEMMA AcceptedCovers ==
    ASSUME NEW lines \in Seq(FileLine), NEW n \in 0..Len(lines),
           \A i \in 1..n : ValidAt(lines, i)
    PROVE  n <= Len(Accepted(lines))
<1> DEFINE fits(m) == /\ \A i \in 1..m : ValidAt(lines, i)
                      /\ m < Len(lines) => ~ValidAt(lines, m + 1)
           bad == {i \in 1..Len(lines) : ~ValidAt(lines, i)}
<1>1. \E m \in 0..Len(lines) : fits(m)
  <2>1. CASE bad = {}
    BY <2>1
  <2>2. CASE bad # {}
    <3>1. PICK i \in bad : \A j \in bad : i <= j
      <4>1. bad \in SUBSET Nat
        OBVIOUS
      <4>. QED
        BY <2>2, <4>1, SmallestElement
    <3>2. i - 1 \in 0..Len(lines) /\ (i - 1) + 1 = i
      BY <3>1
    <3>3. \A k \in 1..(i - 1) : ValidAt(lines, k)
      BY <3>1
    <3>. QED
      BY <3>1, <3>2, <3>3
  <2>. QED
    BY <2>1, <2>2
<1> DEFINE m == CHOOSE k \in 0..Len(lines) : fits(k)
<1>2. m \in 0..Len(lines) /\ fits(m)
  BY <1>1
<1>3. Len(Accepted(lines)) = m
  <2>1. Accepted(lines) = SubSeq(lines, 1, m)
    BY DEF Accepted
  <2> HIDE DEF m
  <2>2. m \in Int /\ \A k \in 1..m : lines[k] \in FileLine
    BY <1>2, ElementOfSeq
  <2>3. Len(SubSeq(lines, 1, m)) = IF 1 <= m THEN m - 1 + 1 ELSE 0
    BY <2>2, SubSeqProperties
  <2>. QED
    BY <1>2, <2>1, <2>3
<1> HIDE DEF m
<1>4. ~ (m < n)
  BY <1>2
<1>. QED
  BY <1>2, <1>3, <1>4

-----------------------------------------------------------------------------

Inv == Types /\ Locks /\ Written /\ Untouched /\ Kept

LEMMA InvInit == Init => Inv
<1> SUFFICES ASSUME Init PROVE Inv
  OBVIOUS
<1> USE DEF Init
<1>1. Types
  BY DEF Types, Cache, NoCache, Genesis
<1>2. Locks
  BY DEF Locks
<1>3. Written /\ Kept /\ Untouched
  <2>1. \A t \in Thread : job[t].stage = "none"
    BY DEF NoJob
  <2>. QED
    BY <2>1 DEF Written, Kept, Untouched
<1>. QED
  BY <1>1, <1>2, <1>3 DEF Inv

\* Writing a line leaves all lines before an unended one, and what is new is the line
\* itself or, on an unended line, spoilt.
LEMMA PutLine ==
    ASSUME Types, NEW line \in FileLine, Put(line)
    PROVE  /\ file' \in Seq(FileLine)
           /\ Len(file) <= Len(file')
           /\ \A i \in 1..Len(file) : (ended \/ i < Len(file)) => file'[i] = file[i]
           /\ \A i \in 1..Len(file') :
                  \/ i \in 1..Len(file) /\ file'[i] = file[i]
                  \/ file'[i] \in {line, Torn}
           /\ ended => Len(file') = Len(file) + 1 /\ file'[Len(file) + 1] = line
<1>1. file \in Seq(FileLine) /\ Len(file) \in Nat /\ Torn \in FileLine
  BY DEF Types, FileLine
<1>2. CASE ended
  <2>1. file' = Append(file, line)
    BY <1>2 DEF Put
  <2>2. /\ file' \in Seq(FileLine) /\ Len(file') = Len(file) + 1
        /\ \A i \in 1..Len(file) : file'[i] = file[i]
        /\ file'[Len(file) + 1] = line
    BY <1>1, <2>1, AppendProperties
  <2>3. \A i \in 1..Len(file') : i \in 1..Len(file) \/ i = Len(file) + 1
    BY <1>1, <2>2
  <2>. QED
    BY <1>1, <1>2, <2>2, <2>3
<1>3. CASE ~ended
  <2> DEFINE front == SubSeq(file, 1, Len(file) - 1)
  <2>1. file' = front \o <<Torn>>
    BY <1>3 DEF Put, Front
  <2>2. \A i \in 1..(Len(file) - 1) : file[i] \in FileLine
    BY <1>1, ElementOfSeq
  <2>3. /\ front \in Seq(FileLine)
        /\ Len(front) = IF 1 <= Len(file) - 1 THEN Len(file) - 1 - 1 + 1 ELSE 0
        /\ \A i \in 1..(Len(file) - 1 - 1 + 1) : front[i] = file[1 + i - 1]
    BY <1>1, <2>2, SubSeqProperties
  <2>4. /\ front \in Seq(FileLine)
        /\ Len(front) = IF Len(file) = 0 THEN 0 ELSE Len(file) - 1
        /\ \A i \in 1..(Len(file) - 1) : front[i] = file[i]
    BY <1>1, <2>3
  <2> HIDE DEF front
  <2>5. file' = Append(front, Torn)
    BY <1>1, <2>1, <2>4, AppendIsConcat
  <2>6. /\ file' \in Seq(FileLine) /\ Len(file') = Len(front) + 1
        /\ \A i \in 1..Len(front) : file'[i] = front[i]
        /\ file'[Len(front) + 1] = Torn
    BY <1>1, <2>4, <2>5, AppendProperties
  <2>7. \A i \in 1..Len(file) : i < Len(file) => i \in 1..Len(front) /\ i \in 1..(Len(file) - 1)
    BY <1>1, <2>4
  <2>8. \A i \in 1..Len(file) : i < Len(file) => file'[i] = file[i]
    BY <2>4, <2>6, <2>7
  <2>9. \A i \in 1..Len(file') :
            (i \in 1..Len(front) /\ i \in 1..Len(file) /\ i < Len(file)) \/ i = Len(front) + 1
    BY <1>1, <2>4, <2>6
  <2>10. Len(file) <= Len(file')
    BY <1>1, <2>4, <2>6
  <2>. QED
    BY <1>3, <2>6, <2>8, <2>9, <2>10
<1>. QED
  BY <1>2, <1>3

LEMMA WrittenAfterPut ==
    ASSUME Types, Written, NEW line \in EventLine \cup {Torn}, Put(line), shown' = shown,
           line # Torn => line.hash \in chains' \cup forged',
           chains \subseteq chains', forged \subseteq forged'
    PROVE  Written'
<1>1. \A i \in 1..Len(file') :
          \/ i \in 1..Len(file) /\ file'[i] = file[i]
          \/ file'[i] \in {line, Torn}
  BY PutLine DEF FileLine
<1>2. Torn.kind # "event"
  BY DEF Torn
<1>3. \A i \in 1..Len(file') : file'[i].kind = "event" => file'[i].hash \in chains' \cup forged'
  BY <1>1, <1>2 DEF Written
<1>. QED
  BY <1>3 DEF Written

\* A line on its way to the file is remembered as written or as built on a forged one.
LEMMA Recorded ==
    ASSUME Types, NEW line \in EventLine, Record(line)
    PROVE  /\ chains \subseteq chains' /\ forged \subseteq forged'
           /\ chains' \subseteq Seq(Payload) /\ forged' \subseteq Seq(Payload)
           /\ line.hash \in chains' \cup forged'
<1>1. line.hash \in Seq(Payload)
  BY DEF EventLine
<1>. QED
  BY <1>1 DEF Record, Types

LEMMA KeptAfterPut ==
    ASSUME Types, Kept, NEW line \in FileLine, Put(line), UNCHANGED <<acked, damage>>
    PROVE  Kept'
<1> SUFFICES ASSUME damage = 0, NEW x \in acked
             PROVE  /\ x.payload.seq \in 1..Len(file')
                    /\ ~ended' => x.payload.seq < Len(file')
                    /\ file'[x.payload.seq] = x
                    /\ \A i \in 1..x.payload.seq : ValidAt(file', i)
  BY DEF Kept
<1> DEFINE n == x.payload.seq
<1>1. /\ n \in 1..Len(file) /\ (~ended => n < Len(file)) /\ file[n] = x
      /\ \A i \in 1..n : ValidAt(file, i)
  BY DEF Kept
<1>2. /\ file' \in Seq(FileLine) /\ Len(file) <= Len(file')
      /\ \A i \in 1..Len(file) : (ended \/ i < Len(file)) => file'[i] = file[i]
      /\ ended => Len(file') = Len(file) + 1
  BY PutLine
<1> HIDE DEF n
<1>3. /\ file \in Seq(FileLine) /\ Len(file) \in Nat /\ Len(file') \in Nat
      /\ n \in Nat /\ n <= Len(file) /\ n <= Len(file')
  BY <1>1, <1>2, LenProperties DEF Types
<1>4. \A i \in 1..n : file'[i] = file[i]
  BY <1>1, <1>2, <1>3
<1>5. \A i \in 1..n : ValidAt(file', i)
  BY <1>1, <1>2, <1>3, <1>4, ValidStays
<1>6. n \in 1..Len(file') /\ n < Len(file') /\ file'[n] = x
  BY <1>1, <1>2, <1>3, <1>4
<1>. QED
  BY <1>5, <1>6 DEF n

\* A write that is cut off.
LEMMA AfterCut ==
    ASSUME Types, Written, Kept, NEW line \in EventLine, Cut(line),
           UNCHANGED <<acked, damage, shown>>
    PROVE  /\ file' \in Seq(FileLine) /\ ended' \in BOOLEAN
           /\ chains' \subseteq Seq(Payload) /\ forged' \subseteq Seq(Payload)
           /\ Written' /\ Kept'
<1>1. line \in FileLine /\ Torn \in FileLine /\ line.hash \in Seq(Payload)
  BY DEF FileLine, EventLine
<1>2. CASE UNCHANGED <<file, ended, chains, forged>>
  BY <1>2 DEF Types, Written, Kept, ValidAt, Chain
<1>3. CASE Put(Torn) /\ ended' = FALSE /\ UNCHANGED <<chains, forged>>
  BY <1>1, <1>3, PutLine, WrittenAfterPut, KeptAfterPut DEF Types
<1>4. CASE Put(line) /\ ended' \in BOOLEAN /\ Record(line)
  BY <1>1, <1>4, PutLine, WrittenAfterPut, KeptAfterPut, Recorded
<1>. QED
  BY <1>2, <1>3, <1>4 DEF Cut

\* After a failure or an edit nothing is claimed of a file that is untouched.
LEMMA TouchedNow ==
    ASSUME faults' # 0 \/ damage' # 0
    PROVE  Untouched'
BY DEF Untouched

LEMMA JobFields ==
    ASSUME Types, NEW t \in Thread, job[t].stage \in {"write", "adopt"}
    PROVE  /\ job[t] \in Job /\ job[t] # NoJob /\ job[t].handle \in Handle
           /\ job[t].line \in EventLine
<1>1. job[t] # NoJob
  BY DEF NoJob
<1>. QED
  BY <1>1 DEF Types, Job

\* With one object in use, only one thread is in an append().
LEMMA OneJob ==
    ASSUME Types, Locks, NEW t \in Thread, job[t] # NoJob, NEW u \in Thread, job[u] # NoJob
    PROVE  u = t
<1>1. job[t].handle \in open /\ job[u].handle \in open
  BY DEF Locks
<1>2. job[t].handle = job[u].handle /\ job[t].handle \in Handle
  BY <1>1 DEF Locks, Types
<1>3. lock[job[t].handle] = t /\ lock[job[t].handle] = u
  BY <1>2 DEF Locks
<1>. QED
  BY <1>3

LEMMA OpenStep ==
    ASSUME Inv, NEW h \in Handle, open = {}, Open(h)
    PROVE  Inv'
<1> USE DEF Open, Read
<1>1. /\ \A i \in 1..Len(file) : ValidAt(file, i)
      /\ file \in Seq(FileLine) /\ Len(file) \in Nat
      /\ cache' = [cache EXCEPT ![h] = [seq |-> Len(file), prev |-> LastHash(file)]]
  BY DEF Replays, Inv, Types
<1>2. [seq |-> Len(file), prev |-> LastHash(file)] \in Cache
  <2>1. Len(file) \in 0..MaxSequence
    <3>1. CASE Len(file) = 0
      BY <3>1
    <3>2. CASE Len(file) # 0
      <4>1. Len(file) \in 1..Len(file)
        BY <1>1, <3>2
      <4>2. /\ file[Len(file)].payload.seq = Len(file)
            /\ file[Len(file)] \in EventLine
        BY <1>1, <4>1, ValidType
      <4>. QED
        BY <1>1, <4>2 DEF EventLine, Payload
    <3>. QED
      BY <3>1, <3>2
  <2>. QED
    BY <1>1, <2>1, LastHashIs DEF Cache
<1>3. Types'
  BY <1>1, <1>2 DEF Inv, Types
<1>4. \A t \in Thread : job[t] = NoJob
  BY DEF Inv, Locks
<1>5. Locks'
  BY <1>4 DEF Inv, Locks
<1>6. Written' /\ Kept'
  BY DEF Inv, Written, Kept, ValidAt, Chain
<1>7. Untouched'
  <2>1. \A t \in Thread : job'[t].stage = "none"
    BY <1>4 DEF NoJob
  <2>2. cache'[h] = [seq |-> Len(file), prev |-> LastHash(file)] /\ open' = {h}
    BY <1>1 DEF Inv, Types
  <2>. QED
    BY <1>1, <2>1, <2>2 DEF Inv, Untouched, ValidAt, LastHash
<1>. QED
  BY <1>3, <1>5, <1>6, <1>7 DEF Inv

LEMMA DropStep ==
    ASSUME Inv, NEW h \in Handle, Drop(h)
    PROVE  Inv'
<1> USE DEF Drop
<1>1. NoCache \in Cache
  BY DEF NoCache, Cache, Genesis
<1>2. Types'
  BY <1>1 DEF Inv, Types
<1>3. Locks'
  <2>1. \A t \in Thread : job[t] # NoJob => job[t].handle # h
    BY DEF Inv, Locks
  <2>. QED
    BY <2>1 DEF Inv, Locks
<1>4. Written' /\ Kept'
  BY DEF Inv, Written, Kept, ValidAt, Chain
<1>5. Untouched'
  <2>1. open' = {}
    BY DEF Inv, Locks
  <2>. QED
    BY <2>1 DEF Inv, Untouched, ValidAt, LastHash
<1>. QED
  BY <1>2, <1>3, <1>4, <1>5 DEF Inv

LEMMA BeginStep ==
    ASSUME Inv, NEW t \in Thread, NEW h \in Handle, NEW d \in Data, Begin(t, h, d)
    PROVE  Inv'
<1> USE DEF Begin
<1> DEFINE payload == [seq |-> cache[h].seq + 1, data |-> d]
           line == Line(payload, cache[h].prev)
           begun == [stage |-> "write", handle |-> h, line |-> line]
<1>1. cache[h] \in Cache /\ cache[h].seq \in 0..MaxSequence /\ cache[h].prev \in Seq(Payload)
  BY DEF Inv, Types, Cache
<1>2. payload \in Payload
  <2>1. cache[h].seq + 1 \in 1..MaxSequence
    BY <1>1
  <2>. QED
    BY <2>1 DEF Payload
<1>3. line \in EventLine
  <2>1. Hash(cache[h].prev, payload) \in Seq(Payload)
    BY <1>1, <1>2, AppendProperties DEF Hash
  <2> HIDE DEF payload
  <2>. QED
    BY <1>1, <1>2, <2>1 DEF Line, EventLine
<1>4. /\ line.kind = "event" /\ line.payload = payload /\ line.prev = cache[h].prev
      /\ line.hash = Hash(cache[h].prev, payload)
  BY DEF Line
<1> HIDE DEF line
<1>5. /\ begun \in Job /\ begun # NoJob /\ begun.stage = "write" /\ begun.handle = h
      /\ begun.line = line
  <2>1. begun.stage # NoJob.stage
    BY DEF NoJob
  <2>. QED
    BY <1>3, <2>1 DEF Job
<1> HIDE DEF begun
<1>6. /\ job' = [job EXCEPT ![t] = begun] /\ lock' = [lock EXCEPT ![h] = t]
  BY DEF begun, line
<1>7. /\ job'[t] = begun /\ \A u \in Thread \ {t} : job'[u] = job[u]
      /\ lock'[h] = t /\ \A g \in Handle \ {h} : lock'[g] = lock[g]
  BY <1>6 DEF Inv, Types
<1>8. Types'
  BY <1>5, <1>6 DEF Inv, Types
<1>9. \A u \in Thread : job[u] = NoJob
  <2> SUFFICES ASSUME NEW u \in Thread, job[u] # NoJob PROVE FALSE
    OBVIOUS
  <2>1. job[u].handle = h
    BY DEF Inv, Locks
  <2>. QED
    BY <2>1 DEF Inv, Locks
<1>10. Locks'
  BY <1>5, <1>7, <1>9 DEF Inv, Locks
<1>11. Written' /\ Kept'
  BY DEF Inv, Written, Kept, ValidAt, Chain
<1>12. Untouched'
  <2> SUFFICES ASSUME faults = 0, damage = 0 PROVE Untouched'
    BY DEF Untouched
  <2>1. cache[h] = [seq |-> Len(file), prev |-> LastHash(file)]
    BY DEF Inv, Untouched
  <2>2. Valid(line, Len(file) + 1, LastHash(file))
    <3>1. payload.seq = Len(file) + 1 /\ cache[h].prev = LastHash(file)
      BY <2>1
    <3> HIDE DEF payload
    <3>. QED
      BY <1>4, <3>1 DEF Valid
  <2>3. \A g \in open : lock'[g] # NoThread
    BY <1>7 DEF Inv, Locks
  <2>4. \A u \in Thread \ {t} : job'[u].stage = "none"
    BY <1>7, <1>9 DEF NoJob
  <2>5. \A u \in Thread :
            /\ job'[u].stage = "write" => Valid(job'[u].line, Len(file) + 1, LastHash(file))
            /\ job'[u].stage # "adopt"
    BY <1>5, <1>7, <2>2, <2>4
  <2>. QED
    BY <2>3, <2>5 DEF Inv, Untouched, ValidAt, LastHash
<1>. QED
  BY <1>8, <1>10, <1>11, <1>12 DEF Inv

LEMMA WriteStep ==
    ASSUME Inv, NEW t \in Thread, Write(t)
    PROVE  Inv'
<1> DEFINE line == job[t].line
           n == Len(file)
<1>1. /\ job[t].stage = "write" /\ Put(line) /\ ended' = TRUE
      /\ Record(line) /\ job' = [job EXCEPT ![t].stage = "adopt"]
      /\ UNCHANGED <<open, cache, lock, shown, acked, faults, damage>>
  BY DEF Write
<1>2. job[t] \in Job /\ job[t] # NoJob /\ line \in EventLine /\ line \in FileLine
  BY <1>1, JobFields DEF Inv, FileLine
<1>3. /\ job'[t] = [job[t] EXCEPT !.stage = "adopt"]
      /\ \A u \in Thread \ {t} : job'[u] = job[u]
  BY <1>1 DEF Inv, Types
<1>4. /\ job'[t] \in Job /\ job'[t].stage = "adopt" /\ job'[t].handle = job[t].handle
      /\ job'[t].line = line /\ job'[t] # NoJob
  BY <1>2, <1>3 DEF Job, NoJob
<1>5. job' \in [Thread -> {NoJob} \cup Job]
  BY <1>1, <1>3, <1>4 DEF Inv, Types
<1> HIDE DEF line
<1>6. /\ chains \subseteq chains' /\ forged \subseteq forged'
      /\ chains' \subseteq Seq(Payload) /\ forged' \subseteq Seq(Payload)
      /\ line.hash \in chains' \cup forged'
  BY <1>1, <1>2, Recorded DEF Inv
<1>7. Types'
  BY <1>1, <1>2, <1>5, <1>6, PutLine DEF Inv, Types
<1>8. Locks'
  <2>1. \A u \in Thread : (job'[u] # NoJob <=> job[u] # NoJob)
                          /\ (job[u] # NoJob => job'[u].handle = job[u].handle)
    BY <1>2, <1>3, <1>4
  <2>. QED
    BY <1>1, <2>1 DEF Inv, Locks
<1>9. Written' /\ Kept'
  BY <1>1, <1>2, <1>6, WrittenAfterPut, KeptAfterPut DEF Inv
<1>10. Untouched'
  <2> SUFFICES ASSUME faults = 0, damage = 0 PROVE Untouched'
    BY <1>1 DEF Untouched
  <2>1. /\ ended /\ \A i \in 1..n : ValidAt(file, i)
        /\ Valid(line, n + 1, LastHash(file))
    BY <1>1 DEF Inv, Untouched, line
  <2>2. /\ file' \in Seq(FileLine) /\ Len(file') = n + 1 /\ file'[n + 1] = line
        /\ \A i \in 1..n : file'[i] = file[i]
    BY <1>1, <1>2, <2>1, PutLine DEF Inv
  <2>3. file \in Seq(FileLine) /\ n \in Nat
    BY DEF Inv, Types
  <2> HIDE DEF n
  <2>4. \A i \in 1..n : ValidAt(file', i)
    BY <2>1, <2>2, <2>3, ValidStays DEF n
  <2>5. Link(file', n + 1) = LastHash(file)
    <3>1. LastHash(file) = IF file = <<>> THEN Genesis ELSE file[n].hash
      BY <2>3, LastHashIs DEF n
    <3>2. file = <<>> <=> n = 0
      BY <2>3, EmptySeq DEF n
    <3>3. n # 0 => n \in 1..n /\ n + 1 # 1 /\ n + 1 - 1 = n
      BY <2>3
    <3>4. n = 0 => Link(file', n + 1) = Genesis
      BY DEF Link
    <3>5. n # 0 => Link(file', n + 1) = file'[n].hash
      BY <3>3 DEF Link
    <3>. QED
      BY <2>2, <3>1, <3>2, <3>3, <3>4, <3>5
  <2>6. ValidAt(file', n + 1)
    <3>1. n + 1 \in 1..Len(file')
      BY <2>2, <2>3
    <3>. QED
      BY <2>1, <2>2, <2>5, <3>1, ValidAtIs
  <2>7. \A i \in 1..Len(file') : ValidAt(file', i)
    <3>1. \A i \in 1..Len(file') : i \in 1..n \/ i = n + 1
      BY <2>2, <2>3
    <3>. QED
      BY <2>4, <2>6, <3>1
  <2>8. \A u \in Thread : u # t => job'[u].stage = "none"
    <3>1. \A u \in Thread : u # t => job[u] = NoJob
      BY <1>2, OneJob DEF Inv
    <3>. QED
      BY <1>3, <3>1 DEF NoJob
  <2>9. \A u \in Thread : /\ job'[u].stage # "write"
                          /\ job'[u].stage = "adopt" => u = t
    BY <1>4, <2>8
  <2>10. file' # <<>> /\ job'[t].line = file'[Len(file')]
    BY <1>4, <2>2, <2>3, EmptySeq
  <2>11. \A h \in open : lock[h] # NoThread
    <3>1. job[t].handle \in open /\ lock[job[t].handle] = t
      BY <1>2 DEF Inv, Types, Locks
    <3>. QED
      BY <3>1 DEF Inv, Locks
  <2>12. open' = open /\ lock' = lock /\ ended' = TRUE
    BY <1>1
  <2>. QED
    BY <2>7, <2>9, <2>10, <2>11, <2>12 DEF Untouched
<1>. QED
  BY <1>7, <1>8, <1>9, <1>10 DEF Inv

LEMMA WriteFailsStep ==
    ASSUME Inv, NEW t \in Thread, WriteFails(t)
    PROVE  Inv'
<1>1. /\ job[t].stage = "write" /\ faults < MaxFaults /\ faults' = faults + 1
      /\ Cut(job[t].line) /\ lock' = [lock EXCEPT ![job[t].handle] = NoThread]
      /\ job' = [job EXCEPT ![t] = NoJob]
      /\ UNCHANGED <<open, cache, shown, acked, damage>>
  BY DEF WriteFails
<1>2. /\ job[t] \in Job /\ job[t] # NoJob /\ job[t].handle \in Handle
      /\ job[t].line \in EventLine
  BY <1>1, JobFields DEF Inv
<1>3. faults' \in 0..MaxFaults /\ faults' # 0
  BY <1>1 DEF Inv, Types
<1>4. /\ file' \in Seq(FileLine) /\ ended' \in BOOLEAN
      /\ chains' \subseteq Seq(Payload) /\ forged' \subseteq Seq(Payload)
      /\ Written' /\ Kept'
  BY <1>1, <1>2, AfterCut DEF Inv
<1>5. Types'
  BY <1>1, <1>2, <1>3, <1>4 DEF Inv, Types
<1>6. Locks'
  BY <1>1, <1>2 DEF Inv, Types, Locks
<1>. QED
  BY <1>3, <1>4, <1>5, <1>6, TouchedNow DEF Inv

LEMMA ReturnStep ==
    ASSUME Inv, NEW t \in Thread, Return(t)
    PROVE  Inv'
<1> DEFINE line == job[t].line
           h == job[t].handle
           next == [seq |-> line.payload.seq, prev |-> line.hash]
<1>1. /\ job[t].stage = "adopt" /\ cache' = [cache EXCEPT ![h] = next]
      /\ lock' = [lock EXCEPT ![h] = NoThread]
      /\ acked' = IF faults = 0 THEN acked \cup {line} ELSE acked
      /\ job' = [job EXCEPT ![t] = NoJob]
      /\ UNCHANGED <<file, ended, open, shown, chains, forged, faults, damage>>
  BY DEF Return, Adopt
<1>2. job[t] \in Job /\ job[t] # NoJob /\ h \in Handle /\ line \in EventLine
  BY <1>1, JobFields DEF Inv
<1>3. next \in Cache
  BY <1>2 DEF EventLine, Payload, Cache
<1> HIDE DEF next
<1>4. Types'
  BY <1>1, <1>2, <1>3 DEF Inv, Types
<1>5. Locks'
  BY <1>1, <1>2 DEF Inv, Types, Locks
<1>6. Written'
  BY <1>1 DEF Inv, Written, Chain
<1>7. ASSUME faults = 0, damage = 0
      PROVE  /\ \A i \in 1..Len(file) : ValidAt(file, i)
             /\ ended /\ file # <<>> /\ line = file[Len(file)]
             /\ Len(file) \in 1..Len(file) /\ line.payload.seq = Len(file)
             /\ next = [seq |-> Len(file), prev |-> LastHash(file)]
  <2>1. /\ \A i \in 1..Len(file) : ValidAt(file, i)
        /\ ended /\ file # <<>> /\ line = file[Len(file)]
    BY <1>1, <1>7 DEF Inv, Untouched
  <2>2. file \in Seq(FileLine) /\ Len(file) \in 1..Len(file)
    BY <2>1, EmptySeq DEF Inv, Types
  <2>3. line.payload.seq = Len(file)
    BY <2>1, <2>2, ValidType
  <2>4. LastHash(file) = line.hash
    BY <2>1, <2>2, LastHashIs
  <2>. QED
    BY <2>1, <2>2, <2>3, <2>4 DEF next
<1>8. Kept'
  <2> SUFFICES ASSUME damage = 0, NEW x \in acked'
               PROVE  /\ x.payload.seq \in 1..Len(file)
                      /\ ~ended => x.payload.seq < Len(file)
                      /\ file[x.payload.seq] = x
                      /\ \A i \in 1..x.payload.seq : ValidAt(file, i)
    BY <1>1 DEF Kept, ValidAt
  <2>1. CASE x \in acked
    BY <2>1 DEF Inv, Kept
  <2>2. CASE faults = 0 /\ x = line
    BY <1>7, <2>2
  <2>. QED
    BY <1>1, <2>1, <2>2
<1>9. Untouched'
  <2> SUFFICES ASSUME faults = 0, damage = 0 PROVE Untouched'
    BY <1>1 DEF Untouched
  <2>1. \A u \in Thread : job'[u].stage = "none"
    <3>1. \A u \in Thread : u # t => job[u] = NoJob
      BY <1>2, OneJob DEF Inv
    <3>. QED
      BY <1>1, <3>1 DEF Inv, Types, NoJob
  <2>2. \A g \in open : cache'[g] = [seq |-> Len(file), prev |-> LastHash(file)]
    <3>1. \A g \in open : g = h
      BY <1>2 DEF Inv, Locks
    <3>2. cache'[h] = next
      BY <1>1, <1>2 DEF Inv, Types
    <3>. QED
      BY <1>7, <3>1, <3>2
  <2>. QED
    BY <1>1, <1>7, <2>1, <2>2 DEF Untouched, ValidAt, LastHash
<1>. QED
  BY <1>4, <1>5, <1>6, <1>8, <1>9 DEF Inv

LEMMA CrashStep ==
    ASSUME Inv, Crash
    PROVE  Inv'
<1>1. /\ faults < MaxFaults /\ faults' = faults + 1
      /\ \/ UNCHANGED <<file, ended, chains, forged>>
         \/ \E t \in Thread : job[t].stage = "write" /\ Cut(job[t].line)
      /\ open' = {} /\ cache' = [h \in Handle |-> NoCache]
      /\ lock' = [h \in Handle |-> NoThread] /\ job' = [t \in Thread |-> NoJob]
      /\ UNCHANGED <<shown, acked, damage>>
  BY DEF Crash
<1>2. faults' \in 0..MaxFaults /\ faults' # 0
  BY <1>1 DEF Inv, Types
<1>3. /\ file' \in Seq(FileLine) /\ ended' \in BOOLEAN
      /\ chains' \subseteq Seq(Payload) /\ forged' \subseteq Seq(Payload)
      /\ Written' /\ Kept'
  <2>1. CASE UNCHANGED <<file, ended, chains, forged>>
    BY <1>1, <2>1 DEF Inv, Types, Written, Kept, ValidAt, Chain
  <2>2. CASE \E t \in Thread : job[t].stage = "write" /\ Cut(job[t].line)
    BY <1>1, <2>2, JobFields, AfterCut DEF Inv
  <2>. QED
    BY <1>1, <2>1, <2>2
<1>4. NoCache \in Cache
  BY DEF NoCache, Cache, Genesis
<1>5. Types'
  BY <1>1, <1>2, <1>3, <1>4 DEF Inv, Types
<1>6. Locks'
  BY <1>1 DEF Locks
<1>. QED
  BY <1>2, <1>3, <1>5, <1>6, TouchedNow DEF Inv

LEMMA ChainIsPrefix ==
    ASSUME NEW lines \in Seq(FileLine)
    PROVE  Chain(lines) = Prefix(lines, Len(lines))
BY LenProperties DEF Chain, Prefix

\* The stream checks each line against the one it has shown before.
LEMMA StreamStep ==
    ASSUME Inv, StreamLine \/ StreamRestarts
    PROVE  Inv'
<1>1. UNCHANGED <<file, ended, open, cache, lock, job, acked, chains, forged, faults, damage>>
  BY DEF StreamLine, StreamRestarts
<1>2. Locks' /\ Kept' /\ Untouched'
  BY <1>1 DEF Inv, Locks, Kept, Untouched, ValidAt, LastHash
<1>3. CASE StreamRestarts
  <2>1. shown' = <<>> /\ shown' \in Seq(EventLine)
    BY <1>3 DEF StreamRestarts
  <2>. QED
    BY <1>1, <1>2, <2>1 DEF Inv, Types, Written
<1>4. CASE StreamLine
  <2> DEFINE n == Len(shown)
             line == file[n + 1]
  <2>1. /\ n < Len(file) /\ Valid(line, n + 1, LastHash(shown)) /\ shown' = Append(shown, line)
    BY <1>4 DEF StreamLine
  <2>2. /\ shown \in Seq(EventLine) /\ shown \in Seq(FileLine) /\ n \in Nat
        /\ file \in Seq(FileLine) /\ Len(file) \in Nat
    BY SeqMonotonic DEF Inv, Types, FileLine
  <2>3. n + 1 \in 1..Len(file)
    BY <2>1, <2>2
  <2>4. line \in EventLine /\ line \in FileLine /\ line.payload \in Payload
        /\ line.hash = Append(LastHash(shown), line.payload)
    BY <2>1, <2>2, <2>3, ElementOfSeq, LineFields DEF Valid, Hash
  <2>5. line.hash \in chains \cup forged
    BY <2>1, <2>3 DEF Inv, Written, Valid
  <2> HIDE DEF line, n
  <2>6. /\ shown' \in Seq(EventLine) /\ shown' \in Seq(FileLine) /\ Len(shown') = n + 1
        /\ \A i \in 1..n : shown'[i] = shown[i]
        /\ shown'[n + 1] = line
    BY <2>1, <2>2, <2>4, AppendProperties DEF n
  <2>7. LastHash(shown) = Prefix(shown, n)
    <3>1. CASE n = 0
      <4>1. shown = <<>>
        BY <2>2, <3>1, EmptySeq DEF n
      <4>2. LastHash(shown) = <<>>
        BY <2>2, <4>1, LastHashIs DEF Genesis
      <4>3. Prefix(shown, 0) = <<>>
        BY DEF Prefix
      <4>. QED
        BY <3>1, <4>2, <4>3
    <3>2. CASE n # 0
      <4>1. shown # <<>>
        BY <2>2, <3>2, EmptySeq DEF n
      <4>2. LastHash(shown) = shown[n].hash
        BY <2>2, <4>1, LastHashIs DEF n
      <4>3. shown[n].hash = Chain(shown)
        BY <4>1 DEF Inv, Written, n
      <4>. QED
        BY <2>2, <4>2, <4>3, ChainIsPrefix DEF n
    <3>. QED
      BY <3>1, <3>2
  <2>8. PICK lines \in Seq(EventLine) : lines = shown'
    BY <2>6
  <2>9. /\ lines \in Seq(FileLine) /\ Len(lines) = n + 1
        /\ \A k \in 1..n : lines[k] = shown[k]
        /\ lines[n + 1] = line
    BY <2>6, <2>8
  <2>10. line.hash = Prefix(lines, n + 1)
    <3>1. PICK m \in Nat \ {0} : m = n + 1 /\ m - 1 = n
      BY <2>2
    <3>2. \A k \in 1..m : lines[k] \in EventLine
      BY <2>9, <3>1, ElementOfSeq
    <3>3. \A k \in 1..m : lines[k].payload \in Payload
      BY <3>2 DEF EventLine
    <3>4. Append(Prefix(lines, m - 1), lines[m].payload) = Prefix(lines, m)
      BY <3>3, PrefixGrows
    <3>5. Prefix(lines, n) = Prefix(shown, n)
      BY <2>9 DEF Prefix
    <3>. QED
      BY <2>4, <2>7, <2>9, <3>1, <3>4, <3>5
  <2>11. Written'
    <3>1. Chain(lines) = Prefix(lines, n + 1)
      BY <2>9, ChainIsPrefix
    <3>2. Chain(shown)' = Chain(lines)
      BY <2>8 DEF Chain
    <3>. QED
      BY <1>1, <2>5, <2>8, <2>9, <2>10, <3>1, <3>2 DEF Inv, Written
  <2>12. Types'
    BY <1>1, <2>6 DEF Inv, Types
  <2>. QED
    BY <1>2, <2>11, <2>12 DEF Inv
<1>. QED
  BY <1>3, <1>4

\* The elements of r are elements of s.
DrawnFrom(r, s) == \A k \in 1..Len(r) : \E m \in 1..Len(s) : r[k] = s[m]

LEMMA SliceDraws ==
    ASSUME NEW S, NEW s \in Seq(S), NEW m \in Nat \ {0}, NEW n \in Int, n <= Len(s)
    PROVE  SubSeq(s, m, n) \in Seq(S) /\ DrawnFrom(SubSeq(s, m, n), s)
<1> DEFINE r == SubSeq(s, m, n)
<1>1. Len(s) \in Nat /\ m..n \subseteq 1..Len(s)
  BY LenProperties
<1>2. \A i \in m..n : s[i] \in S
  BY <1>1, ElementOfSeq
<1>3. /\ r \in Seq(S) /\ Len(r) = IF m <= n THEN n - m + 1 ELSE 0
      /\ \A i \in 1..(n - m + 1) : r[i] = s[m + i - 1]
  BY <1>2, SubSeqProperties
<1> HIDE DEF r
<1>4. ASSUME NEW k \in 1..Len(r)
      PROVE  \E j \in 1..Len(s) : r[k] = s[j]
  <2>1. m <= n /\ k \in 1..(n - m + 1)
    BY <1>3, <1>4
  <2>2. m + k - 1 \in m..n
    BY <2>1
  <2>. QED
    BY <1>1, <1>3, <2>1, <2>2
<1>. QED
  BY <1>3, <1>4 DEF DrawnFrom, r

LEMMA ConcatDraws ==
    ASSUME NEW S, NEW s \in Seq(S), NEW a \in Seq(S), NEW b \in Seq(S),
           DrawnFrom(a, s), DrawnFrom(b, s)
    PROVE  a \o b \in Seq(S) /\ DrawnFrom(a \o b, s)
<1> DEFINE r == a \o b
           x == Len(a)
           y == Len(b)
<1>1. /\ x \in Nat /\ y \in Nat /\ r \in Seq(S) /\ Len(r) = x + y
      /\ \A i \in 1..(x + y) : r[i] = IF i <= x THEN a[i] ELSE b[i - x]
  BY LenProperties, ConcatProperties
<1>2. /\ \A k \in 1..x : \E m \in 1..Len(s) : a[k] = s[m]
      /\ \A k \in 1..y : \E m \in 1..Len(s) : b[k] = s[m]
  BY DEF DrawnFrom
<1> HIDE DEF r, x, y
<1>3. ASSUME NEW k \in 1..(x + y)
      PROVE  \E m \in 1..Len(s) : r[k] = s[m]
  <2>1. CASE k <= x
    <3>1. k \in 1..x /\ r[k] = a[k]
      BY <1>1, <2>1
    <3>. QED
      BY <1>2, <3>1
  <2>2. CASE ~ (k <= x)
    <3>1. k - x \in 1..y /\ r[k] = b[k - x]
      BY <1>1, <2>2
    <3>. QED
      BY <1>2, <3>1
  <2>. QED
    BY <2>1, <2>2
<1>. QED
  BY <1>1, <1>3 DEF DrawnFrom, r

LEMMA RemoveAtDraws ==
    ASSUME NEW S, NEW s \in Seq(S), NEW i \in 1..Len(s)
    PROVE  RemoveAt(s, i) \in Seq(S) /\ DrawnFrom(RemoveAt(s, i), s)
<1>1. Len(s) \in Nat /\ i - 1 \in Int /\ i - 1 <= Len(s) /\ 1 \in Nat \ {0}
      /\ i + 1 \in Nat \ {0} /\ Len(s) \in Int /\ Len(s) <= Len(s)
  BY LenProperties
<1> DEFINE a == SubSeq(s, 1, i - 1)
           b == SubSeq(s, i + 1, Len(s))
<1>2. a \in Seq(S) /\ DrawnFrom(a, s)
  BY <1>1, SliceDraws
<1>3. b \in Seq(S) /\ DrawnFrom(b, s)
  BY <1>1, SliceDraws
<1>4. RemoveAt(s, i) = a \o b
  BY DEF RemoveAt
<1> HIDE DEF a, b
<1>. QED
  BY <1>2, <1>3, <1>4, ConcatDraws

LEMMA RepeatDraws ==
    ASSUME NEW S, NEW s \in Seq(S), NEW i \in 1..Len(s)
    PROVE  InsertAt(s, i, s[i]) \in Seq(S) /\ DrawnFrom(InsertAt(s, i, s[i]), s)
<1>1. Len(s) \in Nat /\ i - 1 \in Int /\ i - 1 <= Len(s) /\ 1 \in Nat \ {0}
      /\ i \in Nat \ {0} /\ Len(s) \in Int /\ Len(s) <= Len(s) /\ s[i] \in S
  BY LenProperties, ElementOfSeq
<1> DEFINE a == SubSeq(s, 1, i - 1)
           b == SubSeq(s, i, Len(s))
           c == <<s[i]>>
<1>2. a \in Seq(S) /\ DrawnFrom(a, s)
  BY <1>1, SliceDraws
<1>3. b \in Seq(S) /\ DrawnFrom(b, s)
  BY <1>1, SliceDraws
<1>4. c \in Seq(S) /\ DrawnFrom(c, s)
  BY <1>1 DEF DrawnFrom
<1>5. InsertAt(s, i, s[i]) = (a \o c) \o b
  BY DEF InsertAt
<1> HIDE DEF a, b, c
<1>6. a \o c \in Seq(S) /\ DrawnFrom(a \o c, s)
  BY <1>2, <1>4, ConcatDraws
<1>. QED
  BY <1>3, <1>5, <1>6, ConcatDraws

\* A line is forged over one that was there or behind the last; its hash is remembered.
LEMMA ForgeStep ==
    ASSUME Types, Written, NEW i \in 1..(Len(file) + 1), NEW d \in Data, Forge(i, d),
           UNCHANGED <<chains, shown>>
    PROVE  file' \in Seq(FileLine) /\ forged' \subseteq Seq(Payload) /\ Written'
<1> DEFINE before == SubSeq(file, 1, i - 1)
           behind == SubSeq(file, i + 1, Len(file))
           payload == [seq |-> i, data |-> d]
           line == Line(payload, LastHash(before))
<1>1. /\ i <= MaxSequence /\ file' = before \o <<line>> \o behind
      /\ forged' = forged \cup {line.hash}
  BY DEF Forge
<1>2. /\ file \in Seq(FileLine) /\ Len(file) \in Nat /\ Len(file) <= Len(file)
      /\ i - 1 \in Int /\ i - 1 <= Len(file) /\ 1 \in Nat \ {0} /\ i + 1 \in Nat \ {0}
  BY LenProperties DEF Types
<1>3. before \in Seq(FileLine) /\ DrawnFrom(before, file)
  BY <1>2, SliceDraws
<1>4. behind \in Seq(FileLine) /\ DrawnFrom(behind, file)
  BY <1>2, SliceDraws
<1> HIDE DEF before, behind
<1>5. payload \in Payload /\ LastHash(before) \in Seq(Payload)
  <2>1. i \in 1..MaxSequence
    BY <1>1, <1>2
  <2>. QED
    BY <1>3, <2>1, LastHashIs DEF Payload
<1> HIDE DEF payload
<1>6. line \in EventLine /\ line \in FileLine /\ line.hash \in Seq(Payload)
  BY <1>5, AppendProperties DEF Line, Hash, EventLine, FileLine
<1> HIDE DEF line
<1> DEFINE all == Append(file, line)
<1>7. /\ all \in Seq(FileLine) /\ Len(all) = Len(file) + 1
      /\ \A k \in 1..Len(file) : all[k] = file[k]
      /\ all[Len(file) + 1] = line
  BY <1>2, <1>6, AppendProperties
<1> HIDE DEF all
<1>8. DrawnFrom(before, all) /\ DrawnFrom(behind, all) /\ DrawnFrom(<<line>>, all)
  <2>1. \A m \in 1..Len(file) : m \in 1..Len(all) /\ all[m] = file[m]
    BY <1>2, <1>7
  <2>2. DrawnFrom(before, all) /\ DrawnFrom(behind, all)
    BY <1>3, <1>4, <2>1 DEF DrawnFrom
  <2>3. Len(file) + 1 \in 1..Len(all)
    BY <1>2, <1>7
  <2>4. DrawnFrom(<<line>>, all)
    BY <1>7, <2>3 DEF DrawnFrom
  <2>. QED
    BY <2>2, <2>4
<1>9. <<line>> \in Seq(FileLine)
  BY <1>6
<1>10. before \o <<line>> \in Seq(FileLine) /\ DrawnFrom(before \o <<line>>, all)
  BY <1>3, <1>7, <1>8, <1>9, ConcatDraws
<1>11. file' \in Seq(FileLine) /\ DrawnFrom(file', all)
  BY <1>1, <1>4, <1>7, <1>8, <1>10, ConcatDraws
<1>12. \A m \in 1..Len(all) : all[m].kind = "event" => all[m].hash \in chains' \cup forged'
  <2>1. \A m \in 1..Len(all) : m \in 1..Len(file) \/ m = Len(file) + 1
    BY <1>2, <1>7
  <2>. QED
    BY <1>1, <1>7, <2>1 DEF Written
<1>13. \A k \in 1..Len(file') : file'[k].kind = "event" => file'[k].hash \in chains' \cup forged'
  BY <1>11, <1>12 DEF DrawnFrom
<1>14. forged' \subseteq Seq(Payload) /\ forged \subseteq forged'
  BY <1>1, <1>6 DEF Types
<1>. QED
  BY <1>11, <1>13, <1>14 DEF Written, Chain

\* Any other edit leaves every hash that is in the file one that was there before.
LEMMA ShuffleStep ==
    ASSUME Types, Written, UNCHANGED <<chains, forged, shown>>, NEW i \in DOMAIN file,
           \/ /\ file[i].kind = "event"
              /\ \E d \in Data : file' = [file EXCEPT ![i].payload.data = d]
           \/ file' = RemoveAt(file, i)
           \/ file' = InsertAt(file, i, file[i])
           \/ /\ i < Len(file)
              /\ file' = [file EXCEPT ![i] = file[i + 1], ![i + 1] = file[i]]
    PROVE  file' \in Seq(FileLine) /\ Written'
<1>1. file \in Seq(FileLine) /\ Len(file) \in Nat /\ i \in 1..Len(file) /\ i \in Int
      /\ \A k \in 1..Len(file) : file[k] \in FileLine
  BY LenProperties, ElementOfSeq DEF Types
<1> DEFINE Old(line) == \E k \in 1..Len(file) : line.kind = file[k].kind
                                                /\ line.hash = file[k].hash
<1>2. file' \in Seq(FileLine) /\ \A k \in 1..Len(file') : Old(file'[k])
  <2>1. CASE file[i].kind = "event" /\ \E d \in Data : file' = [file EXCEPT ![i].payload.data = d]
    <3>1. PICK d \in Data : file' = [file EXCEPT ![i].payload.data = d]
      BY <2>1
    <3> DEFINE line == [file[i] EXCEPT !.payload.data = d]
    <3>2. file[i] \in EventLine /\ file[i].payload \in Payload
      BY <1>1, <2>1, LineFields
    <3>3. line \in EventLine /\ line.kind = file[i].kind /\ line.hash = file[i].hash
      <4>1. [file[i].payload EXCEPT !.data = d] \in Payload
        BY <3>2 DEF Payload
      <4>2. line = [file[i] EXCEPT !.payload = [file[i].payload EXCEPT !.data = d]]
        OBVIOUS
      <4> HIDE DEF line
      <4>. QED
        BY <3>2, <4>1, <4>2 DEF EventLine
    <3>4. file' = [file EXCEPT ![i] = line]
      BY <3>1
    <3> HIDE DEF line
    <3>5. /\ file' \in Seq(FileLine) /\ Len(file') = Len(file)
          /\ \A k \in 1..Len(file) : file'[k] = IF k = i THEN line ELSE file[k]
      BY <1>1, <3>3, <3>4, ExceptSeq DEF FileLine
    <3>. QED
      BY <1>1, <3>3, <3>5
  <2>2. CASE file' = RemoveAt(file, i)
    <3>1. file' \in Seq(FileLine) /\ DrawnFrom(file', file)
      BY <1>1, <2>2, RemoveAtDraws
    <3>. QED
      BY <3>1 DEF DrawnFrom
  <2>3. CASE file' = InsertAt(file, i, file[i])
    <3>1. file' \in Seq(FileLine) /\ DrawnFrom(file', file)
      BY <1>1, <2>3, RepeatDraws
    <3>. QED
      BY <3>1 DEF DrawnFrom
  <2>4. CASE /\ i < Len(file)
             /\ file' = [file EXCEPT ![i] = file[i + 1], ![i + 1] = file[i]]
    <3> DEFINE a == [file EXCEPT ![i] = file[i + 1]]
    <3>1. i + 1 \in 1..Len(file) /\ file[i] \in FileLine /\ file[i + 1] \in FileLine
      BY <1>1, <2>4
    <3>2. /\ a \in Seq(FileLine) /\ Len(a) = Len(file)
          /\ \A k \in 1..Len(file) : a[k] = IF k = i THEN file[i + 1] ELSE file[k]
      BY <1>1, <3>1, ExceptSeq
    <3>3. file' = [a EXCEPT ![i + 1] = file[i]]
      BY <2>4
    <3> HIDE DEF a
    <3>4. /\ file' \in Seq(FileLine) /\ Len(file') = Len(a)
          /\ \A k \in 1..Len(a) : file'[k] = IF k = i + 1 THEN file[i] ELSE a[k]
      BY <3>1, <3>2, <3>3, ExceptSeq
    <3>5. \A k \in 1..Len(file') : \E m \in 1..Len(file) : file'[k] = file[m]
      BY <1>1, <3>1, <3>2, <3>4
    <3>. QED
      BY <3>4, <3>5
  <2>. QED
    BY <2>1, <2>2, <2>3, <2>4
<1>. QED
  BY <1>2 DEF Written, Chain

LEMMA EditStep ==
    ASSUME Inv, Edit
    PROVE  Inv'
<1>1. /\ damage < MaxDamage /\ damage' = damage + 1 /\ ended' = TRUE
      /\ UNCHANGED <<open, cache, lock, job, shown, acked, chains, faults>>
  BY DEF Edit
<1>2. file' \in Seq(FileLine) /\ forged' \subseteq Seq(Payload) /\ Written'
  <2>1. CASE \E i \in 1..(Len(file) + 1), d \in Data : Forge(i, d)
    BY <1>1, <2>1, ForgeStep DEF Inv
  <2>2. CASE /\ UNCHANGED forged
             /\ \E i \in DOMAIN file :
                    \/ /\ file[i].kind = "event"
                       /\ \E d \in Data : file' = [file EXCEPT ![i].payload.data = d]
                    \/ file' = RemoveAt(file, i)
                    \/ file' = InsertAt(file, i, file[i])
                    \/ /\ i < Len(file)
                       /\ file' = [file EXCEPT ![i] = file[i + 1], ![i + 1] = file[i]]
    BY <1>1, <2>2, ShuffleStep DEF Inv, Types
  <2>. QED
    BY <2>1, <2>2 DEF Edit
<1>3. damage' \in 0..MaxDamage /\ damage' # 0
  BY <1>1 DEF Inv, Types
<1>4. Types' /\ Locks' /\ Kept'
  BY <1>1, <1>2, <1>3 DEF Inv, Types, Locks, Kept
<1>. QED
  BY <1>2, <1>3, <1>4, TouchedNow DEF Inv

LEMMA InvStep == Inv /\ [Next]_ledgerVars => Inv'
<1> SUFFICES ASSUME Inv, [Next]_ledgerVars PROVE Inv'
  OBVIOUS
<1>1. CASE LedgerNext
  BY <1>1, DropStep, BeginStep, WriteStep, WriteFailsStep, ReturnStep, CrashStep, StreamStep,
     EditStep DEF LedgerNext
<1>2. CASE \E h \in Handle : open = {} /\ Open(h)
  BY <1>2, OpenStep
<1>3. CASE UNCHANGED ledgerVars
  <2>1. Types' /\ Locks' /\ Written' /\ Kept'
    BY <1>3 DEF ledgerVars, Inv, Types, Locks, Written, Kept, Chain, ValidAt
  <2>2. Untouched'
    BY <1>3 DEF ledgerVars, Inv, Untouched, ValidAt, LastHash
  <2>. QED
    BY <2>1, <2>2 DEF Inv
<1>. QED
  BY <1>1, <1>2, <1>3 DEF Next

LEMMA Invariance == Spec => []Inv
BY InvInit, InvStep, PTL DEF Spec

-----------------------------------------------------------------------------

\* Exactly the holder of an object's lock is in its append(), and no number of an event
\* is beyond the bound, also when an object is made from an edited file.
THEOREM TypeCorrect == Spec => []TypeOK
<1>1. Inv => TypeOK
  <2> SUFFICES ASSUME Inv PROVE TypeOK
    OBVIOUS
  <2>1. \A h \in Handle : cache[h].seq \in 0..MaxSequence /\ cache[h].prev \in Seq(Payload)
    BY DEF Inv, Types, Cache
  <2>2. \A t \in Thread : job[t] # NoJob => job[t].stage \in {"write", "adopt"}
    BY DEF Inv, Types, Job
  <2>. QED
    BY <2>1, <2>2 DEF Inv, Types, Locks, TypeOK, FileLine, EventLine
<1>. QED
  BY <1>1, Invariance, PTL

\* A file that nothing cut off and nobody edited replays, with any number of threads in
\* append() and however often its object is made again.
THEOREM UntouchedReplays == Spec => []ReplaysUntouched
<1>1. Inv => ReplaysUntouched
  BY LenProperties DEF Inv, Types, Untouched, ReplaysUntouched, Replays
<1>. QED
  BY <1>1, Invariance, PTL

\* Whatever is cut off or edited, the payloads up to each line of a file that replays are
\* a chain append() has written, unless that chain's hash was computed by an editor or
\* append() built on such a hash.
THEOREM ReplayIsGenuine == Spec => []AcceptedWasWritten
<1>1. Inv => AcceptedWasWritten
  <2> SUFFICES ASSUME Inv, Replays(file), NEW i \in 1..Len(file)
               PROVE  Prefix(file, i) \in chains \cup forged
    <3>1. Inv => DOMAIN file = 1..Len(file)
      BY LenProperties DEF Inv, Types
    <3>. QED
      BY <3>1 DEF AcceptedWasWritten, Prefix
  <2>1. file \in Seq(FileLine) /\ \A k \in 1..Len(file) : ValidAt(file, k)
    BY LenProperties DEF Inv, Types, Replays
  <2>2. file[i].kind = "event"
    BY <2>1, ValidAtIs DEF Valid
  <2>3. file[i].hash \in chains \cup forged
    BY <2>2 DEF Inv, Written
  <2>4. file[i].hash = Prefix(file, i)
    BY <2>1, HashIsPrefix
  <2>. QED
    BY <2>3, <2>4
<1>. QED
  BY <1>1, Invariance, PTL

\* The same of what the stream shows, although the file changes between the lines it reads.
THEOREM StreamIsGenuine == Spec => []StreamShowsChain
<1>1. Inv => StreamShowsChain
  BY DEF Inv, Written, StreamShowsChain, Chain
<1>. QED
  BY <1>1, Invariance, PTL

\* What append() has returned before the first failure stays in the replay, at its
\* number, through any number of failures, kills and later appends.
THEOREM AcknowledgedLinesStay == Spec => []AcknowledgedStays
<1>1. Inv => AcknowledgedStays
  <2> SUFFICES ASSUME Inv, damage = 0, NEW line \in acked
               PROVE  /\ line.payload.seq <= Len(Accepted(file))
                      /\ file[line.payload.seq] = line
    BY DEF AcknowledgedStays
  <2>1. /\ line.payload.seq \in 1..Len(file) /\ file[line.payload.seq] = line
        /\ \A i \in 1..line.payload.seq : ValidAt(file, i)
    BY DEF Inv, Kept
  <2>2. file \in Seq(FileLine) /\ Len(file) \in Nat
    BY DEF Inv, Types
  <2>3. line.payload.seq \in 0..Len(file)
    BY <2>1, <2>2
  <2>. QED
    BY <2>1, <2>2, <2>3, AcceptedCovers
<1>. QED
  BY <1>1, Invariance, PTL

=============================================================================
