------------------------------ MODULE EventLedger ------------------------------
(***************************************************************************)
(* One events.jsonl, the EventLedger objects that append to it (events.py) *)
(* and the API stream that replays it (api.py).  An object reads the file  *)
(* once, when it is made; from then on it trusts the sequence number and   *)
(* the hash it has cached.  Its lock keeps its own threads apart and knows *)
(* nothing of other objects on the same file.                              *)
(*                                                                         *)
(* SHA-256 is taken as free of collisions: the hash of an event stands for *)
(* what went into it, its own payload and the previous hash, and so for    *)
(* the whole chain of payloads up to it.  It has no key: whoever edits the *)
(* file can compute it too, and an object that finds such a line goes on   *)
(* from there.                                                             *)
(***************************************************************************)
EXTENDS Integers, Sequences, FiniteSets, SequencesExt

CONSTANTS
    Handle,     \* EventLedger objects
    Thread,     \* threads that append
    NoThread,   \* the holder of a free lock
    Data,       \* event payloads
    MaxSequence, \* bound: the number of an event
    MaxFaults,  \* bound: appends that are cut off
    MaxDamage   \* bound: changes made to the file by others

ASSUME LedgerAssumption ==
    /\ NoThread \notin Thread
    /\ {MaxSequence, MaxFaults, MaxDamage} \subseteq Nat

VARIABLES
    file,     \* the lines
    ended,    \* the last line has its line end
    open,     \* the objects in use
    cache,    \* _sequence and _previous_hash of each object
    lock,     \* the thread that holds the object's lock
    job,      \* the append() each thread is in
    shown,    \* the events the API stream has yielded
    acked,    \* history: events whose append() returned before anything was cut off
    chains,   \* history: the hashes of the lines append() wrote, but for
    forged,   \* history: those it built on a hash some editor computed, and the editors'
    faults, damage

ledgerVars == <<file, ended, open, cache, lock, job, shown, acked, chains, forged, faults, damage>>

Genesis == <<>>

Payload == [seq : 1..MaxSequence, data : Data]

Hash(prev, payload) == Append(prev, payload)

Torn == [kind |-> "torn", payload |-> [seq |-> 0], prev |-> Genesis, hash |-> Genesis]

Line(payload, prev) ==
    [kind |-> "event", payload |-> payload, prev |-> prev, hash |-> Hash(prev, payload)]

\* A slip: the link to the line before is not compared.
ValidUnlinked(line, number, prev) ==
    /\ line.kind = "event"
    /\ line.payload.seq = number
    /\ line.hash = Hash(line.prev, line.payload)

\* replay_events() takes a line: it parses, and number, link and hash are right.
Valid(line, number, prev) ==
    /\ line.kind = "event"
    /\ line.payload.seq = number
    /\ line.prev = prev
    /\ line.hash = Hash(prev, line.payload)

LastHash(lines) == IF lines = <<>> THEN Genesis ELSE Last(lines).hash

ValidAt(lines, i) == Valid(lines[i], i, LastHash(SubSeq(lines, 1, i - 1)))

Replays(lines) == \A i \in DOMAIN lines : ValidAt(lines, i)

\* The lines it yields before it raises.
Accepted(lines) ==
    SubSeq(lines, 1, CHOOSE n \in 0..Len(lines) :
                         /\ \A i \in 1..n : ValidAt(lines, i)
                         /\ n < Len(lines) => ~ValidAt(lines, n + 1))

NoJob == [stage |-> "none"]

NoCache == [seq |-> 0, prev |-> Genesis]

-----------------------------------------------------------------------------

Init ==
    /\ file = <<>>
    /\ ended = TRUE
    /\ open = {}
    /\ cache = [h \in Handle |-> NoCache]
    /\ lock = [h \in Handle |-> NoThread]
    /\ job = [t \in Thread |-> NoJob]
    /\ shown = <<>>
    /\ acked = {}
    /\ chains = {}
    /\ forged = {}
    /\ faults = 0
    /\ damage = 0

\* A slip: an object starts from the number of lines and no hash.
ReadUnlinked(h) ==
    cache' = [cache EXCEPT ![h] = [seq |-> Len(file), prev |-> Genesis]]

\* The constructor's replay; a file that does not replay makes it raise.
Read(h) ==
    /\ Replays(file)
    /\ cache' = [cache EXCEPT ![h] =
           [seq |-> Len(file), prev |-> LastHash(file)]]

Open(h) ==
    /\ h \notin open
    /\ Read(h)
    /\ open' = open \cup {h}
    /\ UNCHANGED <<file, ended, lock, job, shown, acked, chains, forged, faults, damage>>

\* The object is dropped while no thread is in it.
Drop(h) ==
    /\ h \in open
    /\ lock[h] = NoThread
    /\ open' = open \ {h}
    /\ cache' = [cache EXCEPT ![h] = NoCache]
    /\ UNCHANGED <<file, ended, lock, job, shown, acked, chains, forged, faults, damage>>

\* A slip: append() without its lock.
BeginUnlocked(t, h, d) ==
    /\ h \in open
    /\ job[t] = NoJob
    /\ cache[h].seq < MaxSequence
    /\ lock' = [lock EXCEPT ![h] = t]
    /\ job' = [job EXCEPT ![t] =
           [stage |-> "write", handle |-> h,
            line |-> Line([seq |-> cache[h].seq + 1, data |-> d], cache[h].prev)]]
    /\ UNCHANGED <<file, ended, open, cache, shown, acked, chains, forged, faults, damage>>

\* append(): under the lock, the event is made from what the object has cached.
Begin(t, h, d) ==
    /\ h \in open
    /\ job[t] = NoJob
    /\ lock[h] = NoThread
    /\ cache[h].seq < MaxSequence
    /\ lock' = [lock EXCEPT ![h] = t]
    /\ job' = [job EXCEPT ![t] =
           [stage |-> "write", handle |-> h,
            line |-> Line([seq |-> cache[h].seq + 1, data |-> d], cache[h].prev)]]
    /\ UNCHANGED <<file, ended, open, cache, shown, acked, chains, forged, faults, damage>>

\* Text goes to the end of the file; after an unended line it goes on that line.
Put(line) == file' = IF ended THEN Append(file, line) ELSE Front(file) \o <<Torn>>

Record(line) ==
    IF line.prev \in forged \ chains
    THEN forged' = forged \cup {line.hash} /\ UNCHANGED chains
    ELSE chains' = chains \cup {line.hash} /\ UNCHANGED forged

Write(t) ==
    /\ job[t].stage = "write"
    /\ Put(job[t].line)
    /\ ended' = TRUE
    /\ Record(job[t].line)
    /\ job' = [job EXCEPT ![t].stage = "adopt"]
    /\ UNCHANGED <<open, cache, lock, shown, acked, faults, damage>>

\* The write is cut off: after nothing, in the line, before its line end, or after it.
Cut(line) ==
    \/ UNCHANGED <<file, ended, chains, forged>>
    \/ Put(Torn) /\ ended' = FALSE /\ UNCHANGED <<chains, forged>>
    \/ Put(line) /\ ended' \in BOOLEAN /\ Record(line)

\* OSError: the object keeps its cache and the lock is free again.
WriteFails(t) ==
    /\ job[t].stage = "write"
    /\ faults < MaxFaults
    /\ faults' = faults + 1
    /\ Cut(job[t].line)
    /\ lock' = [lock EXCEPT ![job[t].handle] = NoThread]
    /\ job' = [job EXCEPT ![t] = NoJob]
    /\ UNCHANGED <<open, cache, shown, acked, damage>>

\* A slip: the object does not take over the new hash.
AdoptNumber(t) ==
    cache' = [cache EXCEPT ![job[t].handle].seq = job[t].line.payload.seq]

Adopt(t) ==
    cache' = [cache EXCEPT ![job[t].handle] =
                  [seq |-> job[t].line.payload.seq, prev |-> job[t].line.hash]]

\* The line is on disk: the cache follows and append() returns the event.
Return(t) ==
    /\ job[t].stage = "adopt"
    /\ Adopt(t)
    /\ lock' = [lock EXCEPT ![job[t].handle] = NoThread]
    /\ acked' = IF faults = 0 THEN acked \cup {job[t].line} ELSE acked
    /\ job' = [job EXCEPT ![t] = NoJob]
    /\ UNCHANGED <<file, ended, open, shown, chains, forged, faults, damage>>

\* The process dies: every object is gone, and a write may be cut off.
Crash ==
    /\ open # {}
    /\ faults < MaxFaults
    /\ faults' = faults + 1
    /\ \/ UNCHANGED <<file, ended, chains, forged>>
       \/ \E t \in Thread : job[t].stage = "write" /\ Cut(job[t].line)
    /\ open' = {}
    /\ cache' = [h \in Handle |-> NoCache]
    /\ lock' = [h \in Handle |-> NoThread]
    /\ job' = [t \in Thread |-> NoJob]
    /\ UNCHANGED <<shown, acked, damage>>

\* GET /api/runs/{id}/events/stream reads on while the file grows; it starts again
\* from the top for every request.
StreamLine ==
    /\ Len(shown) < Len(file)
    /\ LET line == file[Len(shown) + 1] IN
           /\ Valid(line, Len(shown) + 1, LastHash(shown))
           /\ shown' = Append(shown, line)
    /\ UNCHANGED <<file, ended, open, cache, lock, job, acked, chains, forged, faults, damage>>

StreamRestarts ==
    /\ shown # <<>>
    /\ shown' = <<>>
    /\ UNCHANGED <<file, ended, open, cache, lock, job, acked, chains, forged, faults, damage>>

\* A line of the file, or one behind it, gets a new payload, link and hash.
Forge(i, d) ==
    LET before == SubSeq(file, 1, i - 1)
        line == Line([seq |-> i, data |-> d], LastHash(before)) IN
    /\ i <= MaxSequence
    /\ file' = before \o <<line>> \o SubSeq(file, i + 1, Len(file))
    /\ forged' = forged \cup {line.hash}

\* Somebody edits the file: a line forged, or its payload alone changed, or a line
\* removed, repeated or exchanged.
Edit ==
    /\ damage < MaxDamage
    /\ damage' = damage + 1
    /\ \/ \E i \in 1..(Len(file) + 1), d \in Data : Forge(i, d)
       \/ /\ UNCHANGED forged
          /\ \E i \in DOMAIN file :
                 \/ /\ file[i].kind = "event"
                    /\ \E d \in Data : file' = [file EXCEPT ![i].payload.data = d]
                 \/ file' = RemoveAt(file, i)
                 \/ file' = InsertAt(file, i, file[i])
                 \/ /\ i < Len(file)
                    /\ file' = [file EXCEPT ![i] = file[i + 1], ![i + 1] = file[i]]
    /\ ended' = TRUE
    /\ UNCHANGED <<open, cache, lock, job, shown, acked, chains, faults>>

LedgerNext ==
    \/ \E h \in Handle : Drop(h)
    \/ \E t \in Thread, h \in Handle, d \in Data : Begin(t, h, d)
    \/ \E t \in Thread : Write(t) \/ WriteFails(t) \/ Return(t)
    \/ Crash
    \/ StreamLine \/ StreamRestarts
    \/ Edit

\* A run opens its ledger when it has no other object for it: Orchestrator,
\* WorkflowEngine, and the worker's handler after the run's own object is gone.
Next == LedgerNext \/ \E h \in Handle : open = {} /\ Open(h)

Spec == Init /\ [][Next]_ledgerVars

-----------------------------------------------------------------------------

\* TypeOK: the lines are events and torn lines, and exactly
\* the holder of an object's lock is in its append().
TypeOK ==
    /\ file \in Seq([kind : {"event"}, payload : Payload, prev : Seq(Payload),
                     hash : Seq(Payload)] \cup {Torn})
    /\ ended \in BOOLEAN
    /\ open \subseteq Handle
    /\ \A h \in Handle : cache[h].seq \in 0..MaxSequence /\ cache[h].prev \in Seq(Payload)
    /\ lock \in [Handle -> Thread \cup {NoThread}]
    /\ \A t \in Thread : job[t] # NoJob =>
           job[t].stage \in {"write", "adopt"} /\ job[t].handle \in open
    /\ \A h \in Handle, t \in Thread :
           lock[h] = t <=> (job[t] # NoJob /\ job[t].handle = h)
    /\ faults \in 0..MaxFaults
    /\ damage \in 0..MaxDamage

\* ReplaysUntouched: a file that nothing cut off and nobody edited replays, however
\* many threads append and however often its object is dropped and made again.
ReplaysUntouched == faults = 0 /\ damage = 0 => Replays(file)

\* AcknowledgedStays: what append() returned before the first failure stays in the
\* replay, at its own number, through later failures, kills and appends.
AcknowledgedStays ==
    damage = 0 => \A line \in acked :
        /\ line.payload.seq <= Len(Accepted(file))
        /\ file[line.payload.seq] = line

\* AcceptedWasWritten: in a file that replays, the payloads up to each line are a chain
\* that append() has written, unless somebody computed a new hash for that very chain or
\* for a beginning of it that append() then built on.  A payload changed, a line taken
\* out, repeated or moved passes only if the hashes of that line and of all behind it are
\* computed anew (lines missing at the end go unnoticed).
AcceptedWasWritten ==
    Replays(file) =>
        \A i \in DOMAIN file : [k \in 1..i |-> file[k].payload] \in chains \cup forged

\* StreamShowsChain: so is what the API stream shows, although the file may be edited
\* or cut off between the lines it reads.
StreamShowsChain ==
    shown # <<>> => [i \in DOMAIN shown |-> shown[i].payload] \in chains \cup forged

=============================================================================
