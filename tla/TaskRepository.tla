--------------------------- MODULE TaskRepository ---------------------------
(***************************************************************************)
(* The tasks table of orchestration.py and the calls that read and write   *)
(* it.  Every connection to the SQLite file sees the same rows; a lock in  *)
(* TaskRepository covers one statement of one connection at a time.  So    *)
(* update() is three steps, with other clients free to run in between: it  *)
(* reads the row, it writes the row it merged from that read, and it reads *)
(* the row again to return it.                                             *)
(***************************************************************************)
EXTENDS Integers, FiniteSets

CONSTANTS
    Task,         \* the ids that create() may hand out
    Plugin,       \* plugin names
    NoPlugin,     \* the absent plugin name
    NoTask,       \* the absent task id
    Client,       \* whoever holds a connection: executors, API and CLI calls
    MaxAttempts,  \* TaskSpec.max_attempts of each task
    Priority      \* TaskSpec.priority of each task, 0 is the most urgent

ASSUME RepositoryAssumption ==
    /\ NoPlugin \notin Plugin
    /\ NoTask \notin Task
    /\ IsFiniteSet(Task)
    /\ MaxAttempts \in [Task -> 1..20]
    /\ Priority \in [Task -> Nat]

VARIABLES
    rows,   \* the table; a task that was not created has status "none"
    upd     \* the update() call each client is in, if any

Terminal == {"succeeded", "failed", "stopped"}

Status == {"none", "queued", "running"} \cup Terminal

\* The checkpoint is kept for its list of tried plugins: no code reads the rest.
Row == [status : Status, attempts : Nat, plugin : Plugin \cup {NoPlugin},
        tried : SUBSET Plugin, born : Nat]

NoRow == [status |-> "none", attempts |-> 0, plugin |-> NoPlugin,
          tried |-> {}, born |-> 0]

Stage == {"none", "read", "write", "get"}

\* keep: attempts and checkpoint were not given and stay as read.
Call == [stage : Stage, task : Task \cup {NoTask}, status : Status, keep : BOOLEAN,
         attempts : Nat, plugin : Plugin \cup {NoPlugin}, tried : SUBSET Plugin]

NoCall == [stage |-> "none", task |-> NoTask, status |-> "none", keep |-> TRUE,
           attempts |-> 0, plugin |-> NoPlugin, tried |-> {}]

Created == {t \in Task : rows[t].status # "none"}

-----------------------------------------------------------------------------

RepositoryInit ==
    /\ rows = [t \in Task |-> NoRow]
    /\ upd = [c \in Client |-> NoCall]

\* A new row is queued at its specification's plugin, after all earlier rows.
Create(t, p) ==
    /\ rows[t].status = "none"
    /\ rows' = [rows EXCEPT ![t] =
                    [status |-> "queued", attempts |-> 0, plugin |-> p,
                     tried |-> {}, born |-> Cardinality(Created)]]

\* A call that gives a status (and an error text) only.
SetStatus(t, status) ==
    [stage |-> "read", task |-> t, status |-> status, keep |-> TRUE,
     attempts |-> 0, plugin |-> NoPlugin, tried |-> {}]

\* A call that also gives the attempts, the checkpoint and perhaps a plugin.
SetProgress(t, status, attempts, plugin, tried) ==
    [stage |-> "read", task |-> t, status |-> status, keep |-> FALSE,
     attempts |-> attempts, plugin |-> plugin, tried |-> tried]

\* A slip: an omitted plugin is written as it was given.
MergeGiven(call, row) ==
    [call EXCEPT !.stage = "write",
                 !.keep = FALSE,
                 !.attempts = IF call.keep THEN row.attempts ELSE call.attempts,
                 !.tried = IF call.keep THEN row.tried ELSE call.tried]

\* What update() will write: the arguments, and the row as read where one is absent.
Merge(call, row) ==
    [call EXCEPT !.stage = "write",
                 !.keep = FALSE,
                 !.attempts = IF call.keep THEN row.attempts ELSE call.attempts,
                 !.tried = IF call.keep THEN row.tried ELSE call.tried,
                 !.plugin = IF call.plugin = NoPlugin THEN row.plugin ELSE call.plugin]

UpdateRead(c) ==
    /\ upd[c].stage = "read"
    /\ rows[upd[c].task].status # "none"
    /\ upd' = [upd EXCEPT ![c] = Merge(upd[c], rows[upd[c].task])]
    /\ UNCHANGED rows

\* The id is unknown: the read raises KeyError.
UpdateUnknown(c) ==
    /\ upd[c].stage = "read"
    /\ rows[upd[c].task].status = "none"
    /\ upd' = [upd EXCEPT ![c] = NoCall]
    /\ UNCHANGED rows

\* One UPDATE statement sets every column, whatever the row holds by now.
UpdateWrite(c) ==
    /\ upd[c].stage = "write"
    /\ rows' = [rows EXCEPT ![upd[c].task] =
                    [status |-> upd[c].status, attempts |-> upd[c].attempts,
                     plugin |-> upd[c].plugin, tried |-> upd[c].tried,
                     born |-> rows[upd[c].task].born]]
    /\ upd' = [upd EXCEPT ![c].stage = "get"]

\* The record returned is the row as it stands now, rows[upd[c].task].
UpdateGet(c) ==
    /\ upd[c].stage = "get"
    /\ upd' = [upd EXCEPT ![c] = NoCall]
    /\ UNCHANGED rows

\* A slip: failed tasks are offered for another claim.
QueuedOrFailed == {t \in Task : rows[t].status \in {"queued", "failed"}}

Queued == {t \in Task : rows[t].status = "queued"}

Precedes(s, t) ==
    \/ Priority[s] < Priority[t]
    \/ Priority[s] = Priority[t] /\ rows[s].born <= rows[t].born

\* The SELECT of claim_next(): the most urgent queued task, the oldest of those.
FirstQueued(t) == t \in Queued /\ \A s \in Queued : Precedes(t, s)

\* Its UPDATE, which does not look at the status again.
ClaimWrite(t) == rows' = [rows EXCEPT ![t].status = "running"]

=============================================================================
