--------------------------- MODULE DesktopSettings ---------------------------
(***************************************************************************)
(* What the settings page of the desktop application changes: the model    *)
(* providers (DesktopSettingsStore in desktop_settings.py: settings.json   *)
(* and a key ring of the operating system) and the authorized scope (PUT   *)
(* /api/settings/scope in api.py with save_scope() in desktop.py:          *)
(* scope.json, policy.scope and the variable of the API).  Requests run in *)
(* threads of the server without any lock.  An action is one access to a   *)
(* file, the key ring or shared memory.                                    *)
(***************************************************************************)
EXTENDS PolicyEngine, FiniteSets

CONSTANTS
    Caller,        \* threads that serve requests of the settings page
    Name,          \* names of providers
    Entry,         \* a provider's kind, URL and model
    NoEntry,
    Key,           \* credentials
    NoKey,
    MaxChanges,    \* bound: requests that change something
    MaxFailures    \* bound: errors of the disk or the key ring

ASSUME SettingsAssumption ==
    /\ IsFiniteSet(Caller)
    /\ NoEntry \notin Entry
    /\ NoKey \notin Key
    /\ {MaxChanges, MaxFailures} \subseteq Nat

VARIABLES
    settingsFile, settingsTemp, settingsHandle,   \* settings.json
    scopeFile, scopeTemp, scopeHandle,            \* scope.json
    keyring,       \* the key of each provider
    apiScope,      \* scope of create_app(), by which the API accepts tasks
    at,            \* where each caller's request is
    job,           \* what it is about
    made,          \* history: entries, by the changes made to each of them
    overlapped,    \* history: the files of which two changes have been under way together
    broken,        \* history: providers with a change that an error or a kill broke off
    changes,       \* requests begun so far
    failures       \* errors so far

Entries == [Name -> Entry \cup {NoEntry}]
NoEntries == [n \in Name |-> NoEntry]

Providers == INSTANCE ReplacedFile WITH
    Writer <- Caller, Content <- Entries, Nothing <- NoEntries,
    file <- settingsFile, temp <- settingsTemp, handle <- settingsHandle

Authorization == INSTANCE ReplacedFile WITH
    Writer <- Caller, Content <- Scope, Nothing <- DefaultScope,
    file <- scopeFile, temp <- scopeTemp, handle <- scopeHandle

providerVars == <<settingsFile, settingsTemp, settingsHandle, keyring, made>>
scopeVars == <<scopeFile, scopeTemp, scopeHandle, scope, apiScope>>
\* What no single access to a file, the key ring or a variable changes.
historyVars == <<overlapped, broken, changes, failures>>

settingsVars == <<providerVars, scopeVars, at, job, historyVars>>

Place == {"idle", "key", "open", "fill", "replace", "forget", "policy", "api"}

\* op: save, delete or scope; text: what the request will write.
NoJob == [op |-> "none", name |-> "none", key |-> NoKey, entries |-> NoEntries,
          scope |-> DefaultScope]

-----------------------------------------------------------------------------

SettingsInit ==
    /\ Providers!FileInit
    /\ Authorization!FileInit
    /\ keyring = [n \in Name |-> NoKey]
    /\ apiScope = DefaultScope
    /\ at = [c \in Caller |-> "idle"]
    /\ job = [c \in Caller |-> NoJob]
    /\ made = NoEntries
    /\ overlapped = {}
    /\ broken = {}
    /\ changes = 0
    /\ failures = 0

Busy == {c \in Caller : at[c] # "idle"}

OnProviders == {c \in Busy : job[c].op \in {"save", "delete"}}
OnScope == {c \in Busy : job[c].op = "scope"}

Goto(c, place) == at' = [at EXCEPT ![c] = place]

Done(c) ==
    /\ Goto(c, "idle")
    /\ job' = [job EXCEPT ![c] = NoJob]

\* A request for a file arrives; others for the same file may be under way.
Begin(c, place, what, which, others) ==
    /\ at[c] = "idle"
    /\ changes < MaxChanges
    /\ changes' = changes + 1
    /\ overlapped' = IF others = {} THEN overlapped ELSE overlapped \cup {which}
    /\ UNCHANGED <<broken, failures>>
    /\ Goto(c, place)
    /\ job' = [job EXCEPT ![c] = what]

\* A slip: the file is written from the one entry alone.
SaveOnly(n, e) == [NoEntries EXCEPT ![n] = e]

Saved(n, e) == [settingsFile.holds EXCEPT ![n] = e]

\* save_provider(): _read(), and the new entry in what was read. Without a key in the
\* request the stored one stays. A file that is no JSON text is answered with an error.
SaveProvider(c, n, e, k) ==
    /\ Providers!Readable
    /\ Begin(c, IF k = NoKey THEN "open" ELSE "key",
             [NoJob EXCEPT !.op = "save", !.name = n, !.key = k, !.entries = Saved(n, e)],
             "providers", OnProviders)
    /\ UNCHANGED <<providerVars, scopeVars>>

StoreKey(c) ==
    /\ at[c] = "key"
    /\ keyring' = [keyring EXCEPT ![job[c].name] = job[c].key]
    /\ Goto(c, "open")
    /\ UNCHANGED <<settingsFile, settingsTemp, settingsHandle, made, scopeVars, job,
                   historyVars>>

\* delete_provider(): an unknown name is a 404, the rest is in the file first ...
DeleteProvider(c, n) ==
    /\ Providers!Readable
    /\ settingsFile.holds[n] # NoEntry
    /\ Begin(c, "open",
             [NoJob EXCEPT !.op = "delete", !.name = n, !.entries = Saved(n, NoEntry)],
             "providers", OnProviders)
    /\ UNCHANGED <<providerVars, scopeVars>>

\* A slip: the key stays.
ForgetNothing(c) ==
    /\ at[c] = "forget"
    /\ broken' = broken \ {job[c].name}
    /\ Done(c)
    /\ UNCHANGED <<providerVars, scopeVars, overlapped, changes, failures>>

\* ... and then the key, if there is one, in the key ring.
ForgetKey(c) ==
    /\ at[c] = "forget"
    /\ keyring' = [keyring EXCEPT ![job[c].name] = NoKey]
    /\ broken' = broken \ {job[c].name}
    /\ Done(c)
    /\ UNCHANGED <<settingsFile, settingsTemp, settingsHandle, made, scopeVars,
                   overlapped, changes, failures>>

\* A slip: the API's scope is set before the scope is saved.
UpdateScopeFirst(c, s) ==
    /\ Begin(c, "open", [NoJob EXCEPT !.op = "scope", !.scope = s], "scope", OnScope)
    /\ apiScope' = s
    /\ UNCHANGED <<providerVars, scopeFile, scopeTemp, scopeHandle, scope>>

\* PUT /api/settings/scope.
UpdateScope(c, s) ==
    /\ Begin(c, "open", [NoJob EXCEPT !.op = "scope", !.scope = s], "scope", OnScope)
    /\ UNCHANGED <<providerVars, scopeVars>>

OpenTemp(c) ==
    /\ at[c] = "open"
    /\ IF job[c].op = "scope"
       THEN Authorization!Truncate(c) /\ UNCHANGED <<settingsFile, settingsTemp, settingsHandle>>
       ELSE Providers!Truncate(c) /\ UNCHANGED <<scopeFile, scopeTemp, scopeHandle>>
    /\ Goto(c, "fill")
    /\ UNCHANGED <<keyring, made, scope, apiScope, job, historyVars>>

FillTemp(c) ==
    /\ at[c] = "fill"
    /\ IF job[c].op = "scope"
       THEN /\ Authorization!Fill(c, job[c].scope)
            /\ UNCHANGED <<settingsFile, settingsTemp, settingsHandle>>
       ELSE /\ Providers!Fill(c, job[c].entries)
            /\ UNCHANGED <<scopeFile, scopeTemp, scopeHandle>>
    /\ Goto(c, "replace")
    /\ UNCHANGED <<keyring, made, scope, apiScope, job, historyVars>>

\* The change is made when the file is replaced; saving is done then, but for a read
\* of the key ring for the answer.
ReplaceSettings(c) ==
    /\ at[c] = "replace"
    /\ job[c].op # "scope"
    /\ Providers!Replace
    /\ made' = [made EXCEPT ![job[c].name] = job[c].entries[job[c].name]]
    /\ IF job[c].op = "save" THEN Done(c) ELSE Goto(c, "forget") /\ UNCHANGED job
    /\ UNCHANGED <<keyring, scopeVars, historyVars>>

ReplaceScope(c) ==
    /\ at[c] = "replace"
    /\ job[c].op = "scope"
    /\ Authorization!Replace
    /\ Goto(c, "policy")
    /\ UNCHANGED <<providerVars, scope, apiScope, job, historyVars>>

\* The last line of save_scope(), and the line after its call in update_scope().
SetPolicyScope(c) ==
    /\ at[c] = "policy"
    /\ scope' = job[c].scope
    /\ Goto(c, "api")
    /\ UNCHANGED <<providerVars, scopeFile, scopeTemp, scopeHandle, apiScope, job,
                   historyVars>>

SetApiScope(c) ==
    /\ at[c] = "api"
    /\ apiScope' = job[c].scope
    /\ Done(c)
    /\ UNCHANGED <<providerVars, scopeFile, scopeTemp, scopeHandle, scope,
                   historyVars>>

\* The providers that requests of these callers are about.
NamesOf(callers) == {job[c].name : c \in callers \cap OnProviders}

\* An error of the disk or the key ring, or a temporary file that has gone: the request
\* is answered with an error, and what it did so far stays.
RequestFails(c) ==
    /\ \/ /\ failures < MaxFailures
          /\ at[c] \in {"key", "open", "fill", "replace", "forget"}
          /\ failures' = failures + 1
       \/ /\ at[c] = "replace"
          /\ (IF job[c].op = "scope" THEN scopeTemp ELSE settingsTemp).is = "absent"
          /\ UNCHANGED failures
    /\ broken' = broken \cup NamesOf({c})
    /\ Done(c)
    /\ Providers!Close({c})
    /\ Authorization!Close({c})
    /\ UNCHANGED <<keyring, made, scope, apiScope, overlapped, changes>>

RequestStep(c) ==
    \/ StoreKey(c) \/ OpenTemp(c) \/ FillTemp(c) \/ ReplaceSettings(c) \/ ForgetKey(c)
    \/ ReplaceScope(c) \/ SetPolicyScope(c) \/ SetApiScope(c)

SettingsStep ==
    \E c \in Caller :
        \/ \E n \in Name, e \in Entry, k \in Key \cup {NoKey} : SaveProvider(c, n, e, k)
        \/ \E n \in Name : DeleteProvider(c, n)
        \/ \E s \in Scope : UpdateScope(c, s)
        \/ RequestStep(c)
        \/ RequestFails(c)

\* The process dies, and is started again with the scope that create_desktop_runtime()
\* finds in scope.json; it cannot start while that is no JSON text.
SettingsCrash ==
    /\ broken' = broken \cup NamesOf(Caller)
    /\ at' = [c \in Caller |-> "idle"]
    /\ job' = [c \in Caller |-> NoJob]
    /\ Providers!Close(Caller)
    /\ Authorization!Close(Caller)
    /\ scope' = scopeFile.holds
    /\ apiScope' = scopeFile.holds
    /\ UNCHANGED <<keyring, made, overlapped, changes, failures>>

=============================================================================
