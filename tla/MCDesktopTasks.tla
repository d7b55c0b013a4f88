--------------------------- MODULE MCDesktopTasks ---------------------------
(***************************************************************************)
(* Constants for the desktop runs: up to two tasks on one target, of which *)
(* t2 is the urgent one, three plugins and one worker thread.              *)
(***************************************************************************)
EXTENDS DesktopTasks

CONSTANTS t1, t2, a, b, u, target, worker, api, cli

\* t2 is urgent and has one attempt; t1 may fall back once.
MCMaxAttempts == [t \in Task |-> IF t = t2 THEN 1 ELSE 2]
MCPriority == [t \in Task |-> IF t = t2 THEN 0 ELSE 1]

\* Recovery would go round in circles, and on to a plugin that is not installed.
MCAlternatives ==
    [p \in Plugin |-> SelectSeq(CASE p = a -> <<a, b>> [] p = b -> <<a, u>> [] OTHER -> <<>>,
                                LAMBDA q : q \in Plugin)]
MCTargetOf == [t \in Task |-> target]

\* Everything allowed, and b forbidden.
MCScopes == {[targets |-> {target}, prohibited |-> {}],
             [targets |-> {target}, prohibited |-> {b}]}

\* Everything allowed, and no target in scope (or its time window closed).
MCScopesTarget == {[targets |-> {target}, prohibited |-> {}],
                   [targets |-> {}, prohibited |-> {}]}

=============================================================================
