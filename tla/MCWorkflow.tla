------------------------------ MODULE MCWorkflow ------------------------------
(***************************************************************************)
(* Constants for the workflow: an assessment or a validation plugin with a *)
(* fallback, one plugin for each other capability, two targets in scope    *)
(* and one outside.                                                        *)
(***************************************************************************)
EXTENDS Workflow

CONSTANTS d, a, b, v, w, c, x, y, z, f, bad, g

MCRegistry ==
    [k \in Capability |-> CASE k = "target_discovery"      -> <<d>>
                            [] k = "assessment"            -> <<a>>
                            [] k = "controlled_validation" -> <<v, w>>
                            [] k = "cleanup"               -> <<c>>]

\* Nobody can discover, validate or clean up.
MCAssessmentOnly == [k \in Capability |-> IF k = "assessment" THEN <<a, b>> ELSE <<>>]

Setup(targets, prohibited, plugins) ==
    [scope |-> [targets |-> targets, prohibited |-> prohibited], registry |-> plugins]

\* A restart may find a scope without the first target, a scope that forbids the
\* validation, or no plugins.
MCSetups == {Setup(<<x, y>>, {}, MCRegistry), Setup(<<y>>, {v}, MCRegistry),
             Setup(<<x, y>>, {}, [k \in Capability |-> <<>>])}

MCSetupsProhibited == {Setup(<<x>>, {b}, MCAssessmentOnly)}
MCSetupsOne == {Setup(<<x>>, {}, MCAssessmentOnly)}

\* Nothing, two targets in scope, or one of them outside.
MCDiscovered == {<<>>, <<y, x>>, <<x, z>>}
MCFound == {<<f, g>>, <<f, bad>>}
MCFoundOne == {<<>>, <<f>>}

=============================================================================
