----------------------------- MODULE MCRuntime -----------------------------
(***************************************************************************)
(* The pipeline from telemetry to verdicts on small sets.  Its parts share *)
(* no state that both change, so a behaviour exercises one of them: focus. *)
(***************************************************************************)
EXTENDS SequentialTest, RuntimePipeline, Telemetry, MultiAgentTopology

VARIABLE focus

vars == <<focus, sequentialVars, runtimeVars, telemetryVars, topologyVars>>

(* The sequential test: thresholds, rounded odds and increments.           *)
MCBatch == {{<<"a", "a">>}}
MCRaw == {-3, 3}
MCOdds == {1, -1}
MCLower == -1

(* Two roles, and what their agents may say to each other.                 *)
MCPrivilege == [r \in Role |-> IF r = "coder" THEN 20 ELSE 40]
Inter(agent, role, target, targetRole, action) ==
    [agent |-> agent, role |-> role, target |-> target, targetRole |-> targetRole,
     action |-> action, depth |-> 0, chain |-> <<>>]
MCInteraction == {
    Inter("a", "coder", "b", "executor", "delegate"),
    Inter("a", "coder", "b", NoRole, "message"),
    Inter("b", "executor", "a", "coder", "message"),
    Inter("a", "coder", "c", "coder", "handoff"),
    [Inter("b", "executor", "none", NoRole, "spawn") EXCEPT !.depth = 3, !.chain = <<"a", "b">>]}
MCInitialGraph == {Pipeline(<<"coder", "executor">>), Hierarchical("executor", {"coder"}), Mesh(Role)}

Init ==
    /\ focus \in {"sequential", "runtime", "telemetry", "topology"}
    /\ SequentialInit /\ RuntimeInit /\ TelemetryInit /\ TopologyInit
    /\ focus # "sequential" => ~multi
    /\ focus # "topology" => edges = CHOOSE graph \in InitialGraph : TRUE

Next ==
    /\ UNCHANGED focus
    /\ \/ /\ focus = "sequential" /\ SequentialNext
          /\ UNCHANGED <<runtimeVars, telemetryVars, topologyVars>>
       \/ /\ focus = "runtime" /\ RuntimeNext
          /\ UNCHANGED <<sequentialVars, telemetryVars, topologyVars>>
       \/ /\ focus = "telemetry" /\ TelemetryNext
          /\ UNCHANGED <<sequentialVars, runtimeVars, topologyVars>>
       \/ /\ focus = "topology" /\ TopologyNext
          /\ UNCHANGED <<sequentialVars, runtimeVars, telemetryVars>>

Spec == Init /\ [][Next]_vars

=============================================================================
