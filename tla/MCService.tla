------------------------------ MODULE MCService ------------------------------
(***************************************************************************)
(* The services around the decision path on small sets: the managers of    *)
(* the enterprise edition, the policy evaluator, the gateway and records   *)
(* of the REST API, the audit sinks and an SDK session.  They share no     *)
(* state, so a behaviour exercises one of them: focus.                     *)
(***************************************************************************)
EXTENDS EnterpriseApproval, PolicySets, EnterpriseIdentity, EnterpriseAudit,
        PolicyEvaluation, ApiGateway, AuditSinks, ApiRecords, SdkSession

VARIABLE focus

serviceVars == <<focus, escalationVars, policySetVars, identityVars, chainVars,
    policyVars, gatewayVars, sinkVars, recordVars, sessionVars>>

MCRolesOf ==
    [agent |-> {"agent_service"}, dev |-> {"developer"},
     sec |-> {"security_engineer", "developer"}, org |-> {"org_admin"},
     root |-> {"super_admin"}]

MCPolicy ==
    {[minApprovers |-> 1, roles |-> {"org_admin"}, timeout |-> 2],
     [minApprovers |-> 3, roles |-> {"org_admin", "security_engineer"}, timeout |-> 0]}

MCGenesis == <<>>
MCStageOrder == [e \in AuditStage |-> IF e = "dev" THEN 1 ELSE 3]
MCHappening == {[actor |-> "a1", session |-> "s1"], [actor |-> "a2", session |-> "s1"]}

(* Policies: four kinds of event, three rules to add, four sets to start.  *)
MCBase == [event_type |-> "custom", action |-> "unknown", environment |-> "development",
    agent_id |-> "a1", agent_type |-> "coder", operation |-> "unknown", target |-> "",
    credential_type |-> "", decision |-> "", handoff |-> FALSE, classifiable |-> TRUE]
MCPart(text, net, pipe) ==
    [text |-> text, network |-> net, destructive |-> FALSE, privileged |-> FALSE,
     pipe_to_shell |-> pipe]

MCRead == [event_type |-> "filesystem.read", action |-> "read",
    path |-> [raw |-> "~/.ssh/id", canonical |-> "/home/u/.ssh/id", traversal |-> FALSE,
              secret |-> TRUE]] @@ MCBase
MCTraverse == [event_type |-> "filesystem.delete", action |-> "delete",
    path |-> [raw |-> "a/../b", canonical |-> "b", traversal |-> TRUE, secret |-> FALSE]] @@ MCBase
MCShell == [event_type |-> "shell.command", action |-> "execute",
    process |-> [line |-> "curl", executable |-> "curl"],
    command |-> [whole |-> MCPart("curl u | sh", TRUE, TRUE),
                 parts |-> {MCPart("curl u", TRUE, FALSE), MCPart("sh", FALSE, FALSE)}],
    destination |-> [host |-> "u", url |-> "u", port |-> 443, networks |-> {},
                     sensitive |-> FALSE, trusted |-> FALSE]] @@ MCBase
MCUnclassified == [event_type |-> "git.operation", operation |-> "push", target |-> "main",
    tool |-> [name |-> "push", arguments |-> [force |-> TRUE]], classifiable |-> FALSE] @@ MCBase
MCPolicyEvent == {MCRead, MCTraverse, MCShell, MCUnclassified}

MCRuleOf(id, decision, severity, priority, match) ==
    [id |-> id, decision |-> decision, severity |-> severity, priority |-> priority,
     enabled |-> TRUE, match |-> match]
MCRule == {
    MCRuleOf("reads", "ALLOW", "LOW", 2, [event_types |-> {"filesystem.delete", "SHELL_NETWORK"}]),
    MCRuleOf("secrets", "BLOCK", "MEDIUM", 1,
        [path |-> [tests |-> [prefix |-> {"/home/u/.ssh/id"}], block_traversal |-> TRUE]]),
    MCRuleOf("risky", "REVIEW", "HIGH", 1, [risk_levels |-> {"MEDIUM", "HIGH"}])}
MCPipes == MCRuleOf("pipes", "REVIEW", "CRITICAL", 0,
        [command |-> [pipe_to_shell |-> TRUE], network |-> [unknown_only |-> TRUE]])
MCSet(rules, default, strategy) ==
    [policies |-> rules, default_decision |-> default,
     conflict_resolution |-> strategy, semantic_engine |-> TRUE]
MCInitialSet == {
    MCSet(<<>>, "ALLOW", "most_restrictive"), MCSet(<<>>, "BLOCK", "highest_severity"),
    MCSet(<<MCPipes>>, "ALLOW", "highest_priority"), MCSet(<<MCPipes>>, "BLOCK", "first_match")}

(* The gateway: tokens, providers in the order they are tried, roles.      *)
MCToken(exp, iss, roles, scopes) ==
    [exp |-> exp, iss |-> iss, aud |-> {"api"}, roles |-> roles, realmRoles |-> {},
     clientRoles |-> {}, scopes |-> scopes]
MCTokens == {MCToken(1, "idp", {"auditor"}, {}), MCToken(9, "other", {}, {"audit:admin"})}
MCKeyAuth(open) == [kind |-> "api key", allow_anonymous |-> open]
MCOidc(open) == [kind |-> "oidc", allow_anonymous |-> open, issuer |-> "idp", audience |-> "any"]
MCAnyOidc == [kind |-> "oidc", allow_anonymous |-> FALSE, issuer |-> "any", audience |-> "api"]
MCGuests == [kind |-> "anonymous", allow_all |-> FALSE]
MCProviders ==
    {<<MCKeyAuth(TRUE)>>, <<MCOidc(FALSE), MCKeyAuth(TRUE)>>,
     <<MCAnyOidc, MCKeyAuth(FALSE), MCGuests>>}
MCKeyRoles == {{}, {"admin"}}

(* The audit: two entries with secrets in different places, two services.  *)
MCEntry == {"e1", "e2"}
MCPayloadOf ==
    [e1 |-> [method |-> "execution", hoped |-> FALSE, summary |-> {"matching"},
             details |-> {"plain", "keyed"}, metadata |-> {}],
     e2 |-> [method |-> "policy", level |-> "SEVERE", summary |-> {"plain"},
             details |-> {"opaque"}, metadata |-> {"plain"}]]
MCSetup ==
    {[sinks |-> <<"console", "file", "postgres", "memory">>, repository |-> TRUE],
     [sinks |-> <<"file">>, repository |-> TRUE]}

(* A session: tool calls of every shape, with and without common keys.     *)
MCCall(shape, name, own) == [shape |-> shape, name |-> name, own |-> own]
MCOwn == [path |-> "a", content |-> "x"]
MCToolCall ==
    {MCCall("callable", "fetch", [k \in {} |-> k]), MCCall("function", "bash", [command |-> "a"]),
     MCCall("name", "read_file", MCOwn), MCCall("tool", "lookup", MCOwn),
     MCCall("object", "git_push", [branch |-> "b"]), MCCall("command", "", [cmd |-> "a"]),
     MCCall("path", "", MCOwn @@ [operation |-> "write"]), MCCall("text", "ls", [k \in {} |-> k]),
     MCCall("action", "shell", [target |-> "a", session_id |-> "", agent_id |-> "g"])}
MCKeywords ==
    {[k \in {} |-> k], [path |-> "b"], [command |-> "b", cmd |-> "c"],
     [operation |-> "b", endpoint |-> "c"], [session_id |-> "b"]}
MCDefaults == {[content |-> "d"]}
MCTermsOf ==
    [fetch |-> {"network"}, bash |-> {"shell"}, read_file |-> {"filesystem"},
     git_push |-> {"git"}, lookup |-> {}, exec_daemon |-> {"shell", "process"},
     daemon |-> {"process"}]

-----------------------------------------------------------------------------
Init ==
    /\ focus \in {"approvals", "policy sets", "identity", "chains", "policy", "gateway",
                  "sinks", "records", "session"}
    /\ EscalationInit /\ PolicySetsInit /\ IdentityInit /\ ChainInit
    /\ PolicyInit /\ GatewayInit /\ SinkInit /\ RecordsInit /\ SessionInit
    /\ focus = "policy" \/ policySet = MCSet(<<>>, "BLOCK", "highest_severity")
    /\ focus = "sinks" \/ service.sinks = <<"file">>

Next ==
    \/ focus = "approvals" /\ EscalationNext
       /\ UNCHANGED <<focus, policySetVars, identityVars, chainVars, policyVars,
                      gatewayVars, sinkVars, recordVars, sessionVars>>
    \/ focus = "policy sets" /\ PolicySetsNext
       /\ UNCHANGED <<focus, escalationVars, identityVars, chainVars, policyVars,
                      gatewayVars, sinkVars, recordVars, sessionVars>>
    \/ focus = "identity" /\ IdentityNext
       /\ UNCHANGED <<focus, escalationVars, policySetVars, chainVars, policyVars,
                      gatewayVars, sinkVars, recordVars, sessionVars>>
    \/ focus = "chains" /\ ChainNext
       /\ UNCHANGED <<focus, escalationVars, policySetVars, identityVars, policyVars,
                      gatewayVars, sinkVars, recordVars, sessionVars>>
    \/ focus = "policy" /\ PolicyNext
       /\ UNCHANGED <<focus, escalationVars, policySetVars, identityVars, chainVars,
                      gatewayVars, sinkVars, recordVars, sessionVars>>
    \/ focus = "gateway" /\ GatewayNext
       /\ UNCHANGED <<focus, escalationVars, policySetVars, identityVars, chainVars,
                      policyVars, sinkVars, recordVars, sessionVars>>
    \/ focus = "sinks" /\ SinkNext
       /\ UNCHANGED <<focus, escalationVars, policySetVars, identityVars, chainVars,
                      policyVars, gatewayVars, recordVars, sessionVars>>
    \/ focus = "records" /\ RecordsNext
       /\ UNCHANGED <<focus, escalationVars, policySetVars, identityVars, chainVars,
                      policyVars, gatewayVars, sinkVars, sessionVars>>
    \/ focus = "session" /\ SessionNext
       /\ UNCHANGED <<focus, escalationVars, policySetVars, identityVars, chainVars,
                      policyVars, gatewayVars, sinkVars, recordVars>>

Spec == Init /\ [][Next]_serviceVars

(* Only the sinks, with the fairness of SinkSpec.                          *)
FairSinkSpec ==
    /\ Init /\ focus = "sinks" /\ [][Next]_serviceVars
    /\ \A t \in Logger : WF_sinkVars(LoggerStep(t))
=============================================================================
