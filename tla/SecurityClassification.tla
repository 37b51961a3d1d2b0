----------------------- MODULE SecurityClassification -----------------------
(***************************************************************************)
(* The security state of an event (state/classifier.py, state/taxonomy.py):*)
(* the first of a sequence of tests on its type and its action decides,    *)
(* and what it carries refines the category.  An event is a record; what   *)
(* it does not carry is a field that is missing.  A command is known by    *)
(* the profiles its text matches, a destination by the lists its host is   *)
(* on, a path by whether it names secrets.                                 *)
(***************************************************************************)
Has(r, field) == field \in DOMAIN r

IsA(e, type, actions) == e.event_type = type \/ e.action \in actions

ShellCategory(c) ==
    CASE c.destructive -> "SHELL_DESTRUCTIVE"
      [] c.privileged /\ ~c.destructive -> "SHELL_PRIVILEGED"
      [] c.network /\ ~c.privileged /\ ~c.destructive -> "SHELL_NETWORK"
      [] OTHER -> "SHELL_SAFE"

NetworkCategory(dest) ==
    CASE dest.sensitive -> "NETWORK_SENSITIVE"
      [] dest.trusted /\ ~dest.sensitive -> "NETWORK_TRUSTED"
      [] OTHER -> "NETWORK_UNKNOWN"

IsFile(e) ==
    \/ e.event_type \in {"filesystem.read", "filesystem.write", "filesystem.delete"}
    \/ e.action \in {"read", "write", "delete", "modify", "remove"}

FileCategory(e) ==
    IF Has(e, "path") /\ e.path.secret THEN "SECRET_ACCESS"
    ELSE IF IsA(e, "filesystem.delete", {"delete", "remove", "drop", "unlink"}) THEN "FILE_DELETE"
    ELSE IF IsA(e, "filesystem.write", {"write", "modify", "append", "touch"}) THEN "FILE_WRITE"
    ELSE "FILE_READ"

GitCategory(e) ==
    CASE e.operation = "commit" -> "GIT_COMMIT"
      [] e.operation = "push" -> "GIT_PUSH"
      [] OTHER -> "GIT_READ"

PolicyCategory(e) ==
    CASE e.decision \in {"block", "deny", "reject"} -> "POLICY_BLOCK"
      [] e.decision \in {"review", "warn", "audit", "escalate"} -> "POLICY_REVIEW"
      [] OTHER -> "POLICY_ALLOW"

(* _determine_category_and_attributes: the tests in their order.           *)
Category(e) ==
    IF IsA(e, "shell.command", {"execute", "run", "shell"})
    THEN IF Has(e, "command") THEN ShellCategory(e.command.whole) ELSE "SHELL_SAFE"
    ELSE IF IsA(e, "network.request", {"connect", "network", "http"})
    THEN IF Has(e, "destination") THEN NetworkCategory(e.destination) ELSE "NETWORK_UNKNOWN"
    ELSE IF IsFile(e) THEN FileCategory(e)
    ELSE IF e.event_type = "git.operation" THEN GitCategory(e)
    ELSE IF IsA(e, "process.creation", {"spawn", "create", "start"}) THEN "PROCESS_CREATE"
    ELSE IF IsA(e, "process.termination", {"kill", "stop", "terminate", "abort"})
    THEN "PROCESS_TERMINATE"
    ELSE IF IsA(e, "credential.access", {"credential"})
    THEN IF e.credential_type = "secret" THEN "SECRET_ACCESS" ELSE "CREDENTIAL_ACCESS"
    ELSE IF e.event_type = "llm.request" THEN "LLM_REQUEST"
    ELSE IF e.event_type = "llm.response" THEN "LLM_RESPONSE"
    ELSE IF IsA(e, "tool.call", {"call", "invoke"}) THEN "TOOL_CALL"
    ELSE IF IsA(e, "tool.result", {"result", "complete", "error"}) THEN "TOOL_RESULT"
    ELSE IF IsA(e, "agent.communication", {"send", "receive"})
    THEN IF e.handoff THEN "AGENT_HANDOFF" ELSE "AGENT_MESSAGE"
    ELSE IF IsA(e, "human.approval", {"approve", "approval"}) THEN "HUMAN_APPROVAL"
    ELSE IF IsA(e, "policy.decision", {"allow", "block", "review"}) THEN PolicyCategory(e)
    ELSE "UNKNOWN"

(* The baseline risk of a category, which _evaluate_risk always returns.   *)
RiskOf(category) ==
    CASE category = "SHELL_DESTRUCTIVE" -> "CRITICAL"
      [] category \in {"SHELL_PRIVILEGED", "SECRET_ACCESS", "CREDENTIAL_ACCESS",
                       "NETWORK_SENSITIVE", "POLICY_BLOCK"} -> "HIGH"
      [] category \in {"FILE_DELETE", "SHELL_NETWORK", "GIT_PUSH", "POLICY_REVIEW",
                       "PROCESS_TERMINATE"} -> "MEDIUM"
      [] category \in {"FILE_WRITE", "GIT_COMMIT", "PROCESS_CREATE", "NETWORK_UNKNOWN",
                       "TOOL_CALL", "TOOL_RESULT", "HUMAN_APPROVAL", "AGENT_HANDOFF",
                       "POLICY_ALLOW"} -> "LOW"
      [] OTHER -> "INFO"
=============================================================================
