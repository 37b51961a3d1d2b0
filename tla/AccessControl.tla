--------------------------- MODULE AccessControl ---------------------------
(***************************************************************************)
(* Who may do what in the enterprise edition: enterprise/rbac.py, and the  *)
(* tenant and environment boundaries of enterprise/isolation.py and        *)
(* enterprise/context.py.  All of it is pure.  Of the permissions only     *)
(* those are kept that the rules tell apart; role names are compared in    *)
(* lower case by the code and are one value here.                          *)
(***************************************************************************)
EXTENDS FiniteSets

Role == {"super_admin", "org_admin", "security_engineer",
         "compliance_auditor", "developer", "agent_service"}

Permission == {"policy:write", "policy:publish", "policy:delete",
               "approval:request", "approval:approve", "approval:deny",
               "event:ingest", "audit:read"}

(* ENTERPRISE_ROLE_PERMISSIONS; "*" is EnterprisePermission.ALL.           *)
RolePermissions ==
    [super_admin        |-> {"*"},
     org_admin          |-> {"policy:write", "policy:publish", "approval:approve",
                             "approval:deny", "audit:read"},
     security_engineer  |-> {"policy:write", "policy:publish", "approval:approve",
                             "approval:deny", "audit:read"},
     compliance_auditor |-> {"audit:read"},
     developer          |-> {"event:ingest"},
     agent_service      |-> {"event:ingest", "approval:request"}]

ASSUME RoleAssumption ==
    DOMAIN RolePermissions = Role /\ \A r \in Role : RolePermissions[r] \subseteq Permission \cup {"*"}

ResolvePermissions(subject) ==
    subject.customPermissions \cup UNION {RolePermissions[r] : r \in subject.roles}

-----------------------------------------------------------------------------
CrossesTenants(subject, resource) ==
    subject.tenant # resource.tenant /\ "super_admin" \notin subject.roles

(* Developers without a second, stronger role keep out of production.      *)
DeveloperInProduction(subject, action, resource) ==
    /\ resource.production
    /\ "developer" \in subject.roles
    /\ subject.roles \cap {"security_engineer", "org_admin", "super_admin"} = {}
    /\ action \in {"policy:write", "policy:publish", "approval:approve"}

ApprovesOwnRequest(subject, action, resource) ==
    action = "approval:approve" /\ resource.owner = subject.id

(* AccessControlEvaluator.evaluate: does it grant the action?              *)
Granted(subject, action, resource) ==
    /\ ~CrossesTenants(subject, resource)
    /\ ~DeveloperInProduction(subject, action, resource)
    /\ ~ApprovesOwnRequest(subject, action, resource)
    /\ {"*", action} \cap ResolvePermissions(subject) # {}

-----------------------------------------------------------------------------
(* TenantIsolationEngine.enforce_access, with a context, and               *)
(* enforce_environment: do they let the call pass?                         *)
EnforceAccess(context, tenant) ==
    "super_admin" \in context.roles \/ context.tenant = tenant

EnforceEnvironment(context, environment) == context.environment = environment

(* filter_by_context                                                       *)
FilterByContext(context, items) ==
    {i \in items :
        \/ "super_admin" \in context.roles
        \/ /\ i.tenant = context.tenant
           /\ EnforceEnvironment(context, i.environment)}
=============================================================================
