-------------------------- MODULE EnterpriseAudit --------------------------
(***************************************************************************)
(* EnterpriseAuditManager (enterprise/audit.py): a chain of records for    *)
(* each tenant and environment, all under one lock.  The digest of a       *)
(* record is what it is computed from: digests do not collide.             *)
(***************************************************************************)
EXTENDS Integers, Sequences, SequencesExt, FiniteSets, AccessControl

CONSTANTS
    AuditTenant, AuditStage,
    StageOrder,     \* where a stage is in list(Environment)
    Happening,      \* actor, session, action and verdict of an entry
    Genesis,        \* GENESIS_HASH
    MaxChained      \* records that are made

ASSUME ChainAssumption ==
    /\ MaxChained \in Nat
    /\ \A e \in AuditStage : StageOrder[e] \in Nat
    /\ \A e, f \in AuditStage : StageOrder[e] = StageOrder[f] => e = f

VARIABLES
    chains,         \* _chains: by tenant and environment
    recorded        \* how often record_entry has returned

chainVars == <<chains, recorded>>

ChainInit ==
    /\ chains = [p \in AuditTenant \X AuditStage |-> <<>>]
    /\ recorded = 0

Digest(content, prev_hash) == <<content, prev_hash>>

ContentOf(tenant, environment, happening) ==
    [tenant |-> tenant, environment |-> environment, happening |-> happening]

MutantPreviousHash(p) ==
    LET last == {q \in DOMAIN chains : q[1] = p[1] /\ chains[q] # <<>>} IN
    IF last = {} THEN Genesis ELSE Last(chains[CHOOSE q \in last : TRUE]).hash

PreviousHash(p) == IF chains[p] = <<>> THEN Genesis ELSE Last(chains[p]).hash

(* record_entry                                                            *)
RecordEntry(p, happening) ==
    LET content == ContentOf(p[1], p[2], happening) IN
    /\ recorded < MaxChained
    /\ chains' = [chains EXCEPT ![p] = Append(@,
            [content |-> content, prev_hash |-> PreviousHash(p),
             hash |-> Digest(content, PreviousHash(p))])]
    /\ recorded' = recorded + 1

(* verify_chain                                                            *)
VerifyChain(p) ==
    \A i \in DOMAIN chains[p] :
        LET entry == chains[p][i] IN
        /\ entry.prev_hash = IF i = 1 THEN Genesis ELSE chains[p][i - 1].hash
        /\ entry.hash = Digest(entry.content, entry.prev_hash)

(* Where the entries are: in a chain, at an index.                         *)
Positions == UNION {{p} \X DOMAIN chains[p] : p \in DOMAIN chains}
EntryAt(x) == chains[x[1]][x[2]]

Sooner(x, y) ==
    \/ StageOrder[x[1][2]] < StageOrder[y[1][2]]
    \/ x[1] = y[1] /\ x[2] > y[2]

(* query_records: by environment and newest first in each, until there are *)
(* as many as the limit; the first is appended before that is looked at.   *)
QueryRecords(tenant, environments, session, actor, limit) ==
    LET found == {x \in Positions :
            /\ x[1][1] = tenant /\ x[1][2] \in environments
            /\ session \in {EntryAt(x).content.happening.session, "any"}
            /\ actor \in {EntryAt(x).content.happening.actor, "any"}}
        earlier(x) == {y \in found : Sooner(y, x)}
    IN  {EntryAt(x) : x \in {y \in found : earlier(y) = {} \/ Cardinality(earlier(y)) < limit}}

ChainNext == \E p \in DOMAIN chains, happening \in Happening : RecordEntry(p, happening)

ChainSpec == ChainInit /\ [][ChainNext]_chainVars

-----------------------------------------------------------------------------
AllContents == {EntryAt(x).content : x \in Positions}

Auditor(tenant, environment) ==
    [tenant |-> tenant, environment |-> environment, roles |-> {"compliance_auditor"}]

(* However the entries of tenants and environments alternate, every chain  *)
(* verifies, and together the queries of a tenant, environment by          *)
(* environment or all at once, show the records that TenantIsolationEngine *)
(* leaves of all there are to an auditor of that tenant, and no other.     *)
ChainsVerify ==
    \A tenant \in AuditTenant :
        LET shown(stages) ==
                {entry.content : entry \in QueryRecords(tenant, stages, "any", "any", recorded)}
        IN  /\ \A e \in AuditStage :
                /\ VerifyChain(<<tenant, e>>)
                /\ shown({e}) = FilterByContext(Auditor(tenant, e), AllContents)
            /\ shown(AuditStage) =
                    {content \in AllContents : EnforceAccess(Auditor(tenant, "any"), content.tenant)}
=============================================================================
