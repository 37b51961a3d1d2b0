----------------------------- MODULE PolicySets -----------------------------
(***************************************************************************)
(* Hierarchical policy sets: PolicySetManager (enterprise/policyset.py).   *)
(* Every method runs under one lock; resolve_effective_policies works on   *)
(* the list it took under it.  Rules are left out: a policy set stands for *)
(* its rules, and the digest for the sequence of sets.                     *)
(***************************************************************************)
EXTENDS Subsequences

CONSTANTS
    SetId,          \* policy set ids
    Tenant,
    Unit,           \* organizations and projects
    Stage,          \* environments
    AnyStage        \* environment None: applies to all

VARIABLES
    policySets,     \* _policysets
    tenantIndex     \* _tenant_index

policySetVars == <<policySets, tenantIndex>>

NoPolicySet == [scope |-> "none", immutable |-> FALSE]

PolicySet ==
    [tenant : Tenant, scope : {"tenant", "organization", "project"}, unit : Unit,
     stage : Stage \cup {AnyStage}, immutable : BOOLEAN]

PolicySetsInit ==
    /\ policySets = [i \in SetId |-> NoPolicySet]
    /\ tenantIndex = [t \in Tenant |-> <<>>]

Listed(ids, i) == \E k \in DOMAIN ids : ids[k] = i

(* register_policyset: an immutable set can be replaced, but only by an    *)
(* immutable one; the index of an earlier owner keeps the id.              *)
RegisterPolicySet(i, set) ==
    /\ ~(policySets[i].immutable /\ ~set.immutable)
    /\ policySets' = [policySets EXCEPT ![i] = set]
    /\ tenantIndex' =
            IF Listed(tenantIndex[set.tenant], i) THEN tenantIndex
            ELSE [tenantIndex EXCEPT ![set.tenant] = Append(@, i)]

(* ids without the first i.                                                *)
Without(ids, i) ==
    Kept(ids, {k \in DOMAIN ids : ids[k] = i => \E j \in 1..(k - 1) : ids[j] = i})

(* delete_policyset: False for an unknown id, refused for an immutable set.*)
DeletePolicySet(i) ==
    /\ policySets[i] # NoPolicySet
    /\ ~policySets[i].immutable
    /\ policySets' = [policySets EXCEPT ![i] = NoPolicySet]
    /\ tenantIndex' = [tenantIndex EXCEPT ![policySets[i].tenant] = Without(@, i)]

PolicySetsNext ==
    \E i \in SetId :
        \/ \E set \in PolicySet : RegisterPolicySet(i, set)
        \/ DeletePolicySet(i)

PolicySetsSpec == PolicySetsInit /\ [][PolicySetsNext]_policySetVars

-----------------------------------------------------------------------------
(* list_by_tenant: where in its index the sets of a tenant are.            *)
ListByTenant(t) == {k \in DOMAIN tenantIndex[t] : policySets[tenantIndex[t][k]] # NoPolicySet}

MutantApplies(set, unit, stage) ==
    set.stage = stage /\ (set.scope = "tenant" \/ set.unit = unit)

Applies(set, unit, stage) ==
    set.stage \in {AnyStage, stage} /\ (set.scope = "tenant" \/ set.unit = unit)

(* The level at which resolve_effective_policies puts a set for a tenant's *)
(* unit; 0: it does not apply.                                             *)
Level(set, unit, stage) ==
    IF ~Applies(set, unit, stage) THEN 0
    ELSE IF set.scope = "tenant" THEN (IF set.immutable THEN 1 ELSE 2)
    ELSE IF set.scope = "organization" THEN 3
    ELSE 4

AtLevel(t, unit, stage, n) ==
    LET ids == tenantIndex[t] IN
    Kept(ids, {k \in ListByTenant(t) : Level(policySets[ids[k]], unit, stage) = n})

(* resolve_effective_policies: applied_policyset_ids.                      *)
ResolveEffectivePolicies(t, unit, stage) ==
    AtLevel(t, unit, stage, 1) \o AtLevel(t, unit, stage, 2)
        \o AtLevel(t, unit, stage, 3) \o AtLevel(t, unit, stage, 4)

-----------------------------------------------------------------------------
IsGuardrail(i) == policySets[i].scope = "tenant" /\ policySets[i].immutable

(* After any sequence of registrations, replacements, moves between        *)
(* tenants and deletions, each tenant-wide immutable set is among the      *)
(* effective policies of its tenant exactly once, in every environment it  *)
(* is meant for, and before every set that is not a guardrail.             *)
GuardrailsApply ==
    \A i \in SetId : IsGuardrail(i) =>
        \A unit \in Unit, stage \in Stage :
            policySets[i].stage \in {AnyStage, stage} =>
                LET ids == ResolveEffectivePolicies(policySets[i].tenant, unit, stage) IN
                \E k \in DOMAIN ids :
                    /\ ids[k] = i
                    /\ \A j \in DOMAIN ids : j # k => ids[j] # i
                    /\ \A j \in 1..(k - 1) : IsGuardrail(ids[j])

=============================================================================
