------------------------- MODULE EnterpriseApproval -------------------------
(***************************************************************************)
(* Dual control: EnterpriseApprovalManager (enterprise/approval.py).  A    *)
(* request needs the signatures its policy asked for when it was created;  *)
(* who may sign is what the policy says when they sign.  Every method runs *)
(* under one lock, except that create_request reads the policy and the     *)
(* clock before it takes it: BeginCreate and FinishCreate.  A partition is *)
(* a tenant with an environment, the key of _policies.                     *)
(***************************************************************************)
EXTENDS AccessControl, Integers, Sequences

CONSTANTS
    Request,        \* request ids
    Creator,        \* threads that create requests
    Principal,      \* who may sign, reject or own a request
    RolesOf,        \* the roles each of them presents
    Partition,      \* tenant and environment
    Production,     \* the partitions whose environment is production
    Policy,         \* the policies administrators set
    DefaultTimeout, \* 300 seconds, in ticks
    NoOne,          \* not a principal
    MaxTime         \* bound on the clock

ApprovalPolicy == [minApprovers : Nat \ {0}, roles : SUBSET Role, timeout : Nat]

ASSUME EnterpriseAssumption ==
    /\ RolesOf \in [Principal -> SUBSET Role]
    /\ Production \subseteq Partition
    /\ Policy \subseteq ApprovalPolicy
    /\ DefaultTimeout \in Nat /\ MaxTime \in Nat
    /\ NoOne \notin Principal

VARIABLES
    policies,       \* _policies
    escalations,    \* _requests
    creating,       \* what each creator has read before the lock
    time

escalationVars == <<policies, escalations, creating, time>>

NoPolicy == [minApprovers |-> 0]
NoEscalation == [status |-> "none"]
NotCreating == [expires |-> 0, required |-> 0]

(* get_approval_policy, with its default.                                  *)
GetApprovalPolicy(p) ==
    IF policies[p] # NoPolicy
      THEN policies[p]
      ELSE [minApprovers |-> IF p \in Production THEN 2 ELSE 1,
            roles |-> {"security_engineer", "org_admin", "super_admin"},
            timeout |-> DefaultTimeout]

EscalationInit ==
    /\ policies = [p \in Partition |-> NoPolicy]
    /\ escalations = [r \in Request |-> NoEscalation]
    /\ creating = [c \in Creator |-> NotCreating]
    /\ time = 0

-----------------------------------------------------------------------------
SetApprovalPolicy(p, policy) ==
    /\ policies' = [policies EXCEPT ![p] = policy]
    /\ UNCHANGED <<escalations, creating, time>>

(* create_request before the lock ...                                      *)
BeginCreate(c, p) ==
    /\ creating[c] = NotCreating
    /\ creating' = [creating EXCEPT ![c] =
            [partition |-> p, required |-> GetApprovalPolicy(p).minApprovers,
             expires |-> time + GetApprovalPolicy(p).timeout]]
    /\ UNCHANGED <<policies, escalations, time>>

(* ... and under it.                                                       *)
FinishCreate(c, r, agent) ==
    /\ creating[c] # NotCreating
    /\ escalations[r] = NoEscalation
    /\ escalations' = [escalations EXCEPT ![r] =
            [status |-> "PENDING", partition |-> creating[c].partition,
             agent |-> agent, required |-> creating[c].required,
             approvedBy |-> <<>>, rejectedBy |-> NoOne,
             expires |-> creating[c].expires]]
    /\ creating' = [creating EXCEPT ![c] = NotCreating]
    /\ UNCHANGED <<policies, time>>

-----------------------------------------------------------------------------
TimedOut(e) == e.status = "PENDING" /\ time > e.expires

(* _evaluate_timeout                                                       *)
EvaluateTimeout(e) == IF TimedOut(e) THEN [e EXCEPT !.status = "EXPIRED"] ELSE e

(* get_request, or list_pending of a tenant and environment: what has      *)
(* timed out is stored as EXPIRED, nothing else changes.                   *)
ExpireAll(rs) ==
    /\ escalations' =
            [r \in Request |->
                IF r \in rs THEN EvaluateTimeout(escalations[r]) ELSE escalations[r]]
    /\ UNCHANGED <<policies, creating, time>>

GetEscalation(r) == ExpireAll({r})

(* All requests of the partition's tenant are looked at; the environment   *)
(* only filters what is returned.                                          *)
ListPendingEscalations == ExpireAll({r \in Request : escalations[r] # NoEscalation})

Store(r, e) ==
    /\ escalations' = [escalations EXCEPT ![r] = e]
    /\ UNCHANGED <<policies, creating, time>>

(* approve or reject of a request that has timed out: expired and refused. *)
RefuseOverdue(r) ==
    /\ TimedOut(escalations[r])
    /\ Store(r, EvaluateTimeout(escalations[r]))

MutantHoldsRole(by, e) ==
    \/ policies[e.partition] = NoPolicy
    \/ RolesOf[by] \cap (policies[e.partition].roles \cup {"super_admin"}) # {}

HoldsRole(by, e) ==
    RolesOf[by] \cap (GetApprovalPolicy(e.partition).roles \cup {"super_admin"}) # {}

MutantHasSigned(by, e) == e.approvedBy # <<>> /\ e.approvedBy[Len(e.approvedBy)] = by

HasSigned(by, e) == \E i \in DOMAIN e.approvedBy : e.approvedBy[i] = by

Signed(e, by) ==
    LET signatures == Append(e.approvedBy, by) IN
    [e EXCEPT !.approvedBy = signatures,
              !.status = IF Len(signatures) >= e.required THEN "APPROVED" ELSE "PENDING"]

(* approve, when it does not raise: not the requester, a role the policy   *)
(* allows now, not twice.                                                  *)
Approve(r, by) ==
    LET e == escalations[r] IN
    /\ e.status = "PENDING" /\ ~TimedOut(e)
    /\ by # e.agent
    /\ HoldsRole(by, e)
    /\ ~HasSigned(by, e)
    /\ Store(r, Signed(e, by))

MutantRejectTwice(r, by) ==
    LET e == escalations[r] IN
    /\ e.status \in {"PENDING", "APPROVED"} /\ ~TimedOut(e)
    /\ Store(r, [e EXCEPT !.status = "REJECTED", !.rejectedBy = by])

(* reject asks neither for a role nor for another principal.               *)
Reject(r, by) ==
    LET e == escalations[r] IN
    /\ e.status = "PENDING" /\ ~TimedOut(e)
    /\ Store(r, [e EXCEPT !.status = "REJECTED", !.rejectedBy = by])

PassTime ==
    /\ time < MaxTime
    /\ time' = time + 1
    /\ UNCHANGED <<policies, escalations, creating>>

EscalationNext ==
    \/ \E p \in Partition, policy \in Policy : SetApprovalPolicy(p, policy)
    \/ \E c \in Creator, p \in Partition : BeginCreate(c, p)
    \/ \E c \in Creator, r \in Request, agent \in Principal : FinishCreate(c, r, agent)
    \/ \E r \in Request : GetEscalation(r) \/ RefuseOverdue(r)
    \/ ListPendingEscalations
    \/ \E r \in Request, by \in Principal : Approve(r, by) \/ Reject(r, by)
    \/ PassTime

EscalationSpec == EscalationInit /\ [][EscalationNext]_escalationVars

-----------------------------------------------------------------------------
SubjectOf(by) ==
    [id |-> by, tenant |-> "own", roles |-> RolesOf[by], customPermissions |-> {}]
ResourceOf(e) ==
    [owner |-> e.agent, tenant |-> "own", production |-> e.partition \in Production]

(* However approvals, refusals, expiry and changes of policy interleave, a *)
(* request is APPROVED exactly when as many different principals as it     *)
(* asked for have signed, none of them the agent that wants the action and *)
(* each one that AccessControlEvaluator too would grant approval:approve   *)
(* on it, as long as policies name roles that hold that permission.        *)
DualControl ==
    \A r \in Request : escalations[r] # NoEscalation =>
        LET e == escalations[r] IN
        /\ \A i \in DOMAIN e.approvedBy :
                Granted(SubjectOf(e.approvedBy[i]), "approval:approve", ResourceOf(e))
        /\ e.status = "APPROVED" => Len(e.approvedBy) >= e.required
        /\ e.status = "PENDING" => Len(e.approvedBy) < e.required
        /\ \A i, j \in DOMAIN e.approvedBy :
                i # j => e.approvedBy[i] # e.approvedBy[j]
        /\ \A i \in DOMAIN e.approvedBy : e.approvedBy[i] # e.agent

(* A request that has been approved, rejected or has expired is settled:   *)
(* approve, reject, get_request and list_pending leave it as it is, and    *)
(* nobody signs after the deadline.                                        *)
ResolvedIsFinal ==
    [][\A r \in Request :
        escalations'[r] # escalations[r] =>
            \/ escalations[r] = NoEscalation
            \/ /\ escalations[r].status = "PENDING"
               /\ \/ escalations'[r].status = "EXPIRED"
                  \/ time <= escalations[r].expires]_escalationVars

=============================================================================
