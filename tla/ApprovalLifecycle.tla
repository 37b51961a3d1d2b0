-------------------------- MODULE ApprovalLifecycle --------------------------
(***************************************************************************)
(* What the approval registry promises (docs/approvals/security-model.md,   *)
(* Invariants 1 and 2, and the class comment of ApprovalStore), with no     *)
(* file, no lazy expiry and no restart: a request is created pending, is    *)
(* decided at most once and before its deadline, and may be marked expired  *)
(* from its deadline on.  All requests can be forgotten together.           *)
(***************************************************************************)
EXTENDS ApprovalRequests

CONSTANT TTL    \* how far ahead of its creation a deadline can lie

VARIABLES
    registry,   \* [RequestId -> request]
    drawn,      \* ids already used
    clock

lifecycleVars == <<registry, drawn, clock>>

Init ==
    /\ registry = [r \in RequestId |-> NoRequest]
    /\ drawn = {}
    /\ clock = 0

Create(r) ==
    /\ r \notin drawn
    /\ \E ttl \in TTL : registry' = [registry EXCEPT ![r] = Created(clock + ttl)]
    /\ drawn' = drawn \cup {r}
    /\ UNCHANGED clock

Decide(r) ==
    /\ registry[r].status = "PENDING"
    /\ clock < registry[r].expiration
    /\ \E d \in ApprovalDecision : registry' = [registry EXCEPT ![r] = Decided(@, d)]
    /\ UNCHANGED <<drawn, clock>>

\* Any number of overdue requests at once.
Expire ==
    /\ \E late \in SUBSET RequestId :
        /\ \A r \in late : registry[r] # NoRequest /\ clock >= registry[r].expiration
        /\ registry' = [r \in RequestId |-> IF r \in late THEN Expired(registry[r])
                                                          ELSE registry[r]]
    /\ UNCHANGED <<drawn, clock>>

Forget ==
    /\ registry' = [r \in RequestId |-> NoRequest]
    /\ UNCHANGED <<drawn, clock>>

Advance ==
    /\ clock' = clock + 1
    /\ UNCHANGED <<registry, drawn>>

Next ==
    \/ \E r \in RequestId : Create(r) \/ Decide(r)
    \/ Expire
    \/ Forget
    \/ Advance

Spec == Init /\ [][Next]_lifecycleVars
=============================================================================
