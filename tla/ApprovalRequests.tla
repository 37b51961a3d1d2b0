-------------------------- MODULE ApprovalRequests --------------------------
(***************************************************************************)
(* The data of the human approval workflow (approvals/models.py) and the    *)
(* pure decisions the store takes on it (approvals/store.py,                *)
(* security/approval_tokens.py).  No state: ApprovalStore, ApprovalProvider *)
(* and SharedApprovals are built from these operators.                      *)
(*                                                                         *)
(* Abstractions.  A request keeps what the workflow branches on: its        *)
(* status, its deadline, the decision recorded on it and whether its        *)
(* single-use token is still stored.  Payload, evidence, reasons and        *)
(* metadata are carried by the code and never read by it.                   *)
(***************************************************************************)
EXTENDS Naturals

CONSTANTS
    RequestId,      \* the uuid4 request ids callers draw
    Operator        \* the humans that decide requests

SystemTimeout == "system:timeout"    \* decided_by of the providers' timeout verdict
Actor == Operator \cup {SystemTimeout}

ApprovalStatus == {"PENDING", "APPROVED", "DENIED", "EXPIRED", "CANCELLED"}
Verdict == {"APPROVE", "DENY"}

\* What a submitted decision carries in approval_token: nothing, the token the
\* request was created with, or any other string (the empty one included).
TokenGiven == {"none", "issued", "other"}

ApprovalDecision == [verdict : Verdict, by : Actor]
NoDecision == [verdict |-> "NONE", by |-> "nobody"]

ApprovalRequest ==
    [status     : ApprovalStatus,
     expiration : Nat,
     decision   : ApprovalDecision \cup {NoDecision},
     token      : BOOLEAN]        \* TRUE while approval_token is not None

\* "request_id not in self._requests"
NoRequest ==
    [status |-> "ABSENT", expiration |-> 0, decision |-> NoDecision, token |-> FALSE]

Created(expiration) ==
    [status |-> "PENDING", expiration |-> expiration,
     decision |-> NoDecision, token |-> TRUE]

-----------------------------------------------------------------------------
(* Operators named Mutant... are deliberately wrong variants of the          *)
(* definition that follows them; no definition uses them.                    *)
MutantIsExpired(req, now) == now > req.expiration
IsExpired(req, now) == now >= req.expiration

\* What the lazy expiry looks for: still pending, deadline passed.
IsStale(req, now) == req.status = "PENDING" /\ IsExpired(req, now)

Expired(req) == [req EXCEPT !.status = "EXPIRED"]

\* None and the empty set both mean "anybody may decide".
Unauthorized(by, approvers) == approvers # {} /\ by \notin approvers

VerifyToken(given, req) == given = "issued" /\ req.token

\* The token is checked only when one is given or the caller asks for it.
TokenRefused(req, given, requireToken) ==
    (given # "none" \/ requireToken) /\ ~VerifyToken(given, req)

MutantDecidedVerdictAsStatus(req, decision) ==
    [req EXCEPT !.decision = decision, !.token = FALSE, !.status = decision.verdict]
MutantDecidedKeepsToken(req, decision) ==
    [req EXCEPT !.decision = decision,
                !.status   = IF decision.verdict = "APPROVE" THEN "APPROVED" ELSE "DENIED"]

\* Step 5 of record_decision: the decision is attached, the token consumed.
Decided(req, decision) ==
    [req EXCEPT !.decision = decision,
                !.token    = FALSE,
                !.status   = IF decision.verdict = "APPROVE" THEN "APPROVED" ELSE "DENIED"]

-----------------------------------------------------------------------------
(* What every stored request must satisfy, whoever wrote it last: the       *)
(* status agrees with the recorded verdict, nothing undecided is APPROVED   *)
(* or DENIED, and the token is gone exactly when a decision consumed it.    *)
WellFormed(req) ==
    /\ req.status = "PENDING"  => req.decision = NoDecision
    /\ req.status = "APPROVED" => req.decision.verdict = "APPROVE"
    /\ req.status = "DENIED"   => req.decision.verdict = "DENY"
    /\ req.status # "ABSENT"   => (req.token <=> req.decision = NoDecision)
=============================================================================
