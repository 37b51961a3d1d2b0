---------------------------- MODULE ApprovalStore ----------------------------
(***************************************************************************)
(* approvals/store.py: ApprovalStore, one registry object shared by the     *)
(* threads of one process, with its JSON file.                              *)
(*                                                                         *)
(* Every public method runs under the object's RLock from its first to its  *)
(* last statement, so each is one action, the calls it makes to             *)
(* _load_if_exists, _auto_expire_unlocked, record_audit and _persist        *)
(* included.  Several processes on one file are in SharedApprovals.         *)
(*                                                                         *)
(* The file.  A missing file and one that json.load refuses (truncated by   *)
(* open(path, "w") and not completely written) have the same effect on      *)
(* every reader: nothing is loaded.  Both are the empty disk.               *)
(***************************************************************************)
EXTENDS ApprovalRequests

CONSTANTS
    Persistent,     \* is persistence_path set?
    PersistFaults,  \* which swallowed failures of _persist can happen
    TTL,            \* expiration - now of the requests callers create
    Approvers,      \* the sets callers pass as authorized_approvers
    AuditCap,       \* audit entries of one kind are counted up to this bound
    MaxTime         \* bound on the clock

(* "unwritable": open(path, "w") or os.remove raises, the file stays as it  *)
(* was; "torn": the write fails after the truncation; "crash": the process  *)
(* dies after the truncation.                                               *)
ASSUME StoreAssumption ==
    /\ Persistent \in BOOLEAN
    /\ PersistFaults \subseteq {"unwritable", "torn", "crash"}
    /\ TTL \subseteq Nat
    /\ AuditCap \in Nat \ {0}
    /\ MaxTime \in Nat

AuditEvent == {"REQUEST_CREATED", "DECISION_RECORDED", "EXPIRED",
               "REPLAY_ATTEMPT_REJECTED", "UNAUTHORIZED_DECISION_ATTEMPT",
               "INVALID_APPROVAL_TOKEN"}

VARIABLES
    requests,       \* self._requests
    audit,          \* self._audit_log, as the number of entries of each kind
    diskRequests,   \* "requests" in the file
    diskAudit,      \* "audit_log" in the file
    issued,         \* ids already drawn: uuid4 never repeats one
    now             \* wall clock

storeVars == <<requests, audit, diskRequests, diskAudit, issued, now>>

NoRequests == [r \in RequestId |-> NoRequest]
NoAudit == [r \in RequestId |-> [e \in AuditEvent |-> 0]]

Init ==
    /\ requests = NoRequests
    /\ audit = NoAudit
    /\ diskRequests = NoRequests
    /\ diskAudit = NoAudit
    /\ issued = {}
    /\ now = 0

-----------------------------------------------------------------------------
Capped(n) == IF n > AuditCap THEN AuditCap ELSE n

\* record_audit: one entry appended.
Noted(log, r, event) == [log EXCEPT ![r][event] = Capped(@ + 1)]

MutantLoadedAuditReplaces == diskAudit

(* _load_if_exists: the requests of the file replace those of the same id   *)
(* in memory; its audit entries are appended to the ones already there.     *)
LoadedRequests ==
    [r \in RequestId |-> IF diskRequests[r] # NoRequest THEN diskRequests[r]
                                                        ELSE requests[r]]
LoadedAudit ==
    [r \in RequestId |-> [e \in AuditEvent |-> Capped(audit[r][e] + diskAudit[r][e])]]

\* _persist: every failure is logged and swallowed.
Persist(reqs, log) ==
    \/ /\ Persistent
       /\ diskRequests' = reqs
       /\ diskAudit' = log
    \/ /\ ~Persistent \/ "unwritable" \in PersistFaults
       /\ UNCHANGED <<diskRequests, diskAudit>>
    \/ /\ Persistent
       /\ "torn" \in PersistFaults
       /\ diskRequests' = NoRequests
       /\ diskAudit' = NoAudit

\* The new contents of memory, written through to the file.
Commit(reqs, log) ==
    /\ requests' = reqs
    /\ audit' = log
    /\ Persist(reqs, log)
    /\ UNCHANGED <<issued, now>>

\* A method that only loads: memory takes what the file holds.
Refresh ==
    /\ requests' = LoadedRequests
    /\ audit' = LoadedAudit
    /\ UNCHANGED <<diskRequests, diskAudit, issued, now>>

-----------------------------------------------------------------------------
(* save_request / create_request: no load precedes the write.               *)
SaveRequest(r, ttl) ==
    /\ r \notin issued
    /\ requests' = [requests EXCEPT ![r] = Created(now + ttl)]
    /\ audit' = Noted(audit, r, "REQUEST_CREATED")
    /\ Persist(requests', audit')
    /\ issued' = issued \cup {r}
    /\ UNCHANGED now

(* peek_request, and get_request, which makes the same change before it     *)
(* raises for an unknown id: load, then expire this one request if overdue. *)
PeekRequest(r) ==
    \/ /\ ~IsStale(LoadedRequests[r], now)
       /\ Refresh
    \/ /\ IsStale(LoadedRequests[r], now)
       /\ Commit([LoadedRequests EXCEPT ![r] = Expired(@)],
                 Noted(LoadedAudit, r, "EXPIRED"))

(* expire_stale_requests on the given registry contents: every overdue      *)
(* pending request expires, and only then is the file written.              *)
Sweep(reqs, log) ==
    LET stale == {r \in RequestId : IsStale(reqs[r], now)} IN
    \/ /\ stale = {}
       /\ requests' = reqs
       /\ audit' = log
       /\ UNCHANGED <<diskRequests, diskAudit, issued, now>>
    \/ /\ stale # {}
       /\ Commit([r \in RequestId |-> IF r \in stale THEN Expired(reqs[r]) ELSE reqs[r]],
                 [r \in RequestId |->
                    [e \in AuditEvent |->
                        IF r \in stale /\ e = "EXPIRED" THEN Capped(log[r][e] + 1)
                                                        ELSE log[r][e]]])

\* expire_stale_requests called directly works on memory as it stands.
ExpireStaleRequests == Sweep(requests, audit)

ListRequests == Sweep(LoadedRequests, LoadedAudit)

GetAuditLog == Refresh

-----------------------------------------------------------------------------
(* record_decision.  The checks run in the code's order; each refusal is    *)
(* audited and persisted before the exception leaves the method.            *)

Refuse(r, event) == Commit(LoadedRequests, Noted(LoadedAudit, r, event))

RefuseUnauthorized(r, d, approvers) ==
    /\ Unauthorized(d.by, approvers)
    /\ Refuse(r, "UNAUTHORIZED_DECISION_ATTEMPT")

\* The deadline is checked before the status: whatever was recorded, EXPIRED.
RefuseExpired(r) ==
    /\ IsExpired(LoadedRequests[r], now)
    /\ Commit([LoadedRequests EXCEPT ![r] = Expired(@)],
              Noted(LoadedAudit, r, "EXPIRED"))

RefuseToken(r, given, requireToken) ==
    /\ ~IsExpired(LoadedRequests[r], now)
    /\ TokenRefused(LoadedRequests[r], given, requireToken)
    /\ Refuse(r, "INVALID_APPROVAL_TOKEN")

MutantRefuseReplayNotedAsDecision(r) ==
    /\ ~IsExpired(LoadedRequests[r], now)
    /\ LoadedRequests[r].status # "PENDING"
    /\ Refuse(r, "DECISION_RECORDED")

RefuseReplay(r) ==
    /\ ~IsExpired(LoadedRequests[r], now)
    /\ LoadedRequests[r].status # "PENDING"
    /\ Refuse(r, "REPLAY_ATTEMPT_REJECTED")

MutantAcceptAgain(r, d) ==
    /\ ~IsExpired(LoadedRequests[r], now)
    /\ Commit([LoadedRequests EXCEPT ![r] = Decided(@, d)],
              Noted(LoadedAudit, r, "DECISION_RECORDED"))

AcceptDecision(r, d) ==
    /\ ~IsExpired(LoadedRequests[r], now)
    /\ LoadedRequests[r].status = "PENDING"
    /\ Commit([LoadedRequests EXCEPT ![r] = Decided(@, d)],
              Noted(LoadedAudit, r, "DECISION_RECORDED"))

RecordDecision(r, d, given, approvers, requireToken) ==
    \/ LoadedRequests[r] = NoRequest /\ Refresh       \* UnknownApprovalRequestError
    \/ /\ LoadedRequests[r] # NoRequest
       /\ \/ RefuseUnauthorized(r, d, approvers)
          \/ /\ ~Unauthorized(d.by, approvers)
             /\ \/ RefuseExpired(r)
                \/ RefuseToken(r, given, requireToken)
                \/ /\ ~TokenRefused(LoadedRequests[r], given, requireToken)
                   /\ RefuseReplay(r) \/ AcceptDecision(r, d)

-----------------------------------------------------------------------------
(* clear: os.remove takes the file away, or fails and leaves it; no file    *)
(* and an empty one are the same to every reader.                           *)
Clear == Commit(NoRequests, NoAudit)

MutantRestartForgetsDecisions ==
    /\ requests' = [r \in RequestId |->
                        IF diskRequests[r] = NoRequest THEN NoRequest
                        ELSE Created(diskRequests[r].expiration)]
    /\ audit' = diskAudit
    /\ UNCHANGED <<diskRequests, diskAudit, issued, now>>

(* The process stops, between two calls or inside a _persist that had       *)
(* truncated the file, and __init__ loads what is left of it.               *)
Restart ==
    /\ \/ UNCHANGED <<diskRequests, diskAudit>>
       \/ /\ Persistent
          /\ "crash" \in PersistFaults
          /\ diskRequests' = NoRequests
          /\ diskAudit' = NoAudit
    /\ requests' = diskRequests'
    /\ audit' = diskAudit'
    /\ UNCHANGED <<issued, now>>

Tick ==
    /\ now < MaxTime
    /\ now' = now + 1
    /\ UNCHANGED <<requests, audit, diskRequests, diskAudit, issued>>

-----------------------------------------------------------------------------
Submit(r) ==
    \E d \in ApprovalDecision, given \in TokenGiven, approvers \in Approvers,
       requireToken \in BOOLEAN :
        RecordDecision(r, d, given, approvers, requireToken)

Next ==
    \/ \E r \in RequestId :
        \/ \E ttl \in TTL : SaveRequest(r, ttl)
        \/ PeekRequest(r)
        \/ Submit(r)
    \/ ListRequests
    \/ ExpireStaleRequests
    \/ GetAuditLog
    \/ Clear
    \/ Restart
    \/ Tick

Spec == Init /\ [][Next]_storeVars
-----------------------------------------------------------------------------
TypeOK ==
    /\ requests \in [RequestId -> ApprovalRequest \cup {NoRequest}]
    /\ diskRequests \in [RequestId -> ApprovalRequest \cup {NoRequest}]
    /\ audit \in [RequestId -> [AuditEvent -> 0..AuditCap]]
    /\ diskAudit \in [RequestId -> [AuditEvent -> 0..AuditCap]]
    /\ issued \subseteq RequestId
    /\ now \in 0..MaxTime

(* Whatever sequence of calls, expiries, reloads and restarts produced it,  *)
(* every request in memory and in the file has a status that agrees with    *)
(* its recorded decision and has lost its token exactly when it was decided.*)
RequestsWellFormed ==
    \A r \in RequestId : WellFormed(requests[r]) /\ WellFormed(diskRequests[r])

(* "A decision cannot be overturned": while a request is known, the         *)
(* decision recorded on it is the one it keeps, through replays, expiry,    *)
(* reloads and restarts of the process.                                     *)
DecisionIsFinal ==
    [][\A r \in RequestId :
        requests[r].decision # NoDecision /\ requests'[r] # NoRequest
            => requests'[r].decision = requests[r].decision]_storeVars

(* A decision is attached to a request only strictly before its deadline    *)
(* and only while it is pending, including when the value comes from the    *)
(* file rather than from the caller.                                        *)
DecidedInTime ==
    [][\A r \in RequestId :
        requests[r].decision = NoDecision /\ requests'[r].decision # NoDecision
            => requests[r].status = "PENDING" /\ now < requests[r].expiration]_storeVars

(* Every decision and every expiry that can be seen, in memory or after a   *)
(* restart in the file, has its entry in the audit trail of the same place; *)
(* so has every known request its creation.                                 *)
Explained(reqs, log) ==
    \A r \in RequestId :
        /\ reqs[r] # NoRequest => log[r]["REQUEST_CREATED"] > 0
        /\ reqs[r].decision # NoDecision => log[r]["DECISION_RECORDED"] > 0
        /\ reqs[r].status = "EXPIRED" => log[r]["EXPIRED"] > 0

TransitionsAudited == Explained(requests, audit) /\ Explained(diskRequests, diskAudit)

(* Without a file to reload, a request has exactly one creation entry, and  *)
(* exactly one decision entry once it is decided, however often decisions   *)
(* are replayed.                                                            *)
AuditedOnce ==
    \A r \in RequestId :
        requests[r] # NoRequest =>
            /\ audit[r]["REQUEST_CREATED"] = 1
            /\ audit[r]["DECISION_RECORDED"] =
                    IF requests[r].decision # NoDecision THEN 1 ELSE 0

(* With a file whose writes succeed, nothing a caller was told about is     *)
(* only in memory: the file holds the same requests after every call.       *)
DiskMirrorsMemory == diskRequests = requests

(* The registry with its file, lazy expiry and restarts is the abstract     *)
(* lifecycle: a restart is either invisible or forgets everything.          *)
Lifecycle == INSTANCE ApprovalLifecycle
                WITH registry <- requests, drawn <- issued, clock <- now
LifecycleSpec == Lifecycle!Spec

(* docs/approvals/security-model.md:35, "Once a request reaches APPROVED,   *)
(* DENIED, or EXPIRED, its state is immutable".  It does not hold: see the  *)
(* README.                                                                  *)
SettledIsImmutable ==
    [][\A r \in RequestId :
        requests[r].status \in {"APPROVED", "DENIED", "EXPIRED"} /\ requests'[r] # NoRequest
            => requests'[r] = requests[r]]_storeVars
=============================================================================
