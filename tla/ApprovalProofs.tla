--------------------------- MODULE ApprovalProofs ---------------------------
(***************************************************************************)
(* Theorems about ApprovalStore and ApprovalProvider, for every set of      *)
(* requests and operators, every bound and timeout, polling or prompting,   *)
(* with or without a file, and, unless a theorem says otherwise, every      *)
(* combination of persistence faults.                                       *)
(*                                                                         *)
(* The strengthening of the store is Sound: the pair <<requests, audit>> is *)
(* well typed, well formed and explained, in memory and in the file alike.  *)
(* Each operation builds its new pair from such pairs, so the lemmas speak  *)
(* of pairs and the steps of the store only combine them.                   *)
(*                                                                         *)
(* A thread waiting for an answer holds nothing between its calls on the    *)
(* store; what keeps its answer true is that the store only ages a request  *)
(* or decides a pending one.  The strengthening, Answers, says that an      *)
(* answer is given only when the request is settled, and that no timeout    *)
(* verdict is an approval.                                                  *)
(***************************************************************************)
EXTENDS ApprovalProvider, TLAPS

Registry == [RequestId -> ApprovalRequest \cup {NoRequest}]
AuditLog == [RequestId -> [AuditEvent -> 0..AuditCap]]

Sound(reqs, log) ==
    /\ reqs \in Registry
    /\ log \in AuditLog
    /\ \A r \in RequestId : WellFormed(reqs[r])
    /\ Explained(reqs, log)

\* An id that was never drawn names no request, in memory or in the file.
OnlyIssuedAreKnown ==
    \A r \in RequestId : r \notin issued => requests[r] = NoRequest /\ diskRequests[r] = NoRequest

Inv ==
    /\ Sound(requests, audit)
    /\ Sound(diskRequests, diskAudit)
    /\ issued \subseteq RequestId
    /\ now \in 0..MaxTime
    /\ OnlyIssuedAreKnown

-----------------------------------------------------------------------------
(* The auxiliary counter stays within its bound and never returns to zero.  *)
LEMMA CappedCounts ==
    ASSUME NEW n \in Nat
    PROVE  /\ Capped(n) \in 0..AuditCap
           /\ n > 0 => Capped(n) > 0
BY StoreAssumption DEF Capped

(* Appending an entry keeps the log typed, adds to the one counter and      *)
(* leaves every other counter alone.                                        *)
LEMMA NotedCounts ==
    ASSUME NEW log \in AuditLog, NEW r \in RequestId, NEW e \in AuditEvent
    PROVE  /\ Noted(log, r, e) \in AuditLog
           /\ Noted(log, r, e)[r][e] > 0
           /\ \A s \in RequestId, f \in AuditEvent :
                log[s][f] > 0 => Noted(log, r, e)[s][f] > 0
<1>1. log[r][e] + 1 \in Nat /\ log[r][e] + 1 > 0
  BY StoreAssumption DEF AuditLog
<1>2. Capped(log[r][e] + 1) \in 0..AuditCap /\ Capped(log[r][e] + 1) > 0
  BY <1>1, CappedCounts
<1>3. Noted(log, r, e) = [log EXCEPT ![r] = [log[r] EXCEPT ![e] = Capped(log[r][e] + 1)]]
  BY DEF Noted, AuditLog
<1>4. [log[r] EXCEPT ![e] = Capped(log[r][e] + 1)] \in [AuditEvent -> 0..AuditCap]
  BY <1>2 DEF AuditLog
<1> QED
  BY <1>2, <1>3, <1>4 DEF AuditLog

(* The kinds of entries are distinct strings of AuditEvent.                 *)
LEMMA Events ==
    /\ "REQUEST_CREATED" \in AuditEvent
    /\ "DECISION_RECORDED" \in AuditEvent
    /\ "EXPIRED" \in AuditEvent
    /\ "REPLAY_ATTEMPT_REJECTED" \in AuditEvent
    /\ "UNAUTHORIZED_DECISION_ATTEMPT" \in AuditEvent
    /\ "INVALID_APPROVAL_TOKEN" \in AuditEvent
BY DEF AuditEvent

-----------------------------------------------------------------------------
(* The empty registry is sound.                                             *)
LEMMA EmptyIsSound == Sound(NoRequests, NoAudit)
<1>1. NoAudit \in AuditLog
  BY StoreAssumption DEF NoAudit, AuditLog
<1>2. NoRequests \in Registry
  BY DEF NoRequests, Registry
<1>3. \A r \in RequestId : NoRequests[r] = NoRequest
  BY DEF NoRequests
<1>4. NoRequest.status = "ABSENT" /\ NoRequest.decision = NoDecision
  BY DEF NoRequest
<1> QED
  BY <1>1, <1>2, <1>3, <1>4 DEF Sound, Explained, WellFormed

(* An entry more explains no less.                                          *)
LEMMA NotedIsSound ==
    ASSUME NEW reqs, NEW log, Sound(reqs, log), NEW r \in RequestId, NEW e \in AuditEvent
    PROVE  Sound(reqs, Noted(log, r, e))
BY NotedCounts, Events DEF Sound, Explained

(* One request replaced by a well-formed one, whose change the new log      *)
(* explains, leaves the registry sound.                                     *)
LEMMA ReplacedIsSound ==
    ASSUME NEW reqs, NEW log, Sound(reqs, log), NEW r \in RequestId, NEW e \in AuditEvent,
           NEW req \in ApprovalRequest, WellFormed(req),
           Noted(log, r, e)[r]["REQUEST_CREATED"] > 0,
           req.decision # NoDecision => Noted(log, r, e)[r]["DECISION_RECORDED"] > 0,
           req.status = "EXPIRED" => Noted(log, r, e)[r]["EXPIRED"] > 0
    PROVE  Sound([reqs EXCEPT ![r] = req], Noted(log, r, e))
<1> DEFINE new == [reqs EXCEPT ![r] = req]
<1>1. new \in Registry
  BY DEF Sound, Registry
<1>2. \A s \in RequestId : new[s] = IF s = r THEN req ELSE reqs[s]
  BY DEF Sound, Registry
<1>3. \A s \in RequestId : WellFormed(new[s])
  BY <1>2 DEF Sound
<1>4. Explained(new, Noted(log, r, e))
  BY <1>2, NotedCounts, Events DEF Sound, Explained
<1>5. Noted(log, r, e) \in AuditLog
  BY NotedCounts DEF Sound
<1> QED
  BY <1>1, <1>3, <1>4, <1>5 DEF Sound

(* A known request that expires, whatever its status was.                   *)
LEMMA ExpiredIsSound ==
    ASSUME NEW reqs, NEW log, Sound(reqs, log), NEW r \in RequestId, reqs[r] # NoRequest
    PROVE  Sound([reqs EXCEPT ![r] = Expired(@)], Noted(log, r, "EXPIRED"))
<1>1. reqs[r] \in ApprovalRequest
  BY DEF Sound, Registry
<1>2. Expired(reqs[r]) \in ApprovalRequest
  BY <1>1 DEF Expired, ApprovalRequest, ApprovalStatus
<1>3. WellFormed(Expired(reqs[r])) /\ Expired(reqs[r]).decision = reqs[r].decision
  BY <1>1 DEF Sound, WellFormed, Expired, ApprovalRequest, ApprovalStatus
<1>4. /\ Noted(log, r, "EXPIRED")[r]["REQUEST_CREATED"] > 0
      /\ reqs[r].decision # NoDecision => Noted(log, r, "EXPIRED")[r]["DECISION_RECORDED"] > 0
      /\ Noted(log, r, "EXPIRED")[r]["EXPIRED"] > 0
  BY NotedCounts, Events DEF Sound, Explained
<1>5. [reqs EXCEPT ![r] = Expired(@)] = [reqs EXCEPT ![r] = Expired(reqs[r])]
  OBVIOUS
<1> QED
  BY <1>2, <1>3, <1>4, <1>5, ReplacedIsSound, Events

(* A pending request that is decided.                                       *)
LEMMA DecidedIsSound ==
    ASSUME NEW reqs, NEW log, Sound(reqs, log), NEW r \in RequestId,
           reqs[r].status = "PENDING", NEW d \in ApprovalDecision
    PROVE  Sound([reqs EXCEPT ![r] = Decided(@, d)], Noted(log, r, "DECISION_RECORDED"))
<1>1. reqs[r] \in ApprovalRequest
  BY DEF Sound, Registry, NoRequest
<1>2. d # NoDecision
  BY DEF ApprovalDecision, NoDecision, Verdict
<1>3. Decided(reqs[r], d) \in ApprovalRequest
  BY <1>1 DEF Decided, ApprovalRequest, ApprovalStatus
<1>4. WellFormed(Decided(reqs[r], d)) /\ Decided(reqs[r], d).status # "EXPIRED"
  BY <1>1, <1>2 DEF WellFormed, Decided, ApprovalRequest, ApprovalDecision, Verdict
<1>5. /\ Noted(log, r, "DECISION_RECORDED")[r]["REQUEST_CREATED"] > 0
      /\ Noted(log, r, "DECISION_RECORDED")[r]["DECISION_RECORDED"] > 0
  <2>1. reqs[r] # NoRequest
    BY DEF NoRequest
  <2> QED
    BY <2>1, NotedCounts, Events DEF Sound, Explained
<1>6. [reqs EXCEPT ![r] = Decided(@, d)] = [reqs EXCEPT ![r] = Decided(reqs[r], d)]
  OBVIOUS
<1> QED
  BY <1>3, <1>4, <1>5, <1>6, ReplacedIsSound, Events

(* A request that is created.                                               *)
LEMMA CreatedIsSound ==
    ASSUME NEW reqs, NEW log, Sound(reqs, log), NEW r \in RequestId, NEW t \in Nat
    PROVE  Sound([reqs EXCEPT ![r] = Created(t)], Noted(log, r, "REQUEST_CREATED"))
<1>1. Created(t) \in ApprovalRequest
  BY DEF Created, ApprovalRequest, ApprovalStatus
<1>2. /\ WellFormed(Created(t))
      /\ Created(t).decision = NoDecision
      /\ Created(t).status # "EXPIRED"
  BY DEF WellFormed, Created
<1>3. Noted(log, r, "REQUEST_CREATED")[r]["REQUEST_CREATED"] > 0
  BY NotedCounts, Events DEF Sound
<1> QED
  BY <1>1, <1>2, <1>3, ReplacedIsSound, Events

(* What a reload leaves in memory: each request comes with the audit        *)
(* entries of the place it was taken from.                                  *)
LEMMA LoadedIsSound ==
    ASSUME Sound(requests, audit), Sound(diskRequests, diskAudit)
    PROVE  Sound(LoadedRequests, LoadedAudit)
<1>1. LoadedRequests \in Registry
  BY DEF LoadedRequests, Sound, Registry
<1>2. \A r \in RequestId, e \in AuditEvent :
        /\ audit[r][e] + diskAudit[r][e] \in Nat
        /\ audit[r][e] > 0 => audit[r][e] + diskAudit[r][e] > 0
        /\ diskAudit[r][e] > 0 => audit[r][e] + diskAudit[r][e] > 0
  BY StoreAssumption DEF Sound, AuditLog
<1>3. \A r \in RequestId, e \in AuditEvent :
        /\ LoadedAudit[r][e] \in 0..AuditCap
        /\ audit[r][e] > 0 => LoadedAudit[r][e] > 0
        /\ diskAudit[r][e] > 0 => LoadedAudit[r][e] > 0
  BY <1>2, CappedCounts DEF LoadedAudit
<1>4. LoadedAudit \in AuditLog
  BY <1>3 DEF LoadedAudit, AuditLog
<1>5. \A r \in RequestId : LoadedRequests[r] = requests[r] \/ LoadedRequests[r] = diskRequests[r]
  BY DEF LoadedRequests
<1>6. \A r \in RequestId : WellFormed(LoadedRequests[r])
  BY <1>5 DEF Sound
<1>7. Explained(LoadedRequests, LoadedAudit)
  BY <1>3, <1>5, Events DEF Sound, Explained
<1> QED
  BY <1>1, <1>4, <1>6, <1>7 DEF Sound

(* Any set of known requests expiring together.                             *)
SweptRequests(reqs, stale) ==
    [r \in RequestId |-> IF r \in stale THEN Expired(reqs[r]) ELSE reqs[r]]
SweptAudit(log, stale) ==
    [r \in RequestId |->
        [e \in AuditEvent |->
            IF r \in stale /\ e = "EXPIRED" THEN Capped(log[r][e] + 1) ELSE log[r][e]]]

LEMMA SweptIsSound ==
    ASSUME NEW reqs, NEW log, Sound(reqs, log), NEW stale \in SUBSET RequestId,
           \A r \in stale : reqs[r] # NoRequest
    PROVE  Sound(SweptRequests(reqs, stale), SweptAudit(log, stale))
<1>1. \A r \in stale : /\ Expired(reqs[r]) \in ApprovalRequest
                       /\ WellFormed(Expired(reqs[r]))
                       /\ Expired(reqs[r]).decision = reqs[r].decision
  <2> SUFFICES ASSUME NEW r \in stale
               PROVE  /\ Expired(reqs[r]) \in ApprovalRequest
                      /\ WellFormed(Expired(reqs[r]))
                      /\ Expired(reqs[r]).decision = reqs[r].decision
    OBVIOUS
  <2>1. reqs[r] \in ApprovalRequest /\ WellFormed(reqs[r])
    BY DEF Sound, Registry
  <2>2. Expired(reqs[r]) \in ApprovalRequest
    BY <2>1 DEF Expired, ApprovalRequest, ApprovalStatus
  <2> QED
    BY <2>1, <2>2 DEF WellFormed, Expired, ApprovalRequest, ApprovalStatus
<1>2. \A r \in RequestId, e \in AuditEvent :
        log[r][e] \in 0..AuditCap /\ log[r][e] \in Nat /\ log[r][e] + 1 \in Nat /\ log[r][e] + 1 > 0
  BY StoreAssumption DEF Sound, AuditLog
<1>3. \A r \in RequestId, e \in AuditEvent :
        /\ SweptAudit(log, stale)[r][e] \in 0..AuditCap
        /\ log[r][e] > 0 => SweptAudit(log, stale)[r][e] > 0
        /\ r \in stale => SweptAudit(log, stale)[r]["EXPIRED"] > 0
  BY <1>2, CappedCounts, Events DEF SweptAudit
<1>4. SweptAudit(log, stale) \in AuditLog
  BY <1>3 DEF SweptAudit, AuditLog
<1>5. SweptRequests(reqs, stale) \in Registry
  BY <1>1 DEF SweptRequests, Sound, Registry
<1>6. \A r \in RequestId : WellFormed(SweptRequests(reqs, stale)[r])
  BY <1>1 DEF SweptRequests, Sound
<1>7. Explained(SweptRequests(reqs, stale), SweptAudit(log, stale))
  BY <1>1, <1>3, Events DEF SweptRequests, Sound, Explained
<1> QED
  BY <1>4, <1>5, <1>6, <1>7 DEF Sound

(* Whatever happens to a write, the file holds a sound registry: the new    *)
(* one, the one it held, or none.                                           *)
LEMMA PersistIsSound ==
    ASSUME NEW reqs, NEW log, Sound(reqs, log), Sound(diskRequests, diskAudit),
           Persist(reqs, log)
    PROVE  Sound(diskRequests, diskAudit)'
BY EmptyIsSound DEF Persist, Sound, Explained

-----------------------------------------------------------------------------
(* Commit of a sound pair.                                                  *)
LEMMA CommitIsSound ==
    ASSUME NEW reqs, NEW log, Sound(reqs, log), Sound(diskRequests, diskAudit),
           Commit(reqs, log)
    PROVE  Sound(requests, audit)' /\ Sound(diskRequests, diskAudit)'
<1>1. Sound(requests, audit)'
  BY DEF Commit, Sound, Explained
<1> QED
  BY <1>1, PersistIsSound DEF Commit

LEMMA RefreshIsSound ==
    ASSUME Sound(requests, audit), Sound(diskRequests, diskAudit), Refresh
    PROVE  Sound(requests, audit)' /\ Sound(diskRequests, diskAudit)'
BY LoadedIsSound DEF Refresh, Sound, Explained

LEMMA SaveRequestIsSound ==
    ASSUME Inv, NEW r \in RequestId, NEW ttl \in TTL, SaveRequest(r, ttl)
    PROVE  Sound(requests, audit)' /\ Sound(diskRequests, diskAudit)'
<1>1. now + ttl \in Nat
  BY StoreAssumption DEF Inv
<1>2. Sound([requests EXCEPT ![r] = Created(now + ttl)], Noted(audit, r, "REQUEST_CREATED"))
  BY <1>1, CreatedIsSound DEF Inv
<1>3. Sound(requests, audit)'
  BY <1>2 DEF SaveRequest, Sound, Explained
<1>4. Sound(requests', audit')
  BY <1>2 DEF SaveRequest
<1> QED
  BY <1>3, <1>4, PersistIsSound DEF SaveRequest, Inv

LEMMA PeekRequestIsSound ==
    ASSUME Inv, NEW r \in RequestId, PeekRequest(r)
    PROVE  Sound(requests, audit)' /\ Sound(diskRequests, diskAudit)'
<1>1. CASE Refresh
  BY <1>1, RefreshIsSound DEF Inv
<1>2. CASE /\ IsStale(LoadedRequests[r], now)
           /\ Commit([LoadedRequests EXCEPT ![r] = Expired(@)],
                     Noted(LoadedAudit, r, "EXPIRED"))
  <2>1. LoadedRequests[r] # NoRequest
    BY <1>2 DEF IsStale, NoRequest
  <2>2. Sound([LoadedRequests EXCEPT ![r] = Expired(@)], Noted(LoadedAudit, r, "EXPIRED"))
    BY <2>1, LoadedIsSound, ExpiredIsSound DEF Inv
  <2> QED
    BY <1>2, <2>2, CommitIsSound DEF Inv
<1> QED
  BY <1>1, <1>2 DEF PeekRequest

LEMMA SweepIsSound ==
    ASSUME Inv, NEW reqs, NEW log, Sound(reqs, log), Sweep(reqs, log)
    PROVE  Sound(requests, audit)' /\ Sound(diskRequests, diskAudit)'
<1> DEFINE stale == {r \in RequestId : IsStale(reqs[r], now)}
<1>1. CASE /\ requests' = reqs
           /\ audit' = log
           /\ UNCHANGED <<diskRequests, diskAudit, issued, now>>
  BY <1>1 DEF Inv, Sound, Explained
<1>2. CASE Commit(SweptRequests(reqs, stale), SweptAudit(log, stale))
  <2>1. \A r \in stale : reqs[r] # NoRequest
    BY DEF IsStale, NoRequest
  <2>2. Sound(SweptRequests(reqs, stale), SweptAudit(log, stale))
    BY <2>1, SweptIsSound
  <2> QED
    BY <1>2, <2>2, CommitIsSound DEF Inv
<1> QED
  BY <1>1, <1>2 DEF Sweep, SweptRequests, SweptAudit

LEMMA RecordDecisionIsSound ==
    ASSUME Inv, NEW r \in RequestId, NEW d \in ApprovalDecision, NEW given, NEW approvers,
           NEW requireToken, RecordDecision(r, d, given, approvers, requireToken)
    PROVE  Sound(requests, audit)' /\ Sound(diskRequests, diskAudit)'
<1>1. Sound(LoadedRequests, LoadedAudit)
  BY LoadedIsSound DEF Inv
<1>2. CASE Refresh
  BY <1>2, RefreshIsSound DEF Inv
<1>3. CASE \E e \in AuditEvent : Refuse(r, e)
  <2>1. PICK e \in AuditEvent : Refuse(r, e)
    BY <1>3
  <2>2. Sound(LoadedRequests, Noted(LoadedAudit, r, e))
    BY <1>1, NotedIsSound
  <2> QED
    BY <2>1, <2>2, CommitIsSound DEF Refuse, Inv
<1>4. CASE LoadedRequests[r] # NoRequest /\ RefuseExpired(r)
  <2>1. Sound([LoadedRequests EXCEPT ![r] = Expired(@)], Noted(LoadedAudit, r, "EXPIRED"))
    BY <1>1, <1>4, ExpiredIsSound
  <2> QED
    BY <1>4, <2>1, CommitIsSound DEF RefuseExpired, Inv
<1>5. CASE AcceptDecision(r, d)
  <2>1. Sound([LoadedRequests EXCEPT ![r] = Decided(@, d)],
              Noted(LoadedAudit, r, "DECISION_RECORDED"))
    BY <1>1, <1>5, DecidedIsSound DEF AcceptDecision
  <2> QED
    BY <1>5, <2>1, CommitIsSound DEF AcceptDecision, Inv
<1> QED
  BY <1>2, <1>3, <1>4, <1>5, Events
  DEF RecordDecision, RefuseUnauthorized, RefuseToken, RefuseReplay

LEMMA RestartIsSound ==
    ASSUME Inv, Restart
    PROVE  Sound(requests, audit)' /\ Sound(diskRequests, diskAudit)'
<1>1. Sound(diskRequests, diskAudit)'
  BY EmptyIsSound DEF Restart, Inv, Sound, Explained
<1> QED
  BY <1>1 DEF Restart, Sound, Explained

-----------------------------------------------------------------------------
(* A registry that knows nothing but issued requests.                       *)
Knows(reqs) == \A r \in RequestId : r \notin issued => reqs[r] = NoRequest

LEMMA LoadedKnows ==
    ASSUME Inv
    PROVE  Knows(LoadedRequests)
BY DEF Inv, OnlyIssuedAreKnown, Knows, LoadedRequests

LEMMA CommitKeepsKnown ==
    ASSUME Inv, NEW reqs, NEW log, Knows(reqs), Commit(reqs, log)
    PROVE  OnlyIssuedAreKnown'
BY DEF Inv, OnlyIssuedAreKnown, Knows, Commit, Persist, NoRequests

(* Replacing a request that is known adds none.                             *)
LEMMA ReplacedKnows ==
    ASSUME NEW reqs \in Registry, Knows(reqs), NEW r \in RequestId, reqs[r] # NoRequest, NEW req
    PROVE  Knows([reqs EXCEPT ![r] = req])
BY DEF Knows, Registry

LEMMA SweepKeepsKnown ==
    ASSUME Inv, NEW reqs, NEW log, Knows(reqs), Sweep(reqs, log)
    PROVE  OnlyIssuedAreKnown' /\ issued' = issued /\ now' = now
<1> DEFINE stale == {r \in RequestId : IsStale(reqs[r], now)}
<1>1. CASE /\ requests' = reqs
           /\ audit' = log
           /\ UNCHANGED <<diskRequests, diskAudit, issued, now>>
  BY <1>1 DEF Inv, OnlyIssuedAreKnown, Knows
<1>2. CASE Commit(SweptRequests(reqs, stale), SweptAudit(log, stale))
  <2>1. NoRequest.status # "PENDING"
    BY DEF NoRequest
  <2>2. \A r \in RequestId : r \notin issued => r \notin stale
    BY <2>1 DEF Knows, IsStale
  <2>3. Knows(SweptRequests(reqs, stale))
    BY <2>2 DEF Knows, SweptRequests
  <2> QED
    BY <1>2, <2>3, CommitKeepsKnown DEF Commit
<1> QED
  BY <1>1, <1>2 DEF Sweep, SweptRequests, SweptAudit

LEMMA PeekRequestKeepsKnown ==
    ASSUME Inv, NEW r \in RequestId, PeekRequest(r)
    PROVE  OnlyIssuedAreKnown' /\ issued' = issued /\ now' = now
<1>1. CASE Refresh
  BY <1>1, LoadedKnows DEF Refresh, Knows, Inv, OnlyIssuedAreKnown
<1>2. CASE /\ IsStale(LoadedRequests[r], now)
           /\ Commit([LoadedRequests EXCEPT ![r] = Expired(@)],
                     Noted(LoadedAudit, r, "EXPIRED"))
  <2>1. LoadedRequests[r] # NoRequest /\ LoadedRequests \in Registry
    BY <1>2, LoadedIsSound DEF IsStale, NoRequest, Inv, Sound
  <2>2. Knows([LoadedRequests EXCEPT ![r] = Expired(@)])
    BY <2>1, LoadedKnows, ReplacedKnows
  <2> QED
    BY <1>2, <2>2, CommitKeepsKnown DEF Commit
<1> QED
  BY <1>1, <1>2 DEF PeekRequest

LEMMA RecordDecisionKeepsKnown ==
    ASSUME Inv, NEW r \in RequestId, NEW d \in ApprovalDecision, NEW given, NEW approvers,
           NEW requireToken, RecordDecision(r, d, given, approvers, requireToken)
    PROVE  OnlyIssuedAreKnown' /\ issued' = issued /\ now' = now
<1>1. Knows(LoadedRequests) /\ LoadedRequests \in Registry
  BY LoadedKnows, LoadedIsSound DEF Inv, Sound
<1>2. CASE Refresh
  BY <1>1, <1>2 DEF Refresh, Knows, Inv, OnlyIssuedAreKnown
<1>3. CASE \E e \in AuditEvent : Refuse(r, e)
  BY <1>1, <1>3, CommitKeepsKnown DEF Refuse, Commit
<1>4. CASE LoadedRequests[r] # NoRequest /\ RefuseExpired(r)
  <2>1. Knows([LoadedRequests EXCEPT ![r] = Expired(@)])
    BY <1>1, <1>4, ReplacedKnows
  <2> QED
    BY <1>4, <2>1, CommitKeepsKnown DEF RefuseExpired, Commit
<1>5. CASE LoadedRequests[r] # NoRequest /\ AcceptDecision(r, d)
  <2>1. Knows([LoadedRequests EXCEPT ![r] = Decided(@, d)])
    BY <1>1, <1>5, ReplacedKnows
  <2> QED
    BY <1>5, <2>1, CommitKeepsKnown DEF AcceptDecision, Commit
<1> QED
  BY <1>2, <1>3, <1>4, <1>5, Events
  DEF RecordDecision, RefuseUnauthorized, RefuseToken, RefuseReplay

-----------------------------------------------------------------------------
LEMMA InvInitially == Init => Inv
<1> SUFFICES ASSUME Init PROVE Inv
  OBVIOUS
<1>1. Sound(requests, audit) /\ Sound(diskRequests, diskAudit)
  BY EmptyIsSound DEF Init
<1>2. now \in 0..MaxTime
  BY StoreAssumption DEF Init
<1>3. OnlyIssuedAreKnown
  BY DEF Init, OnlyIssuedAreKnown, NoRequests
<1> QED
  BY <1>1, <1>2, <1>3 DEF Init, Inv

LEMMA InvInductive == Inv /\ [Next]_storeVars => Inv'
<1> SUFFICES ASSUME Inv, [Next]_storeVars PROVE Inv'
  OBVIOUS
<1>1. ASSUME NEW r \in RequestId, NEW ttl \in TTL, SaveRequest(r, ttl)
      PROVE  Inv'
  <2>1. Sound(requests, audit)' /\ Sound(diskRequests, diskAudit)'
    BY <1>1, SaveRequestIsSound
  <2>2. OnlyIssuedAreKnown'
    BY <1>1 DEF SaveRequest, Persist, Inv, OnlyIssuedAreKnown, NoRequests, Sound, Registry
  <2> QED
    BY <1>1, <2>1, <2>2 DEF SaveRequest, Inv
<1>2. ASSUME NEW r \in RequestId, PeekRequest(r)
      PROVE  Inv'
  BY <1>2, PeekRequestIsSound, PeekRequestKeepsKnown DEF Inv
<1>3. ASSUME NEW r \in RequestId, Submit(r)
      PROVE  Inv'
  <2>1. PICK d \in ApprovalDecision, given \in TokenGiven, approvers \in Approvers,
             requireToken \in BOOLEAN : RecordDecision(r, d, given, approvers, requireToken)
    BY <1>3 DEF Submit
  <2> QED
    BY <2>1, RecordDecisionIsSound, RecordDecisionKeepsKnown DEF Inv
<1>4. CASE ListRequests
  <2>1. Sound(LoadedRequests, LoadedAudit) /\ Knows(LoadedRequests)
    BY LoadedIsSound, LoadedKnows DEF Inv
  <2> QED
    BY <1>4, <2>1, SweepIsSound, SweepKeepsKnown DEF ListRequests, Inv
<1>5. CASE ExpireStaleRequests
  <2>1. Sound(requests, audit) /\ Knows(requests)
    BY DEF Inv, OnlyIssuedAreKnown, Knows
  <2> QED
    BY <1>5, <2>1, SweepIsSound, SweepKeepsKnown DEF ExpireStaleRequests, Inv
<1>6. CASE GetAuditLog
  <2>1. OnlyIssuedAreKnown'
    BY <1>6, LoadedKnows DEF GetAuditLog, Refresh, Knows, Inv, OnlyIssuedAreKnown
  <2> QED
    BY <1>6, <2>1, RefreshIsSound DEF GetAuditLog, Refresh, Inv
<1>7. CASE Clear
  <2>1. Knows(NoRequests)
    BY DEF Knows, NoRequests
  <2> QED
    BY <1>7, <2>1, EmptyIsSound, CommitIsSound, CommitKeepsKnown DEF Clear, Commit, Inv
<1>8. CASE Restart
  <2>1. OnlyIssuedAreKnown'
    BY <1>8 DEF Restart, Inv, OnlyIssuedAreKnown, NoRequests
  <2> QED
    BY <1>8, <2>1, RestartIsSound DEF Restart, Inv
<1>9. CASE Tick
  <2>1. Sound(requests, audit)' /\ Sound(diskRequests, diskAudit)'
    BY <1>9 DEF Tick, Inv, Sound, Explained
  <2>2. OnlyIssuedAreKnown' /\ issued' = issued
    BY <1>9 DEF Tick, Inv, OnlyIssuedAreKnown
  <2>3. now' \in 0..MaxTime
    BY <1>9, StoreAssumption DEF Tick, Inv
  <2> QED
    BY <2>1, <2>2, <2>3 DEF Inv
<1>10. CASE UNCHANGED storeVars
  BY <1>10 DEF storeVars, Inv, Sound, Explained, OnlyIssuedAreKnown
<1> QED
  BY <1>1, <1>2, <1>3, <1>4, <1>5, <1>6, <1>7, <1>8, <1>9, <1>10 DEF Next

THEOREM InvHolds == Spec => []Inv
BY InvInitially, InvInductive, PTL DEF Spec

(* Every variable keeps its type, whatever faults occur.                    *)
THEOREM TypeCorrect == Spec => []TypeOK
<1>1. Inv => TypeOK
  BY DEF Inv, Sound, TypeOK, Registry, AuditLog
<1> QED
  BY <1>1, InvHolds, PTL

(* In every reachable state, in memory and in the file, each request's      *)
(* status agrees with its decision and its token with both, whatever calls, *)
(* expiries, lost writes, crashes and reloads led there.                    *)
THEOREM WellFormedAlways == Spec => []RequestsWellFormed
<1>1. Inv => RequestsWellFormed
  BY DEF Inv, Sound, RequestsWellFormed
<1> QED
  BY <1>1, InvHolds, PTL

(* No decision, expiry or creation is visible without its audit entry, even *)
(* when writes are lost and the process restarts from what is left.         *)
THEOREM AuditedAlways == Spec => []TransitionsAudited
<1>1. Inv => TransitionsAudited
  BY DEF Inv, Sound, TransitionsAudited
<1> QED
  BY <1>1, InvHolds, PTL

-----------------------------------------------------------------------------
(***************************************************************************)
(* What holds of ApprovalStore without a file, or as long as a write that   *)
(* fails leaves an unreadable file rather than an old one ("unwritable" is  *)
(* excluded; "torn" and "crash" are not): the store implements              *)
(* ApprovalLifecycle, so that decisions are final and taken in time.        *)
(*                                                                         *)
(* The strengthening is Mirrored: the file holds what memory holds or       *)
(* nothing, so a reload never brings an older registry back.                *)
(***************************************************************************)
Durable == ~Persistent \/ "unwritable" \notin PersistFaults

Mirrored ==
    /\ diskRequests = requests \/ diskRequests = NoRequests
    /\ ~Persistent => diskRequests = NoRequests

(* A reload is invisible.                                                   *)
LEMMA ReloadChangesNothing ==
    ASSUME Inv, Mirrored
    PROVE  LoadedRequests = requests
<1>1. requests = [r \in RequestId |-> requests[r]]
  BY DEF Inv, Sound, Registry
<1>2. \A r \in RequestId : LoadedRequests[r] = requests[r]
  BY DEF LoadedRequests, Mirrored, NoRequests
<1> QED
  BY <1>1, <1>2 DEF LoadedRequests

(* A write leaves memory mirrored.                                          *)
LEMMA CommitMirrors ==
    ASSUME Durable, Mirrored, NEW reqs, NEW log, Commit(reqs, log)
    PROVE  Mirrored' /\ requests' = reqs /\ issued' = issued /\ now' = now
BY DEF Durable, Mirrored, Commit, Persist, NoRequests

LEMMA RefreshMirrors ==
    ASSUME Inv, Mirrored, Refresh
    PROVE  Mirrored' /\ requests' = requests /\ issued' = issued /\ now' = now
BY ReloadChangesNothing DEF Refresh, Mirrored, NoRequests

(* The two modules spell the data alike.                                    *)
LEMMA SameData ==
    /\ Lifecycle!NoRequest = NoRequest
    /\ Lifecycle!ApprovalDecision = ApprovalDecision
    /\ \A t : Lifecycle!Created(t) = Created(t)
    /\ \A req : Lifecycle!Expired(req) = Expired(req)
    /\ \A req, d : Lifecycle!Decided(req, d) = Decided(req, d)
BY DEF Lifecycle!NoRequest, NoRequest, Lifecycle!NoDecision, NoDecision,
       Lifecycle!ApprovalDecision, ApprovalDecision, Lifecycle!Verdict, Verdict,
       Lifecycle!Actor, Actor, Lifecycle!SystemTimeout, SystemTimeout,
       Lifecycle!Created, Created, Lifecycle!Expired, Expired, Lifecycle!Decided, Decided

-----------------------------------------------------------------------------
(* A set of overdue requests expiring is one step of the abstract registry. *)
LEMMA SweptIsExpire ==
    ASSUME Inv, NEW late \in SUBSET RequestId,
           \A r \in late : requests[r] # NoRequest /\ now >= requests[r].expiration,
           requests' = SweptRequests(requests, late), issued' = issued, now' = now
    PROVE  Lifecycle!Expire
<1>1. requests' = [r \in RequestId |-> IF r \in late THEN Lifecycle!Expired(requests[r])
                                                     ELSE requests[r]]
  BY DEF SweptRequests, Expired, Lifecycle!Expired
<1>2. \A r \in late : requests[r] # Lifecycle!NoRequest /\ now >= requests[r].expiration
  BY SameData
<1> QED
  BY <1>1, <1>2 DEF Lifecycle!Expire

(* One overdue request expiring, whatever was recorded on it.               *)
LEMMA OneExpires ==
    ASSUME Inv, NEW r \in RequestId, requests[r] # NoRequest, IsExpired(requests[r], now),
           requests' = [requests EXCEPT ![r] = Expired(@)], issued' = issued, now' = now
    PROVE  Lifecycle!Expire
<1>1. [requests EXCEPT ![r] = Expired(@)] = SweptRequests(requests, {r})
  BY DEF SweptRequests, Inv, Sound, Registry
<1>2. {r} \in SUBSET RequestId
  OBVIOUS
<1>3. \A s \in {r} : requests[s] # NoRequest /\ now >= requests[s].expiration
  BY DEF IsExpired
<1>4. requests' = SweptRequests(requests, {r})
  BY <1>1
<1> QED
  BY <1>2, <1>3, <1>4, SweptIsExpire

LEMMA SweepSimulates ==
    ASSUME Inv, Durable, Mirrored, NEW log, Sweep(requests, log)
    PROVE  Mirrored' /\ [Lifecycle!Next]_(Lifecycle!lifecycleVars)
<1> DEFINE stale == {r \in RequestId : IsStale(requests[r], now)}
<1>1. CASE /\ requests' = requests
           /\ audit' = log
           /\ UNCHANGED <<diskRequests, diskAudit, issued, now>>
  BY <1>1 DEF Mirrored, Lifecycle!lifecycleVars, NoRequests
<1>2. CASE Commit(SweptRequests(requests, stale), SweptAudit(log, stale))
  <2>1. NoRequest.status # "PENDING"
    BY DEF NoRequest
  <2>2. \A r \in stale : requests[r] # NoRequest /\ now >= requests[r].expiration
    BY <2>1 DEF IsStale, IsExpired
  <2>3. Lifecycle!Expire
    BY <1>2, <2>2, CommitMirrors, SweptIsExpire
  <2> QED
    BY <1>2, <2>3, CommitMirrors DEF Lifecycle!Next
<1> QED
  BY <1>1, <1>2 DEF Sweep, SweptRequests, SweptAudit

LEMMA PeekRequestSimulates ==
    ASSUME Inv, Durable, Mirrored, NEW r \in RequestId, PeekRequest(r)
    PROVE  Mirrored' /\ [Lifecycle!Next]_(Lifecycle!lifecycleVars)
<1>1. CASE Refresh
  BY <1>1, RefreshMirrors DEF Lifecycle!lifecycleVars
<1>2. CASE /\ IsStale(LoadedRequests[r], now)
           /\ Commit([LoadedRequests EXCEPT ![r] = Expired(@)],
                     Noted(LoadedAudit, r, "EXPIRED"))
  <2>1. NoRequest.status # "PENDING"
    BY DEF NoRequest
  <2>2. requests[r] # NoRequest /\ IsExpired(requests[r], now)
    BY <1>2, <2>1, ReloadChangesNothing DEF IsStale
  <2>3. Lifecycle!Expire
    BY <1>2, <2>2, ReloadChangesNothing, CommitMirrors, OneExpires
  <2> QED
    BY <1>2, <2>3, CommitMirrors DEF Lifecycle!Next
<1> QED
  BY <1>1, <1>2 DEF PeekRequest

LEMMA RecordDecisionSimulates ==
    ASSUME Inv, Durable, Mirrored, NEW r \in RequestId, NEW d \in ApprovalDecision, NEW given,
           NEW approvers, NEW requireToken, RecordDecision(r, d, given, approvers, requireToken)
    PROVE  Mirrored' /\ [Lifecycle!Next]_(Lifecycle!lifecycleVars)
<1>1. LoadedRequests = requests
  BY ReloadChangesNothing
<1>2. CASE Refresh
  BY <1>2, RefreshMirrors DEF Lifecycle!lifecycleVars
<1>3. CASE \E e \in AuditEvent : Refuse(r, e)
  BY <1>1, <1>3, CommitMirrors DEF Refuse, Lifecycle!lifecycleVars
<1>4. CASE LoadedRequests[r] # NoRequest /\ RefuseExpired(r)
  <2>1. Lifecycle!Expire
    BY <1>1, <1>4, CommitMirrors, OneExpires DEF RefuseExpired
  <2> QED
    BY <1>4, <2>1, CommitMirrors DEF RefuseExpired, Lifecycle!Next
<1>5. CASE LoadedRequests[r] # NoRequest /\ AcceptDecision(r, d)
  <2>1. /\ requests[r].status = "PENDING"
        /\ ~ (now >= requests[r].expiration)
        /\ requests' = [requests EXCEPT ![r] = Decided(@, d)]
        /\ issued' = issued /\ now' = now /\ Mirrored'
    BY <1>1, <1>5, CommitMirrors DEF AcceptDecision, IsExpired
  <2>2. requests[r] \in ApprovalRequest
    BY <1>1, <1>5 DEF Inv, Sound, Registry
  <2>3. now < requests[r].expiration
    BY <2>1, <2>2, StoreAssumption DEF Inv, ApprovalRequest
  <2>4. Lifecycle!Decide(r)
    BY <2>1, <2>3, SameData DEF Lifecycle!Decide
  <2> QED
    BY <2>1, <2>4 DEF Lifecycle!Next
<1> QED
  BY <1>2, <1>3, <1>4, <1>5, Events
  DEF RecordDecision, RefuseUnauthorized, RefuseToken, RefuseReplay

-----------------------------------------------------------------------------
LEMMA MirroredInitially == Init => Mirrored /\ Lifecycle!Init
<1> SUFFICES ASSUME Init PROVE Mirrored /\ Lifecycle!Init
  OBVIOUS
<1>1. NoRequests = [r \in RequestId |-> Lifecycle!NoRequest]
  BY SameData DEF NoRequests
<1> QED
  BY <1>1 DEF Init, Mirrored, Lifecycle!Init

LEMMA StepSimulates ==
    ASSUME Inv, Durable, Mirrored, [Next]_storeVars
    PROVE  Mirrored' /\ [Lifecycle!Next]_(Lifecycle!lifecycleVars)
<1>1. ASSUME NEW r \in RequestId, NEW ttl \in TTL, SaveRequest(r, ttl)
      PROVE  Mirrored' /\ [Lifecycle!Next]_(Lifecycle!lifecycleVars)
  <2>1. Lifecycle!Create(r)
    BY <1>1, SameData DEF SaveRequest, Lifecycle!Create
  <2>2. Mirrored'
    BY <1>1 DEF SaveRequest, Persist, Durable, Mirrored, NoRequests
  <2> QED
    BY <2>1, <2>2 DEF Lifecycle!Next
<1>2. ASSUME NEW r \in RequestId, PeekRequest(r)
      PROVE  Mirrored' /\ [Lifecycle!Next]_(Lifecycle!lifecycleVars)
  BY <1>2, PeekRequestSimulates
<1>3. ASSUME NEW r \in RequestId, Submit(r)
      PROVE  Mirrored' /\ [Lifecycle!Next]_(Lifecycle!lifecycleVars)
  <2>1. PICK d \in ApprovalDecision, given \in TokenGiven, approvers \in Approvers,
             requireToken \in BOOLEAN : RecordDecision(r, d, given, approvers, requireToken)
    BY <1>3 DEF Submit
  <2> QED
    BY <2>1, RecordDecisionSimulates
<1>4. CASE ListRequests
  BY <1>4, ReloadChangesNothing, SweepSimulates DEF ListRequests
<1>5. CASE ExpireStaleRequests
  BY <1>5, SweepSimulates DEF ExpireStaleRequests
<1>6. CASE GetAuditLog
  BY <1>6, RefreshMirrors DEF GetAuditLog, Lifecycle!lifecycleVars
<1>7. CASE Clear
  <2>1. NoRequests = [r \in RequestId |-> Lifecycle!NoRequest]
    BY SameData DEF NoRequests
  <2>2. Mirrored' /\ requests' = NoRequests /\ issued' = issued /\ now' = now
    BY <1>7, CommitMirrors DEF Clear
  <2>3. Lifecycle!Forget
    BY <2>1, <2>2 DEF Lifecycle!Forget
  <2> QED
    BY <2>2, <2>3 DEF Lifecycle!Next
<1>8. CASE Restart
  <2>1. Mirrored'
    BY <1>8 DEF Restart, Mirrored, NoRequests
  <2>2. CASE requests' = requests
    BY <1>8, <2>1, <2>2 DEF Restart, Lifecycle!lifecycleVars
  <2>3. CASE requests' = NoRequests
    <3>1. NoRequests = [r \in RequestId |-> Lifecycle!NoRequest]
      BY SameData DEF NoRequests
    <3>2. Lifecycle!Forget
      BY <1>8, <2>3, <3>1 DEF Restart, Lifecycle!Forget
    <3> QED
      BY <2>1, <3>2 DEF Lifecycle!Next
  <2> QED
    BY <1>8, <2>2, <2>3 DEF Restart, Mirrored
<1>9. CASE Tick
  <2>1. Lifecycle!Advance
    BY <1>9 DEF Tick, Lifecycle!Advance
  <2>2. Mirrored'
    BY <1>9 DEF Tick, Mirrored, NoRequests
  <2> QED
    BY <2>1, <2>2 DEF Lifecycle!Next
<1>10. CASE UNCHANGED storeVars
  BY <1>10 DEF storeVars, Mirrored, NoRequests, Lifecycle!lifecycleVars
<1> QED
  BY <1>1, <1>2, <1>3, <1>4, <1>5, <1>6, <1>7, <1>8, <1>9, <1>10 DEF Next

(* The store, its file, its lazy expiry and its restarts implement the      *)
(* abstract lifecycle of an approval registry.                              *)
THEOREM StoreImplementsLifecycle ==
    ASSUME Durable
    PROVE  Spec => LifecycleSpec
<1>1. Init => Mirrored /\ Lifecycle!Init
  BY MirroredInitially
<1>2. Inv /\ Mirrored /\ [Next]_storeVars
        => Mirrored' /\ [Lifecycle!Next]_(Lifecycle!lifecycleVars)
  BY StepSimulates
<1> QED
  BY <1>1, <1>2, InvHolds, PTL DEF Spec, LifecycleSpec, Lifecycle!Spec

-----------------------------------------------------------------------------
THEOREM MirroredAlways ==
    ASSUME Durable
    PROVE  Spec => []Mirrored
BY MirroredInitially, StepSimulates, InvHolds, PTL DEF Spec

(* A step of the abstract registry leaves every recorded decision as it is  *)
(* and attaches new ones to pending requests before their deadline only.    *)
KeepsDecision(r) ==
    requests[r].decision # NoDecision /\ requests'[r] # NoRequest
        => requests'[r].decision = requests[r].decision
DecidesInTime(r) ==
    requests[r].decision = NoDecision /\ requests'[r].decision # NoDecision
        => requests[r].status = "PENDING" /\ now < requests[r].expiration

LEMMA LifecycleStepIsFinal ==
    ASSUME Inv, [Lifecycle!Next]_(Lifecycle!lifecycleVars), NEW r \in RequestId
    PROVE  KeepsDecision(r) /\ DecidesInTime(r)
<1>1. requests \in Registry /\ WellFormed(requests[r])
  BY DEF Inv, Sound
<1>2. NoRequest.decision = NoDecision
  BY DEF NoRequest
<1>3. CASE requests' = requests
  BY <1>3 DEF KeepsDecision, DecidesInTime
<1>4. ASSUME NEW s \in RequestId, Lifecycle!Create(s)
      PROVE  KeepsDecision(r) /\ DecidesInTime(r)
  <2>1. PICK ttl \in TTL : requests' = [requests EXCEPT ![s] = Created(now + ttl)]
    BY <1>4, SameData DEF Lifecycle!Create
  <2>2. CASE r = s
    <3>1. requests[r] = NoRequest
      BY <1>4, <2>2 DEF Lifecycle!Create, Inv, OnlyIssuedAreKnown
    <3>2. requests'[r].decision = NoDecision
      BY <1>1, <2>1, <2>2 DEF Registry, Created
    <3> QED
      BY <1>2, <3>1, <3>2 DEF KeepsDecision, DecidesInTime
  <2>3. CASE r # s
    BY <1>1, <2>1, <2>3 DEF Registry, KeepsDecision, DecidesInTime
  <2> QED
    BY <2>2, <2>3
<1>5. ASSUME NEW s \in RequestId, Lifecycle!Decide(s)
      PROVE  KeepsDecision(r) /\ DecidesInTime(r)
  <2>1. PICK d \in ApprovalDecision : requests' = [requests EXCEPT ![s] = Decided(@, d)]
    BY <1>5, SameData DEF Lifecycle!Decide
  <2>2. requests[s].status = "PENDING" /\ now < requests[s].expiration
    BY <1>5 DEF Lifecycle!Decide
  <2>3. CASE r = s
    <3>1. requests[r].decision = NoDecision
      BY <1>1, <2>2, <2>3 DEF WellFormed
    <3> QED
      BY <2>2, <2>3, <3>1 DEF KeepsDecision, DecidesInTime
  <2>4. CASE r # s
    BY <1>1, <2>1, <2>4 DEF Registry, KeepsDecision, DecidesInTime
  <2> QED
    BY <2>3, <2>4
<1>6. CASE Lifecycle!Expire
  <2>1. requests'[r] = requests[r] \/ (requests[r] # NoRequest /\ requests'[r] = Expired(requests[r]))
    BY <1>6, SameData DEF Lifecycle!Expire
  <2>2. requests[r] # NoRequest => Expired(requests[r]).decision = requests[r].decision
    BY <1>1 DEF Registry, Expired, ApprovalRequest
  <2> QED
    BY <2>1, <2>2 DEF KeepsDecision, DecidesInTime
<1>7. CASE Lifecycle!Forget
  <2>1. requests'[r] = NoRequest
    BY <1>7, SameData DEF Lifecycle!Forget
  <2> QED
    BY <1>2, <2>1 DEF KeepsDecision, DecidesInTime
<1> QED
  BY <1>3, <1>4, <1>5, <1>6, <1>7
  DEF Lifecycle!Next, Lifecycle!lifecycleVars, Lifecycle!Advance

(* "A decision cannot be overturned", by any sequence of replays, expiries, *)
(* torn writes, crashes and reloads.                                        *)
THEOREM DecisionsAreFinal ==
    ASSUME Durable
    PROVE  Spec => DecisionIsFinal
<1>1. Inv /\ Mirrored /\ [Next]_storeVars
        => [\A r \in RequestId :
              requests[r].decision # NoDecision /\ requests'[r] # NoRequest
                => requests'[r].decision = requests[r].decision]_storeVars
  BY StepSimulates, LifecycleStepIsFinal DEF KeepsDecision
<1> QED
  BY <1>1, InvHolds, MirroredAlways, PTL DEF Spec, DecisionIsFinal

(* No decision is attached to a request at or after its deadline, or to one *)
(* that is no longer pending.                                               *)
THEOREM DecisionsAreInTime ==
    ASSUME Durable
    PROVE  Spec => DecidedInTime
<1>1. Inv /\ Mirrored /\ [Next]_storeVars
        => [\A r \in RequestId :
              requests[r].decision = NoDecision /\ requests'[r].decision # NoDecision
                => requests[r].status = "PENDING" /\ now < requests[r].expiration]_storeVars
  BY StepSimulates, LifecycleStepIsFinal DEF DecidesInTime
<1> QED
  BY <1>1, InvHolds, MirroredAlways, PTL DEF Spec, DecidedInTime

-----------------------------------------------------------------------------
(* With a file whose writes all succeed, memory never runs ahead of it.     *)
THEOREM FileMirrorsMemory ==
    ASSUME Persistent, PersistFaults = {}
    PROVE  Spec => []DiskMirrorsMemory
<1>1. Init => DiskMirrorsMemory
  BY DEF Init, DiskMirrorsMemory
<1>2. ASSUME Inv, DiskMirrorsMemory, [Next]_storeVars
      PROVE  DiskMirrorsMemory'
  <2>1. ASSUME NEW reqs, NEW log, Commit(reqs, log)
        PROVE  DiskMirrorsMemory'
    BY <2>1 DEF Commit, Persist, DiskMirrorsMemory
  <2>2. LoadedRequests = requests
    BY <1>2 DEF LoadedRequests, DiskMirrorsMemory, Inv, Sound, Registry
  <2>3. CASE Refresh
    BY <1>2, <2>2, <2>3 DEF Refresh, DiskMirrorsMemory
  <2>4. ASSUME NEW log, Sweep(requests, log)
        PROVE  DiskMirrorsMemory'
    BY <1>2, <2>1, <2>4 DEF Sweep, DiskMirrorsMemory
  <2>5. ASSUME NEW r \in RequestId, NEW ttl \in TTL, SaveRequest(r, ttl)
        PROVE  DiskMirrorsMemory'
    BY <2>5 DEF SaveRequest, Persist, DiskMirrorsMemory
  <2>6. ASSUME NEW r \in RequestId, PeekRequest(r)
        PROVE  DiskMirrorsMemory'
    BY <2>1, <2>3, <2>6 DEF PeekRequest
  <2>7. ASSUME NEW r \in RequestId, Submit(r)
        PROVE  DiskMirrorsMemory'
    BY <2>1, <2>3, <2>7
    DEF Submit, RecordDecision, RefuseUnauthorized, RefuseExpired, RefuseToken, RefuseReplay,
        AcceptDecision, Refuse
  <2>8. CASE ListRequests
    BY <2>2, <2>4, <2>8 DEF ListRequests
  <2>9. CASE ExpireStaleRequests
    BY <2>4, <2>9 DEF ExpireStaleRequests
  <2>10. CASE GetAuditLog
    BY <2>3, <2>10 DEF GetAuditLog
  <2>11. CASE Clear
    BY <2>1, <2>11 DEF Clear
  <2>12. CASE Restart \/ Tick \/ UNCHANGED storeVars
    BY <1>2, <2>12 DEF Restart, Tick, storeVars, DiskMirrorsMemory
  <2> QED
    BY <1>2, <2>5, <2>6, <2>7, <2>8, <2>9, <2>10, <2>11, <2>12 DEF Next
<1> QED
  BY <1>1, <1>2, InvHolds, PTL DEF Spec

-----------------------------------------------------------------------------
(***************************************************************************)
(* Without a file there is nothing to load twice, and the trail counts.     *)
(* The strengthening also says that an id never drawn has no entry to be    *)
(* counted: only so is the first entry of a new request its only one.       *)
(***************************************************************************)
Counts(req, entries) ==
    /\ entries["REQUEST_CREATED"] = 1
    /\ entries["DECISION_RECORDED"] = IF req.decision # NoDecision THEN 1 ELSE 0

Untouched(entries) == entries["REQUEST_CREATED"] = 0 /\ entries["DECISION_RECORDED"] = 0

CountedOnce(reqs, log, ids) ==
    \A r \in RequestId :
        /\ reqs[r] # NoRequest => r \in ids /\ Counts(reqs[r], log[r])
        /\ r \notin ids => Untouched(log[r])

OnceInv ==
    /\ diskRequests = NoRequests /\ diskAudit = NoAudit
    /\ CountedOnce(requests, audit, issued)

(* Each count of a log is a number, and the first entry is counted as one.  *)
LEMMA Counters ==
    ASSUME NEW log \in AuditLog, NEW r \in RequestId, NEW e \in AuditEvent
    PROVE  /\ Noted(log, r, e) \in AuditLog
           /\ log[r][e] = 0 => Noted(log, r, e)[r][e] = 1
           /\ \A f \in AuditEvent \ {e} : Noted(log, r, e)[r][f] = log[r][f]
           /\ \A s \in RequestId \ {r} : Noted(log, r, e)[s] = log[s]
<1>1. Noted(log, r, e) = [log EXCEPT ![r] = [log[r] EXCEPT ![e] = Capped(log[r][e] + 1)]]
  BY DEF Noted, AuditLog
<1>2. Capped(0 + 1) = 1
  BY StoreAssumption DEF Capped
<1>3. Noted(log, r, e) \in AuditLog
  BY NotedCounts
<1>4. log[r] \in [AuditEvent -> 0..AuditCap]
  BY DEF AuditLog
<1> QED
  BY <1>1, <1>2, <1>3, <1>4 DEF AuditLog

(* With an empty file a reload changes nothing at all.                      *)
LEMMA NothingToLoad ==
    ASSUME Inv, OnceInv
    PROVE  LoadedRequests = requests /\ LoadedAudit = audit
<1>1. LoadedRequests = requests
  <2>1. requests = [r \in RequestId |-> requests[r]]
    BY DEF Inv, Sound, Registry
  <2> QED
    BY <2>1 DEF LoadedRequests, OnceInv, NoRequests
<1>2. \A r \in RequestId, e \in AuditEvent : Capped(audit[r][e] + diskAudit[r][e]) = audit[r][e]
  <2> TAKE r \in RequestId, e \in AuditEvent
  <2>1. audit[r][e] \in 0..AuditCap /\ diskAudit[r][e] = 0
    BY DEF Inv, Sound, AuditLog, OnceInv, NoAudit
  <2> QED
    BY <2>1, StoreAssumption DEF Capped
<1>3. audit = [r \in RequestId |-> [e \in AuditEvent |-> audit[r][e]]]
  BY DEF Inv, Sound, AuditLog
<1> QED
  BY <1>1, <1>2, <1>3 DEF LoadedAudit

(* What one call adds to the trail of one request.                          *)
LEMMA ReplacedIsCounted ==
    ASSUME NEW reqs \in Registry, NEW log \in AuditLog, NEW ids, CountedOnce(reqs, log, ids),
           NEW r \in RequestId, NEW req, NEW e \in AuditEvent,
           Counts(req, Noted(log, r, e)[r])
    PROVE  CountedOnce([reqs EXCEPT ![r] = req], Noted(log, r, e), ids \cup {r})
BY Counters DEF CountedOnce, Registry

(* An entry of another kind, beside a request whose decision stays as it is.*)
LEMMA OtherEntryIsCounted ==
    ASSUME NEW reqs \in Registry, NEW log \in AuditLog, NEW ids, CountedOnce(reqs, log, ids),
           NEW r \in RequestId, reqs[r] # NoRequest, NEW req, req.decision = reqs[r].decision,
           NEW e \in AuditEvent \ {"REQUEST_CREATED", "DECISION_RECORDED"}
    PROVE  CountedOnce([reqs EXCEPT ![r] = req], Noted(log, r, e), ids)
<1>1. r \in ids /\ Counts(reqs[r], log[r])
  BY DEF CountedOnce
<1>2. Counts(req, Noted(log, r, e)[r])
  BY <1>1, Counters, Events DEF Counts
<1>3. ids \cup {r} = ids
  BY <1>1
<1> QED
  BY <1>2, <1>3, ReplacedIsCounted

LEMMA ExpiredIsCounted ==
    ASSUME NEW reqs \in Registry, NEW log \in AuditLog, NEW ids, CountedOnce(reqs, log, ids),
           NEW r \in RequestId, reqs[r] # NoRequest
    PROVE  CountedOnce([reqs EXCEPT ![r] = Expired(@)], Noted(log, r, "EXPIRED"), ids)
<1>1. Expired(reqs[r]).decision = reqs[r].decision
  BY DEF Expired, Registry, ApprovalRequest
<1> QED
  BY <1>1, OtherEntryIsCounted, Events

LEMMA DecidedIsCounted ==
    ASSUME NEW reqs \in Registry, NEW log \in AuditLog, NEW ids, CountedOnce(reqs, log, ids),
           NEW r \in RequestId, reqs[r].status = "PENDING", WellFormed(reqs[r]),
           NEW d \in ApprovalDecision
    PROVE  CountedOnce([reqs EXCEPT ![r] = Decided(@, d)], Noted(log, r, "DECISION_RECORDED"), ids)
<1>1. reqs[r] \in ApprovalRequest /\ reqs[r] # NoRequest /\ reqs[r].decision = NoDecision
  BY DEF Registry, NoRequest, WellFormed
<1>2. r \in ids /\ Counts(reqs[r], log[r])
  BY <1>1 DEF CountedOnce
<1>3. d # NoDecision /\ Decided(reqs[r], d).decision = d
  BY <1>1 DEF ApprovalDecision, NoDecision, Verdict, Decided, ApprovalRequest
<1>4. Counts(Decided(reqs[r], d), Noted(log, r, "DECISION_RECORDED")[r])
  BY <1>1, <1>2, <1>3, Counters, Events DEF Counts
<1>5. ids \cup {r} = ids
  BY <1>2
<1>6. [reqs EXCEPT ![r] = Decided(@, d)] = [reqs EXCEPT ![r] = Decided(reqs[r], d)]
  OBVIOUS
<1>7. "DECISION_RECORDED" \in AuditEvent
  BY Events
<1>8. CountedOnce([reqs EXCEPT ![r] = Decided(reqs[r], d)],
                  Noted(log, r, "DECISION_RECORDED"), ids \cup {r})
  BY <1>4, <1>7, ReplacedIsCounted
<1> QED
  BY <1>5, <1>6, <1>8

LEMMA CreatedIsCounted ==
    ASSUME NEW reqs \in Registry, NEW log \in AuditLog, NEW ids, CountedOnce(reqs, log, ids),
           NEW r \in RequestId, r \notin ids, NEW t \in Nat
    PROVE  CountedOnce([reqs EXCEPT ![r] = Created(t)], Noted(log, r, "REQUEST_CREATED"),
                       ids \cup {r})
<1>1. Untouched(log[r])
  BY DEF CountedOnce
<1>2. Created(t).decision = NoDecision
  BY DEF Created
<1>3. Counts(Created(t), Noted(log, r, "REQUEST_CREATED")[r])
  BY <1>1, <1>2, Counters, Events DEF Counts, Untouched
<1> QED
  BY <1>3, ReplacedIsCounted, Events

LEMMA SweptIsCounted ==
    ASSUME NEW reqs \in Registry, NEW log \in AuditLog, NEW ids, CountedOnce(reqs, log, ids),
           NEW stale \in SUBSET RequestId, \A r \in stale : reqs[r] # NoRequest
    PROVE  CountedOnce(SweptRequests(reqs, stale), SweptAudit(log, stale), ids)
<1> SUFFICES ASSUME NEW r \in RequestId
             PROVE  /\ SweptRequests(reqs, stale)[r] # NoRequest =>
                            /\ r \in ids
                            /\ Counts(SweptRequests(reqs, stale)[r], SweptAudit(log, stale)[r])
                    /\ r \notin ids => Untouched(SweptAudit(log, stale)[r])
  BY DEF CountedOnce
<1>1. \A e \in {"REQUEST_CREATED", "DECISION_RECORDED"} :
        SweptAudit(log, stale)[r][e] = log[r][e]
  BY Events DEF SweptAudit
<1>2. reqs[r] # NoRequest =>
        SweptRequests(reqs, stale)[r].decision = reqs[r].decision
  BY DEF SweptRequests, Expired, Registry, ApprovalRequest
<1>3. SweptRequests(reqs, stale)[r] # NoRequest => reqs[r] # NoRequest
  BY DEF SweptRequests
<1> QED
  BY <1>1, <1>2, <1>3 DEF CountedOnce, Counts, Untouched

LEMMA CommitKeepsCount ==
    ASSUME ~Persistent, OnceInv, NEW reqs, NEW log, CountedOnce(reqs, log, issued),
           Commit(reqs, log)
    PROVE  OnceInv'
BY DEF OnceInv, Commit, Persist, CountedOnce, NoRequests, NoAudit

LEMMA SweepKeepsCount ==
    ASSUME ~Persistent, Inv, OnceInv, Sweep(requests, audit)
    PROVE  OnceInv'
<1> DEFINE stale == {r \in RequestId : IsStale(requests[r], now)}
<1>1. CASE /\ requests' = requests
           /\ audit' = audit
           /\ UNCHANGED <<diskRequests, diskAudit, issued, now>>
  BY <1>1 DEF OnceInv, CountedOnce, NoRequests, NoAudit
<1>2. CASE Commit(SweptRequests(requests, stale), SweptAudit(audit, stale))
  <2>1. \A r \in stale : requests[r] # NoRequest
    BY DEF IsStale, NoRequest
  <2>2. requests \in Registry /\ audit \in AuditLog
    BY DEF Inv, Sound
  <2>3. CountedOnce(SweptRequests(requests, stale), SweptAudit(audit, stale), issued)
    BY <2>1, <2>2, SweptIsCounted DEF OnceInv
  <2> QED
    BY <1>2, <2>3, CommitKeepsCount
<1> QED
  BY <1>1, <1>2 DEF Sweep, SweptRequests, SweptAudit

LEMMA RecordDecisionKeepsCount ==
    ASSUME ~Persistent, Inv, OnceInv, NEW r \in RequestId, NEW d \in ApprovalDecision, NEW given,
           NEW approvers, NEW requireToken, RecordDecision(r, d, given, approvers, requireToken)
    PROVE  OnceInv'
<1>1. LoadedRequests = requests /\ LoadedAudit = audit
  BY NothingToLoad
<1>2. requests \in Registry /\ audit \in AuditLog /\ WellFormed(requests[r])
  BY DEF Inv, Sound
<1>3. CountedOnce(requests, audit, issued)
  BY DEF OnceInv
<1>4. CASE LoadedRequests[r] = NoRequest /\ Refresh
  BY <1>1, <1>4 DEF Refresh, OnceInv, CountedOnce, NoRequests, NoAudit
<1>5. CASE /\ requests[r] # NoRequest
           /\ \E e \in AuditEvent \ {"REQUEST_CREATED", "DECISION_RECORDED"} : Refuse(r, e)
  <2>1. PICK e \in AuditEvent \ {"REQUEST_CREATED", "DECISION_RECORDED"} : Refuse(r, e)
    BY <1>5
  <2>2. [requests EXCEPT ![r] = requests[r]] = requests
    BY <1>2 DEF Registry
  <2>3. CountedOnce(requests, Noted(audit, r, e), issued)
    BY <1>2, <1>3, <1>5, <2>2, OtherEntryIsCounted
  <2>4. Commit(requests, Noted(audit, r, e))
    BY <1>1, <2>1 DEF Refuse
  <2> QED
    BY <2>3, <2>4, CommitKeepsCount
<1>6. CASE requests[r] # NoRequest /\ RefuseExpired(r)
  <2>1. CountedOnce([requests EXCEPT ![r] = Expired(@)], Noted(audit, r, "EXPIRED"), issued)
    BY <1>2, <1>3, <1>6, ExpiredIsCounted
  <2>2. Commit([requests EXCEPT ![r] = Expired(@)], Noted(audit, r, "EXPIRED"))
    BY <1>1, <1>6 DEF RefuseExpired
  <2> QED
    BY <2>1, <2>2, CommitKeepsCount
<1>7. CASE AcceptDecision(r, d)
  <2>1. CountedOnce([requests EXCEPT ![r] = Decided(@, d)],
                    Noted(audit, r, "DECISION_RECORDED"), issued)
    BY <1>1, <1>2, <1>3, <1>7, DecidedIsCounted DEF AcceptDecision
  <2>2. Commit([requests EXCEPT ![r] = Decided(@, d)], Noted(audit, r, "DECISION_RECORDED"))
    BY <1>1, <1>7 DEF AcceptDecision
  <2> QED
    BY <2>1, <2>2, CommitKeepsCount
<1>8. {"UNAUTHORIZED_DECISION_ATTEMPT", "INVALID_APPROVAL_TOKEN", "REPLAY_ATTEMPT_REJECTED"}
        \subseteq AuditEvent \ {"REQUEST_CREATED", "DECISION_RECORDED"}
  BY DEF AuditEvent
<1> QED
  BY <1>1, <1>4, <1>5, <1>6, <1>7, <1>8
  DEF RecordDecision, RefuseUnauthorized, RefuseToken, RefuseReplay

(* Every call of the store.                                                 *)
LEMMA CallKeepsCount ==
    ASSUME ~Persistent, Inv, OnceInv, [Next]_storeVars
    PROVE  OnceInv'
<1>1. LoadedRequests = requests /\ LoadedAudit = audit
  BY NothingToLoad
<1>2. requests \in Registry /\ audit \in AuditLog
  BY DEF Inv, Sound
<1>3. ASSUME NEW r \in RequestId, NEW ttl \in TTL, SaveRequest(r, ttl)
      PROVE  OnceInv'
  <2>1. now + ttl \in Nat
    BY StoreAssumption DEF Inv
  <2>2. CountedOnce(requests', audit', issued')
    BY <1>2, <1>3, <2>1, CreatedIsCounted DEF SaveRequest, OnceInv
  <2> QED
    BY <1>3, <2>2 DEF SaveRequest, OnceInv, Persist, CountedOnce, NoRequests, NoAudit
<1>4. CASE Refresh
  BY <1>1, <1>4 DEF Refresh, OnceInv, CountedOnce, NoRequests, NoAudit
<1>5. ASSUME NEW r \in RequestId, PeekRequest(r)
      PROVE  OnceInv'
  <2>1. CASE /\ IsStale(requests[r], now)
             /\ Commit([requests EXCEPT ![r] = Expired(@)], Noted(audit, r, "EXPIRED"))
    <3>1. requests[r] # NoRequest
      BY <2>1 DEF IsStale, NoRequest
    <3>2. CountedOnce([requests EXCEPT ![r] = Expired(@)], Noted(audit, r, "EXPIRED"), issued)
      BY <1>2, <3>1, ExpiredIsCounted DEF OnceInv
    <3> QED
      BY <2>1, <3>2, CommitKeepsCount
  <2> QED
    BY <1>1, <1>4, <1>5, <2>1 DEF PeekRequest
<1>6. ASSUME NEW r \in RequestId, Submit(r)
      PROVE  OnceInv'
  BY <1>6, RecordDecisionKeepsCount DEF Submit
<1>7. CASE ListRequests \/ ExpireStaleRequests
  BY <1>1, <1>7, SweepKeepsCount DEF ListRequests, ExpireStaleRequests
<1>8. CASE GetAuditLog
  BY <1>4, <1>8 DEF GetAuditLog
<1>9. CASE Clear
  <2>1. CountedOnce(NoRequests, NoAudit, issued)
    BY Events DEF CountedOnce, NoRequests, NoAudit, Untouched
  <2> QED
    BY <1>9, <2>1, CommitKeepsCount DEF Clear
<1>10. CASE Restart
  BY <1>10, Events DEF Restart, OnceInv, CountedOnce, NoRequests, NoAudit, Untouched
<1>11. CASE Tick \/ UNCHANGED storeVars
  BY <1>11 DEF Tick, storeVars, OnceInv, CountedOnce, NoRequests, NoAudit
<1> QED
  BY <1>3, <1>5, <1>6, <1>7, <1>8, <1>9, <1>10, <1>11 DEF Next

LEMMA CountInitially == Init => OnceInv
BY Events DEF Init, OnceInv, CountedOnce, NoRequests, NoAudit, Untouched

LEMMA CountIsAuditedOnce == OnceInv => AuditedOnce
BY DEF OnceInv, CountedOnce, Counts, AuditedOnce

(* However often decisions are replayed and deadlines pass, a request kept  *)
(* in memory alone has one creation entry, and one decision entry once it   *)
(* is decided.                                                              *)
THEOREM AuditedOnceHolds ==
    ASSUME ~Persistent
    PROVE  Spec => []AuditedOnce
<1>1. Inv /\ OnceInv /\ [Next]_storeVars => OnceInv'
  BY CallKeepsCount
<1> QED
  BY <1>1, CountInitially, CountIsAuditedOnce, InvHolds, PTL DEF Spec

-----------------------------------------------------------------------------
(* What request_approval returns, as long as a failed write does not leave  *)
(* an older file behind (Durable).                                          *)

FailsClosed == TimeoutBehavior # "APPROVE"

Settled(req) == req.status # "PENDING"

ApprovedByOperator(d) == d.verdict = "APPROVE" => d.by \in Operator

Answers ==
    /\ pc \in [RequestId -> Step]
    /\ result \in [RequestId -> ApprovalDecision \cup {NoDecision}]
    /\ \A w \in RequestId :
        /\ ApprovedByOperator(requests[w].decision)
        /\ pc[w] # "returned" => result[w] = NoDecision
        /\ pc[w] = "returned" => Settled(requests[w])
        /\ result[w].verdict = "APPROVE" => result[w] = requests[w].decision

ProviderInv == Inv /\ Mirrored /\ Answers

-----------------------------------------------------------------------------
(* What the calls of the providers and reviewers do to the registry.        *)
Ages(reqs, new) ==
    \A r \in RequestId : new[r] = reqs[r] \/ (reqs[r] # NoRequest /\ new[r] = Expired(reqs[r]))

Decides(reqs, new, r, d) ==
    /\ reqs[r].status = "PENDING"
    /\ new = [reqs EXCEPT ![r] = Decided(@, d)]

(* Ageing settles a request further and leaves its decision alone.          *)
LEMMA AgeingKeeps ==
    ASSUME NEW reqs \in Registry, NEW new, Ages(reqs, new), NEW r \in RequestId
    PROVE  new[r].decision = reqs[r].decision /\ (Settled(reqs[r]) => Settled(new[r]))
<1>1. reqs[r] # NoRequest => reqs[r] \in ApprovalRequest
  BY DEF Registry
<1> QED
  BY <1>1 DEF Ages, Expired, ApprovalRequest, Settled

(* A decision settles its own request and touches no other.                 *)
LEMMA DecidingKeeps ==
    ASSUME NEW reqs \in Registry, NEW new, NEW r \in RequestId, NEW d \in ApprovalDecision,
           Decides(reqs, new, r, d)
    PROVE  /\ \A s \in RequestId \ {r} : new[s] = reqs[s]
           /\ new[r].decision = d /\ Settled(new[r]) /\ ~Settled(reqs[r])
<1>1. reqs[r] \in ApprovalRequest
  BY DEF Registry, Decides, NoRequest
<1>2. new[r] = Decided(reqs[r], d) /\ \A s \in RequestId \ {r} : new[s] = reqs[s]
  BY DEF Decides, Registry
<1>3. Decided(reqs[r], d).decision = d /\ Decided(reqs[r], d).status \in {"APPROVED", "DENIED"}
  BY <1>1 DEF Decided, ApprovalRequest
<1> QED
  BY <1>2, <1>3 DEF Settled, Decides

-----------------------------------------------------------------------------
LEMMA SweepAges ==
    ASSUME Inv, Durable, Mirrored, NEW log, Sound(requests, log), Sweep(requests, log)
    PROVE  Inv' /\ Mirrored' /\ Ages(requests, requests')
<1> DEFINE stale == {r \in RequestId : IsStale(requests[r], now)}
<1>1. Inv'
  <2>1. Knows(requests)
    BY DEF Inv, OnlyIssuedAreKnown, Knows
  <2> QED
    BY <2>1, SweepIsSound, SweepKeepsKnown DEF Inv
<1>2. CASE /\ requests' = requests
           /\ audit' = log
           /\ UNCHANGED <<diskRequests, diskAudit, issued, now>>
  BY <1>1, <1>2 DEF Mirrored, Ages, NoRequests
<1>3. CASE Commit(SweptRequests(requests, stale), SweptAudit(log, stale))
  <2>1. \A r \in stale : requests[r] # NoRequest
    BY DEF IsStale, NoRequest
  <2>2. Ages(requests, SweptRequests(requests, stale))
    BY <2>1 DEF Ages, SweptRequests
  <2> QED
    BY <1>1, <1>3, <2>2, CommitMirrors
<1> QED
  BY <1>2, <1>3 DEF Sweep, SweptRequests, SweptAudit

LEMMA PeekRequestAges ==
    ASSUME Inv, Durable, Mirrored, NEW r \in RequestId, PeekRequest(r)
    PROVE  Inv' /\ Mirrored' /\ Ages(requests, requests')
<1>1. Inv'
  BY PeekRequestIsSound, PeekRequestKeepsKnown DEF Inv
<1>2. CASE Refresh
  BY <1>1, <1>2, RefreshMirrors DEF Ages
<1>3. CASE /\ IsStale(LoadedRequests[r], now)
           /\ Commit([LoadedRequests EXCEPT ![r] = Expired(@)],
                     Noted(LoadedAudit, r, "EXPIRED"))
  <2>1. requests[r] # NoRequest
    BY <1>3, ReloadChangesNothing DEF IsStale, NoRequest
  <2>2. requests' = [requests EXCEPT ![r] = Expired(@)] /\ Mirrored'
    BY <1>3, ReloadChangesNothing, CommitMirrors
  <2>3. requests \in Registry
    BY DEF Inv, Sound
  <2> QED
    BY <1>1, <2>1, <2>2, <2>3 DEF Ages, Registry
<1> QED
  BY <1>2, <1>3 DEF PeekRequest

(* A decision submitted is refused, which may age the request, or decides   *)
(* it; and one that neither approvers nor token can refuse leaves the       *)
(* request settled.                                                         *)
LEMMA RecordDecisionDecides ==
    ASSUME Inv, Durable, Mirrored, NEW r \in RequestId, NEW d \in ApprovalDecision,
           NEW approvers, RecordDecision(r, d, "none", approvers, FALSE)
    PROVE  /\ Inv' /\ Mirrored'
           /\ Ages(requests, requests') \/ Decides(requests, requests', r, d)
           /\ approvers = {} => Settled(requests'[r])
<1>1. Inv'
  BY RecordDecisionIsSound, RecordDecisionKeepsKnown DEF Inv
<1>2. LoadedRequests = requests /\ requests \in Registry
  BY ReloadChangesNothing DEF Inv, Sound
<1>3. CASE LoadedRequests[r] = NoRequest /\ Refresh
  BY <1>1, <1>2, <1>3, RefreshMirrors DEF Ages, Settled, NoRequest
<1>4. CASE LoadedRequests[r] # NoRequest /\ RefuseUnauthorized(r, d, approvers)
  <2>1. \E e \in AuditEvent : Refuse(r, e)
    BY <1>4, Events DEF RefuseUnauthorized
  <2> QED
    BY <1>1, <1>2, <1>4, <2>1, CommitMirrors DEF Ages, Refuse, RefuseUnauthorized, Unauthorized
<1>5. CASE LoadedRequests[r] # NoRequest /\ RefuseExpired(r)
  <2>1. requests' = [requests EXCEPT ![r] = Expired(@)] /\ Mirrored'
    BY <1>2, <1>5, CommitMirrors DEF RefuseExpired
  <2>2. requests[r] \in ApprovalRequest
    BY <1>2, <1>5 DEF Registry
  <2>3. requests'[r] = Expired(requests[r]) /\ \A s \in RequestId \ {r} : requests'[s] = requests[s]
    BY <1>2, <2>1 DEF Registry
  <2> QED
    BY <1>1, <1>2, <1>5, <2>1, <2>2, <2>3 DEF Ages, Settled, Expired, ApprovalRequest
<1>6. CASE RefuseToken(r, "none", FALSE)
  BY <1>6 DEF RefuseToken, TokenRefused
<1>7. CASE RefuseReplay(r)
  <2>1. requests' = requests /\ Mirrored'
    BY <1>2, <1>7, CommitMirrors DEF RefuseReplay, Refuse
  <2> QED
    BY <1>1, <1>2, <1>7, <2>1 DEF Ages, RefuseReplay, Settled
<1>8. CASE AcceptDecision(r, d)
  <2>1. Decides(requests, requests', r, d) /\ Mirrored'
    BY <1>2, <1>8, CommitMirrors DEF AcceptDecision, Decides
  <2>2. Settled(requests'[r])
    BY <1>2, <2>1, DecidingKeeps
  <2> QED
    BY <1>1, <2>1, <2>2
<1> QED
  BY <1>3, <1>4, <1>5, <1>6, <1>7, <1>8 DEF RecordDecision

-----------------------------------------------------------------------------
(* The threads' own state next to a registry that is only aged, or decided  *)
(* by a verdict that is no unattended approval.                             *)
LEMMA AnswersStay ==
    ASSUME ProviderInv,
           \/ Ages(requests, requests')
           \/ \E r \in RequestId, d \in ApprovalDecision :
                ApprovedByOperator(d) /\ Decides(requests, requests', r, d)
    PROVE  \A w \in RequestId :
                /\ ApprovedByOperator(requests'[w].decision)
                /\ pc[w] = "returned" => Settled(requests'[w])
                /\ result[w].verdict = "APPROVE" => result[w] = requests'[w].decision
<1> TAKE w \in RequestId
<1>1. requests \in Registry
  BY DEF ProviderInv, Inv, Sound
<1>2. /\ ApprovedByOperator(requests[w].decision)
      /\ pc[w] # "returned" => result[w] = NoDecision
      /\ pc[w] = "returned" => Settled(requests[w])
      /\ result[w].verdict = "APPROVE" => result[w] = requests[w].decision
  BY DEF ProviderInv, Answers
<1>3. CASE Ages(requests, requests')
  BY <1>1, <1>2, <1>3, AgeingKeeps
<1>4. ASSUME NEW r \in RequestId, NEW d \in ApprovalDecision, ApprovedByOperator(d),
             Decides(requests, requests', r, d)
      PROVE  /\ ApprovedByOperator(requests'[w].decision)
             /\ pc[w] = "returned" => Settled(requests'[w])
             /\ result[w].verdict = "APPROVE" => result[w] = requests'[w].decision
  <2>1. NoDecision.verdict # "APPROVE"
    BY DEF NoDecision
  <2>2. CASE w = r
    BY <1>1, <1>2, <1>4, <2>1, <2>2, DecidingKeeps
  <2>3. CASE w # r
    <3>1. requests'[w] = requests[w]
      BY <1>1, <1>4, <2>3, DecidingKeeps
    <3> QED
      BY <1>2, <3>1
  <2> QED
    BY <2>2, <2>3
<1> QED
  BY <1>3, <1>4

(* A thread moves on without an answer.                                     *)
LEMMA MovesOn ==
    ASSUME ProviderInv, NEW w \in RequestId, NEW step \in Step \ {"returned"}, pc[w] # "returned",
           Goto(w, step), result' = result, Inv', Mirrored', Ages(requests, requests')
    PROVE  ProviderInv'
<1>1. /\ pc \in [RequestId -> Step]
      /\ result \in [RequestId -> ApprovalDecision \cup {NoDecision}]
      /\ \A v \in RequestId : pc[v] # "returned" => result[v] = NoDecision
  BY DEF ProviderInv, Answers
<1>2. /\ pc' \in [RequestId -> Step]
      /\ \A v \in RequestId : pc'[v] = "returned" <=> pc[v] = "returned"
  BY <1>1 DEF Goto
<1>3. Answers'
  BY <1>1, <1>2, AnswersStay DEF Answers
<1> QED
  BY <1>3 DEF ProviderInv

(* A thread returns: what it returns is the decision on its request, or no  *)
(* approval, and the request is settled.                                    *)
LEMMA Answering ==
    ASSUME ProviderInv, NEW w \in RequestId, NEW d \in ApprovalDecision \cup {NoDecision},
           Return(w, d), Inv', Mirrored', Settled(requests'[w]),
           d.verdict = "APPROVE" => d = requests'[w].decision,
           \/ Ages(requests, requests')
           \/ \E r \in RequestId, e \in ApprovalDecision :
                ApprovedByOperator(e) /\ Decides(requests, requests', r, e)
    PROVE  ProviderInv'
<1>1. /\ pc \in [RequestId -> Step]
      /\ result \in [RequestId -> ApprovalDecision \cup {NoDecision}]
      /\ \A v \in RequestId : pc[v] # "returned" => result[v] = NoDecision
  BY DEF ProviderInv, Answers
<1>2. /\ pc' \in [RequestId -> Step]
      /\ result' \in [RequestId -> ApprovalDecision \cup {NoDecision}]
      /\ pc'[w] = "returned" /\ result'[w] = d
      /\ \A v \in RequestId \ {w} : pc'[v] = pc[v] /\ result'[v] = result[v]
  BY <1>1 DEF Return, Goto, Step
<1>3. Answers'
  BY <1>1, <1>2, AnswersStay DEF Answers
<1> QED
  BY <1>3 DEF ProviderInv

-----------------------------------------------------------------------------
LEMMA RequestApprovalKeeps ==
    ASSUME ProviderInv, Durable, NEW w \in RequestId, RequestApproval(w)
    PROVE  ProviderInv'
<1>1. PICK ttl \in TTL : SaveRequest(w, ttl)
  BY DEF RequestApproval
<1>2. Inv /\ Mirrored /\ requests \in Registry
  BY DEF ProviderInv, Inv, Sound
<1>3. Inv'
  <2>1. Next
    BY <1>1 DEF Next
  <2> QED
    BY <1>2, <2>1, InvInductive
<1>4. Mirrored'
  BY <1>1, <1>2 DEF SaveRequest, Persist, Durable, Mirrored, NoRequests
<1>5. /\ requests'[w].decision = NoDecision
      /\ \A v \in RequestId \ {w} : requests'[v] = requests[v]
  BY <1>1, <1>2 DEF SaveRequest, Registry, Created
<1>6. /\ pc \in [RequestId -> Step]
      /\ result \in [RequestId -> ApprovalDecision \cup {NoDecision}]
      /\ \A v \in RequestId :
            /\ ApprovedByOperator(requests[v].decision)
            /\ pc[v] # "returned" => result[v] = NoDecision
            /\ pc[v] = "returned" => Settled(requests[v])
            /\ result[v].verdict = "APPROVE" => result[v] = requests[v].decision
  BY DEF ProviderInv, Answers
<1>7. /\ pc' \in [RequestId -> Step] /\ result' = result
      /\ pc[w] # "returned" /\ pc'[w] # "returned"
      /\ \A v \in RequestId \ {w} : pc'[v] = pc[v]
  BY <1>6 DEF RequestApproval, Goto, Step
<1>8. NoDecision.verdict # "APPROVE"
  BY DEF NoDecision
<1>9. Answers'
  BY <1>5, <1>6, <1>7, <1>8 DEF Answers, ApprovedByOperator
<1> QED
  BY <1>3, <1>4, <1>9 DEF ProviderInv

(* A step that does not touch the store.                                    *)
LEMMA StoreUntouched ==
    ASSUME ProviderInv, UNCHANGED storeVars
    PROVE  Inv' /\ Mirrored' /\ Ages(requests, requests')
<1>1. Inv'
  BY InvInductive DEF ProviderInv
<1> QED
  BY <1>1 DEF ProviderInv, storeVars, Mirrored, Ages, NoRequests

LEMMA PeekKeeps ==
    ASSUME ProviderInv, Durable, NEW w \in RequestId, Peek(w)
    PROVE  ProviderInv'
<1>1. Inv' /\ Mirrored' /\ Ages(requests, requests')
  BY PeekRequestAges DEF ProviderInv, Peek
<1>2. ASSUME NEW step \in {"timeout", "overdue"}, Goto(w, step), result' = result
      PROVE  ProviderInv'
  BY <1>1, <1>2, MovesOn DEF Peek, Step
<1>3. CASE Answered(requests'[w]) /\ Return(w, requests'[w].decision)
  <2>1. requests'[w].decision \in ApprovalDecision \cup {NoDecision}
    BY <1>1, <1>3 DEF Inv, Sound, Registry, ApprovalRequest, NoRequest
  <2>2. Settled(requests'[w])
    BY <1>3 DEF Answered, Settled
  <2> QED
    BY <1>1, <1>3, <2>1, <2>2, Answering
<1> QED
  BY <1>2, <1>3 DEF Peek

LEMMA TimeoutIsNoApproval ==
    ASSUME FailsClosed
    PROVE  TimeoutDecision \in ApprovalDecision /\ TimeoutDecision.verdict = "DENY"
BY DEF FailsClosed, TimeoutDecision, ApprovalDecision, Verdict, Actor

LEMMA ResolveKeeps ==
    ASSUME ProviderInv, Durable, FailsClosed, NEW w \in RequestId, Resolve(w)
    PROVE  ProviderInv'
<1>1. RecordDecision(w, TimeoutDecision, "none", {}, FALSE) /\ Return(w, TimeoutDecision)
  BY DEF Resolve
<1>2. TimeoutDecision \in ApprovalDecision /\ TimeoutDecision.verdict = "DENY"
  BY TimeoutIsNoApproval
<1>3. /\ Inv' /\ Mirrored'
      /\ Ages(requests, requests') \/ Decides(requests, requests', w, TimeoutDecision)
      /\ Settled(requests'[w])
  BY <1>1, <1>2, RecordDecisionDecides DEF ProviderInv
<1>4. ApprovedByOperator(TimeoutDecision)
  BY <1>2 DEF ApprovedByOperator
<1> QED
  BY <1>1, <1>2, <1>3, <1>4, Answering

(* An answer at the prompt is returned only if it was recorded.             *)
LEMMA PromptKeeps ==
    ASSUME ProviderInv, Durable, NEW w \in RequestId, Prompt(w)
    PROVE  ProviderInv'
<1>1. PICK verdict \in Verdict, by \in Operator, approvers \in Approvers :
        LET d == [verdict |-> verdict, by |-> by] IN
        /\ RecordDecision(w, d, "none", approvers, FALSE)
        /\ IF requests'[w].decision # LoadedRequests[w].decision
             THEN Return(w, d)
             ELSE Goto(w, "raised") /\ UNCHANGED result
  BY DEF Prompt
<1> DEFINE d == [verdict |-> verdict, by |-> by]
<1>2. d \in ApprovalDecision /\ ApprovedByOperator(d)
  BY DEF ApprovalDecision, Actor, ApprovedByOperator
<1>3. LoadedRequests = requests /\ requests \in Registry
  BY ReloadChangesNothing DEF ProviderInv, Inv, Sound
<1> HIDE DEF d
<1>4. /\ Inv' /\ Mirrored'
      /\ Ages(requests, requests') \/ Decides(requests, requests', w, d)
  BY <1>1, <1>2, RecordDecisionDecides DEF ProviderInv, d
<1>5. CASE requests'[w].decision # requests[w].decision
  <2>1. Return(w, d)
    BY <1>1, <1>3, <1>5 DEF d
  <2>2. Decides(requests, requests', w, d)
    BY <1>3, <1>4, <1>5, AgeingKeeps
  <2>3. requests'[w].decision = d /\ Settled(requests'[w])
    BY <1>2, <1>3, <2>2, DecidingKeeps
  <2> QED
    BY <1>2, <1>4, <2>1, <2>2, <2>3, Answering
<1>6. CASE requests'[w].decision = requests[w].decision
  <2>1. Goto(w, "raised") /\ result' = result
    BY <1>1, <1>3, <1>6
  <2>2. pc[w] # "returned"
    BY DEF Prompt
  <2>3. Ages(requests, requests')
    <3>1. ASSUME Decides(requests, requests', w, d)
          PROVE  FALSE
      <4>1. requests[w] \in ApprovalRequest /\ requests[w].status = "PENDING"
        BY <1>3, <3>1 DEF Decides, Registry, NoRequest
      <4>2. requests[w].decision = NoDecision
        BY <4>1 DEF ProviderInv, Inv, Sound, WellFormed
      <4>3. requests'[w].decision = d
        BY <1>2, <1>3, <3>1, DecidingKeeps
      <4> QED
        BY <1>2, <1>6, <4>2, <4>3 DEF ApprovalDecision, NoDecision, Verdict
    <3> QED
      BY <1>4, <3>1
  <2> QED
    BY <1>4, <2>1, <2>2, <2>3, MovesOn DEF Step
<1> QED
  BY <1>5, <1>6

(* A step of other threads on the store.                                    *)
LEMMA OthersKeep ==
    ASSUME ProviderInv, UNCHANGED waitVars, Inv', Mirrored',
           \/ Ages(requests, requests')
           \/ \E r \in RequestId, d \in ApprovalDecision :
                ApprovedByOperator(d) /\ Decides(requests, requests', r, d)
    PROVE  ProviderInv'
<1>1. Answers'
  BY AnswersStay DEF Answers, waitVars, ProviderInv
<1> QED
  BY <1>1 DEF ProviderInv

LEMMA ReviewKeeps ==
    ASSUME ProviderInv, Durable, NEW w \in RequestId, Review(w)
    PROVE  ProviderInv'
<1>1. PICK d \in [verdict : Verdict, by : Operator], approvers \in Approvers :
        RecordDecision(w, d, "none", approvers, FALSE)
  BY DEF Review
<1>2. d \in ApprovalDecision /\ ApprovedByOperator(d)
  BY DEF ApprovalDecision, Actor, ApprovedByOperator
<1>3. /\ Inv' /\ Mirrored'
      /\ Ages(requests, requests') \/ Decides(requests, requests', w, d)
  BY <1>1, <1>2, RecordDecisionDecides DEF ProviderInv
<1>4. UNCHANGED waitVars
  BY DEF Review
<1> QED
  BY <1>2, <1>3, <1>4, OthersKeep

LEMMA ElapseKeeps ==
    ASSUME ProviderInv, Elapse
    PROVE  ProviderInv'
<1>1. Inv'
  <2>1. Next
    BY DEF Elapse, Next
  <2> QED
    BY <2>1, InvInductive DEF ProviderInv
<1>2. Mirrored' /\ Ages(requests, requests')
  BY DEF ProviderInv, Elapse, Tick, Mirrored, Ages, NoRequests
<1> QED
  BY <1>1, <1>2, OthersKeep DEF Elapse

LEMMA ProviderInvInitially == ProviderInit => ProviderInv
<1> SUFFICES ASSUME ProviderInit
             PROVE  ProviderInv
  OBVIOUS
<1>1. Inv /\ Mirrored
  BY InvInitially, MirroredInitially DEF ProviderInit
<1>2. Answers
  BY DEF ProviderInit, Init, NoRequests, NoRequest, NoDecision, Answers, ApprovedByOperator, Step
<1> QED
  BY <1>1, <1>2 DEF ProviderInv

LEMMA ProviderInvInductive ==
    ASSUME ProviderInv, Durable, FailsClosed, [ProviderNext]_vars
    PROVE  ProviderInv'
<1>1. ASSUME NEW w \in RequestId, StartWait(w) \/ CheckElapsed(w) \/ BreakIfExpired(w)
      PROVE  ProviderInv'
  <2>1. PICK step \in {"check", "peek", "timeout"} : Goto(w, step)
    BY <1>1 DEF StartWait, CheckElapsed, BreakIfExpired
  <2>2. pc[w] # "returned" /\ result' = result /\ UNCHANGED storeVars
    BY <1>1 DEF StartWait, CheckElapsed, BreakIfExpired
  <2>3. step \in Step \ {"returned"}
    BY DEF Step
  <2> QED
    BY <2>1, <2>2, <2>3, StoreUntouched, MovesOn
<1>2. ASSUME NEW w \in RequestId, TimeOut(w)
      PROVE  ProviderInv'
  <2>1. Sound(requests, audit) /\ Sweep(requests, audit)
    BY <1>2 DEF TimeOut, ExpireStaleRequests, ProviderInv, Inv
  <2>2. Inv' /\ Mirrored' /\ Ages(requests, requests')
    BY <2>1, SweepAges DEF ProviderInv
  <2> QED
    BY <1>2, <2>2, MovesOn DEF TimeOut, Step
<1>3. CASE Browse
  <2>1. LoadedRequests = requests /\ Sound(requests, LoadedAudit)
    BY ReloadChangesNothing, LoadedIsSound DEF ProviderInv, Inv
  <2>2. Inv' /\ Mirrored' /\ Ages(requests, requests')
    BY <1>3, <2>1, SweepAges DEF Browse, ListRequests, ProviderInv
  <2> QED
    BY <1>3, <2>2, OthersKeep DEF Browse
<1>4. CASE UNCHANGED vars
  BY <1>4, StoreUntouched, OthersKeep DEF vars
<1> QED
  BY <1>1, <1>2, <1>3, <1>4, RequestApprovalKeeps, PeekKeeps, ResolveKeeps, PromptKeeps,
     ReviewKeeps, ElapseKeeps DEF ProviderNext, Waiter

-----------------------------------------------------------------------------
(* No approval is returned but an operator's that stands on the request,    *)
(* and no answer leaves the request open.                                   *)
THEOREM FailClosedHolds ==
    ASSUME Durable, FailsClosed
    PROVE  ProviderSpec => []FailClosed
<1>1. ProviderInv => FailClosed
  BY DEF ProviderInv, Answers, FailClosed, Settled, ApprovedByOperator
<1>2. ProviderInv /\ [ProviderNext]_vars => ProviderInv'
  BY ProviderInvInductive
<1> QED
  BY ProviderInvInitially, <1>1, <1>2, PTL DEF ProviderSpec

-----------------------------------------------------------------------------
(* A provider's step, seen from the store: one of its calls, or none.  The  *)
(* timeout verdict is submitted with no approvers, whatever sets other      *)
(* callers pass.                                                            *)
LEMMA StoreSide ==
    ASSUME Inv, [ProviderNext]_vars
    PROVE  \/ [Next]_storeVars
           \/ \E approvers : \E r \in RequestId, d \in ApprovalDecision :
                RecordDecision(r, d, "none", approvers, FALSE)
<1>1. ASSUME NEW w \in RequestId, RequestApproval(w) \/ Peek(w) \/ TimeOut(w)
      PROVE  Next
  BY <1>1 DEF RequestApproval, Peek, TimeOut, Next
<1>2. ASSUME NEW w \in RequestId, Resolve(w)
      PROVE  \E approvers : \E d \in ApprovalDecision :
                RecordDecision(w, d, "none", approvers, FALSE)
  <2>1. TimeoutDecision \in ApprovalDecision
    BY DEF TimeoutDecision, ApprovalDecision, Verdict, Actor
  <2> QED
    BY <1>2, <2>1 DEF Resolve
<1>3. ASSUME NEW w \in RequestId, Prompt(w) \/ Review(w)
      PROVE  \E approvers : \E d \in ApprovalDecision :
                RecordDecision(w, d, "none", approvers, FALSE)
  <2>1. \A verdict \in Verdict, by \in Operator :
            [verdict |-> verdict, by |-> by] \in ApprovalDecision
    BY DEF ApprovalDecision, Actor
  <2>2. [verdict : Verdict, by : Operator] \subseteq ApprovalDecision
    BY DEF ApprovalDecision, Actor
  <2> QED
    BY <1>3, <2>1, <2>2 DEF Prompt, Review
<1>4. ASSUME NEW w \in RequestId, StartWait(w) \/ CheckElapsed(w) \/ BreakIfExpired(w)
      PROVE  UNCHANGED storeVars
  BY <1>4 DEF StartWait, CheckElapsed, BreakIfExpired
<1>5. CASE Browse
  BY <1>5 DEF Browse, Next
<1>6. CASE Elapse
  BY <1>6 DEF Elapse, Next
<1>7. CASE UNCHANGED vars
  BY <1>7 DEF vars
<1> QED
  BY <1>1, <1>2, <1>3, <1>4, <1>5, <1>6, <1>7 DEF ProviderNext, Waiter

(* The trail of the in-memory store counts creations and decisions once,    *)
(* however the waiting threads' timeout verdicts race with the reviewers.   *)
THEOREM ProvidersAuditOnce ==
    ASSUME ~Persistent
    PROVE  ProviderSpec => []AuditedOnce
<1>1. ProviderInit => Inv /\ OnceInv
  BY InvInitially, CountInitially DEF ProviderInit
<1>2. Inv /\ OnceInv /\ [ProviderNext]_vars => (Inv /\ OnceInv)'
  <2> SUFFICES ASSUME Inv, OnceInv, [ProviderNext]_vars
               PROVE  Inv' /\ OnceInv'
    OBVIOUS
  <2>1. CASE [Next]_storeVars
    BY <2>1, InvInductive, CallKeepsCount
  <2>2. ASSUME NEW r \in RequestId, NEW d \in ApprovalDecision, NEW approvers,
               RecordDecision(r, d, "none", approvers, FALSE)
        PROVE  Inv' /\ OnceInv'
    BY <2>2, RecordDecisionIsSound, RecordDecisionKeepsKnown, RecordDecisionKeepsCount DEF Inv
  <2> QED
    BY <2>1, <2>2, StoreSide
<1> QED
  BY <1>1, <1>2, CountIsAuditedOnce, PTL DEF ProviderSpec
=============================================================================
