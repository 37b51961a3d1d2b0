------------------------ MODULE SharedApprovalsProofs ------------------------
(***************************************************************************)
(* What survives the races between the processes that share one approvals   *)
(* file, for every set of processes and requests, whoever decides or        *)
(* creates, and whether or not processes die inside a method.               *)
(*                                                                         *)
(* One request travels whole: from a memory to the file, from the file to a *)
(* memory.  The strengthening says of every place a request can be in what  *)
(* the properties say of some: it is well formed, and its decision, if it   *)
(* has one, was accepted.                                                   *)
(***************************************************************************)
EXTENDS SharedApprovals, TLAPS

Registry == [RequestId -> ApprovalRequest \cup {NoRequest}]
Frame == [step : {"loaded", "persist", "write"}, request : RequestId,
          verdict : ApprovalDecision \cup {NoDecision}]

Acceptance == [decision : ApprovalDecision, at : Nat]

\* One request is whole, and the decision on it among the accepted ones.
Vouched(req, log) ==
    /\ WellFormed(req)
    /\ req.decision # NoDecision =>
            \E a \in log : a.decision = req.decision /\ a.at < req.expiration

\* A registry of such requests.
Trusted(reqs, log) ==
    /\ reqs \in Registry
    /\ \A r \in RequestId : Vouched(reqs[r], log[r])

SharedInv ==
    /\ memory \in [Process -> Registry]
    /\ method \in [Process -> Frame \cup {Idle}]
    /\ accepted \in [RequestId -> SUBSET Acceptance]
    /\ now \in Nat
    /\ Trusted(file, accepted)
    /\ \A p \in Process : Trusted(memory[p], accepted)

-----------------------------------------------------------------------------
(* No request is a request like any other, and so is the empty file.        *)
LEMMA NothingIsTrusted ==
    ASSUME NEW log
    PROVE  Trusted(NoFile, log)
BY DEF Trusted, Registry, NoFile, Vouched, WellFormed, NoRequest, NoDecision

(* More acceptances vouch for no less.                                      *)
LEMMA MoreAcceptedIsTrusted ==
    ASSUME NEW log, NEW more, NEW reqs, Trusted(reqs, log),
           \A r \in RequestId : log[r] \subseteq more[r]
    PROVE  Trusted(reqs, more)
BY DEF Trusted, Vouched

(* One request replaced by one that is vouched for.                         *)
LEMMA ReplacedIsTrusted ==
    ASSUME NEW log, NEW reqs, Trusted(reqs, log), NEW r \in RequestId,
           NEW req \in ApprovalRequest, Vouched(req, log[r])
    PROVE  Trusted([reqs EXCEPT ![r] = req], log)
BY DEF Trusted, Registry

(* What a load leaves in memory, request by request, is either the file's   *)
(* or the memory's own.                                                     *)
LEMMA MergedIsTrusted ==
    ASSUME NEW log, NEW reqs, Trusted(reqs, log), NEW theirs, Trusted(theirs, log)
    PROVE  Trusted([q \in RequestId |-> IF theirs[q] # NoRequest THEN theirs[q] ELSE reqs[q]],
                   log)
BY DEF Trusted, Registry

(* What the methods make of a request.                                      *)
LEMMA CreatedIsVouched ==
    ASSUME NEW log, NEW t \in Nat
    PROVE  Created(t) \in ApprovalRequest /\ Vouched(Created(t), log)
BY DEF Created, ApprovalRequest, ApprovalStatus, Vouched, WellFormed

LEMMA ExpiredIsVouched ==
    ASSUME NEW log, NEW req \in ApprovalRequest, Vouched(req, log)
    PROVE  Expired(req) \in ApprovalRequest /\ Vouched(Expired(req), log)
BY DEF Expired, ApprovalRequest, ApprovalStatus, Vouched, WellFormed

LEMMA DecidedIsVouched ==
    ASSUME NEW log, NEW req \in ApprovalRequest, NEW d \in ApprovalDecision,
           NEW a \in log, a.decision = d, a.at < req.expiration
    PROVE  Decided(req, d) \in ApprovalRequest /\ Vouched(Decided(req, d), log)
<1>1. Decided(req, d) \in ApprovalRequest
  BY DEF Decided, ApprovalRequest, ApprovalStatus
<1>2. Decided(req, d).decision = d /\ Decided(req, d).expiration = req.expiration
  BY DEF Decided, ApprovalRequest
<1>3. d # NoDecision
  BY DEF ApprovalDecision, NoDecision, Verdict
<1>4. WellFormed(Decided(req, d))
  BY <1>3 DEF Decided, ApprovalRequest, ApprovalDecision, Verdict, WellFormed
<1> QED
  BY <1>1, <1>2, <1>4 DEF Vouched

-----------------------------------------------------------------------------
(* A step that gives process p another trusted memory, and may accept more. *)
LEMMA MemoryReplaced ==
    ASSUME SharedInv, NEW p \in Process, NEW reqs,
           memory' = [memory EXCEPT ![p] = reqs],
           accepted' \in [RequestId -> SUBSET Acceptance],
           \A r \in RequestId : accepted[r] \subseteq accepted'[r],
           Trusted(reqs, accepted'), file' = file, now' = now,
           method' \in [Process -> Frame \cup {Idle}]
    PROVE  SharedInv'
<1>1. reqs \in Registry
  BY DEF Trusted
<1>2. memory' \in [Process -> Registry]
  BY <1>1 DEF SharedInv
<1>3. \A q \in Process : Trusted(memory'[q], accepted')
  <2> TAKE q \in Process
  <2>1. CASE q = p
    BY <2>1 DEF SharedInv
  <2>2. CASE q # p
    <3>1. memory'[q] = memory[q] /\ Trusted(memory[q], accepted)
      BY <2>2 DEF SharedInv
    <3> QED
      BY <3>1, MoreAcceptedIsTrusted
  <2> QED
    BY <2>1, <2>2
<1>4. Trusted(file', accepted')
  BY MoreAcceptedIsTrusted DEF SharedInv
<1> QED
  BY <1>2, <1>3, <1>4 DEF SharedInv

(* Moving to another step of the method, or out of it.                      *)
LEMMA MethodTyped ==
    ASSUME SharedInv, NEW p \in Process,
           \/ \E step \in {"loaded", "persist", "write"} : method[p] # Idle /\ Goto(p, step)
           \/ Done(p)
           \/ \E m \in Frame : method' = [method EXCEPT ![p] = m]
    PROVE  method' \in [Process -> Frame \cup {Idle}]
<1>1. ASSUME NEW step \in {"loaded", "persist", "write"}, method[p] # Idle, Goto(p, step)
      PROVE  method' \in [Process -> Frame \cup {Idle}]
  <2>1. method[p] \in Frame
    BY <1>1 DEF SharedInv
  <2>2. [method[p] EXCEPT !.step = step] \in Frame
    BY <2>1 DEF Frame
  <2>3. method' = [method EXCEPT ![p] = [method[p] EXCEPT !.step = step]]
    BY <1>1 DEF Goto
  <2> QED
    BY <2>2, <2>3 DEF SharedInv
<1>2. CASE Done(p)
  BY <1>2 DEF Done, SharedInv
<1>3. CASE \E m \in Frame : method' = [method EXCEPT ![p] = m]
  BY <1>3 DEF SharedInv
<1> QED
  BY <1>1, <1>2, <1>3

LEMMA LoadKeepsInv ==
    ASSUME SharedInv, NEW p \in Process, NEW r \in RequestId,
           NEW d \in ApprovalDecision \cup {NoDecision}, Load(p, r, d)
    PROVE  SharedInv'
<1> DEFINE reqs == [q \in RequestId |-> IF file[q] # NoRequest THEN file[q] ELSE memory[p][q]]
<1>1. memory' = [memory EXCEPT ![p] = reqs]
  BY DEF Load
<1>2. Trusted(reqs, accepted)
  BY MergedIsTrusted DEF SharedInv
<1>3. method' \in [Process -> Frame \cup {Idle}]
  <2>1. [step |-> "loaded", request |-> r, verdict |-> d] \in Frame
    BY DEF Frame
  <2> QED
    BY <2>1, MethodTyped DEF Load
<1>4. file' = file /\ now' = now /\ accepted' = accepted
  BY DEF Load
<1> HIDE DEF reqs
<1>5. accepted' \in [RequestId -> SUBSET Acceptance]
  BY <1>4 DEF SharedInv
<1> QED
  BY <1>1, <1>2, <1>3, <1>4, <1>5, MemoryReplaced

LEMMA SaveRequestKeepsInv ==
    ASSUME SharedInv, NEW p \in Process, NEW r \in RequestId, SaveRequest(p, r)
    PROVE  SharedInv'
<1>1. PICK ttl \in TTL : memory' = [memory EXCEPT ![p][r] = Created(now + ttl)]
  BY DEF SaveRequest
<1> DEFINE reqs == [memory[p] EXCEPT ![r] = Created(now + ttl)]
<1>2. memory' = [memory EXCEPT ![p] = reqs]
  BY <1>1
<1>3. now + ttl \in Nat
  BY SharedAssumption DEF SharedInv
<1>4. Trusted(reqs, accepted)
  BY <1>3, CreatedIsVouched, ReplacedIsTrusted DEF SharedInv
<1>5. method' \in [Process -> Frame \cup {Idle}]
  <2>1. [step |-> "persist", request |-> r, verdict |-> NoDecision] \in Frame
    BY DEF Frame
  <2> QED
    BY <2>1, MethodTyped DEF SaveRequest
<1>6. file' = file /\ now' = now /\ accepted' = accepted
  BY DEF SaveRequest
<1> HIDE DEF reqs
<1>7. accepted' \in [RequestId -> SUBSET Acceptance]
  BY <1>6 DEF SharedInv
<1> QED
  BY <1>2, <1>4, <1>5, <1>6, <1>7, MemoryReplaced

-----------------------------------------------------------------------------
(* The second half of a method, on the request it is about.                 *)
LEMMA DecideKeepsInv ==
    ASSUME SharedInv, NEW p \in Process, Decide(p)
    PROVE  SharedInv'
<1> DEFINE r == method[p].request
<1>1. method[p] \in Frame /\ r \in RequestId
  BY DEF SharedInv, Decide, Frame
<1>2. file' = file /\ now' = now /\ method[p] # Idle
  BY DEF Decide
<1>3. Trusted(memory[p], accepted) /\ accepted \in [RequestId -> SUBSET Acceptance]
  BY DEF SharedInv
<1>4. Vouched(Mine(p), accepted[r]) /\ (Mine(p) # NoRequest => Mine(p) \in ApprovalRequest)
  BY <1>1, <1>3 DEF Mine, Trusted, Registry
<1>5. ASSUME NEW req \in ApprovalRequest, Becomes(p, req),
             accepted' \in [RequestId -> SUBSET Acceptance],
             \A q \in RequestId : accepted[q] \subseteq accepted'[q],
             Vouched(req, accepted'[r])
      PROVE  SharedInv'
  <2> DEFINE reqs == [memory[p] EXCEPT ![r] = req]
  <2>1. memory' = [memory EXCEPT ![p] = reqs]
    BY <1>5 DEF Becomes
  <2>2. Trusted(reqs, accepted')
    BY <1>1, <1>3, <1>5, MoreAcceptedIsTrusted, ReplacedIsTrusted
  <2>3. method' \in [Process -> Frame \cup {Idle}]
    BY <1>2, <1>5, MethodTyped DEF Becomes
  <2> HIDE DEF reqs
  <2> QED
    BY <1>2, <1>5, <2>1, <2>2, <2>3, MemoryReplaced
<1>6. CASE NothingToDo(p)
  <2>1. memory' = [memory EXCEPT ![p] = memory[p]]
    BY <1>6 DEF NothingToDo, SharedInv
  <2>2. method' \in [Process -> Frame \cup {Idle}]
    BY <1>6, MethodTyped DEF NothingToDo
  <2>3. accepted' = accepted
    BY <1>6 DEF NothingToDo
  <2> QED
    BY <1>2, <1>3, <2>1, <2>2, <2>3, MemoryReplaced
<1>7. CASE ExpireOverdue(p)
  <2>1. Mine(p) \in ApprovalRequest
    BY <1>4, <1>7 DEF ExpireOverdue
  <2>2. Expired(Mine(p)) \in ApprovalRequest /\ Vouched(Expired(Mine(p)), accepted[r])
    BY <1>4, <2>1, ExpiredIsVouched
  <2>3. accepted' = accepted /\ Becomes(p, Expired(Mine(p)))
    BY <1>7 DEF ExpireOverdue
  <2> QED
    BY <1>3, <1>5, <2>2, <2>3
<1>8. CASE RejectReplay(p)
  <2>1. Mine(p) \in ApprovalRequest
    BY <1>4, <1>8 DEF RejectReplay
  <2>2. accepted' = accepted /\ Becomes(p, Mine(p))
    BY <1>8 DEF RejectReplay
  <2> QED
    BY <1>3, <1>4, <1>5, <2>1, <2>2
<1>9. CASE AcceptDecision(p)
  <2> DEFINE d == method[p].verdict
             a == [decision |-> d, at |-> now]
  <2>1. Mine(p) \in ApprovalRequest
    BY <1>4, <1>9 DEF AcceptDecision
  <2>2. d \in ApprovalDecision
    BY <1>1, <1>9 DEF AcceptDecision, Deciding, Frame
  <2>3. a \in Acceptance
    BY <2>2 DEF Acceptance, SharedInv
  <2>4. accepted' = [accepted EXCEPT ![r] = @ \cup {a}]
    BY <1>9 DEF AcceptDecision, Accepted
  <2>5. /\ accepted' \in [RequestId -> SUBSET Acceptance]
        /\ \A q \in RequestId : accepted[q] \subseteq accepted'[q]
        /\ a \in accepted'[r]
    <3> HIDE DEF a, r
    <3> QED
      BY <1>1, <1>3, <2>3, <2>4
  <2>6. now < Mine(p).expiration
    <3>1. now \in Nat /\ Mine(p).expiration \in Nat
      BY <2>1 DEF SharedInv, ApprovalRequest
    <3> QED
      BY <1>9, <3>1 DEF AcceptDecision, IsExpired
  <2>7. /\ Decided(Mine(p), d) \in ApprovalRequest
        /\ Vouched(Decided(Mine(p), d), accepted'[r])
    BY <2>1, <2>2, <2>5, <2>6, DecidedIsVouched
  <2>8. Becomes(p, Decided(Mine(p), d))
    BY <1>9 DEF AcceptDecision
  <2> QED
    BY <1>5, <2>5, <2>7, <2>8
<1> QED
  BY <1>6, <1>7, <1>8, <1>9 DEF Decide

-----------------------------------------------------------------------------
LEMMA TruncateKeepsInv ==
    ASSUME SharedInv, NEW p \in Process, Truncate(p)
    PROVE  SharedInv'
<1>1. method[p] # Idle
  BY DEF Truncate, Idle
<1>2. method' \in [Process -> Frame \cup {Idle}]
  BY <1>1, MethodTyped DEF Truncate
<1> QED
  BY <1>2, NothingIsTrusted DEF SharedInv, Truncate

LEMMA WriteKeepsInv ==
    ASSUME SharedInv, NEW p \in Process, Write(p)
    PROVE  SharedInv'
<1>1. method' \in [Process -> Frame \cup {Idle}]
  BY MethodTyped DEF Write
<1>2. Trusted(file', accepted)
  BY NothingIsTrusted DEF SharedInv, Write
<1> QED
  BY <1>1, <1>2 DEF SharedInv, Write

LEMMA RestartKeepsInv ==
    ASSUME SharedInv, NEW p \in Process, Restart(p)
    PROVE  SharedInv'
<1>1. method' \in [Process -> Frame \cup {Idle}]
  BY MethodTyped DEF Restart
<1>2. /\ memory' = [memory EXCEPT ![p] = file] /\ accepted' = accepted
      /\ file' = file /\ now' = now
  BY DEF Restart
<1>3. Trusted(file, accepted) /\ accepted \in [RequestId -> SUBSET Acceptance]
  BY DEF SharedInv
<1> QED
  BY <1>1, <1>2, <1>3, MemoryReplaced

LEMMA InitIsTrusted == Init => SharedInv
<1> SUFFICES ASSUME Init
             PROVE  SharedInv
  OBVIOUS
<1>1. NoFile \in Registry
  BY DEF NoFile, Registry
<1>2. \A p \in Process : memory[p] = NoFile
  BY DEF Init
<1>3. Trusted(file, accepted) /\ \A p \in Process : Trusted(memory[p], accepted)
  BY <1>2, NothingIsTrusted DEF Init
<1> QED
  BY <1>1, <1>3 DEF Init, SharedInv

(* The inductive invariant of the shared file.                              *)
THEOREM SharedInvariant == Spec => []SharedInv
<1>1. SharedInv /\ [Next]_vars => SharedInv'
  <2> SUFFICES ASSUME SharedInv, [Next]_vars
               PROVE  SharedInv'
    OBVIOUS
  <2>1. ASSUME NEW p \in Process, NEW r \in RequestId, SaveRequest(p, r)
        PROVE  SharedInv'
    BY <2>1, SaveRequestKeepsInv
  <2>2. ASSUME NEW p \in Process, NEW r \in RequestId,
               NEW d \in ApprovalDecision \cup {NoDecision}, Load(p, r, d)
        PROVE  SharedInv'
    BY <2>2, LoadKeepsInv
  <2>3. ASSUME NEW p \in Process, Decide(p) \/ Truncate(p) \/ Write(p) \/ Restart(p)
        PROVE  SharedInv'
    BY <2>3, DecideKeepsInv, TruncateKeepsInv, WriteKeepsInv, RestartKeepsInv
  <2>4. CASE Tick
    BY <2>4 DEF Tick, SharedInv
  <2>5. CASE UNCHANGED vars
    BY <2>5 DEF vars, SharedInv
  <2> QED
    BY <2>1, <2>2, <2>3, <2>4, <2>5 DEF Next
<1> QED
  BY InitIsTrusted, <1>1, PTL DEF Spec

(* However the processes interleave and wherever they die, no registry ever *)
(* holds a mixture of two versions of a request.                            *)
THEOREM NoMixedVersionsHolds == Spec => []NoMixedVersions
<1>1. SharedInv => NoMixedVersions
  BY DEF SharedInv, Trusted, Vouched, NoMixedVersions
<1> QED
  BY <1>1, SharedInvariant, PTL

(* Every decision any process sees was accepted on that request, in time.   *)
THEOREM DecisionsWereAcceptedHolds == Spec => []DecisionsWereAccepted
<1>1. SharedInv => DecisionsWereAccepted
  BY DEF SharedInv, Trusted, Vouched, DecisionsWereAccepted
<1> QED
  BY <1>1, SharedInvariant, PTL
=============================================================================
