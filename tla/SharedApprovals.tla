---------------------------- MODULE SharedApprovals ----------------------------
(***************************************************************************)
(* Several processes, each with an ApprovalStore object of its own, on one  *)
(* JSON file: the agent that asks, the API server and the `approvals`       *)
(* commands of cli.py, which all open .runtimeverify/approvals.json.        *)
(*                                                                         *)
(* The RLock of a store excludes the threads of its own process and nobody  *)
(* else.  So each process is in at most one method, and the others run      *)
(* between its steps: read the file into memory, decide in memory, truncate *)
(* the file (open with "w"), write it.  save_request does not read first.   *)
(*                                                                         *)
(* The audit log is left out.  The callers of the commands and of the       *)
(* router pass neither approvers nor a token.  A file that json.load        *)
(* refuses loads as nothing (NoFile), however it came to be unreadable.     *)
(***************************************************************************)
EXTENDS ApprovalRequests

CONSTANTS
    Process,
    Decider,        \* the processes whose operators decide
    Creator,        \* the processes that create requests
    TTL,            \* expiration - now of the requests they create
    Crashes,        \* can a process die inside a method?
    MaxTime         \* bound on the clock

ASSUME SharedAssumption ==
    /\ Decider \subseteq Process /\ Creator \subseteq Process
    /\ TTL \subseteq Nat
    /\ Crashes \in BOOLEAN
    /\ MaxTime \in Nat

VARIABLES
    memory,         \* self._requests of each process
    file,           \* "requests" in the file
    method,         \* what each process is doing
    overwritten,    \* has another process written since this one truncated?
    accepted,       \* the decisions record_decision accepted, and when
    issued, now

vars == <<memory, file, method, overwritten, accepted, issued, now>>

NoFile == [r \in RequestId |-> NoRequest]

\* verdict: the decision submitted, NoDecision in peek_request and save_request.
Idle == [step |-> "idle"]
Init ==
    /\ memory = [p \in Process |-> NoFile]
    /\ file = NoFile
    /\ method = [p \in Process |-> Idle]
    /\ overwritten = [p \in Process |-> FALSE]
    /\ accepted = [r \in RequestId |-> {}]
    /\ issued = {}
    /\ now = 0

Goto(p, step) == method' = [method EXCEPT ![p].step = step]
Done(p) == method' = [method EXCEPT ![p] = Idle]

-----------------------------------------------------------------------------
SaveRequest(p, r) ==
    /\ method[p] = Idle
    /\ r \notin issued
    /\ \E ttl \in TTL : memory' = [memory EXCEPT ![p][r] = Created(now + ttl)]
    /\ issued' = issued \cup {r}
    /\ method' = [method EXCEPT ![p] =
                    [step |-> "persist", request |-> r, verdict |-> NoDecision]]
    /\ UNCHANGED <<file, overwritten, accepted, now>>

MutantLoadFieldwise(p, r, d) ==
    /\ method[p] = Idle
    /\ memory' = [memory EXCEPT ![p] =
            [q \in RequestId |->
                IF file[q] # NoRequest /\ @[q] # NoRequest
                  THEN [file[q] EXCEPT !.status = memory[p][q].status]
                  ELSE IF file[q] # NoRequest THEN file[q] ELSE @[q]]]
    /\ method' = [method EXCEPT ![p] =
                    [step |-> "loaded", request |-> r, verdict |-> d]]
    /\ UNCHANGED <<file, overwritten, accepted, issued, now>>

(* peek_request (d = NoDecision) or record_decision is entered: the         *)
(* requests in the file replace those of the same id in memory.             *)
Load(p, r, d) ==
    /\ method[p] = Idle
    /\ memory' = [memory EXCEPT ![p] =
            [q \in RequestId |-> IF file[q] # NoRequest THEN file[q] ELSE @[q]]]
    /\ method' = [method EXCEPT ![p] =
                    [step |-> "loaded", request |-> r, verdict |-> d]]
    /\ UNCHANGED <<file, overwritten, accepted, issued, now>>

-----------------------------------------------------------------------------
Mine(p) == memory[p][method[p].request]
Deciding(p) == method[p].verdict # NoDecision

MutantBecomesForAll(p, req) ==
    /\ memory' = [memory EXCEPT ![p] =
            [q \in RequestId |-> IF @[q] = NoRequest THEN NoRequest ELSE req]]
    /\ Goto(p, "persist")

\* The request of p becomes req, and the whole of p's memory is to be written.
Becomes(p, req) ==
    /\ memory' = [memory EXCEPT ![p][method[p].request] = req]
    /\ Goto(p, "persist")

\* Nothing to change: a peek of a request that is not overdue, or an unknown id.
NothingToDo(p) ==
    /\ Mine(p) = NoRequest \/ (~Deciding(p) /\ ~IsStale(Mine(p), now))
    /\ Done(p)
    /\ UNCHANGED <<memory, accepted>>

ExpireOverdue(p) ==
    /\ Mine(p) # NoRequest
    /\ IF Deciding(p) THEN IsExpired(Mine(p), now) ELSE IsStale(Mine(p), now)
    /\ Becomes(p, Expired(Mine(p)))
    /\ UNCHANGED accepted

RejectReplay(p) ==
    /\ Mine(p) # NoRequest /\ Deciding(p)
    /\ ~IsExpired(Mine(p), now)
    /\ Mine(p).status # "PENDING"
    /\ Becomes(p, Mine(p))
    /\ UNCHANGED accepted

Accepted(r, d) == accepted' = [accepted EXCEPT ![r] = @ \cup {[decision |-> d, at |-> now]}]

AcceptDecision(p) ==
    /\ Mine(p) # NoRequest /\ Deciding(p)
    /\ ~IsExpired(Mine(p), now)
    /\ Mine(p).status = "PENDING"
    /\ Becomes(p, Decided(Mine(p), method[p].verdict))
    /\ Accepted(method[p].request, method[p].verdict)

\* The rest of the method up to its _persist, in memory.
Decide(p) ==
    /\ method[p] # Idle /\ method[p].step = "loaded"
    /\ NothingToDo(p) \/ ExpireOverdue(p) \/ RejectReplay(p) \/ AcceptDecision(p)
    /\ UNCHANGED <<file, overwritten, issued, now>>

-----------------------------------------------------------------------------
\* open(path, "w")
Truncate(p) ==
    /\ method[p].step = "persist"
    /\ file' = NoFile
    /\ overwritten' = [overwritten EXCEPT ![p] = FALSE]
    /\ Goto(p, "write")
    /\ UNCHANGED <<memory, accepted, issued, now>>

(* json.dump and close.  Over the text another process wrote meanwhile, what*)
(* remains may be longer than one document, which json.load refuses.        *)
Write(p) ==
    /\ method[p].step = "write"
    /\ \/ file' = memory[p]
       \/ overwritten[p] /\ file' = NoFile
    /\ overwritten' = [q \in Process |-> method[q].step = "write" /\ q # p]
    /\ Done(p)
    /\ UNCHANGED <<memory, accepted, issued, now>>

\* The process dies, wherever it stands, and a new one loads the file.
Restart(p) ==
    /\ Crashes
    /\ memory' = [memory EXCEPT ![p] = file]
    /\ Done(p)
    /\ UNCHANGED <<file, overwritten, accepted, issued, now>>

Tick ==
    /\ now < MaxTime
    /\ now' = now + 1
    /\ UNCHANGED <<memory, file, method, overwritten, accepted, issued>>

Next ==
    \/ \E p \in Process, r \in RequestId :
        \/ p \in Creator /\ SaveRequest(p, r)
        \/ Load(p, r, NoDecision)
        \/ p \in Decider /\ \E d \in ApprovalDecision : Load(p, r, d)
    \/ \E p \in Process : Decide(p) \/ Truncate(p) \/ Write(p) \/ Restart(p)
    \/ Tick

Spec == Init /\ [][Next]_vars

-----------------------------------------------------------------------------
(* However the processes' reads, truncations and writes interleave, no      *)
(* request is ever a mixture of two versions: the file and every memory     *)
(* hold requests whose status, decision and token agree.                    *)
NoMixedVersions ==
    \A r \in RequestId : WellFormed(file[r]) /\ \A p \in Process : WellFormed(memory[p][r])

(* A decision that any process sees on a request was accepted, on that very *)
(* request and before its deadline, by record_decision in some process.     *)
DecisionsWereAccepted ==
    \A p \in Process, r \in RequestId :
        memory[p][r].decision # NoDecision =>
            \E a \in accepted[r] :
                a.decision = memory[p][r].decision /\ a.at < memory[p][r].expiration

(* docs/approvals/security-model.md:36, "A decision cannot be overturned":  *)
(* no two different verdicts are accepted on one request.                   *)
OneVerdict ==
    \A r \in RequestId : \A a, b \in accepted[r] : a.decision.verdict = b.decision.verdict
=============================================================================
