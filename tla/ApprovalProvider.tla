-------------------------- MODULE ApprovalProvider --------------------------
(***************************************************************************)
(* approvals/api_provider.py and approvals/cli_provider.py on the store of  *)
(* their process: request_approval saves the request and then blocks, either*)
(* polling the store until a decision or the timeout, or prompting in the   *)
(* terminal.  Each request has its own waiting thread; reviewers act on the *)
(* same store object from other threads (API router, submit_decision).      *)
(*                                                                         *)
(* Each call on the store is one step of its caller (the RLock); a thread   *)
(* can be overtaken between two calls, and between a call and the next      *)
(* reading of the clock.  sleep(poll_interval) is the freedom to be slow.   *)
(* time.monotonic and the wall clock are one clock.                         *)
(***************************************************************************)
EXTENDS ApprovalStore

CONSTANTS
    Timeout,            \* request.timeout_seconds, in ticks of the clock
    TimeoutBehavior,    \* request.timeout_behavior
    Interactive         \* CLIApprovalProvider.interactive, of the providers in use

(* RuntimeActionInterceptor computes the deadline as now + timeout before   *)
(* it calls request_approval: what is left at the save is at most Timeout.  *)
ASSUME ProviderAssumption ==
    /\ Timeout \in Nat \ {0}
    /\ TTL \subseteq 0..Timeout
    /\ TimeoutBehavior \in {"DENY", "FAIL_CLOSED", "APPROVE"}
    /\ Interactive \subseteq BOOLEAN

VARIABLES
    pc,         \* where the thread of each request stands
    started,    \* its start_time
    result      \* the decision request_approval returned

waitVars == <<pc, started, result>>
vars == <<storeVars, waitVars>>

Step == {"idle", "saved", "check", "peek", "overdue", "timeout", "resolve",
         "prompt", "returned", "raised"}

ProviderInit ==
    /\ Init
    /\ pc = [w \in RequestId |-> "idle"]
    /\ started = [w \in RequestId |-> 0]
    /\ result = [w \in RequestId |-> NoDecision]

Goto(w, step) == pc' = [pc EXCEPT ![w] = step]

Return(w, decision) ==
    /\ Goto(w, "returned")
    /\ result' = [result EXCEPT ![w] = decision]

-----------------------------------------------------------------------------
(* request_approval: the request is saved.  A deadline beyond MaxTime could *)
(* not be reached by the bounded clock.                                     *)
RequestApproval(w) ==
    /\ pc[w] = "idle"
    /\ now + Timeout <= MaxTime
    /\ \E ttl \in TTL : SaveRequest(w, ttl)
    /\ \E interactive \in Interactive : Goto(w, IF interactive THEN "prompt" ELSE "saved")
    /\ UNCHANGED <<started, result>>

\* The webhook has been called (its failure is logged); the wait begins.
StartWait(w) ==
    /\ pc[w] = "saved"
    /\ started' = [started EXCEPT ![w] = now]
    /\ Goto(w, "check")
    /\ UNCHANGED <<storeVars, result>>

\* while (time.monotonic() - start_time) < timeout
CheckElapsed(w) ==
    /\ pc[w] = "check"
    /\ Goto(w, IF now - started[w] < Timeout THEN "peek" ELSE "timeout")
    /\ UNCHANGED <<storeVars, started, result>>

Answered(req) ==
    req.status \in {"APPROVED", "DENIED", "CANCELLED"} /\ req.decision # NoDecision

Peek(w) ==
    /\ pc[w] = "peek"
    /\ PeekRequest(w)
    /\ \/ /\ requests'[w] = NoRequest
          /\ Goto(w, "timeout")
          /\ UNCHANGED result
       \/ /\ Answered(requests'[w])
          /\ Return(w, requests'[w].decision)
       \/ /\ requests'[w] # NoRequest /\ ~Answered(requests'[w])
          /\ Goto(w, "overdue")
          /\ UNCHANGED result
    /\ UNCHANGED started

MutantRestartTheWait(w) ==
    /\ pc[w] = "overdue"
    /\ Goto(w, "saved")
    /\ UNCHANGED <<storeVars, started, result>>

\* updated_req.is_expired() breaks the loop; otherwise sleep and check again.
BreakIfExpired(w) ==
    /\ pc[w] = "overdue"
    /\ Goto(w, IF IsExpired(requests[w], now) THEN "timeout" ELSE "check")
    /\ UNCHANGED <<storeVars, started, result>>

MutantTimeoutOpen ==
    [verdict |-> IF TimeoutBehavior = "DENY" THEN "DENY" ELSE "APPROVE",
     by      |-> SystemTimeout]
TimeoutDecision ==
    [verdict |-> IF TimeoutBehavior = "APPROVE" THEN "APPROVE" ELSE "DENY",
     by      |-> SystemTimeout]

\* The loop is left: the store is asked to expire what is overdue.
TimeOut(w) ==
    /\ pc[w] = "timeout"
    /\ ExpireStaleRequests
    /\ Goto(w, "resolve")
    /\ UNCHANGED <<started, result>>

\* What record_decision raises is swallowed; the thread returns its own verdict.
Resolve(w) ==
    /\ pc[w] = "resolve"
    /\ RecordDecision(w, TimeoutDecision, "none", {}, FALSE)
    /\ Return(w, TimeoutDecision)
    /\ UNCHANGED started

(* _prompt_interactive: the terminal's answer (an interrupt is a DENY) is   *)
(* submitted under the provider's approvers; a refusal is raised.           *)
Prompt(w) ==
    /\ pc[w] = "prompt"
    /\ \E verdict \in Verdict, by \in Operator, approvers \in Approvers :
        LET d == [verdict |-> verdict, by |-> by] IN
        /\ RecordDecision(w, d, "none", approvers, FALSE)
        /\ IF requests'[w].decision # LoadedRequests[w].decision
             THEN Return(w, d)
             ELSE Goto(w, "raised") /\ UNCHANGED result
    /\ UNCHANGED started

Waiter(w) ==
    \/ StartWait(w)
    \/ CheckElapsed(w)
    \/ Peek(w)
    \/ BreakIfExpired(w)
    \/ TimeOut(w)
    \/ Resolve(w)

-----------------------------------------------------------------------------
(* A reviewer decides from another thread: through the API router (no       *)
(* approvers, no token) or through submit_decision.                         *)
Review(w) ==
    /\ \E d \in [verdict : Verdict, by : Operator], approvers \in Approvers :
        RecordDecision(w, d, "none", approvers, FALSE)
    /\ UNCHANGED waitVars

\* list_pending and list_all of any thread.
Browse ==
    /\ ListRequests
    /\ UNCHANGED waitVars

Elapse ==
    /\ Tick
    /\ UNCHANGED waitVars

ProviderNext ==
    \/ \E w \in RequestId : RequestApproval(w) \/ Waiter(w) \/ Prompt(w) \/ Review(w)
    \/ Browse
    \/ Elapse

(* The polling thread is a running Python thread and time passes.  Nothing  *)
(* is assumed of reviewers, of callers or of the person at the prompt.      *)
ProviderFairness ==
    /\ \A w \in RequestId : WF_vars(Waiter(w))
    /\ WF_vars(Elapse)

ProviderSpec == ProviderInit /\ [][ProviderNext]_vars /\ ProviderFairness

-----------------------------------------------------------------------------
(* Fail-closed: APPROVE is returned only when an operator's APPROVE is the  *)
(* decision recorded on that very request.  Neither the timeout path nor a  *)
(* race between the poll and the reviewers produces an approval, and none   *)
(* leaves a request open that reviewers could approve after the answer.     *)
FailClosed ==
    \A w \in RequestId :
        /\ result[w].verdict = "APPROVE" =>
            /\ result[w].by \in Operator
            /\ requests[w].decision = result[w]
        /\ pc[w] = "returned" => requests[w].status # "PENDING"

(* request_approval of a polling provider always returns, whatever the      *)
(* reviewers do or fail to do.                                              *)
WaitEnds == \A w \in RequestId : pc[w] = "saved" ~> pc[w] = "returned"

(* approvals/provider.py:32, request_approval "returns the final decision": *)
(* if an operator's verdict stands on the request, that is what the caller  *)
(* was given.  It does not hold: see the README.                            *)
ReturnsTheFinalDecision ==
    \A w \in RequestId :
        pc[w] = "returned" /\ requests[w].decision # NoDecision
            => result[w] = requests[w].decision
=============================================================================
