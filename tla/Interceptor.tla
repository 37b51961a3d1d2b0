----------------------------- MODULE Interceptor -----------------------------
(***************************************************************************)
(* interception/interceptor.py: RuntimeActionInterceptor.intercept, and the *)
(* three SDK entry points that call it (sdk/client.py: authorize, check,    *)
(* observe), run by several threads of one process on one client.           *)
(*                                                                         *)
(* Nothing here is locked.  The threads share interceptor.mode, which check *)
(* and observe replace by OBSERVE for the duration of their call and put    *)
(* back in a finally clause; intercept reads it again at each place where   *)
(* it matters.  A step of a thread is the code between two such reads, or   *)
(* the call of something outside (handler, approval provider).              *)
(*                                                                         *)
(* What the subsystems report is an input; Synthesize turns it into the     *)
(* verdict.  Each thread handles one action after another; its variables    *)
(* describe the action it handles, or has handled last.                     *)
(***************************************************************************)
EXTENDS VerificationStrategy

CONSTANTS
    Thread,         \* threads of the host application
    Clients,        \* the set-ups considered
    Reports         \* what the subsystems may find out about an action

EntryPoint == {"authorize", "check", "observe"}

ASSUME InterceptorAssumption ==
    /\ Clients \subseteq
            [uses       : [Thread -> SUBSET EntryPoint],    \* what each thread calls
             failClosed : BOOLEAN,                          \* fail_closed
             provider   : BOOLEAN]                          \* approval provider given?
    /\ Reports \subseteq EvidenceSet

Step == {"idle", "switch", "event", "policy", "semantic", "behaviour", "gate",
         "approval", "execute", "audit", "leave"}

VARIABLES
    client,     \* the set-up, which never changes
    mode,       \* interceptor.mode
    pc,         \* where each thread stands
    entry,      \* the entry point it is in
    prevMode,   \* prev_mode of check and observe
    seen,       \* the evidence gathered so far
    failed,     \* the stages that raised
    approved,   \* has a human approved this action?
    ran,        \* was the handler of this action called?
    audited,    \* has this action an AuditLogEntry?
    outcome     \* how the call ended, or is bound to end

perAction == <<entry, prevMode, seen, failed, approved, ran, audited, outcome>>
vars == <<client, mode, pc, perAction>>

NothingSeen == [policy |-> "NONE", semantic |-> NoSignal, markov |-> "NONE", sprt |-> "NONE"]

Init ==
    /\ client \in Clients
    /\ mode = "ENFORCE"
    /\ pc = [t \in Thread |-> "idle"]
    /\ entry = [t \in Thread |-> "authorize"]
    /\ prevMode = [t \in Thread |-> "ENFORCE"]
    /\ seen = [t \in Thread |-> NothingSeen]
    /\ failed = [t \in Thread |-> {}]
    /\ approved = [t \in Thread |-> FALSE]
    /\ ran = [t \in Thread |-> FALSE]
    /\ audited = [t \in Thread |-> FALSE]
    /\ outcome = [t \in Thread |-> "none"]

Goto(t, step) == pc' = [pc EXCEPT ![t] = step]
Ends(t, how) == outcome' = [outcome EXCEPT ![t] = how]

-----------------------------------------------------------------------------
\* The host calls the client for a new action.
Enter(t) ==
    /\ pc[t] = "idle"
    /\ \E e \in client.uses[t] :
        /\ entry' = [entry EXCEPT ![t] = e]
        /\ prevMode' = [prevMode EXCEPT ![t] = IF e = "authorize" THEN @ ELSE mode]
        /\ Goto(t, IF e = "authorize" THEN "event" ELSE "switch")
    /\ seen' = [seen EXCEPT ![t] = NothingSeen]
    /\ failed' = [failed EXCEPT ![t] = {}]
    /\ approved' = [approved EXCEPT ![t] = FALSE]
    /\ ran' = [ran EXCEPT ![t] = FALSE]
    /\ audited' = [audited EXCEPT ![t] = FALSE]
    /\ Ends(t, "none")
    /\ UNCHANGED <<client, mode>>

\* self.interceptor.mode = OBSERVE, after prev_mode was read.
SwitchToObserve(t) ==
    /\ pc[t] = "switch"
    /\ mode' = "OBSERVE"
    /\ Goto(t, "event")
    /\ UNCHANGED <<client, perAction>>

(* A stage of the pipeline raises: fail-closed or, in OBSERVE mode or with  *)
(* fail_closed off, logged and passed over.                                 *)
StageFails(t, stage, next) ==
    /\ failed' = [failed EXCEPT ![t] = @ \cup {stage}]
    /\ IF client.failClosed /\ mode = "ENFORCE"
         THEN Goto(t, "leave") /\ Ends(t, "failed_closed")
         ELSE Goto(t, next) /\ UNCHANGED outcome
    /\ UNCHANGED <<client, mode, entry, prevMode, seen, approved, ran, audited>>

StageReports(t, report, next) ==
    /\ seen' = [seen EXCEPT ![t] = report]
    /\ Goto(t, next)
    /\ UNCHANGED <<client, mode, entry, prevMode, failed, approved, ran, audited, outcome>>

HasEvent(t) == "event" \notin failed[t]

BuildEvent(t) ==
    /\ pc[t] = "event"
    /\ \/ StageReports(t, seen[t], "policy")
       \/ StageFails(t, "event", "policy")

EvaluatePolicy(t) ==
    /\ pc[t] = "policy"
    /\ \/ /\ HasEvent(t)
          /\ \E e \in Reports :
                StageReports(t, [seen[t] EXCEPT !.policy = e.policy], "semantic")
       \/ HasEvent(t) /\ StageFails(t, "policy", "semantic")
       \/ ~HasEvent(t) /\ StageReports(t, seen[t], "semantic")

EvaluateSemantic(t) ==
    /\ pc[t] = "semantic"
    /\ \/ \E e \in Reports :
            StageReports(t, [seen[t] EXCEPT !.semantic = e.semantic], "behaviour")
       \/ StageFails(t, "semantic", "behaviour")

\* Markov and SPRT; the failure of either is logged in every mode.
ObserveBehaviour(t) ==
    /\ pc[t] = "behaviour"
    /\ \/ ~HasEvent(t) /\ StageReports(t, seen[t], "gate")
       \/ /\ HasEvent(t)
          /\ \E markov \in {e.markov : e \in Reports} \cup {"NONE"},
                sprt \in {e.sprt : e \in Reports} \cup {"NONE"} :
                StageReports(t, [seen[t] EXCEPT !.markov = markov, !.sprt = sprt], "gate")

-----------------------------------------------------------------------------
FinalStatus(t) == Synthesize(DefaultConfig, seen[t])

MutantPermitUnlessBlocked(t) ==
    /\ mode = "OBSERVE" \/ FinalStatus(t) # "BLOCK"
    /\ Goto(t, "execute")
    /\ Ends(t, "decision")
MutantBlockUnaudited(t) ==
    /\ mode = "ENFORCE" /\ FinalStatus(t) = "BLOCK"
    /\ Goto(t, "leave")
    /\ Ends(t, "blocked")

(* The gate, after synthesis: the mode is read once more.  A decision that  *)
(* does not permit execution is audited first and raised afterwards.        *)
Permit(t) ==
    /\ mode = "OBSERVE" \/ FinalStatus(t) = "ALLOW"
    /\ Goto(t, "execute")
    /\ Ends(t, "decision")

Block(t) ==
    /\ mode = "ENFORCE" /\ FinalStatus(t) = "BLOCK"
    /\ Goto(t, "audit")
    /\ Ends(t, "blocked")

AskForReview(t) ==
    /\ mode = "ENFORCE" /\ FinalStatus(t) = "REVIEW"
    /\ IF client.provider THEN Goto(t, "approval") /\ UNCHANGED outcome
                      ELSE Goto(t, "audit") /\ Ends(t, "held")

Gate(t) ==
    /\ pc[t] = "gate"
    /\ Permit(t) \/ Block(t) \/ AskForReview(t)
    /\ UNCHANGED <<client, mode, entry, prevMode, seen, failed, approved, ran, audited>>

\* request_approval, which ApprovalProvider describes; it may also raise.
HumanReview(t) ==
    /\ pc[t] = "approval"
    /\ \/ approved' = [approved EXCEPT ![t] = TRUE] /\ Goto(t, "execute") /\ Ends(t, "decision")
       \/ Goto(t, "audit") /\ Ends(t, "blocked") /\ UNCHANGED approved
       \/ Goto(t, "leave") /\ Ends(t, "provider_error") /\ UNCHANGED approved
    /\ UNCHANGED <<client, mode, entry, prevMode, seen, failed, ran, audited>>

MutantCheckExecutes(t) ==
    /\ pc[t] = "execute"
    /\ ran' = [ran EXCEPT ![t] = TRUE]
    /\ Goto(t, "audit")
    /\ UNCHANGED <<client, mode, entry, prevMode, seen, failed, approved, audited, outcome>>

\* check passes an execute_fn that does nothing and cannot raise.
ExecuteAction(t) ==
    /\ pc[t] = "execute"
    /\ ran' = [ran EXCEPT ![t] = entry[t] # "check"]
    /\ \/ Goto(t, "audit") /\ UNCHANGED outcome
       \/ entry[t] # "check" /\ Goto(t, "leave") /\ Ends(t, "execution_error")
    /\ UNCHANGED <<client, mode, entry, prevMode, seen, failed, approved, audited>>

\* _record_audit: a failing sink or audit service is logged only.
RecordAudit(t) ==
    /\ pc[t] = "audit"
    /\ audited' = [audited EXCEPT ![t] = TRUE]
    /\ Goto(t, "leave")
    /\ UNCHANGED <<client, mode, entry, prevMode, seen, failed, approved, ran, outcome>>

\* Return or raise; check and observe restore the mode they found.
Leave(t) ==
    /\ pc[t] = "leave"
    /\ mode' = IF entry[t] = "authorize" THEN mode ELSE prevMode[t]
    /\ Goto(t, "idle")
    /\ UNCHANGED <<client, perAction>>

Next ==
    \E t \in Thread :
        \/ Enter(t) \/ SwitchToObserve(t)
        \/ BuildEvent(t) \/ EvaluatePolicy(t) \/ EvaluateSemantic(t) \/ ObserveBehaviour(t)
        \/ Gate(t) \/ HumanReview(t) \/ ExecuteAction(t) \/ RecordAudit(t)
        \/ Leave(t)

Spec == Init /\ [][Next]_vars

-----------------------------------------------------------------------------
(* sdk/client.py:200, authorize "If BLOCK: raises ExecutionBlockedError":   *)
(* no authorized action whose verdict is BLOCK ever runs, one whose verdict *)
(* is REVIEW only when a human approved it, and, with fail_closed, none for *)
(* which the event, the policy or the semantic stage raised: actions "are   *)
(* never permitted by accidental exception fallthrough"                     *)
(* (docs/interception/README.md:78).                                        *)
OnlyPermittedActionsRun ==
    \A t \in Thread :
        ran[t] /\ entry[t] = "authorize" =>
            /\ FinalStatus(t) # "BLOCK"
            /\ FinalStatus(t) = "REVIEW" => approved[t]
            /\ client.failClosed => failed[t] = {}

(* Every verdict that reached its caller is in the audit log: a decision    *)
(* returned, an action blocked or held.                                     *)
VerdictsAreAudited ==
    \A t \in Thread :
        pc[t] = "idle" /\ outcome[t] \in {"decision", "blocked", "held"} => audited[t]

(* sdk/client.py:158, check evaluates "without executing the underlying     *)
(* action", and is neither held nor raised on by the gate; and when no      *)
(* thread is inside the client the interceptor enforces again, however      *)
(* checks and observations before have ended.                               *)
CheckLeavesNoTrace ==
    /\ \A t \in Thread :
        pc[t] = "leave" /\ entry[t] = "check" => ~ran[t] /\ outcome[t] = "decision"
    /\ (\A t \in Thread : pc[t] = "idle") => mode = "ENFORCE"
=============================================================================
