------------------------- MODULE InterceptorProofs -------------------------
(***************************************************************************)
(* Proofs about the interceptor: for any number of threads and any reports *)
(* of the subsystems.  That every verdict is audited needs nothing of how  *)
(* the client is used; the other two properties need that no check or      *)
(* observe runs beside a call of another thread (Orderly).                 *)
(***************************************************************************)
EXTENDS Interceptor, TLAPS

(* The threads of a client only authorize, or one thread alone uses it.    *)
Orderly ==
    \A c \in Clients :
        \/ \A t \in Thread : c.uses[t] \subseteq {"authorize"}
        \/ \E u \in Thread : \A t \in Thread \ {u} : c.uses[t] = {}

(* Each variable but client and mode has a value for each thread.          *)
PerThread ==
    /\ pc = [t \in Thread |-> pc[t]]
    /\ entry = [t \in Thread |-> entry[t]]
    /\ prevMode = [t \in Thread |-> prevMode[t]]
    /\ seen = [t \in Thread |-> seen[t]]
    /\ failed = [t \in Thread |-> failed[t]]
    /\ approved = [t \in Thread |-> approved[t]]
    /\ ran = [t \in Thread |-> ran[t]]
    /\ audited = [t \in Thread |-> audited[t]]
    /\ outcome = [t \in Thread |-> outcome[t]]

(* The steps between the switch of the mode and the end of the call.       *)
Inside(t) ==
    \/ BuildEvent(t) \/ EvaluatePolicy(t) \/ EvaluateSemantic(t) \/ ObserveBehaviour(t)
    \/ Gate(t) \/ HumanReview(t) \/ ExecuteAction(t) \/ RecordAudit(t)

ThreadStep(t) == Enter(t) \/ SwitchToObserve(t) \/ Inside(t) \/ Leave(t)

LEMMA NextIsAThreadStep ==
    ASSUME [Next]_vars
    PROVE  (\E t \in Thread : ThreadStep(t)) \/ UNCHANGED vars
BY DEF Next, ThreadStep, Inside

LEMMA InsideSteps ==
    ASSUME PerThread, NEW t \in Thread, Inside(t)
    PROVE  /\ UNCHANGED <<client, mode, entry, prevMode>>
           /\ pc[t] \in {"event", "policy", "semantic", "behaviour", "gate", "approval",
                         "execute", "audit"}
           /\ pc' = [pc EXCEPT ![t] = pc'[t]]
           /\ pc'[t] \in {"policy", "semantic", "behaviour", "gate", "approval", "execute",
                          "audit", "leave"}
<1> USE DEF Goto, Ends, PerThread
<1>1. CASE BuildEvent(t)
  BY <1>1 DEF BuildEvent, StageReports, StageFails
<1>2. CASE EvaluatePolicy(t)
  BY <1>2 DEF EvaluatePolicy, StageReports, StageFails
<1>3. CASE EvaluateSemantic(t)
  BY <1>3 DEF EvaluateSemantic, StageReports, StageFails
<1>4. CASE ObserveBehaviour(t)
  BY <1>4 DEF ObserveBehaviour, StageReports, StageFails
<1>5. CASE Gate(t)
  BY <1>5 DEF Gate, Permit, Block, AskForReview
<1>6. CASE HumanReview(t)
  BY <1>6 DEF HumanReview
<1>7. CASE ExecuteAction(t)
  BY <1>7 DEF ExecuteAction
<1>8. CASE RecordAudit(t)
  BY <1>8 DEF RecordAudit
<1>9. QED
  BY <1>1, <1>2, <1>3, <1>4, <1>5, <1>6, <1>7, <1>8 DEF Inside

(* A step of a thread leaves the values of the others.                     *)
LEMMA StepsAreLocal ==
    ASSUME PerThread, NEW t \in Thread, ThreadStep(t)
    PROVE  /\ PerThread' /\ client' = client
           /\ \A u \in Thread \ {t} :
                /\ pc'[u] = pc[u] /\ entry'[u] = entry[u] /\ prevMode'[u] = prevMode[u]
                /\ seen'[u] = seen[u] /\ failed'[u] = failed[u] /\ approved'[u] = approved[u]
                /\ ran'[u] = ran[u] /\ audited'[u] = audited[u] /\ outcome'[u] = outcome[u]
<1> USE DEF Goto, Ends, PerThread
<1>1. CASE Enter(t)
  BY <1>1 DEF Enter
<1>2. CASE SwitchToObserve(t)
  BY <1>2 DEF SwitchToObserve, perAction
<1>3. CASE BuildEvent(t)
  BY <1>3 DEF BuildEvent, StageReports, StageFails
<1>4. CASE EvaluatePolicy(t)
  BY <1>4 DEF EvaluatePolicy, StageReports, StageFails
<1>5. CASE EvaluateSemantic(t)
  BY <1>5 DEF EvaluateSemantic, StageReports, StageFails
<1>6. CASE ObserveBehaviour(t)
  BY <1>6 DEF ObserveBehaviour, StageReports, StageFails
<1>7. CASE Gate(t)
  BY <1>7 DEF Gate, Permit, Block, AskForReview
<1>8. CASE HumanReview(t)
  BY <1>8 DEF HumanReview
<1>9. CASE ExecuteAction(t)
  BY <1>9 DEF ExecuteAction
<1>10. CASE RecordAudit(t)
  BY <1>10 DEF RecordAudit
<1>11. CASE Leave(t)
  BY <1>11 DEF Leave, perAction
<1>12. QED
  BY <1>1, <1>2, <1>3, <1>4, <1>5, <1>6, <1>7, <1>8, <1>9, <1>10, <1>11
  DEF ThreadStep, Inside

-----------------------------------------------------------------------------
(* Whoever is about to return or has returned a verdict has written the    *)
(* log entry.                                                              *)
AuditInv ==
    /\ PerThread
    /\ \A t \in Thread :
        pc[t] \in {"leave", "idle"} /\ outcome[t] \in {"decision", "blocked", "held"}
            => audited[t]

(* VerdictsAreAudited for any number of threads that use any of the entry  *)
(* points in any way: whatever the stages report or raise and whenever the *)
(* mode changes, no verdict reaches its caller without a log entry.        *)
THEOREM VerdictsAreAuditedHolds == Spec => []VerdictsAreAudited
<1>1. Init => AuditInv
  BY DEF Init, AuditInv, PerThread
<1>2. AuditInv /\ [Next]_vars => AuditInv'
  <2> SUFFICES ASSUME AuditInv, [Next]_vars PROVE AuditInv'
    OBVIOUS
  <2>1. ASSUME NEW t \in Thread, ThreadStep(t) PROVE AuditInv'
    <3>1. PerThread' /\ \A u \in Thread \ {t} :
                pc'[u] = pc[u] /\ outcome'[u] = outcome[u] /\ audited'[u] = audited[u]
      BY <2>1, StepsAreLocal DEF AuditInv
    <3>2. ASSUME pc'[t] \in {"leave", "idle"},
                 outcome'[t] \in {"decision", "blocked", "held"}
          PROVE  audited'[t]
      <4> USE DEF Goto, Ends, AuditInv, PerThread
      <4>1. CASE Enter(t)
        BY <4>1, <3>2 DEF Enter
      <4>2. CASE SwitchToObserve(t)
        BY <4>2, <3>2 DEF SwitchToObserve
      <4>3. CASE BuildEvent(t)
        BY <4>3, <3>2 DEF BuildEvent, StageReports, StageFails
      <4>4. CASE EvaluatePolicy(t)
        BY <4>4, <3>2 DEF EvaluatePolicy, StageReports, StageFails
      <4>5. CASE EvaluateSemantic(t)
        BY <4>5, <3>2 DEF EvaluateSemantic, StageReports, StageFails
      <4>6. CASE ObserveBehaviour(t)
        BY <4>6, <3>2 DEF ObserveBehaviour, StageReports, StageFails
      <4>7. CASE Gate(t)
        BY <4>7, <3>2 DEF Gate, Permit, Block, AskForReview
      <4>8. CASE HumanReview(t)
        BY <4>8, <3>2 DEF HumanReview
      <4>9. CASE ExecuteAction(t)
        BY <4>9, <3>2 DEF ExecuteAction
      <4>10. CASE RecordAudit(t)
        BY <4>10, <3>2 DEF RecordAudit
      <4>11. CASE Leave(t)
        BY <4>11, <3>2 DEF Leave, perAction
      <4>12. QED
        BY <2>1, <4>1, <4>2, <4>3, <4>4, <4>5, <4>6, <4>7, <4>8, <4>9, <4>10, <4>11
        DEF ThreadStep, Inside
    <3>3. QED
      BY <3>1, <3>2 DEF AuditInv
  <2>2. ASSUME UNCHANGED vars PROVE AuditInv'
    BY <2>2 DEF AuditInv, PerThread, vars, perAction
  <2>3. QED
    BY <2>1, <2>2, NextIsAThreadStep
<1>3. AuditInv => VerdictsAreAudited
  BY DEF AuditInv, VerdictsAreAudited
<1>4. QED
  BY <1>1, <1>2, <1>3, PTL DEF Spec

-----------------------------------------------------------------------------
(* The mode.  While a thread authorizes it is ENFORCE; a check or observe  *)
(* has found it ENFORCE, and has switched it unless it is about to; with   *)
(* nobody inside it is ENFORCE.                                            *)
ModeInv ==
    /\ PerThread /\ client \in Clients
    /\ \A t \in Thread : pc[t] # "idle" => entry[t] \in client.uses[t]
    /\ \A t \in Thread : pc[t] # "idle" /\ entry[t] = "authorize" =>
            mode = "ENFORCE" /\ pc[t] # "switch"
    /\ \A t \in Thread : pc[t] # "idle" /\ entry[t] # "authorize" =>
            /\ prevMode[t] = "ENFORCE"
            /\ mode = IF pc[t] = "switch" THEN "ENFORCE" ELSE "OBSERVE"
    /\ (\A t \in Thread : pc[t] = "idle") => mode = "ENFORCE"

(* Beside a thread that may check or observe no other is ever inside.      *)
LEMMA ObserversAreAlone ==
    ASSUME Orderly, ModeInv, NEW t \in Thread, NEW e \in client.uses[t], e # "authorize"
    PROVE  \A u \in Thread \ {t} : client.uses[u] = {} /\ pc[u] = "idle"
<1>1. PICK w \in Thread : \A u \in Thread \ {w} : client.uses[u] = {}
  BY DEF Orderly, ModeInv
<1>2. w = t
  BY <1>1
<1>3. QED
  BY <1>1, <1>2 DEF ModeInv

LEMMA ModeInvHolds ==
    ASSUME Orderly PROVE Spec => []ModeInv
<1>1. Init => ModeInv
  BY DEF Init, ModeInv, PerThread
<1>2. ModeInv /\ [Next]_vars => ModeInv'
  <2> SUFFICES ASSUME ModeInv, [Next]_vars PROVE ModeInv'
    OBVIOUS
  <2>1. ASSUME NEW t \in Thread, ThreadStep(t) PROVE ModeInv'
    <3>1. PerThread' /\ client' = client /\ \A u \in Thread \ {t} :
                pc'[u] = pc[u] /\ entry'[u] = entry[u] /\ prevMode'[u] = prevMode[u]
      BY <2>1, StepsAreLocal DEF ModeInv
    <3> USE DEF ModeInv
    <3>2. CASE Enter(t)
      <4>1. PICK e \in client.uses[t] :
                /\ entry' = [entry EXCEPT ![t] = e]
                /\ prevMode' = [prevMode EXCEPT ![t] = IF e = "authorize" THEN @ ELSE mode]
                /\ pc' = [pc EXCEPT ![t] = IF e = "authorize" THEN "event" ELSE "switch"]
        BY <3>2 DEF Enter, Goto
      <4>2. mode' = mode /\ pc[t] = "idle"
        BY <3>2 DEF Enter
      <4>3. entry'[t] = e /\ pc'[t] = (IF e = "authorize" THEN "event" ELSE "switch")
                /\ prevMode'[t] = (IF e = "authorize" THEN prevMode[t] ELSE mode)
        BY <4>1 DEF PerThread
      <4>4. CASE e = "authorize"
        <5>1. ASSUME NEW u \in Thread \ {t}, pc[u] # "idle" PROVE entry[u] = "authorize"
          BY <5>1, ObserversAreAlone
        <5>2. mode = "ENFORCE"
          BY <4>2, <5>1
        <5>3. QED
          BY <3>1, <4>2, <4>3, <4>4, <5>1, <5>2
      <4>5. CASE e # "authorize"
        <5>1. \A u \in Thread \ {t} : pc[u] = "idle"
          BY <4>5, ObserversAreAlone
        <5>2. mode = "ENFORCE"
          BY <4>2, <5>1
        <5>3. QED
          BY <3>1, <4>2, <4>3, <4>5, <5>1, <5>2
      <4>6. QED
        BY <4>4, <4>5
    <3>3. CASE SwitchToObserve(t)
      <4>1. pc[t] = "switch" /\ pc'[t] = "event" /\ mode' = "OBSERVE"
                /\ entry'[t] = entry[t] /\ prevMode'[t] = prevMode[t]
        BY <3>3 DEF SwitchToObserve, Goto, perAction, PerThread
      <4>2. entry[t] # "authorize" /\ entry[t] \in client.uses[t]
        BY <4>1
      <4>3. \A u \in Thread \ {t} : pc[u] = "idle"
        BY <4>2, ObserversAreAlone
      <4>4. QED
        BY <3>1, <4>1, <4>2, <4>3
    <3>4. CASE Inside(t)
      <4>1. /\ mode' = mode /\ entry' = entry /\ prevMode' = prevMode
            /\ pc[t] \notin {"idle", "switch"} /\ pc'[t] \notin {"idle", "switch"}
        BY <3>4, InsideSteps
      <4>2. QED
        BY <3>1, <4>1
    <3>5. CASE Leave(t)
      <4>1. pc[t] = "leave" /\ pc'[t] = "idle" /\ entry' = entry /\ prevMode' = prevMode
                /\ mode' = IF entry[t] = "authorize" THEN mode ELSE prevMode[t]
        BY <3>5 DEF Leave, Goto, perAction, PerThread
      <4>2. mode' = "ENFORCE"
        BY <4>1
      <4>3. ASSUME NEW u \in Thread \ {t}, pc[u] # "idle" PROVE entry[u] = "authorize"
        BY <4>1, <4>3, ObserversAreAlone
      <4>4. QED
        BY <3>1, <4>1, <4>2, <4>3
    <3>6. QED
      BY <2>1, <3>2, <3>3, <3>4, <3>5 DEF ThreadStep
  <2>2. ASSUME UNCHANGED vars PROVE ModeInv'
    BY <2>2 DEF ModeInv, PerThread, vars, perAction
  <2>3. QED
    BY <2>1, <2>2, NextIsAThreadStep
<1>3. QED
  BY <1>1, <1>2, PTL DEF Spec

-----------------------------------------------------------------------------
(* OnlyPermittedActionsRun.                                                *)

(* What must be so when the handler of an authorized action is called:     *)
(* what the stages reported permits it, or a human approved what they want *)
(* reviewed, and with fail_closed none of them raised.                     *)
MayRun(report, hasApproval, raised, failClosed) ==
    /\ Synthesize(DefaultConfig, report) # "BLOCK"
    /\ Synthesize(DefaultConfig, report) = "REVIEW" => hasApproval
    /\ failClosed => raised = {}

PermitInv ==
    \A t \in Thread : entry[t] = "authorize" =>
        /\ /\ pc[t] \in {"event", "policy", "semantic", "behaviour", "gate", "approval"}
           /\ client.failClosed
           => failed[t] = {}
        /\ pc[t] = "approval" => Synthesize(DefaultConfig, seen[t]) = "REVIEW"
        /\ pc[t] = "execute" => MayRun(seen[t], approved[t], failed[t], client.failClosed)
        /\ ran[t] =>
            /\ pc[t] \in {"audit", "leave", "idle"}
            /\ MayRun(seen[t], approved[t], failed[t], client.failClosed)

(* OnlyPermittedActionsRun for any number of threads and any reports, on   *)
(* every client whose checks and observations run alone: no authorized     *)
(* action runs against its verdict, or after a stage failed if it has to   *)
(* fail closed.                                                            *)
THEOREM OnlyPermittedActionsRunHolds ==
    ASSUME Orderly PROVE Spec => []OnlyPermittedActionsRun
<1>1. Init => PermitInv
  BY DEF Init, PermitInv
<1>2. ModeInv /\ PermitInv /\ [Next]_vars => PermitInv'
  <2> SUFFICES ASSUME ModeInv, PermitInv, [Next]_vars PROVE PermitInv'
    OBVIOUS
  <2>1. ASSUME NEW t \in Thread, ThreadStep(t) PROVE PermitInv'
    <3>1. client' = client /\ \A u \in Thread \ {t} :
                /\ pc'[u] = pc[u] /\ entry'[u] = entry[u] /\ seen'[u] = seen[u]
                /\ failed'[u] = failed[u] /\ approved'[u] = approved[u] /\ ran'[u] = ran[u]
      BY <2>1, StepsAreLocal DEF ModeInv
    <3>2. PerThread
      BY DEF ModeInv
    <3> DEFINE Good ==
            /\ /\ pc'[t] \in {"event", "policy", "semantic", "behaviour", "gate", "approval"}
               /\ client.failClosed
               => failed'[t] = {}
            /\ pc'[t] = "approval" => Synthesize(DefaultConfig, seen'[t]) = "REVIEW"
            /\ pc'[t] = "execute" => MayRun(seen'[t], approved'[t], failed'[t], client.failClosed)
            /\ ran'[t] =>
                /\ pc'[t] \in {"audit", "leave", "idle"}
                /\ MayRun(seen'[t], approved'[t], failed'[t], client.failClosed)
    <3>3. ASSUME entry'[t] = "authorize" PROVE Good
      <4> USE <3>2, <3>3 DEF Goto, Ends, PerThread
      <4>1. CASE Enter(t)
        BY <4>1 DEF Enter
      <4>2. CASE SwitchToObserve(t)
        BY <4>2 DEF SwitchToObserve, perAction, ModeInv
      <4>3. CASE Inside(t)
        <5>1. entry[t] = "authorize" /\ mode = "ENFORCE"
          BY <4>3, InsideSteps DEF ModeInv
        <5>2. CASE BuildEvent(t)
          BY <5>1, <5>2 DEF BuildEvent, StageReports, StageFails, PermitInv
        <5>3. CASE EvaluatePolicy(t)
          BY <5>1, <5>3 DEF EvaluatePolicy, StageReports, StageFails, PermitInv
        <5>4. CASE EvaluateSemantic(t)
          BY <5>1, <5>4 DEF EvaluateSemantic, StageReports, StageFails, PermitInv
        <5>5. CASE ObserveBehaviour(t)
          BY <5>1, <5>5 DEF ObserveBehaviour, StageReports, StageFails, PermitInv
        <5>6. CASE Gate(t)
          BY <5>1, <5>6
          DEF Gate, Permit, Block, AskForReview, FinalStatus, MayRun, PermitInv
        <5>7. CASE HumanReview(t)
          BY <5>1, <5>7 DEF HumanReview, MayRun, PermitInv
        <5>8. CASE ExecuteAction(t)
          BY <5>1, <5>8 DEF ExecuteAction, PermitInv
        <5>9. CASE RecordAudit(t)
          BY <5>1, <5>9 DEF RecordAudit, PermitInv
        <5>10. QED
          BY <4>3, <5>2, <5>3, <5>4, <5>5, <5>6, <5>7, <5>8, <5>9 DEF Inside
      <4>4. CASE Leave(t)
        BY <4>4 DEF Leave, perAction, PermitInv
      <4>5. QED
        BY <2>1, <4>1, <4>2, <4>3, <4>4 DEF ThreadStep
    <3>4. QED
      BY <3>1, <3>3 DEF PermitInv
  <2>2. ASSUME UNCHANGED vars PROVE PermitInv'
    BY <2>2 DEF PermitInv, vars, perAction
  <2>3. QED
    BY <2>1, <2>2, NextIsAThreadStep
<1>3. PermitInv => OnlyPermittedActionsRun
  BY DEF PermitInv, OnlyPermittedActionsRun, MayRun, FinalStatus
<1>4. QED
  BY <1>1, <1>2, <1>3, ModeInvHolds, PTL DEF Spec

-----------------------------------------------------------------------------
(* CheckLeavesNoTrace.                                                     *)

(* The handler of a check never runs, and a check comes to its end with a  *)
(* decision: in OBSERVE mode no stage and no verdict stops it.             *)
CheckInv ==
    \A t \in Thread : entry[t] = "check" =>
        /\ ~ran[t] /\ pc[t] # "approval"
        /\ pc[t] \in {"execute", "audit", "leave"} => outcome[t] = "decision"

(* CheckLeavesNoTrace for any number of threads and any reports, on every  *)
(* client whose checks and observations run alone: a check runs nothing    *)
(* and ends with its decision, and when nobody is inside the client the    *)
(* interceptor enforces.                                                   *)
THEOREM CheckLeavesNoTraceHolds ==
    ASSUME Orderly PROVE Spec => []CheckLeavesNoTrace
<1>1. Init => CheckInv
  BY DEF Init, CheckInv
<1>2. ModeInv /\ CheckInv /\ [Next]_vars => CheckInv'
  <2> SUFFICES ASSUME ModeInv, CheckInv, [Next]_vars PROVE CheckInv'
    OBVIOUS
  <2>1. ASSUME NEW t \in Thread, ThreadStep(t) PROVE CheckInv'
    <3>1. \A u \in Thread \ {t} : pc'[u] = pc[u] /\ entry'[u] = entry[u]
                /\ ran'[u] = ran[u] /\ outcome'[u] = outcome[u]
      BY <2>1, StepsAreLocal DEF ModeInv
    <3>2. PerThread
      BY DEF ModeInv
    <3>3. ASSUME entry'[t] = "check"
          PROVE  /\ ~ran'[t] /\ pc'[t] # "approval"
                 /\ pc'[t] \in {"execute", "audit", "leave"} => outcome'[t] = "decision"
      <4> USE <3>2, <3>3 DEF Goto, Ends, PerThread
      <4>1. CASE Enter(t)
        BY <4>1 DEF Enter
      <4>2. CASE SwitchToObserve(t)
        BY <4>2 DEF SwitchToObserve, perAction, CheckInv
      <4>3. CASE Inside(t)
        <5>1. entry[t] = "check" /\ mode = "OBSERVE"
          BY <4>3, InsideSteps DEF ModeInv
        <5>2. CASE BuildEvent(t)
          BY <5>1, <5>2 DEF BuildEvent, StageReports, StageFails, CheckInv
        <5>3. CASE EvaluatePolicy(t)
          BY <5>1, <5>3 DEF EvaluatePolicy, StageReports, StageFails, CheckInv
        <5>4. CASE EvaluateSemantic(t)
          BY <5>1, <5>4 DEF EvaluateSemantic, StageReports, StageFails, CheckInv
        <5>5. CASE ObserveBehaviour(t)
          BY <5>1, <5>5 DEF ObserveBehaviour, StageReports, StageFails, CheckInv
        <5>6. CASE Gate(t)
          BY <5>1, <5>6 DEF Gate, Permit, Block, AskForReview, CheckInv
        <5>7. CASE HumanReview(t)
          BY <5>1, <5>7 DEF HumanReview, CheckInv
        <5>8. CASE ExecuteAction(t)
          BY <5>1, <5>8 DEF ExecuteAction, CheckInv
        <5>9. CASE RecordAudit(t)
          BY <5>1, <5>9 DEF RecordAudit, CheckInv
        <5>10. QED
          BY <4>3, <5>2, <5>3, <5>4, <5>5, <5>6, <5>7, <5>8, <5>9 DEF Inside
      <4>4. CASE Leave(t)
        BY <4>4 DEF Leave, perAction, CheckInv
      <4>5. QED
        BY <2>1, <4>1, <4>2, <4>3, <4>4 DEF ThreadStep
    <3>4. QED
      BY <3>1, <3>3 DEF CheckInv
  <2>2. ASSUME UNCHANGED vars PROVE CheckInv'
    BY <2>2 DEF CheckInv, vars, perAction
  <2>3. QED
    BY <2>1, <2>2, NextIsAThreadStep
<1>3. ModeInv /\ CheckInv => CheckLeavesNoTrace
  BY DEF ModeInv, CheckInv, CheckLeavesNoTrace
<1>4. QED
  BY <1>1, <1>2, <1>3, ModeInvHolds, PTL DEF Spec
=============================================================================
