------------------------- MODULE MultiAgentTopology -------------------------
(***************************************************************************)
(* Interactions between agents (multiagent/): a TopologyLearner counts     *)
(* what it observes and builds a TopologyGraph, and a MultiAgentVerifier   *)
(* judges interactions by the graph, by privilege levels, by the call      *)
(* chain and by the verdict of the sequential test, which is an input      *)
(* here (SequentialTest).                                                  *)
(***************************************************************************)
EXTENDS Integers, Sequences, FiniteSets

CONSTANTS
    Role,
    NoRole,         \* an interaction that does not state its target's role
    Privilege,      \* privilege level of each role
    Interaction,    \* the interactions that may be observed and verified
    InitialGraph,   \* graphs the verifier may start with
    MaxCallDepth,
    MinTransitionCount, FrequencyThreshold,     \* the threshold in per cent
    MaxObserved     \* bound on the interactions that are observed

ASSUME TopologyAssumption ==
    /\ NoRole \notin Role
    /\ \A r \in Role : Privilege[r] \in Nat
    /\ {MaxCallDepth, MinTransitionCount, FrequencyThreshold, MaxObserved} \subseteq Nat

VARIABLES
    counts,         \* edge_action_counts
    agentRole,      \* agent_role_cache
    observed,       \* the interactions observed, in order
    edges,          \* the edges of the verifier's graph
    judged          \* the last interaction verified and its verdict

topologyVars == <<counts, agentRole, observed, edges, judged>>

Talk == {"delegate", "handoff", "message", "send"}
NotJudged == [verdict |-> "none"]

-----------------------------------------------------------------------------
EdgeOf(actions, approval) == [actions |-> actions, require_approval |-> approval]

(* The factories of standard graphs.                                       *)
Pipeline(stages) ==
    LET forward == {<<stages[i], stages[i + 1]>> : i \in 1..(Len(stages) - 1)}
        back == {<<p[2], p[1]>> : p \in forward}
    IN  [p \in forward \cup back |->
            IF p \in back THEN EdgeOf({"message", "send"}, FALSE)
            ELSE EdgeOf(Talk, p[2] = "executor")]

Hierarchical(orchestrator, workers) ==
    [p \in ({orchestrator} \X workers) \cup (workers \X {orchestrator}) |->
        IF p[1] = orchestrator THEN EdgeOf({"delegate", "message", "send"}, FALSE)
        ELSE EdgeOf({"handoff", "message", "send", "response"}, FALSE)]

Mesh(roles) == [p \in {q \in roles \X roles : q[1] # q[2]} |-> EdgeOf(Talk, FALSE)]

-----------------------------------------------------------------------------
(* The call chain repeats an agent, or contains the one that acts.         *)
Cycles(i) ==
    \/ \E j, k \in DOMAIN i.chain : j # k /\ i.chain[j] = i.chain[k]
    \/ \E j \in DOMAIN i.chain : i.chain[j] = i.agent

ChainAnomalies(i) ==
    {a \in {"CYCLIC_DELEGATION", "EXCESSIVE_DELEGATION_DEPTH"} :
        CASE a = "CYCLIC_DELEGATION" -> Cycles(i)
          [] a = "EXCESSIVE_DELEGATION_DEPTH" -> i.depth > MaxCallDepth}

Misdirected(action) ==
    CASE action \in {"delegate", "spawn"} -> "UNEXPECTED_DELEGATION"
      [] action \in {"handoff", "transfer"} -> "ABNORMAL_HANDOFF"
      [] OTHER -> "UNEXPECTED_COMMUNICATION"

EdgeAnomalies(graph, i) ==
    LET p == <<i.role, i.targetRole>> IN
    IF p \notin DOMAIN graph THEN {Misdirected(i.action)}
    ELSE IF {i.action, "*"} \cap graph[p].actions = {} THEN {"UNEXPECTED_COMMUNICATION"}
    ELSE {}

(* A role that is not known, or not stated, has level 10.                  *)
LevelOf(role) == IF role \in Role THEN Privilege[role] ELSE 10

PrivilegeAnomalies(i) ==
    IF /\ LevelOf(i.targetRole) >= LevelOf(i.role) + 15
       /\ i.action \in {"delegate", "spawn", "execute"}
    THEN {"PRIVILEGE_ESCALATION"} ELSE {}

(* validate_interaction; the rest is skipped if there is no target at all. *)
Anomalies(graph, i) ==
    ChainAnomalies(i) \cup
    IF i.targetRole = NoRole /\ i.target = "none" THEN {}
    ELSE EdgeAnomalies(graph, i) \cup PrivilegeAnomalies(i)

Unauthorized == {"UNEXPECTED_DELEGATION", "ABNORMAL_HANDOFF", "CYCLIC_DELEGATION",
                 "EXCESSIVE_DELEGATION_DEPTH", "PRIVILEGE_ESCALATION"}

NeedsApproval(graph, i) ==
    <<i.role, i.targetRole>> \in DOMAIN graph /\ graph[<<i.role, i.targetRole>>].require_approval

(* MultiAgentVerifier.verify_event, with fail_closed.                      *)
Judgement(graph, i, drift) ==
    LET found == Anomalies(graph, i) \cup IF drift THEN {"CROSS_AGENT_ANOMALY"} ELSE {} IN
    CASE found \cap Unauthorized # {} -> "BLOCK"
      [] found = {} /\ ~NeedsApproval(graph, i) -> "ALLOW"
      [] OTHER -> "REVIEW"

-----------------------------------------------------------------------------
(* The role of the target: as stated, or as last seen of that agent.       *)
TargetRole(i) ==
    IF i.targetRole = NoRole /\ i.target \in DOMAIN agentRole' THEN agentRole'[i.target]
    ELSE i.targetRole

(* Every unit of the counters stands for an interaction that was counted.  *)
Counted == UNION {{c} \X (1..counts[c]) : c \in DOMAIN counts}

SourceCount(role) == Cardinality({u \in Counted : u[1][1] = role})
EdgeCount(p) == Cardinality({u \in Counted : <<u[1][1], u[1][2]>> = p})
ActionsSeen(p) == {c[3] : c \in {d \in DOMAIN counts : <<d[1], d[2]>> = p}}

MutantFrequent(p) ==
    /\ EdgeCount(p) >= MinTransitionCount
    /\ EdgeCount(p) * 100 > FrequencyThreshold * SourceCount(p[1])

(* build_topology_graph: the edges that are counted often enough ...       *)
Frequent(p) ==
    /\ EdgeCount(p) >= MinTransitionCount
    /\ EdgeCount(p) * 100 >= FrequencyThreshold * SourceCount(p[1])

(* ... allow every action that was seen along them.                        *)
Learned ==
    [p \in {q \in {<<c[1], c[2]>> : c \in DOMAIN counts} : Frequent(q)} |->
        EdgeOf(ActionsSeen(p), FALSE)]

TopologyInit ==
    /\ counts = [c \in {} |-> 0]
    /\ agentRole = [a \in {} |-> NoRole]
    /\ observed = <<>>
    /\ edges \in InitialGraph
    /\ judged = NotJudged

(* TopologyLearner.observe_event                                           *)
ObserveInteraction(i) ==
    /\ Len(observed) < MaxObserved
    /\ observed' = Append(observed, i)
    /\ agentRole' = [a \in DOMAIN agentRole \cup {i.agent} |->
            IF a = i.agent THEN i.role ELSE agentRole[a]]
    /\ LET c == <<i.role, TargetRole(i), i.action>> IN
       counts' = IF TargetRole(i) = NoRole THEN counts
                 ELSE [d \in DOMAIN counts \cup {c} |->
                        (IF d \in DOMAIN counts THEN counts[d] ELSE 0) + IF d = c THEN 1 ELSE 0]
    /\ UNCHANGED <<edges, judged>>

(* The verifier is given the learned graph.                                *)
Build ==
    /\ edges' = Learned
    /\ UNCHANGED <<counts, agentRole, observed, judged>>

VerifyInteraction(i) ==
    /\ \E drift \in BOOLEAN :
            judged' = [interaction |-> i, verdict |-> Judgement(edges, i, drift)]
    /\ UNCHANGED <<counts, agentRole, observed, edges>>

TopologyNext ==
    \/ \E i \in Interaction : ObserveInteraction(i) \/ VerifyInteraction(i)
    \/ Build

TopologySpec == TopologyInit /\ [][TopologyNext]_topologyVars

-----------------------------------------------------------------------------
(* How many of the observed interactions are along p, and from a role.     *)
Along(p) ==
    Cardinality({k \in DOMAIN observed : observed[k].role = p[1] /\ observed[k].targetRole = p[2]})
FromRole(r) == Cardinality({k \in DOMAIN observed : observed[k].role = r})

(* A graph learned from what was observed finds no structural fault in it: *)
(* an interaction that named its target's role, of a kind that made up its *)
(* share of all that its source took part in, is judged by its call chain  *)
(* and by privileges alone, whatever the order of the observations, and    *)
(* though those that name no role are counted where their target is known. *)
LearnedTrafficConforms ==
    \A k \in DOMAIN observed :
        LET i == observed[k]  p == <<i.role, i.targetRole>> IN
        /\ i.targetRole # NoRole
        /\ Along(p) >= MinTransitionCount
        /\ Along(p) * 100 >= FrequencyThreshold * FromRole(i.role)
        => EdgeAnomalies(Learned, i) = {}
=============================================================================
