-------------------------- MODULE PolicyEvaluation --------------------------
(***************************************************************************)
(* A PolicyEvaluator (policy/evaluator.py) that several threads share:     *)
(* evaluations iterate over the rules while others add and remove rules.   *)
(* Nothing is locked.  Policy sets are immutable: a change builds a new    *)
(* one from the old and stores it.                                         *)
(***************************************************************************)
EXTENDS PolicyMatching, Subsequences

CONSTANTS
    Rule,           \* the rules that may be added
    PolicyEvent,    \* the events that are evaluated
    InitialSet,     \* the policy sets the evaluator may be created with
    Evaluation,     \* concurrent evaluations
    Edit,           \* concurrent changes
    MaxRules        \* bound on the length of a policy set

(* The rules that are there and those that may come.                       *)
KnownRules == Rule \cup UNION {{set.policies[i] : i \in DOMAIN set.policies} : set \in InitialSet}

ASSUME PolicyAssumption ==
    /\ MaxRules \in Nat
    /\ \A rule \in KnownRules : rule.priority \in Int
    /\ \A set \in InitialSet :
        /\ set.policies \in Seq(KnownRules) /\ Len(set.policies) <= MaxRules
        /\ set = [policies |-> set.policies, default_decision |-> set.default_decision,
                  conflict_resolution |-> set.conflict_resolution,
                  semantic_engine |-> set.semantic_engine]

VARIABLES
    policySet,      \* self.policy_set
    evaluating,     \* evaluations under way: the event and the rules it iterates
    possible,       \* decisions of the sets in force since an evaluation began
    ruling,        \* what each evaluation returned
    editing         \* changes under way: the rules they are to store

policyVars == <<policySet, evaluating, possible, ruling, editing>>

NoEvaluation == [on |-> FALSE]
NoEdit == [on |-> FALSE]
NoRuling == [id |-> "none", decision |-> "none"]

PolicyInit ==
    /\ policySet \in InitialSet
    /\ evaluating = [v \in Evaluation |-> NoEvaluation]
    /\ possible = [v \in Evaluation |-> {}]
    /\ ruling = [v \in Evaluation |-> NoRuling]
    /\ editing = [d \in Edit |-> NoEdit]

(* evaluate: the loop takes hold of the list of rules ...                  *)
BeginEvaluate(v, e) ==
    /\ ~evaluating[v].on
    /\ evaluating' = [evaluating EXCEPT ![v] =
            [on |-> TRUE, event |-> e, rules |-> policySet.policies]]
    /\ possible' = [possible EXCEPT ![v] = {Decision(policySet, e)}]
    /\ ruling' = [ruling EXCEPT ![v] = NoRuling]
    /\ UNCHANGED <<policySet, editing>>

MutantRulesOf(v) ==
    LET held == evaluating[v].rules IN
    IF held = <<>> \/ policySet.policies = <<>> THEN held
    ELSE <<Head(held)>> \o Tail(policySet.policies)

(* The rules an evaluation has iterated over when it comes to decide.      *)
RulesOf(v) == evaluating[v].rules

(* ... and the defaults and the strategy are read when it has ended.       *)
FinishEvaluate(v) ==
    /\ evaluating[v].on
    /\ ruling' = [ruling EXCEPT ![v] =
            Decision([policySet EXCEPT !.policies = RulesOf(v)], evaluating[v].event)]
    /\ evaluating' = [evaluating EXCEPT ![v] = NoEvaluation]
    /\ UNCHANGED <<policySet, possible, editing>>

Ids(rules) == {rules[i].id : i \in DOMAIN rules}

BeginAdd(d, rule) ==
    /\ ~editing[d].on
    /\ rule.id \notin Ids(policySet.policies)
    /\ Len(policySet.policies) < MaxRules
    /\ editing' = [editing EXCEPT ![d] =
            [on |-> TRUE, rules |-> Append(policySet.policies, rule)]]
    /\ UNCHANGED <<policySet, evaluating, possible, ruling>>

BeginRemove(d, id) ==
    LET rules == policySet.policies
        others == {i \in DOMAIN rules : rules[i].id # id}
    IN
    /\ ~editing[d].on
    /\ id \in Ids(rules)
    /\ editing' = [editing EXCEPT ![d] =
            [on |-> TRUE, rules |-> Kept(rules, others)]]
    /\ UNCHANGED <<policySet, evaluating, possible, ruling>>

(* The new set takes all but the rules and the semantic engine from the    *)
(* set of that moment.                                                     *)
Rebuilt(rules) == [policySet EXCEPT !.policies = rules, !.semantic_engine = FALSE]

StoreSet(d) ==
    /\ editing[d].on
    /\ policySet' = Rebuilt(editing[d].rules)
    /\ editing' = [editing EXCEPT ![d] = NoEdit]
    /\ possible' = [v \in Evaluation |->
            IF evaluating[v].on
            THEN possible[v] \cup {Decision(policySet', evaluating[v].event)}
            ELSE possible[v]]
    /\ UNCHANGED <<evaluating, ruling>>

PolicyNext ==
    \/ \E v \in Evaluation :
        (\E e \in PolicyEvent : BeginEvaluate(v, e)) \/ FinishEvaluate(v)
    \/ \E d \in Edit :
        \/ \E rule \in Rule : BeginAdd(d, rule) \/ BeginRemove(d, rule.id)
        \/ StoreSet(d)

PolicySpec == PolicyInit /\ [][PolicyNext]_policyVars

-----------------------------------------------------------------------------
(* A ruling is the decision of a policy set that was in force as a whole  *)
(* at some time of the evaluation, never of a mixture of two.              *)
DecidesByOneSet ==
    \A v \in Evaluation : ruling[v] \in possible[v] \cup {NoRuling}

(* Under most_restrictive one more rule never makes the ruling on an      *)
(* event milder, unless the ruling was the default.                       *)
RulesOnlyRestrict ==
    policySet.conflict_resolution = "most_restrictive" =>
        \A e \in PolicyEvent, rule \in Rule :
            LET more == [policySet EXCEPT !.policies = Append(@, rule)] IN
            (~MatchingRaises(more.policies, e) /\ Matched(policySet.policies, e) # {}) =>
                Restrictiveness(Decision(more, e).decision)
                    >= Restrictiveness(Decision(policySet, e).decision)
=============================================================================
