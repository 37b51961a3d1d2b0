--------------------------- MODULE PolicyMatching ---------------------------
(***************************************************************************)
(* Which events a policy rule matches (policy/matcher.py), and which of    *)
(* the matching rules wins (PolicyEvaluator._resolve_conflict).            *)
(*                                                                         *)
(* What is optional in a rule or an event is a field that its record may   *)
(* lack: Has tells.  A string pattern is the function from the tests it    *)
(* names (exact, prefix, contains, any_of, regex, glob) to the values that *)
(* pass them; an invalid regular expression passes none.  Values are       *)
(* compared as the code compares them, case folding included.  An event    *)
(* has a path, a command or a destination if the matcher finds one in its  *)
(* attributes, its metadata or, for an event of that kind, its target.     *)
(***************************************************************************)
EXTENDS Integers, Sequences, FiniteSetsExt, SecurityClassification

MatchesString(v, pattern) == \A test \in DOMAIN pattern : v \in pattern[test]
MatchesSome(v, patterns) == \E p \in patterns : MatchesString(v, p)

-----------------------------------------------------------------------------
(* A path is given as it is written and in its canonical form; a traversal *)
(* makes a PathPattern match whatever else it asks.                        *)
MatchesPath(path, pattern) ==
    \/ pattern.block_traversal /\ path.traversal
    \/ \A test \in DOMAIN pattern.tests :
            {path.raw, path.canonical} \cap pattern.tests[test] # {}

MatchesCommand(c, pattern) ==
    /\ \A profile \in DOMAIN pattern \ {"command"} : c[profile] = pattern[profile]
    /\ Has(pattern, "command") => MatchesString(c.text, pattern.command)

(* A compound command matches by any of its parts, or as a whole.          *)
MatchesShell(cmd, pattern) ==
    \/ Cardinality(cmd.parts) > 1 /\ \E part \in cmd.parts : MatchesCommand(part, pattern)
    \/ MatchesCommand(cmd.whole, pattern)

Unknown(dest) == ~dest.trusted /\ ~dest.sensitive

MatchesNetwork(dest, pattern) ==
    /\ Has(pattern, "sensitive_only") => dest.sensitive = pattern.sensitive_only
    /\ Has(pattern, "unknown_only") => Unknown(dest) = pattern.unknown_only
    /\ Has(pattern, "domains") => MatchesSome(dest.host, pattern.domains)
    /\ Has(pattern, "urls") => MatchesSome(dest.url, pattern.urls)
    /\ Has(pattern, "ip_ranges") => dest.networks \cap pattern.ip_ranges # {}
    /\ Has(pattern, "ports") => dest.port \in pattern.ports

(* A pattern that is one string ("either") is met by either attribute.     *)
MatchesGit(e, pattern) ==
    /\ Has(pattern, "either") => {e.operation, e.target} \cap pattern.either # {}
    /\ Has(pattern, "operations") => e.operation \in pattern.operations
    /\ Has(pattern, "branches") => Has(e, "target") /\ MatchesSome(e.target, pattern.branches)

MatchesProcess(p, pattern) ==
    /\ Has(pattern, "command_line") => MatchesString(p.line, pattern.command_line)
    /\ Has(pattern, "executable") => MatchesString(p.executable, pattern.executable)

MatchesCredential(e, pattern) ==
    /\ Has(pattern, "either") => {e.credential_type, e.target} \cap pattern.either # {}
    /\ Has(pattern, "credential_types") => e.credential_type \in pattern.credential_types
    /\ Has(pattern, "target") => MatchesString(e.target, pattern.target)

MatchesTool(tool, pattern) ==
    /\ Has(pattern, "names") => tool.name \in pattern.names
    /\ Has(pattern, "arguments") =>
            \A k \in DOMAIN pattern.arguments :
                Has(tool.arguments, k) /\ tool.arguments[k] = pattern.arguments[k]

MatchesAgent(e, pattern) ==
    /\ Has(pattern, "either") => {e.agent_id, e.agent_type} \cap pattern.either # {}
    /\ Has(pattern, "agent_ids") => e.agent_id \in pattern.agent_ids
    /\ Has(pattern, "agent_types") => e.agent_type \in pattern.agent_types

-----------------------------------------------------------------------------
(* The security classifier may fail on an event.                           *)
Classified(e) == e.classifiable
NeedsState(match) == DOMAIN match \cap {"security_categories", "risk_levels"} # {}

(* The names an event goes by.                                             *)
NamesOf(e) == {e.event_type} \cup
    IF Classified(e) THEN {Category(e)} ELSE {}

MatchesCriterion(c, e, pattern) ==
    CASE c = "event_types" -> NamesOf(e) \cap pattern # {}
      [] c = "security_categories" -> Category(e) \in pattern
      [] c = "risk_levels" -> RiskOf(Category(e)) \in pattern
      [] c = "environments" -> e.environment \in pattern
      [] c = "path" -> Has(e, "path") /\ MatchesPath(e.path, pattern)
      [] c = "command" -> Has(e, "command") /\ MatchesShell(e.command, pattern)
      [] c = "network" -> Has(e, "destination") /\ MatchesNetwork(e.destination, pattern)
      [] c = "git" -> MatchesGit(e, pattern)
      [] c = "process" -> Has(e, "process") /\ MatchesProcess(e.process, pattern)
      [] c = "credential" -> MatchesCredential(e, pattern)
      [] c = "tool" -> Has(e, "tool") /\ MatchesTool(e.tool, pattern)
      [] c = "agent" -> MatchesAgent(e, pattern)

(* All criteria a rule states must be satisfied.                           *)
MatchesEvent(rule, e) ==
    /\ rule.enabled
    /\ \A c \in DOMAIN rule.match : MatchesCriterion(c, e, rule.match[c])

(* The matcher classifies the event again if a rule needs its state, and   *)
(* what that raises is not caught.                                         *)
MatchingRaises(rules, e) ==
    ~Classified(e) /\ \E i \in DOMAIN rules : rules[i].enabled /\ NeedsState(rules[i].match)

-----------------------------------------------------------------------------
Restrictiveness(decision) ==
    CASE decision = "BLOCK" -> 3 [] decision = "REVIEW" -> 2 [] OTHER -> 1

SeverityRank(severity) ==
    CASE severity = "CRITICAL" -> 5 [] severity = "HIGH" -> 4
      [] severity = "MEDIUM" -> 3 [] severity = "LOW" -> 2 [] OTHER -> 1

MutantSortKey(rule, strategy) ==
    LET r == Restrictiveness(rule.decision)  s == SeverityRank(rule.severity) IN
    CASE strategy = "highest_priority" -> <<rule.priority, r, s>>
      [] OTHER -> <<s, r, rule.priority>>

(* The sort keys of the three strategies that sort.                        *)
SortKey(rule, strategy) ==
    LET r == Restrictiveness(rule.decision)  s == SeverityRank(rule.severity) IN
    CASE strategy = "highest_priority" -> <<rule.priority, r, s>>
      [] strategy = "highest_severity" -> <<s, r, rule.priority>>
      [] OTHER -> <<r, s, rule.priority>>

Exceeds(a, b) ==
    \E i \in 1..3 : a[i] > b[i] /\ \A j \in 1..(i - 1) : a[j] = b[j]

(* The indices of the rules that match an event: evaluate lists them in    *)
(* the order of the policy set.                                            *)
Matched(rules, e) == {i \in DOMAIN rules : MatchesEvent(rules[i], e)}

(* The sort is stable: of the rules with the greatest key the first wins.  *)
Winner(rules, matched, strategy) ==
    IF strategy = "first_match" THEN rules[Min(matched)]
    ELSE LET key(i) == SortKey(rules[i], strategy)
             best == {i \in matched : \A j \in matched : ~Exceeds(key(j), key(i))}
         IN  rules[Min(best)]

DefaultRule(set) == [id |-> "default", decision |-> set.default_decision]

Ruling(rule) == [id |-> rule.id, decision |-> rule.decision]

(* PolicyEvaluator.evaluate on one policy set.                             *)
Decision(set, e) ==
    IF MatchingRaises(set.policies, e) THEN [id |-> "raised", decision |-> "none"]
    ELSE LET matched == Matched(set.policies, e) IN
         IF matched = {} THEN Ruling(DefaultRule(set))
         ELSE Ruling(Winner(set.policies, matched, set.conflict_resolution))
=============================================================================
