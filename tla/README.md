# Verification of RuntimeVerify

TLA+ models of the parts of `src/runtimeverify` that decide whether an agent's
action runs, get a human's approval for it, and keep the evidence. TLC checks the
models on small instances, TLAPS proves the theorems for all values of the
constants. Paths below are relative to `src/runtimeverify/` unless they begin with
`docs/`; "the code" is the Python source at the commit in this repository.

- `tlc -config store.cfg ApprovalStore.tla` (and so on, see *Runs*)
- `tlapm ApprovalProofs.tla` (and so on, see *Proofs*)

## 1. Inventory

| component | state it keeps | operations | talks to |
|---|---|---|---|
| approval store (`approvals/store.py`, `models.py`) | requests by id, audit entries, a JSON file with both | save, peek/get, list, decide, expire, clear, audit log | its file, by load-before and write-after; one RLock per object |
| approval providers (`approvals/api_provider.py`, `cli_provider.py`) | a waiting thread per request | request_approval (poll or prompt), submit_decision, list_pending | the store; reviewers use the same store through `api/v1/approvals.py` |
| verification strategy (`verification/strategy.py`) | none | `synthesize_verification`: 8 tiers | called by engine and interceptor |
| verification engine (`verification/engine.py`) | previous Markov token per session | verify, reset_session | policy, semantic, Markov, SPRT, multi-agent, each in a try block |
| interceptor (`interception/`), SDK client (`sdk/client.py`) | `interceptor.mode`, shared by all threads | intercept; authorize, check, observe | subsystems, approval provider, handler, audit |
| SDK session (`sdk/session.py`) | active flag, history, own audit trail; the argument dicts of its callers | execute, check, observe, wrap, enter, exit, close | client, interceptor |
| audit repository (`audit/repository.py`, `security/audit_integrity.py`) | records, the last hash, the NDJSON file | store, query, apply_retention, verify_integrity | the file, shared with other processes and the file sink |
| audit service, redaction and sinks (`audit/service.py`, `redaction.py`, `sinks.py`) | the default service, buffers, batches | log_*, emit, flush, set_default | sinks in turn, then the repository |
| SPRT and Markov (`sprt/`, `markov/`, `multiagent/sprt.py`) | log-likelihood ratio, count, state per session; transition counts and matrix | observe, reset, clean-up; fit, update, save, load | engine, pipeline, `/train` |
| policy (`policy/`, `state/classifier.py`) | an immutable policy set, replaced as a whole | add, remove, evaluate | engine, interceptor |
| runtime pipeline (`runtime/`, `detector/`, `encoder/`, `api/app.py`) | lifecycle state, sessions, encoder histories, `session_db` | initialize, observe, `/monitor`, `/train` | detectors, policy engine |
| telemetry (`telemetry/`) | the global manager, listeners, one context variable | publish, subscribe, runs, tool and model calls, spans | pipeline |
| multi-agent (`multiagent/`) | interaction counts, roles, the topology graph | observe, build, verify | engine |
| enterprise (`enterprise/`) | dual-control requests and policies, policy sets, keys and assertions, audit chains | create, approve, reject, register, verify, record, query | standalone; roles from `rbac.py` |
| REST API (`api/`) | rate-limit windows, the authentication provider, keys, `decisions_cache`, `session_db` | middleware, authentication, ingest, evaluate, listings | everything |
| replay, evaluation, integrations, cloud, dashboard, cli, plugins | reports and adapters | offline or presentation | the public API |

What makes these hard, and what correctness means for each:

- **Approval store.** Threads share an object under a lock, processes share a file
  under none. Failures of the file are logged and swallowed. Expiry is lazy: it
  happens when somebody looks. Correct means: a decision is recorded once, in time,
  while the request is pending, and never changes; every transition is audited;
  nobody sees a decision that nobody made.
- **Providers.** The waiting thread makes several calls on the store, each locked,
  none together. Reviewers, the deadline and the timeout (another clock) fall in
  between. Correct means: it returns; it returns APPROVE only if a human said so;
  nothing stays open behind it.
- **Strategy.** Eight tiers in a fixed order, the first decides. Correct means the
  order never hides a stricter control, and more evidence never helps the action.
- **Engine.** Any subset of the subsystems can fail in a call. Correct means: a
  verdict that was obtained is respected, and sessions do not influence each other.
- **Interceptor.** Shared mode without a lock, and a pipeline that can raise at each
  stage. Correct means: what runs under authorize was permitted.
- **SDK session.** A tool call comes in nine shapes; its arguments are merged with
  keywords *in the caller's own dict*, which the caller passes again. Correct means:
  the tool runs with what was verified.
- **Audit repository.** A hash chain over a file with several writers, pruned by
  time and volume, read back by new processes. Correct means: no false alarm, no
  forged or duplicated line, only the oldest go.
- **Audit sinks.** Sinks fail one by one, the default service is replaced under
  running calls, one sink takes its own lock twice. Correct means: every record
  reaches every sink that did not fail, redacted; a call returns.
- **Sequential tests.** Read, compute, write without a lock, on a matrix that is
  emptied and refilled by a training. Correct means: no observation counts twice, a
  fault has a training as its reason.
- **Policy.** Rules are added and removed while an evaluation iterates over them.
  Correct means: the ruling is that of one set in force, never of a mixture.
- **Pipeline.** Two requests of one session share a history list; `/train` replaces
  the engine under both. Correct means: fail-safe verdicts, isolated sessions.
- **Telemetry.** Runs nest, raise, are cancelled, overlap. Correct means: an event
  carries the session of the run around it.
- **Multi-agent.** Learned edges depend on counts and shares. Correct means: the
  traffic that was learned conforms to the graph that was learned.
- **Enterprise.** Policy and clock are read before the lock; policies change while
  requests wait; sets move between tenants; expiry dates are cut to seconds. Correct
  means dual control, guardrails that always apply, credentials that end, chains
  that verify and show a tenant its own records.
- **REST API.** A sliding window, providers in a row, tables without locks. Correct
  means: bounded windows, honest Retry-After, permissions that somebody granted, and
  listings that agree with each other.

## 2. Modules

| module | models | extends / instantiates |
|---|---|---|
| `ApprovalRequests` | the request record and the pure rules on it: expiry, tokens, approvers | |
| `ApprovalLifecycle` | what the registry promises: the abstract specification | `ApprovalRequests` |
| `ApprovalStore` | the store, one object and its file | `ApprovalRequests`; refines `ApprovalLifecycle` |
| `SharedApprovals` | several processes, one file | `ApprovalRequests` |
| `ApprovalProvider` | waiting threads, reviewers and time on one store | `ApprovalStore` |
| `VerificationStrategy` | evidence, configuration, the tiers | |
| `VerificationEngine` | verify with failing subsystems, sessions | `VerificationStrategy` |
| `Interceptor` | threads in authorize, check and observe | `VerificationStrategy` |
| `SdkSession` | an AgentSession: from tool calls to actions and back | |
| `Subsequences` | what a list comprehension keeps of a list | |
| `AuditRepository` | chain, retention, other writers, crashes | `Subsequences` |
| `AuditSinks` | the audit service, redaction, the composite sink | |
| `SequentialTest` | both SPRT engines over a model in training | |
| `RuntimePipeline` | `/monitor` and `/train` on engines, encoder, dispatcher | |
| `Telemetry` | manager, bus, nested runs, calls and spans | |
| `MultiAgentTopology` | topology checks, verdicts, the learner | |
| `SecurityClassification` | the security category and risk of an event | |
| `PolicyMatching` | rules, criteria, conflict resolution | `SecurityClassification` |
| `PolicyEvaluation` | evaluations against concurrent edits | `PolicyMatching`, `Subsequences` |
| `AccessControl` | roles, permissions, tenant isolation | |
| `EnterpriseApproval` | dual control | `AccessControl` |
| `EnterpriseIdentity` | API keys, OIDC tokens, service assertions | |
| `EnterpriseAudit` | chains by tenant and environment | `AccessControl` |
| `PolicySets` | hierarchical policy sets | `Subsequences` |
| `ApiGateway` | rate limiter and authentication | |
| `ApiRecords` | the tables of the REST API and its listings | |
| `MCVerificationEngine`, `MCInterceptor`, `MCAuditRepository` | finite instances | the module of that name |
| `MCRuntime` | one instance of SPRT, pipeline, telemetry, topology | those four |
| `MCService` | one instance of enterprise, policy, API, sinks, session | those nine and what they extend |
| `ApprovalProofs` | theorems about store and providers | `ApprovalProvider` |
| `SharedApprovalsProofs`, `VerificationEngineProofs`, `InterceptorProofs` | theorems | the module of that name |
| `RuntimeProofs` | theorems | the four modules of `MCRuntime` |
| `ServiceProofs` | theorems about gateway, policy, session, records and the enterprise edition | seven modules of `MCService`, `SubsequenceProofs` |
| `AuditProofs` | theorems about repository, sinks and chains | `AuditRepository`, `AuditSinks`, `EnterpriseAudit`, `SubsequenceProofs` |
| `SubsequenceProofs` | lemmas on subsequences and listings | `Subsequences` |

Definitions whose names begin with `Mutant` are faulty variants of the definition
that follows them. No specification uses them: substituted for that definition they
must make a property fail, which shows that the property says something about it.

`MCRuntime` and `MCService` hold modules that share no variables and, in the code, no
state that both change. A variable `focus`, chosen in Init and never changed, says
which of them moves; interleaving them would multiply the states and show nothing.
Where components do share state one module holds both (a training and the tests that
read its matrix, the provider and the store, the requests and the engines).

### How state and actions correspond to the code

**ApprovalStore.** `requests` and `audit` are `_requests` and `_audit_log`,
`diskRequests` and `diskAudit` the file. Each public method runs under the RLock
from first to last statement, so each is one action: `SaveRequest`, `PeekRequest`
(also get_request), `ListRequests`, `ExpireStaleRequests`, `RecordDecision` (its five
exits are `RefuseUnauthorized`, `RefuseExpired`, `RefuseToken`, `RefuseReplay`,
`AcceptDecision`, in the code's order), `GetAuditLog`, `Clear`, `Restart`. The load
that precedes and the write that follows are part of the action (`LoadedRequests`,
`Commit`). `PersistFaults` names the failures `_persist` swallows: *unwritable* (open
or remove raises, the old file stays), *torn* (the write fails after the truncation),
*crash* (the process dies there). A missing, empty or unparseable file all load as
nothing and are one value. Audit entries are counted per request and kind, up to
`AuditCap`. A token is present or not; whether a submitted one is right is an input.

**ApprovalProvider.** `pc[w]` is where the thread of request `w` stands. Each call on
the store and each reading of the clock is a step of its own; `sleep` is the freedom
to be slow. The object a peek returns is read together with the peek. monotonic time
and wall clock are one clock, but are read in different steps. The deadline can be
anything up to the timeout away, since the interceptor computes it earlier.

**SharedApprovals.** A process is between two methods or inside one: loaded, about to
truncate, about to write. The other processes run in between. The audit log is left
out; decisions carry neither approvers nor tokens, as in the router and the commands.
Two writers whose truncations and writes overlap may leave a mixture json.load
refuses, which loads as nothing.

**VerificationStrategy / Engine.** Confidence and probability are replaced by their
comparison with the thresholds. `Fires` is the list of tier conditions, `TierVerdict`
what each asks for. In the engine, `failed` is the set of try blocks that raise in a
call; `Gathered` is what is left for the strategy. `SprtStatus` includes only what
`sprt/engine.py` sends. What a subsystem reports is an input of the call.

**Interceptor.** `mode` is the attribute all threads share. A step is the code
between two readings of it, or a call of the handler or of the provider. `client` is
the set-up (which thread calls what, `fail_closed`, provider or not), chosen once.
`approved`, `ran`, `audited`, `failed` and `outcome` record what happened to the
action.

**SdkSession.** `MapToAction` is `map_to_action` with `_infer_action_from_name_and_args`
and the factories; `book` is what the callers' dicts hold after the updates of earlier
calls, which is the state that survives a call. `Execute`, `Inspect` (check, observe),
`Wrapped` (wrap_tool), `Enter`, `Exit`, `Close`, `Record` are the methods; the verdict
is an input, since `Interceptor` models how it comes about. One thread uses a session
and its dicts. `RunsWhatWasVerified` is claimed for the shapes that are run with the
keywords of this call: callable, function, name, tool. A dict with "func" of the
generic, "command" or "path" shapes is mapped without some of its keywords, a second
name for the target is displaced by the first, and the "operation" of a file tool is
read from its name; the property says so (`RunsKeywords`, `Displaced`).

**AuditRepository.** Content is never altered, so a record's hash is its identity;
`prev` names a record. `lastHash` is `_last_hash` per repository object. `store` is one
step (its lock, and one `write` call), apply_retention two: read and choose, then
replace. Timestamps are natural numbers, drawn before the lock, hence possibly late.
`setup` (file or memory, who writes, what can fail) is chosen once. The `.tmp` file
two processes could share while both prune is left out.

**AuditSinks.** A thread takes the default service when it calls log_* and keeps it.
`Emitted` is what the log methods and emit_record fill in (redaction, severity), then
one step per sink of the composite (`EmitTo`, `EmitToPostgres`, `SinkRaises`) and one
for the repository (`StoreRecord`). `EmitToPostgres` that fills the batch leaves its
thread at "flushing", where no step is possible. A payload is the set of kinds of
value in it: under a sensitive key, matching a pattern, neither, or an object the
redactor does not enter.

**SequentialTest.** observe_sprt is three steps (`BeginObserve` reads, `Accumulate`
stores state and count, `Conclude` the ratio), MultiAgentSPRTEngine's observe_event
four; `multi` says which engine it is. `Train` empties the matrix, `EstimateRow` fills
it, as `matrix.py` does without a lock. Probabilities are zero or not; increments are
rounded integers, clipped by `Capped`.

**RuntimePipeline.** A request is one event, which also names the state it is encoded
to and the list that is made for it. Its steps are those of monitor_event, observe and
execute between which another request can change what it reads; `Bind` and
`FinishEncode` are the two accesses to `_state_history`, `LookForRecords` and `Record`
those to `session_db`. `InitializeEngine` replaces the engine under running requests,
which keep theirs. A stage may raise at any point (`StageRaises`).

**Telemetry.** `frames` are the calls under way in a task, `context` its context
variable; a frame keeps the token that `reset` puts back. `Cancel` is an exception
that `except Exception` does not catch. Listeners of one event type are enough, since
types do not interact.

**MultiAgentTopology.** `counts` is edge_action_counts, `Learned` what
build_topology_graph makes of it, `Anomalies` and `Judgement` are
validate_interaction and verify_event; the sequential test's verdict is an input.

**SecurityClassification, PolicyMatching, PolicyEvaluation.** An event and a rule are
records; what they lack is a missing field. A string pattern maps each test it names
to the values that pass it: which texts those are is data of the instance. `Decision`
is evaluate on one set; `BeginEvaluate` and `FinishEvaluate` are the moments at which
it takes the list and reads the rest, `BeginAdd`, `BeginRemove`, `StoreSet` the halves
of add_policy and remove_policy. `possible` remembers what the sets in force since the
beginning decide (history).

**EnterpriseApproval.** Everything runs under one lock but what create_request reads
before it: `BeginCreate`, `FinishCreate`. approve that raises changes nothing and is no
step, except that it stores an expiry it has noticed (`RefuseOverdue`).

**EnterpriseIdentity.** Time in half seconds, since expiry is cut to seconds. Hashes
and signatures are perfect. `accepted` is the last credential accepted.

**EnterpriseAudit, PolicySets, AccessControl.** A digest is what it is computed from.
A query's answer is the set of entries that have fewer than the limit before them; the
first is appended before the limit is looked at, as in `query_records`.
A policy set stands for its rules. `Granted` is AccessControlEvaluator.evaluate with
its rules in order; the properties of dual control and audit are stated with it.

**ApiGateway.** is_allowed runs to its end in one turn of the event loop and is one
action (`Arrive`); authentication and the endpoint's permission are `Serve`, with the
provider configured at that moment. A token is the record of its claims.

**ApiRecords.** Endpoints run in threads of a pool, so each access to a table is a
step: `CacheDecision`, `LookForSession`, `StartSession`, `AppendEvent`,
`AppendDecision`, `CreateRequest`. `ListEvents`, `ListDecisions`, `GetEvent`, `Profile`
are the listings.

## 3. Runs

| run | instance | states | shows |
|---|---|---|---|
| `store` | 2 requests, torn writes and crashes, times 0-2, deadlines 0 or 1 ahead | 25 k | `TypeOK`, `RequestsWellFormed`, `TransitionsAudited`, `DecisionIsFinal`, `DecidedInTime`, and that the store implements `ApprovalLifecycle` |
| `shared` | 2 processes, 2 requests, both create, one decides, crashes | 0.9 M | `NoMixedVersions`, `DecisionsWereAccepted` |
| `provider` | 1 request, polling or prompting, 2 operators, timeout 2, times 0-4, in memory | 32 k | `FailClosed`, `AuditedOnce`, and `WaitEnds` under fairness |
| `engine` | 2 sessions, 2 tokens, 6 signals, each failure alone, none, and all | 35 k | `PolicyBlockIsAuthoritative`, `StrictestControlDecides`, `EvidenceNeverWeakens`, `FreshSessionIsNotHeld` |
| `interceptor` | 2 threads that authorize, or one that uses all entry points; with and without provider and fail_closed | 0.3 M | `OnlyPermittedActionsRun`, `VerdictsAreAudited`, `CheckLeavesNoTrace` |
| `audit` | one orderly process with 6 records, file or memory; two processes, sink, crashes, failing writes, late timestamps with 3 | 0.4 M | `IntegrityHolds`, `OldestGoFirst` (orderly), `NothingIsForged` (always) |
| `runtime` | `MCRuntime`: 1 session and 2 threads of either SPRT engine, 2 states, a model in training; 2 requests on 2 engines; 2 tasks with 2 runs nested 2 deep; 2 roles, 5 interactions | 2.6 M | `EvidenceBoundsTheRatio`, `FaultsNeedTraining`, `FailSafe`, `SessionsAreIsolated`, `EventsCarryTheirRun`, `LearnedTrafficConforms` |
| `service` | `MCService`: see below | 0.8 M | `DualControl`, `ResolvedIsFinal`, `GuardrailsApply`, `CredentialsLiveTheirTtl`, `ChainsVerify`, `DecidesByOneSet`, `RulesOnlyRestrict`, `WindowsAreBounded`, `RetryAfterSuffices`, `PermissionsAreGranted`, `DeliveredRedacted`, `ListedIsFound`, `RunsWhatWasVerified` |

Some of these properties join several questions that one reader of the code would ask
together. `OnlyPermittedActionsRun`: nothing runs under authorize that is blocked,
unreviewed, or reached the handler past a failed stage. `CheckLeavesNoTrace`: check
runs nothing and puts the mode back. `FailClosed`: an APPROVE is a person's, and a
request whose caller was answered is settled. `DualControl`: enough different
signatures, none the requester's, each by somebody `rbac.py` grants the approval.

Only `ApprovalStore` has a type invariant in a run (it is the base of its proofs). The
other modules' variables are read by their properties in every state, where a value of
a wrong shape is an error of the evaluation.

Why the bounds are enough.

- *Approvals*: two requests so that a load, write or sweep can touch the wrong one, a
  clock that passes every deadline, more than one replay (`AuditCap` 2 where entries
  are counted). *Providers*: all orders of elapsed time, deadline and answer occur with
  a timeout of 2.
- *Engine*: each way the strategy reads a signal has a signal. *Interceptor*: the
  threads interact only through `mode`, whose two values two threads can set and
  restore in every order.
- *Audit*: with 3 records a record can be pruned, survive and be appended between the
  reading and the replacement; with 6, prune and restart can repeat.
- *Sequential test*: 3 observations of one session by 2 threads can lose an update,
  and cross `Upper` = 2 by increments that are capped to 1 (the raw ones are -3 and 3);
  one tick past a `Ttl` of 0 expires a session between two of them. A batch that
  leaves a state out gives rows with zeros; training, saving and loading repeat.
- *Pipeline*: two requests in the same or in different sessions, on the same engine or
  with `/train` between them, one admitted before a change of the lifecycle and one
  after. *Telemetry*: a run in a run or a call in a run, in two tasks that share one
  bus; one listener may look before and store after anything. *Topology*: 4
  observations put an edge on, above and below both the count of 2 and the share of
  50 per cent, with and without a stated target role, over every order.
- *Dual control*: one request, as requests do not interact; 5 principals, one of each
  role that matters and one with two roles; the default policy and two others that ask
  for 1 and 3 signatures, in production and not; times 0-2 pass every deadline. *Policy
  sets*: 2 sets, 2 tenants, each scope, one or all environments. *Credentials*: times
  0 to 5 half seconds with lifetimes of none, 1 and 2 seconds, issued on and between
  whole seconds. *Chains*: 4 records over 2 tenants, 2 environments, 2 actors.
- *Policy*: 4 kinds of event (a path that names secrets, a traversal, a compound
  command, one the classifier fails on), rules that differ in decision, severity and
  priority so that no two strategies agree, an evaluation against 2 edits.
- *Gateway*: 2 admissions in a window of 2 over 5 instants, so that both ends of a
  window are met; configurations of one, two and three providers, open or not.
  *Records*: 2 calls in the same or in different sessions, with a client's id used
  twice. *Sinks*: 2 entries by 2 threads, 2 services, a batch of 2. *Session*: 9 tool
  calls, one of each shape, 5 sets of keywords, 3 uses: call, call again with what the
  first left, and a change of the session.

`ApprovalStore`, `Interceptor`, `SharedApprovals` and `VerificationEngine` are checked
for deadlock. `CHECK_DEADLOCK FALSE` is given where the bounds on time, records or uses
stop the model, where every request or call has been made, or (the sink) where the
code itself stops and a run shows it.

### Disagreements between code and documentation

Each of these runs checks one property that a document or comment states, and TLC
shows how the code breaks it.

| run | what happens |
|---|---|
| `shared_overturned` | Agent process creates request B with its old memory of A and thereby reverts A, decided meanwhile by another process, to PENDING; A is decided again, the other way (`docs/approvals/security-model.md:36`). |
| `interceptor_check_race` | `check` in one thread sets the shared mode to OBSERVE; `authorize` in another reaches the gate and runs a blocked action (`sdk/client.py:200`). |
| `sprt_alert` | After the ratio has crossed the upper boundary it is stored as it is, and the next transition that fits the model takes it below (`sprt/engine.py:148` says it is locked). |
| `sink_deadlock` | The record that fills the batch makes emit call flush under the lock that flush takes; the call never returns, and later ones wait for it (`audit/sinks.py:213`; `audit/service.py:22` guarantees dispatch). |

Four more properties are stated in the modules and not run, each with the comment
"It does not hold". To see the counterexample, add the property to the cfg named here:

| property | cfg, and what to change | what happens |
|---|---|---|
| `ApprovalStore.SettledIsImmutable` | `store.cfg`, as a PROPERTY | record_decision looks at the deadline before the status: a late replay turns APPROVED or DENIED into EXPIRED (`approvals/store.py:164`), which `docs/approvals/security-model.md:35` calls immutable. The decision stays attached. |
| `ApprovalProvider.ReturnsTheFinalDecision` | `provider.cfg`, as an INVARIANT | A reviewer's APPROVE recorded after the last poll stands on the request; the refusal is swallowed (`approvals/api_provider.py:96`) and the caller gets DENY (`provider.py:32`). Safe, but not "the final decision". |
| `VerificationStrategy.EvidenceNeverWeakens`, with `semantic_high_escalates_to` BLOCK | `engine.cfg` with `Config <- StrictHigh` | Tiers 3 and 4 answer REVIEW before tier 5 can BLOCK (`verification/strategy.py:206`, `docs/verification/README.md:63`). |
| `AuditRepository.BindsToPredecessor` | `audit.cfg` with `Setups <- TwoProcesses`, as an INVARIANT | Two processes remember different last hashes, and two records name the same predecessor (`audit/repository.py:226`, `security/audit_integrity.py:15`). |

The same models show further disagreements, found by changing one constant or
property of the runs above, or met while the code was translated:

- *unwritable* in `PersistFaults` of `store.cfg`: `DecisionIsFinal` fails, because the
  next load brings the pending request back from the file (`approvals/store.py:76`).
- `GetAuditLog` changes `audit`: each load appends the file's entries once more, so
  reading the log duplicates it (`approvals/store.py:59`; `api/v1/approvals.py:143`
  calls the log immutable).
- `TimeoutBehavior = "APPROVE"`: in the race of `ReturnsTheFinalDecision` the caller
  gets APPROVE although a DENY is recorded (`approvals/api_provider.py:81`).
- With all of `FailurePoint` failing the engine answers ALLOW; `fail_closed`
  (`verification/models.py:157`) is not read by it (`docs/audit/product-audit.md`
  lists this as ARCH-02).
- A policy REVIEW with a semantic BLOCK stays REVIEW, against
  `docs/verification/README.md:55`.
- Two overlapping checks can leave the mode OBSERVE for good (ARCH-01 of the product
  audit); `CheckLeavesNoTrace` is claimed of one thread that checks.
- An action that fails, or whose pipeline fails closed, has no audit entry, against
  `docs/interception/README.md:80`.
- `late |-> TRUE`: pruning by volume reorders the file by time, and `Verified` fails.
  `writeFails |-> TRUE`: the hash of a record that was never written is the next one's
  predecessor. `crashes |-> TRUE`: a record appended to a cut-off line is unreadable.
  Sink and retention: a record emitted during apply_retention is overwritten.
- Two observations of one session lose an update of the ratio or the count, and a
  training that runs meanwhile makes an observation raise even with smoothing (which
  is why `FaultsNeedTraining` says *only*).
- A policy set registered again for another tenant stays in the index of the first
  (`enterprise/policyset.py:57`), where it is still listed.
- add_policy and remove_policy lose each other's change when they overlap, and the new
  set has no semantic engine (`policy/evaluator.py:179`).
- A query over several environments of one tenant with a limit shows the records of the
  first ones and drops later environments' newer records (`enterprise/audit.py`).
- Two events that open a session at the same time lose one record of `session_db`
  (`api/v1/events.py:114`); the decision stays in `decisions_cache`.
- The approval request of a REVIEW over the REST API is built with field names its
  model does not have (`api/v1/decisions.py:145`), which pydantic ignores.

## 4. Fairness

Two liveness properties. `WaitEnds` is checked under `ProviderFairness`: time passes,
and a polling thread, whose steps are always possible, takes them. It is a running
Python thread that never waits for a lock held for ever, since every store method ends.
Nothing is assumed of reviewers, of callers, or of the person at the prompt, so the
interactive provider is not claimed to return.

`RecordsAreDispatched` is checked under `FairSinkSpec`: a thread that has called a log
method runs on as long as it has a step. That is weak fairness of its own steps and of
nothing else; the flush that somebody else may call is not assumed to come. The
counterexample needs no more: the thread waits for a lock that only it can release.

The other specifications state safety and assume no fairness.

## 5. Proofs

Every safety and action property that a passing run checks is also a theorem of its
specification, for all values of the constants that satisfy the named `ASSUME`s of the
component's module. Each theorem comes from an inductive invariant: the initial states
satisfy it, every action keeps it, it implies the property. Where an invariant says
more than its property, the reason is given below.

Some theorems have a further hypothesis. The code, not the prover, needs it:

| hypothesis | theorems | without it |
|---|---|---|
| `Durable`: no file, or a write that fails does not leave the old file in place | `StoreImplementsLifecycle`, `DecisionsAreFinal`, `DecisionsAreInTime`, `FailClosedHolds` | the next load brings back the request as it was before the decision |
| `~Persistent` | `AuditedOnceHolds`, `ProvidersAuditOnce` | the property is about a store in memory, see its comment |
| `Persistent`, no failures | `FileMirrorsMemory` | a failed write leaves the file behind |
| `FailsClosed`: timeout_behavior is not APPROVE | `FailClosedHolds` | the configuration asks for the opposite |
| `Orderly` of `InterceptorProofs`: all threads only authorize, or one thread uses the client | `OnlyPermittedActionsRunHolds`, `CheckLeavesNoTraceHolds` | a check beside an authorize switches its mode: run `interceptor_check_race` |
| `ReviewsOnly`: tiers 4, 5 and 7 ask for REVIEW at most | `StrictestControlAlways`, `EvidenceNeverWeakensAlways` | a configuration that blocks HIGH risks is answered by an earlier, milder tier |
| `policyBlock`: BLOCKs of the policy are enforced | `PolicyBlocksAlways`, `EvidenceNeverWeakensAlways` | the configuration turns the tier off |
| `ApproversOnly`: the policies name roles that hold approval:approve | `DualControlHolds` | a policy may ask for signatures of people whom `rbac.py` would not let approve |

`AuditRepository.Orderly` (one process, `store` only, no failures) is part of
`OldestGoFirst` and `IntegrityHolds` themselves.

**ApprovalProofs.** For the store

    Inv == /\ Sound(requests, audit)            typed, WellFormed, Explained
           /\ Sound(diskRequests, diskAudit)
           /\ issued \subseteq RequestId /\ now \in 0..MaxTime
           /\ OnlyIssuedAreKnown

`TransitionsAudited` is not inductive by itself: a load mixes file and memory, so both
must be sound, and a new request must not meet old requests or entries under its id,
for which every known id must have been issued. For every rule on requests one lemma
shows that it keeps a sound pair sound (created, decided, expired, noted, loaded,
swept); `CommitIsSound` carries this through every failure of the write; then each
method follows. Results: `TypeCorrect`, `WellFormedAlways`, `AuditedAlways`.

With `Mirrored`, the file is empty or equals memory, so a reload changes nothing, and
every step is a step of `ApprovalLifecycle` or leaves its variables alone:
`StoreImplementsLifecycle`. `DecisionsAreFinal` and `DecisionsAreInTime` are proved of
the abstract steps and carried over. `OnceInv` counts entries, and adds that an id
never issued has none to be counted later: `AuditedOnceHolds`. For the providers
`ProviderInv` is `Inv`, `Mirrored` and `Answers`: every recorded APPROVE is an
operator's, a thread that returned left a settled request, and an answer of APPROVE
*is* the recorded decision. The provider's own calls on the store are the store's
actions, so the lemmas above serve again; `ProvidersAuditOnce` is `AuditedOnce` with
waiting threads that race the reviewers.

**SharedApprovalsProofs.** Every registry, the file's and each process's copy however
stale, is `Trusted`: each request in it is well formed and its decision was accepted
on it before it expired. `accepted` only grows, and so a stale registry stays
trusted: that is why lost updates cannot produce a decision nobody made.

**VerificationEngineProofs** (and the strategy). `StrictestTierDecides` follows because
the verdicts of the tiers never get stricter down the list; `MoreEvidenceNeverWeakens`
because each condition is kept, or replaced by that of a tier at least as strict, when
evidence grows. `Explained` ties the returned decision to the evidence that the
failures left. `FreshSessionsPass` is an action property of one step.

**InterceptorProofs.** `AuditInv` follows a call to its log entry, under any changes of
mode. `ModeInv` says what `mode` is while calls are in progress, from `Orderly`;
`PermitInv` what has been seen at each stage of authorize; `CheckInv` that a check has
reached neither approval nor handler.

**RuntimeProofs.** `EvidenceInv` bounds each stored, read and computed ratio by the
observations counted for it, on either engine; a lost update loses evidence and never
doubles it. `MatrixInv`: a smoothed matrix is positive except in rows still to be
estimated. `SafeInv`: what an outcome ALLOW speaks of was encoded into some list.
`IsolationInv` gives each list, history and ledger entry one owner, the session, even
across engines. `ContextInv` (`Nested`): each frame's token is what was innermost when
it began. `CountInv`: what was observed is counted at least as often along its edge
and at most as often by its source; shares then compare.

**ServiceProofs.** `LimiterInv`: a window is the end of what was admitted, what it
dropped is older than the window, and admissions `MaxRequests` apart are more than a
window apart. `ProviderInv` types the providers in a row. `PolicyInv`: the rules an
evaluation has taken decide like a set in force since it began. `RulesInv`: lists that
adding and removing can make. `RunsWhatWasVerified` is its own invariant, by cases on
the shapes of a call. `RecordsInv`: where each call is and what it has left behind; a
record reaches decisions_cache first and never leaves it. `EscalationInv`
(`WellSigned`): no signature twice, none the requester's, status and number agree.
`IdentityInv`: expiry is a function of issue and lifetime. `IndexInv`: a set is listed
by the tenant that owns it.

**AuditProofs.** `RepositoryInv`: `Trail`, what was audited, each record naming an
earlier one, and `Genuine`, the log and every list under retention hold lines of it
once each. `OrderlyInv` adds `Chained` and `Tidy`: with one process nothing newer is
missing and the file is sorted. `SinkInv` says which sinks a thread has passed.
`ChainInv` and `ShelfInv`: each chain verifies, entries are in the chain of their
tenant and environment, and there are as many as were recorded, so that no query with
that limit is cut short.

**SubsequenceProofs.** `ListingIsInOrder`: for every finite set and strict total order
the element listed at k has k - 1 before it, so the listing is complete and in order. It
serves the indices of policy sets and of their levels, the rows a retention keeps and
the repository sorted by time. There is no induction over data: `LeastExists` takes the
least counterexample instead.

How definitions are written for this: what the code keeps of a list is `Kept` (indices
in order) rather than `SelectSeq`; sums of counters and totals of a profile are the
number of what was counted (`Counted`, `OwnEvents`); the queries of the audit chains
are positions in an order. `RepositoryInv`, `OrderlyInv` and `CountInv` were checked by
TLC as invariants of their runs before they were proved (`CountInv` for the roles of
the instance).

Only model-checked, because the prover supports neither ENABLED nor liveness under
fairness: `WaitEnds`. So are the runs that show a violation (`interceptor_check_race`,
`shared_overturned`, `sprt_alert`, `sink_deadlock`).

## 6. Not modelled, and why

- **Text and numbers.** What a regular expression, a glob, a path canonicaliser, a
  shell parser, the redactor's patterns or the sanitisers accept; probabilities,
  embeddings, confidence; cryptography. Their results enter the models as data of the
  instance or as inputs of an action.
- **Schema conversion** (`events/canonical.py`, `encoder/normalizer.py`, `enrichers.py`): pure mappings
  between record layouts; no property of the models tells two layouts apart.
- **Loading of policies** (YAML, validator), **collectors and exporters** of telemetry,
  **health, audit and policy-file endpoints**: I/O around the modelled state.
- **SSO claims** of the vendors, metrics and the hierarchy's plain records in
  `enterprise/`: field renaming and storage without rules.
- **Semantic engines**: pattern matching and inference; the signals they can emit are
  inputs of the strategy.
- **Replay and evaluation**: offline tools over recorded traces. Their verdicts are
  those of `VerificationEngine`; a comparison feeds both engines' observations to one
  SPRT engine and adapter (`replay/replayer.py:250`), which is listed as a hazard.
- **Integrations, cloud, VS Code, dashboard, CLI, plugins**: adapters and presentation.
  The approval commands appear as processes of `SharedApprovals`.

What the models leave out of the parts they cover is said in section 2: one thread per
SDK session, digests that do not collide, one turn of the event loop for the limiter,
the `.tmp` file that two pruning processes could share.

## 7. Plan

Done, in this order: approval store and its lifecycle; several processes; providers;
strategy and engine; interceptor; audit repository; proofs for store, lifecycle,
strategy and engine; sequential tests; pipeline; telemetry; topology; dual control,
access control, policy sets, credentials and audit chains of the enterprise edition;
classification, matching and evaluation of policies; gateway and records of the API;
audit sinks; SDK sessions; theorems for every safety and action property of the runs.

Next, most important first:

1. An abstract specification of dual control, implemented by `EnterpriseApproval`, and
   one of the audit trail, implemented by `AuditSinks` with `AuditRepository`.
2. The composition of `SdkSession`, `Interceptor` and `ApprovalProvider`, so that a
   session's action is followed from the call to a person's answer.
3. The comparison of policies in `replay/`, which shares the behavioural state of two
   engines.
