-------------------------- MODULE RuntimePipeline --------------------------
(***************************************************************************)
(* POST /monitor and POST /train (api/app.py) and what they run:           *)
(* RuntimeEngine, its lifecycle and SessionManager, RuntimePipeline, the   *)
(* encoder with its history lists, the Dispatcher and the PolicyEngine.    *)
(* A request observes one event, which is also the name of the state it is *)
(* encoded to.  Requests run in threads of a pool; only SessionManager has *)
(* a lock.                                                                 *)
(***************************************************************************)
EXTENDS Integers, Sequences, FiniteSets

CONSTANTS
    Event,          \* observed events, one request each
    Trace,          \* session ids
    Detector,
    Engine,         \* how often initialize_engine may run, 1..n
    NoList          \* not an event

ASSUME RuntimeAssumption ==
    /\ Engine \in SUBSET (Nat \ {0}) /\ 1 \in Engine
    /\ NoList \notin Event

VARIABLES
    engine,         \* the global engine
    phases,         \* RuntimeLifecycle of each engine
    sessions,       \* SessionManager._sessions of each engine: histories
    lists,          \* the lists of the encoders, named by the event that made them
    histories,      \* StateEncoderPipeline._state_history of each engine
    requests,       \* where each request is
    outcomes,       \* what observe has returned for each event
    ledger          \* session_db: the events of each session

runtimeVars == <<engine, phases, sessions, lists, histories, requests, outcomes, ledger>>

Absent == <<NoList>>
Undecided == [status |-> "none", results |-> [d \in Detector |-> "none"]]
Failed == [status |-> "BLOCK", results |-> [d \in Detector |-> "failed"]]
NotReceived == [at |-> "new", engine |-> 0, trace |-> NoList, bound |-> NoList]

(* What a detector contributes: an anomaly or a score over the threshold,  *)
(* or neither, which is also what the Dispatcher notes (PENDING, score 0)  *)
(* for a detector that raises.                                             *)
DetectorResult == {"quiet", "ANOMALY"}

RuntimeInit ==
    /\ engine = 1
    /\ phases = [e \in Engine |-> IF e = 1 THEN "running" ELSE "created"]
    /\ sessions = [e \in Engine |-> [s \in Trace |-> Absent]]
    /\ lists = [ev \in Event |-> <<>>]
    /\ histories = [e \in Engine |-> [s \in Trace |-> NoList]]
    /\ requests = [ev \in Event |-> NotReceived]
    /\ outcomes = [ev \in Event |-> Undecided]
    /\ ledger = [s \in Trace |-> <<>>]

-----------------------------------------------------------------------------
(* RuntimeLifecycle._transitions                                           *)
Allowed(from, to) ==
    to \in CASE from = "created" -> {"initialized", "failed"}
             [] from = "initialized" -> {"running", "failed"}
             [] from = "running" -> {"paused", "completed", "failed"}
             [] from = "paused" -> {"running", "completed", "failed"}
             [] from \in {"completed", "failed"} -> {"initialized"}

(* start and resume, pause, stop, fail of the global engine                *)
TransitionTo(to) ==
    /\ Allowed(phases[engine], to)
    /\ phases' = [phases EXCEPT ![engine] = to]
    /\ UNCHANGED <<engine, sessions, lists, histories, requests, outcomes, ledger>>

(* initialize_engine, as /train calls it: the new engine is visible before *)
(* start makes it run (TransitionTo).                                      *)
InitializeEngine(e) ==
    /\ phases[e] = "created"
    /\ engine' = e
    /\ phases' = [phases EXCEPT ![e] = "initialized"]
    /\ UNCHANGED <<sessions, lists, histories, requests, outcomes, ledger>>

(* SessionManager.remove_session                                           *)
RemoveSession(e, s) ==
    /\ sessions[e][s] # Absent
    /\ sessions' = [sessions EXCEPT ![e][s] = Absent]
    /\ UNCHANGED <<engine, phases, lists, histories, requests, outcomes, ledger>>

-----------------------------------------------------------------------------
Goes(ev, at) == requests' = [requests EXCEPT ![ev].at = at]

(* monitor_event and the check of the lifecycle in observe; a request that *)
(* is refused is answered with an error.                                   *)
Admit(ev, s) ==
    /\ requests[ev].at = "new"
    /\ requests' = [requests EXCEPT ![ev] =
            [at |-> IF phases[engine] = "running" THEN "admitted" ELSE "refused",
             engine |-> engine, trace |-> s, bound |-> NoList]]
    /\ UNCHANGED <<engine, phases, sessions, lists, histories, outcomes, ledger>>

(* get_or_create                                                           *)
OpenSession(ev) ==
    LET e == requests[ev].engine IN
    /\ requests[ev].at = "admitted"
    /\ sessions' = [sessions EXCEPT ![e][requests[ev].trace] = IF @ = Absent THEN <<>> ELSE @]
    /\ Goes(ev, "open")
    /\ UNCHANGED <<engine, phases, lists, histories, outcomes, ledger>>

MutantBind(ev) ==
    LET e == requests[ev].engine IN
    IF histories[e][requests[ev].trace] # NoList
      THEN histories[e][requests[ev].trace] ELSE CHOOSE x \in Event : TRUE

(* _state_history.get(session_id, []): the session's list or a new one.    *)
Bind(ev) ==
    LET e == requests[ev].engine IN
    IF histories[e][requests[ev].trace] # NoList THEN histories[e][requests[ev].trace] ELSE ev

(* encode until it has the session's history ...                           *)
BeginEncode(ev) ==
    /\ requests[ev].at = "open"
    /\ requests' = [requests EXCEPT ![ev].at = "encoding", ![ev].bound = Bind(ev)]
    /\ UNCHANGED <<engine, phases, sessions, lists, histories, outcomes, ledger>>

(* ... and its end: the state is appended and the list stored again.       *)
FinishEncode(ev) ==
    LET r == requests[ev] IN
    /\ r.at = "encoding"
    /\ lists' = [lists EXCEPT ![r.bound] = Append(@, ev)]
    /\ histories' = [histories EXCEPT ![r.engine][requests[ev].trace] = r.bound]
    /\ Goes(ev, "encoded")
    /\ UNCHANGED <<engine, phases, sessions, outcomes, ledger>>

MutantVerdict(results) ==
    LET last == CHOOSE d \in Detector : TRUE IN
    IF results[last] = "ANOMALY" THEN "BLOCK" ELSE "ALLOW"

(* PolicyEngine.evaluate                                                   *)
PipelineVerdict(results) ==
    IF \E d \in Detector : results[d] = "ANOMALY" THEN "BLOCK" ELSE "ALLOW"

Decides(ev, outcome) ==
    /\ outcomes' = [outcomes EXCEPT ![ev] = outcome]
    /\ Goes(ev, "decided")
    /\ UNCHANGED <<engine, phases, sessions, lists, histories, ledger>>

(* dispatch and policy; an exporter's failure is swallowed.                *)
Dispatch(ev) ==
    /\ requests[ev].at = "encoded"
    /\ \E results \in [Detector -> DetectorResult] :
            Decides(ev, [status |-> PipelineVerdict(results), results |-> results])

(* Whatever a stage raises, execute answers BLOCK.                         *)
StageRaises(ev) ==
    /\ requests[ev].at \in {"open", "encoding", "encoded"}
    /\ Decides(ev, Failed)

(* The end of observe: the last state of the session's list, whoever put   *)
(* it there, goes to the SessionManager, which raises if the session has   *)
(* been removed.                                                           *)
Synchronize(ev) ==
    LET e == requests[ev].engine
        s == requests[ev].trace
        l == histories[e][s] IN
    /\ requests[ev].at = "decided"
    /\ \/ l = NoList /\ Goes(ev, "observed") /\ UNCHANGED sessions
       \/ /\ l # NoList /\ sessions[e][s] # Absent
          /\ sessions' = [sessions EXCEPT ![e][s] = Append(@, lists[l][Len(lists[l])])]
          /\ Goes(ev, "observed")
       \/ l # NoList /\ sessions[e][s] = Absent /\ Goes(ev, "refused") /\ UNCHANGED sessions
    /\ UNCHANGED <<engine, phases, lists, histories, outcomes, ledger>>

(* monitor_event looks for the session's records ...                       *)
LookForRecords(ev) ==
    /\ requests[ev].at = "observed"
    /\ Goes(ev, IF ledger[requests[ev].trace] = <<>> THEN "recording first" ELSE "recording")
    /\ UNCHANGED <<engine, phases, sessions, lists, histories, outcomes, ledger>>

(* ... and puts an empty list there if it has found none.                  *)
Record(ev) ==
    /\ requests[ev].at \in {"recording first", "recording"}
    /\ ledger' = [ledger EXCEPT ![requests[ev].trace] =
            IF requests[ev].at = "recording" THEN Append(@, ev) ELSE <<ev>>]
    /\ Goes(ev, "done")
    /\ UNCHANGED <<engine, phases, sessions, lists, histories, outcomes>>

RuntimeNext ==
    \/ \E to \in {"running", "paused", "completed", "failed"} : TransitionTo(to)
    \/ \E e \in Engine : InitializeEngine(e)
    \/ \E e \in Engine, s \in Trace : RemoveSession(e, s)
    \/ \E ev \in Event :
        \/ \E s \in Trace : Admit(ev, s)
        \/ OpenSession(ev) \/ BeginEncode(ev) \/ FinishEncode(ev)
        \/ Dispatch(ev) \/ StageRaises(ev)
        \/ Synchronize(ev) \/ LookForRecords(ev) \/ Record(ev)

RuntimeSpec == RuntimeInit /\ [][RuntimeNext]_runtimeVars

-----------------------------------------------------------------------------
Elements(seq) == {seq[i] : i \in DOMAIN seq}

(* Fail-safe: an ALLOW is given only to an event whose own state has been  *)
(* encoded and that no detector has found anomalous, whatever fails.       *)
FailSafe ==
    \A ev \in Event : outcomes[ev].status = "ALLOW" =>
        /\ \E l \in Event : ev \in Elements(lists[l])
        /\ \A d \in Detector : outcomes[ev].results[d] = "quiet"

(* Isolation: whatever requests of several sessions overlap, on engines    *)
(* old and new, a session's trace, its history and its list in the encoder *)
(* hold states of that session only, and on that engine only.              *)
SessionsAreIsolated ==
    \A e \in Engine, s \in Trace :
        LET own == {ev \in Event : requests[ev].trace = s /\ requests[ev].engine = e} IN
        /\ sessions[e][s] # Absent => Elements(sessions[e][s]) \subseteq own
        /\ histories[e][s] # NoList => Elements(lists[histories[e][s]]) \subseteq own
        /\ \A ev \in Elements(ledger[s]) : requests[ev].trace = s

=============================================================================
