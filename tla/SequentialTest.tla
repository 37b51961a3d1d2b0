--------------------------- MODULE SequentialTest ---------------------------
(***************************************************************************)
(* The sequential probability ratio tests (sprt/engine.py and, for         *)
(* workflows of several agents, multiagent/sprt.py) over a Markov model    *)
(* that is trained meanwhile (markov/).  Nothing is locked: an observation *)
(* reads its session, writes the transition and the number of transitions, *)
(* and then the ratio, MultiAgentSPRTEngine in another order; any thread   *)
(* may come between.  A training empties the matrix and fills it row by    *)
(* row.  Probabilities matter only as positive or zero; the logarithm of   *)
(* their ratio is an integer out of RawIncrement.  The three reads of an   *)
(* observation are one step, and so are the four removals of a reset.      *)
(***************************************************************************)
EXTENDS Integers, FiniteSets

CONSTANTS
    Session, Thread,
    State,          \* state names
    Batch,          \* what may be trained: sets of pairs of states
    Smoothed,       \* smoothing > 0
    RawIncrement,   \* log(q / p), rounded
    Cap,            \* llr_cap
    Upper, Lower,   \* the Wald thresholds
    Odds,           \* log(p1 / p0) and log((1 - p1) / (1 - p0)), rounded
    Ttl,            \* session_ttl
    MaxClock, MaxCount,
    NoState         \* not a state

ASSUME SequentialTestAssumption ==
    /\ Batch \subseteq SUBSET (State \X State)
    /\ Smoothed \in BOOLEAN
    /\ RawIncrement \subseteq Int /\ Odds \subseteq Int
    /\ {Cap, Upper, Ttl, MaxClock, MaxCount} \subseteq Nat
    /\ Lower \in Int /\ Lower < 0 /\ Upper > 0
    /\ \A i \in Odds : -Cap <= i /\ i <= Cap
    /\ NoState \notin State

VARIABLES
    multi,      \* the engine is MultiAgentSPRTEngine
    tests,      \* _session_llr, _session_counts or _session_steps, _session_prev_state
    access,     \* _session_last_access
    begun,      \* the number of observations of a session that began (history)
    calls,      \* how far each thread's observation is
    verdict,    \* the last decision
    clock,
    trained,    \* transitions counted
    known,      \* ProbabilityMatrix.states
    positive,   \* the entries of the matrix above zero
    rows,       \* rows the training under way has not estimated yet
    saved,      \* the model file
    fault       \* the last observation divided by zero

sprtVars == <<multi, tests, access, begun, calls, verdict, clock, fault>>
markovVars == <<trained, known, positive, rows, saved>>
sequentialVars == <<sprtVars, markovVars>>

NoTest == [llr |-> 0, count |-> 0, prev |-> NoState]
Never == -1
NotObserving == [phase |-> "idle"]
NoVerdict == [status |-> "PENDING", llr |-> 0, session |-> NoState]

StatesOf(pairs) == {p[1] : p \in pairs} \cup {p[2] : p \in pairs}

SequentialInit ==
    /\ multi \in BOOLEAN
    /\ tests = [s \in Session |-> NoTest]
    /\ access = [s \in Session |-> Never]
    /\ begun = [s \in Session |-> 0]
    /\ calls = [t \in Thread |-> NotObserving]
    /\ verdict = NoVerdict
    /\ clock = 0
    /\ fault = FALSE
    /\ trained = {} /\ known = {} /\ positive = {} /\ rows = {}
    /\ saved = {}

-----------------------------------------------------------------------------
(* MarkovTrainer.fit, or update with one pair: count, then begin to        *)
(* estimate a matrix that has just been emptied.                           *)
Train(batch) ==
    /\ rows = {}
    /\ trained' = trained \cup batch
    /\ known' = StatesOf(trained')
    /\ positive' = {}
    /\ rows' = known'
    /\ UNCHANGED <<saved, sprtVars>>

(* One turn of the loop of ProbabilityMatrix.estimate.                     *)
EstimateRow(from) ==
    /\ from \in rows
    /\ positive' = positive \cup
            {pair \in {from} \X known : Smoothed \/ pair \in trained}
    /\ rows' = rows \ {from}
    /\ UNCHANGED <<trained, known, saved, sprtVars>>

SaveModel ==
    /\ rows = {}
    /\ saved' = trained
    /\ UNCHANGED <<trained, known, positive, rows, sprtVars>>

(* A new counter, matrix and predictor replace the old ones.               *)
LoadModel ==
    /\ rows = {}
    /\ trained' = saved
    /\ known' = StatesOf(saved)
    /\ positive' = {pair \in StatesOf(saved) \X StatesOf(saved) :
                        Smoothed \/ pair \in saved}
    /\ UNCHANGED <<rows, saved, sprtVars>>

MutantPossible(prev, curr) == <<prev, curr>> \in positive

(* ProbabilityMatrix.get_probability is above zero: a transition out of    *)
(* the vocabulary is given a share of a larger alphabet.                   *)
Possible(prev, curr) ==
    IF {prev, curr} \subseteq known
      THEN <<prev, curr>> \in positive
      ELSE Smoothed

-----------------------------------------------------------------------------
Expired(s) == access[s] # Never /\ clock - access[s] > Ttl

Forget(f, ss, nothing) == [s \in Session |-> IF s \in ss THEN nothing ELSE f[s]]

(* _cleanup_sessions looks at every session, MultiAgentSPRTEngine only at  *)
(* the one observed.                                                       *)
Cleaned(s) == IF multi THEN {s} \cap {x \in Session : Expired(x)}
                       ELSE {x \in Session : Expired(x)}

(* observe_sprt or observe_event up to the computation.                    *)
BeginObserve(t, s, state) ==
    /\ calls[t] = NotObserving
    /\ begun[s] < MaxCount
    /\ begun' = [begun EXCEPT ![s] = @ + 1]
    /\ LET kept == Forget(tests, Cleaned(s), NoTest) IN
        /\ calls' = [calls EXCEPT ![t] =
                [phase |-> "read", session |-> s, state |-> state, prev |-> kept[s].prev,
                 llr |-> kept[s].llr, count |-> kept[s].count]]
        /\ tests' = IF multi THEN [kept EXCEPT ![s].prev = state] ELSE kept
    /\ access' = [Forget(access, Cleaned(s), Never) EXCEPT ![s] = clock]
    /\ UNCHANGED <<multi, verdict, clock, fault, markovVars>>

MutantCapped(i) == IF i < -Cap THEN -Cap ELSE i

Capped(i) == IF i > Cap THEN Cap ELSE IF i < -Cap THEN -Cap ELSE i

Status(llr) ==
    IF llr >= Upper THEN "ACCEPT_H1" ELSE IF llr <= Lower THEN "ACCEPT_H0" ELSE "PENDING"

(* The rest of observe_sprt: the increment is computed, the state and the  *)
(* count are stored ...                                                    *)
Increments(call) == IF call.prev = NoState THEN {0} ELSE {Capped(i) : i \in RawIncrement}

Accumulate(t) ==
    LET call    == calls[t]
        counted == IF call.prev = NoState THEN call.count ELSE call.count + 1 IN
    /\ ~multi /\ call.phase = "read"
    /\ call.prev # NoState => Possible(call.prev, call.state)
    /\ tests' = [tests EXCEPT ![call.session].prev = call.state,
                             ![call.session].count = counted]
    /\ \E i \in Increments(call) :
        calls' = [calls EXCEPT ![t] =
            [call EXCEPT !.phase = "counted", !.llr = @ + i, !.count = counted]]
    /\ UNCHANGED <<multi, access, begun, verdict, clock, fault, markovVars>>

(* ... then the ratio, which decides; the test restarts after H0.          *)
Conclude(t) ==
    LET call == calls[t] IN
    /\ ~multi /\ call.phase = "counted"
    /\ tests' = [tests EXCEPT ![call.session].llr =
            IF Status(call.llr) = "ACCEPT_H0" THEN 0 ELSE call.llr]
    /\ verdict' = [status |-> Status(call.llr), llr |-> call.llr, session |-> call.session]
    /\ calls' = [calls EXCEPT ![t] = NotObserving]
    /\ fault' = FALSE
    /\ UNCHANGED <<multi, access, begun, clock, markovVars>>

(* log(q / 0): the detector raises, and its last state is not replaced.    *)
DivideByZero(t) ==
    LET call == calls[t] IN
    /\ ~multi /\ call.phase = "read"
    /\ call.prev # NoState
    /\ ~Possible(call.prev, call.state)
    /\ calls' = [calls EXCEPT ![t] = NotObserving]
    /\ fault' = TRUE
    /\ UNCHANGED <<multi, tests, access, begun, verdict, clock, markovVars>>

(* The rest of MultiAgentSPRTEngine.observe_event, which reads the ratio   *)
(* and the number of steps only when it adds to them; the first event of a *)
(* session starts both.                                                    *)
AddRatio(t) ==
    LET call == calls[t] IN
    /\ multi /\ call.phase = "read"
    /\ \E i \in Odds :
        LET llr == IF call.prev = NoState THEN 0 ELSE tests[call.session].llr + i IN
        /\ tests' = [tests EXCEPT ![call.session].llr = llr]
        /\ calls' = [calls EXCEPT ![t] = [call EXCEPT !.phase = "added", !.llr = llr]]
    /\ UNCHANGED <<multi, access, begun, verdict, clock, fault, markovVars>>

AddStep(t) ==
    LET call == calls[t] IN
    /\ multi /\ call.phase = "added"
    /\ tests' = [tests EXCEPT ![call.session].count =
            IF call.prev = NoState THEN 1 ELSE @ + 1]
    /\ calls' = [calls EXCEPT ![t].phase = "counted"]
    /\ UNCHANGED <<multi, access, begun, verdict, clock, fault, markovVars>>

ConcludeMulti(t) ==
    LET call == calls[t] IN
    /\ multi /\ call.phase = "counted"
    /\ tests' = IF call.prev # NoState /\ Status(call.llr) = "ACCEPT_H0"
                  THEN [tests EXCEPT ![call.session].llr = 0] ELSE tests
    /\ verdict' = [status |-> Status(call.llr), llr |-> call.llr, session |-> call.session]
    /\ calls' = [calls EXCEPT ![t] = NotObserving]
    /\ UNCHANGED <<multi, access, begun, clock, fault, markovVars>>

ResetSession(s) ==
    /\ tests' = [tests EXCEPT ![s] = NoTest]
    /\ access' = [access EXCEPT ![s] = Never]
    /\ UNCHANGED <<multi, begun, calls, verdict, clock, fault, markovVars>>

(* reset, which only SPRTEngine has.                                       *)
ResetAll ==
    /\ ~multi
    /\ tests' = [s \in Session |-> NoTest]
    /\ access' = [s \in Session |-> Never]
    /\ UNCHANGED <<multi, begun, calls, verdict, clock, fault, markovVars>>

PassClock ==
    /\ clock < MaxClock
    /\ clock' = clock + 1
    /\ UNCHANGED <<multi, tests, access, begun, calls, verdict, fault, markovVars>>

SequentialNext ==
    \/ \E batch \in Batch : Train(batch)
    \/ \E from \in State : EstimateRow(from)
    \/ SaveModel \/ LoadModel
    \/ \E t \in Thread, s \in Session, state \in State : BeginObserve(t, s, state)
    \/ \E t \in Thread :
        \/ Accumulate(t) \/ Conclude(t) \/ DivideByZero(t)
        \/ AddRatio(t) \/ AddStep(t) \/ ConcludeMulti(t)
    \/ \E s \in Session : ResetSession(s)
    \/ ResetAll \/ PassClock

SequentialSpec == SequentialInit /\ [][SequentialNext]_sequentialVars

-----------------------------------------------------------------------------
(* However observations of a session, resets, clean-ups and trainings      *)
(* interleave - and they do lose updates - no observation weighs twice: a  *)
(* ratio stands for at most as many capped increments as observations of   *)
(* its session have begun, so that an alarm needs Upper / Cap of them.     *)
EvidenceBoundsTheRatio ==
    /\ \A s \in Session :
        -Cap * begun[s] <= tests[s].llr /\ tests[s].llr <= Cap * begun[s]
    /\ verdict.status = "ACCEPT_H1" => Upper <= Cap * begun[verdict.session]

(* "Lock the LLR at or above threshold to maintain alert state"            *)
(* (sprt/engine.py:148): while a session is neither reset nor cleaned up,  *)
(* an alarm is followed by alarms.                                         *)
AlertIsMaintained ==
    [][\A s \in Session :
        (~multi /\ tests[s].llr >= Upper) =>
            tests'[s].llr >= Upper \/ tests'[s] = NoTest]_sequentialVars

(* With smoothing, an observation can fail only because a training has     *)
(* emptied the matrix and not filled it yet.                               *)
FaultsNeedTraining ==
    [][(Smoothed /\ fault' /\ ~fault) => rows # {}]_sequentialVars
=============================================================================
