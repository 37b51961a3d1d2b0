--------------------------- MODULE RuntimeProofs ---------------------------
(***************************************************************************)
(* Proofs about the way from telemetry to verdicts: the sequential tests   *)
(* and the training beside them, the runtime pipeline with its sessions,   *)
(* and the contexts of telemetry; for any number of threads, sessions,     *)
(* events, engines and tasks.                                              *)
(***************************************************************************)
EXTENDS SequentialTest, RuntimePipeline, Telemetry, MultiAgentTopology, FiniteSetTheorems, TLAPS

-----------------------------------------------------------------------------
(* The sequential tests.                                                   *)

(* x stands for at most w capped increments.                               *)
Within(x, w) == x \in Int /\ -(Cap * w) <= x /\ x <= Cap * w

LEMMA SequentialConstants ==
    /\ Cap \in Nat /\ Upper \in Nat /\ Upper > 0 /\ Lower \in Int /\ Lower < 0
    /\ \A i \in Odds : i \in Int /\ -Cap <= i /\ i <= Cap
    /\ \A i \in RawIncrement : i \in Int
BY SequentialTestAssumption

LEMMA CappedBounds ==
    ASSUME NEW i \in Int
    PROVE  Capped(i) \in Int /\ -Cap <= Capped(i) /\ Capped(i) <= Cap
BY SequentialConstants DEF Capped

LEMMA NothingIsWithin ==
    ASSUME NEW w \in Nat
    PROVE  Within(0, w)
<1>1. Cap * w \in Nat
  BY SequentialConstants
<1>2. QED
  BY <1>1 DEF Within

LEMMA WithinGrows ==
    ASSUME NEW x, NEW v \in Nat, NEW w \in Nat, v <= w, Within(x, v)
    PROVE  Within(x, w)
<1>1. Cap * v <= Cap * w /\ Cap * v \in Nat /\ Cap * w \in Nat
  BY SequentialConstants
<1>2. QED
  BY <1>1 DEF Within

LEMMA WithinAdds ==
    ASSUME NEW x, NEW w \in Nat, NEW i \in Int, Within(x, w), -Cap <= i, i <= Cap
    PROVE  Within(x + i, w + 1)
<1>1. Cap * (w + 1) = Cap * w + Cap /\ Cap * w \in Nat /\ Cap \in Nat
  BY SequentialConstants
<1>2. QED
  BY <1>1 DEF Within

(* The observations of a session that have begun and not yet added their   *)
(* increment, and the number of those that may have added one.             *)
PendingIn(c, s) == {t \in Thread : c[t].phase = "read" /\ c[t].session = s}
Weight(b, c, s) == b[s] - Cardinality(PendingIn(c, s))

Weighed(b, c) ==
    \A s \in Session :
        /\ IsFiniteSet(PendingIn(c, s)) /\ b[s] \in Nat
        /\ Weight(b, c, s) \in Nat

IsTest(test) ==
    test = [llr |-> test.llr, count |-> test.count, prev |-> test.prev]

IsCall(c) ==
    /\ c = [f \in {"phase", "session", "state", "prev", "llr", "count"} |-> c[f]]
    /\ c.phase \in {"read", "added", "counted"} /\ c.session \in Session

(* Every ratio, stored or about to be, is within the weight of its         *)
(* session; an alarm is the verdict on a ratio over the threshold.         *)
TestWithin(test, w) == IsTest(test) /\ Within(test.llr, w)
CallWithin(c, b, all) == IsCall(c) /\ Within(c.llr, Weight(b, all, c.session))
AlarmWithin(v, b, all) ==
    v.status = "ACCEPT_H1" =>
        v.session \in Session /\ v.llr >= Upper /\ Within(v.llr, Weight(b, all, v.session))

EvidenceInv ==
    /\ tests = [s \in Session |-> tests[s]] /\ begun = [s \in Session |-> begun[s]]
    /\ calls = [t \in Thread |-> calls[t]]
    /\ Weighed(begun, calls)
    /\ \A s \in Session : TestWithin(tests[s], Weight(begun, calls, s))
    /\ \A t \in Thread : calls[t] = NotObserving \/ CallWithin(calls[t], begun, calls)
    /\ AlarmWithin(verdict, begun, calls)

(* Weights never shrink, so that a step keeps the invariant if what it     *)
(* changes is within the weights after it.                                 *)
LEMMA EvidenceKept ==
    ASSUME EvidenceInv,
           tests' = [s \in Session |-> tests'[s]], begun' = [s \in Session |-> begun'[s]],
           calls' = [t \in Thread |-> calls'[t]],
           Weighed(begun', calls'),
           \A s \in Session : Weight(begun, calls, s) <= Weight(begun', calls', s),
           \A s \in Session :
                tests'[s] = tests[s] \/ TestWithin(tests'[s], Weight(begun', calls', s)),
           \A t \in Thread : \/ calls'[t] = calls[t] \/ calls'[t] = NotObserving
                             \/ CallWithin(calls'[t], begun', calls'),
           verdict' = verdict \/ AlarmWithin(verdict', begun', calls')
    PROVE  EvidenceInv'
<1>1. ASSUME NEW s \in Session, NEW x, Within(x, Weight(begun, calls, s))
      PROVE  Within(x, Weight(begun', calls', s))
  BY <1>1, WithinGrows DEF Weighed, EvidenceInv
<1>2. \A s \in Session : TestWithin(tests'[s], Weight(begun', calls', s))
  BY <1>1 DEF TestWithin, EvidenceInv
<1>3. \A t \in Thread : calls'[t] = NotObserving \/ CallWithin(calls'[t], begun', calls')
  <2>1. ASSUME NEW t \in Thread, CallWithin(calls[t], begun, calls)
        PROVE  CallWithin(calls[t], begun', calls')
    BY <1>1, <2>1 DEF CallWithin, IsCall
  <2>2. QED
    BY <2>1 DEF EvidenceInv
<1>4. AlarmWithin(verdict', begun', calls')
  BY <1>1 DEF AlarmWithin, EvidenceInv
<1>5. QED
  BY <1>2, <1>3, <1>4 DEF EvidenceInv

(* An observation that begins leaves the weights: it is pending.           *)
LEMMA BeginningWeighs ==
    ASSUME EvidenceInv, NEW t \in Thread, NEW s \in Session, NEW c, calls[t] = NotObserving,
           c.phase = "read", c.session = s, calls' = [calls EXCEPT ![t] = c],
           begun' = [begun EXCEPT ![s] = @ + 1]
    PROVE  /\ Weighed(begun', calls')
           /\ \A x \in Session : Weight(begun', calls', x) = Weight(begun, calls, x)
<1>1. calls'[t] = c /\ \A u \in Thread \ {t} : calls'[u] = calls[u]
  BY DEF EvidenceInv
<1>2. calls[t].phase # "read"
  BY DEF NotObserving
<1>3. PendingIn(calls', s) = PendingIn(calls, s) \cup {t} /\ t \notin PendingIn(calls, s)
  BY <1>1, <1>2 DEF PendingIn
<1>4. \A x \in Session \ {s} : PendingIn(calls', x) = PendingIn(calls, x)
  BY <1>1, <1>2 DEF PendingIn
<1>5. IsFiniteSet(PendingIn(calls', s)) /\ Cardinality(PendingIn(calls', s)) =
            Cardinality(PendingIn(calls, s)) + 1 /\ Cardinality(PendingIn(calls, s)) \in Nat
  <2>1. IsFiniteSet(PendingIn(calls, s))
    BY DEF EvidenceInv, Weighed
  <2> DEFINE P == PendingIn(calls, s)
  <2>2. IsFiniteSet(P \cup {t}) /\ Cardinality(P \cup {t}) = Cardinality(P) + 1
    BY <1>3, <2>1, FS_AddElement
  <2>3. QED
    BY <1>3, <2>1, <2>2, FS_CardinalityType
<1>6. begun'[s] = begun[s] + 1 /\ begun[s] \in Nat
        /\ \A x \in Session \ {s} : begun'[x] = begun[x]
  BY DEF EvidenceInv, Weighed
<1>7. Weight(begun', calls', s) = Weight(begun, calls, s)
  BY <1>5, <1>6 DEF Weight
<1>8. \A x \in Session \ {s} : Weight(begun', calls', x) = Weight(begun, calls, x)
  BY <1>4, <1>6 DEF Weight
<1>9. QED
  BY <1>4, <1>5, <1>6, <1>7, <1>8 DEF EvidenceInv, Weighed

(* When one adds its increment, or fails, its session weighs one more.     *)
LEMMA AddingWeighs ==
    ASSUME EvidenceInv, NEW t \in Thread, NEW c, calls[t].phase = "read", c.phase # "read",
           calls' = [calls EXCEPT ![t] = c], begun' = begun
    PROVE  /\ calls[t].session \in Session /\ Weighed(begun', calls')
           /\ Weight(begun', calls', calls[t].session)
                    = Weight(begun, calls, calls[t].session) + 1
           /\ \A x \in Session : Weight(begun, calls, x) <= Weight(begun', calls', x)
<1> DEFINE s == calls[t].session
<1>1. calls'[t] = c /\ \A u \in Thread \ {t} : calls'[u] = calls[u]
  BY DEF EvidenceInv
<1>2. s \in Session
  BY DEF EvidenceInv, CallWithin, IsCall, NotObserving
<1>3. PendingIn(calls', s) = PendingIn(calls, s) \ {t} /\ t \in PendingIn(calls, s)
  BY <1>1 DEF PendingIn
<1>4. \A x \in Session \ {s} : PendingIn(calls', x) = PendingIn(calls, x)
  BY <1>1 DEF PendingIn
<1> HIDE DEF s
<1>5. IsFiniteSet(PendingIn(calls', s)) /\ Cardinality(PendingIn(calls', s)) =
            Cardinality(PendingIn(calls, s)) - 1 /\ Cardinality(PendingIn(calls, s)) \in Nat
  <2>1. IsFiniteSet(PendingIn(calls, s))
    BY <1>2 DEF EvidenceInv, Weighed
  <2> DEFINE P == PendingIn(calls, s)
  <2>2. IsFiniteSet(P \ {t}) /\ Cardinality(P \ {t}) = Cardinality(P) - 1
    BY <1>3, <2>1, FS_RemoveElement
  <2>3. QED
    BY <1>3, <2>1, <2>2, FS_CardinalityType
<1>6. begun[s] \in Nat /\ Weight(begun, calls, s) \in Nat
  BY <1>2 DEF EvidenceInv, Weighed
<1>7. Weight(begun', calls', s) = Weight(begun, calls, s) + 1
  BY <1>5, <1>6 DEF Weight
<1>8. \A x \in Session \ {s} : Weight(begun', calls', x) = Weight(begun, calls, x)
  BY <1>4 DEF Weight
<1>9. Weighed(begun', calls')
  <2>1. ASSUME NEW x \in Session
        PROVE  IsFiniteSet(PendingIn(calls', x)) /\ begun'[x] \in Nat
                    /\ Weight(begun', calls', x) \in Nat
    <3>1. IsFiniteSet(PendingIn(calls, x)) /\ begun[x] \in Nat /\ Weight(begun, calls, x) \in Nat
      BY DEF EvidenceInv, Weighed
    <3>2. CASE x = s
      BY <1>5, <1>6, <1>7, <3>2
    <3>3. CASE x # s
      BY <1>4, <1>8, <3>1, <3>3
    <3>4. QED
      BY <3>2, <3>3
  <2>2. QED
    BY <2>1 DEF Weighed
<1>10. \A x \in Session : Weight(begun, calls, x) <= Weight(begun', calls', x)
  BY <1>6, <1>7, <1>8 DEF EvidenceInv, Weighed
<1>11. QED
  BY <1>2, <1>7, <1>9, <1>10 DEF s

(* Other steps of an observation leave the weights.                        *)
LEMMA OthersLeaveWeights ==
    ASSUME EvidenceInv, NEW t \in Thread, NEW c, calls[t].phase # "read", c.phase # "read",
           calls' = [calls EXCEPT ![t] = c], begun' = begun
    PROVE  /\ Weighed(begun', calls')
           /\ \A x \in Session : Weight(begun', calls', x) = Weight(begun, calls, x)
<1>1. calls'[t] = c /\ \A u \in Thread \ {t} : calls'[u] = calls[u]
  BY DEF EvidenceInv
<1>2. \A x \in Session : PendingIn(calls', x) = PendingIn(calls, x)
  BY <1>1 DEF PendingIn
<1>3. QED
  BY <1>2 DEF EvidenceInv, Weighed, Weight

LEMMA WeightsAreNumbers ==
    ASSUME EvidenceInv
    PROVE  \A s \in Session : Weight(begun, calls, s) \in Nat
BY DEF EvidenceInv, Weighed

LEMMA CallsAreWithin ==
    ASSUME EvidenceInv, NEW t \in Thread, calls[t].phase # "idle"
    PROVE  CallWithin(calls[t], begun, calls)
<1>1. calls[t] = NotObserving \/ CallWithin(calls[t], begun, calls)
  BY DEF EvidenceInv
<1>2. NotObserving.phase = "idle"
  BY DEF NotObserving
<1>3. QED
  BY <1>1, <1>2

LEMMA NothingIsWithinAWeight ==
    ASSUME NEW b, NEW c, Weighed(b, c), NEW s \in Session
    PROVE  TestWithin(NoTest, Weight(b, c, s))
<1>1. Weight(b, c, s) \in Nat
  BY DEF Weighed
<1>2. Within(0, Weight(b, c, s))
  BY <1>1, NothingIsWithin
<1>3. IsTest(NoTest) /\ NoTest.llr = 0
  BY DEF IsTest, NoTest
<1>4. QED
  BY <1>2, <1>3 DEF TestWithin

(* A step that only forgets tests.                                         *)
LEMMA ForgettingKeeps ==
    ASSUME EvidenceInv, UNCHANGED <<begun, calls, verdict>>,
           tests' = [s \in Session |-> tests'[s]],
           \A s \in Session : tests'[s] \in {tests[s], NoTest}
    PROVE  EvidenceInv'
<1>1. Weighed(begun', calls')
        /\ \A s \in Session : Weight(begun', calls', s) = Weight(begun, calls, s)
  BY DEF EvidenceInv
<1>2. \A s \in Session : Weight(begun, calls, s) <= Weight(begun', calls', s)
  BY <1>1, WeightsAreNumbers
<1>3. \A s \in Session :
        tests'[s] = tests[s] \/ TestWithin(tests'[s], Weight(begun', calls', s))
  BY <1>1, NothingIsWithinAWeight
<1>4. QED
  BY <1>1, <1>2, <1>3, EvidenceKept DEF EvidenceInv

(* A ratio changed in a session's record, the rest left.                   *)
LEMMA RatioStored ==
    ASSUME EvidenceInv, NEW s \in Session, NEW x, NEW w, Within(x, w),
           tests' = [tests EXCEPT ![s].llr = x]
    PROVE  /\ tests' = [z \in Session |-> tests'[z]]
           /\ TestWithin(tests'[s], w)
           /\ \A z \in Session \ {s} : tests'[z] = tests[z]
<1>1. tests = [z \in Session |-> tests[z]] /\ IsTest(tests[s])
  BY DEF EvidenceInv, TestWithin
<1>2. tests'[s] = [tests[s] EXCEPT !.llr = x]
  BY <1>1
<1>3. IsTest(tests'[s]) /\ tests'[s].llr = x
  BY <1>1, <1>2 DEF IsTest
<1>4. QED
  BY <1>1, <1>3 DEF TestWithin

LEMMA VerdictOf ==
    ASSUME NEW b, NEW c, NEW s \in Session, NEW llr, Within(llr, Weight(b, c, s)), NEW v,
           v = [status |-> Status(llr), llr |-> llr, session |-> s]
    PROVE  AlarmWithin(v, b, c)
<1>1. v.status = Status(llr) /\ v.llr = llr /\ v.session = s
  OBVIOUS
<1>2. Status(llr) = "ACCEPT_H1" => llr >= Upper
  BY DEF Status
<1>3. QED
  BY <1>1, <1>2 DEF AlarmWithin

(* A step of an observation that has added its increment.                  *)
LEMMA AfterAdding ==
    ASSUME EvidenceInv, NEW t \in Thread, calls[t].phase \in {"counted", "added"}, NEW to,
           to = NotObserving \/ to = [calls[t] EXCEPT !.phase = "counted"],
           calls' = [calls EXCEPT ![t] = to], begun' = begun
    PROVE  /\ calls[t].session \in Session /\ CallWithin(calls[t], begun', calls')
           /\ Weighed(begun', calls')
           /\ \A x \in Session : Weight(begun', calls', x) = Weight(begun, calls, x)
           /\ \A x \in Session : Weight(begun, calls, x) <= Weight(begun', calls', x)
           /\ calls' = [u \in Thread |-> calls'[u]]
           /\ \A u \in Thread : \/ calls'[u] = calls[u] \/ calls'[u] = NotObserving
                                \/ CallWithin(calls'[u], begun', calls')
           /\ begun' = [x \in Session |-> begun'[x]]
<1> DEFINE call == calls[t]
<1>1. CallWithin(call, begun, calls) /\ IsCall(call) /\ call.session \in Session
  BY CallsAreWithin DEF CallWithin, IsCall
<1>2. to = NotObserving \/ (/\ to.phase = "counted" /\ to.session = call.session
                            /\ to.llr = call.llr /\ IsCall(to))
  <2>1. CASE to = [call EXCEPT !.phase = "counted"]
    <3> HIDE DEF call
    <3>1. QED
      BY <1>1, <2>1 DEF IsCall
  <2>2. QED
    BY <2>1
<1>3. to.phase # "read"
  BY <1>2 DEF NotObserving
<1>4. Weighed(begun', calls')
        /\ \A x \in Session : Weight(begun', calls', x) = Weight(begun, calls, x)
  BY <1>3, OthersLeaveWeights
<1>5. calls' = [u \in Thread |-> calls'[u]] /\ calls'[t] = to
        /\ \A u \in Thread \ {t} : calls'[u] = calls[u]
  BY DEF EvidenceInv
<1>6. CallWithin(call, begun', calls')
  BY <1>1, <1>4 DEF CallWithin
<1>7. to = NotObserving \/ CallWithin(to, begun', calls')
  BY <1>2, <1>6 DEF CallWithin
<1>8. ASSUME NEW x \in Session PROVE Weight(begun, calls, x) <= Weight(begun', calls', x)
  <2>1. Weight(begun, calls, x) \in Nat
    BY WeightsAreNumbers
  <2>2. Weight(begun', calls', x) = Weight(begun, calls, x)
    BY <1>4
  <2> HIDE DEF Weight
  <2>3. QED
    BY <2>1, <2>2
<1>9. begun' = [x \in Session |-> begun'[x]]
  BY DEF EvidenceInv
<1>10. QED
  BY <1>1, <1>4, <1>5, <1>6, <1>7, <1>8, <1>9

(* EvidenceBoundsTheRatio for any thresholds, sessions, threads and length *)
(* of a run, whatever observations, resets, clean-ups and trainings        *)
(* interleave, and although updates are lost: an alarm needs as many       *)
(* observations of its session as capped increments fit into the           *)
(* threshold.                                                              *)
THEOREM EvidenceBoundsTheRatioHolds == SequentialSpec => []EvidenceBoundsTheRatio
<1>1. SequentialInit => EvidenceInv
  <2> SUFFICES ASSUME SequentialInit PROVE EvidenceInv
    OBVIOUS
  <2>1. \A s \in Session : PendingIn(calls, s) = {} /\ begun[s] = 0
    BY DEF SequentialInit, PendingIn, NotObserving
  <2>2. \A s \in Session : Weight(begun, calls, s) = 0
    BY <2>1, FS_EmptySet DEF Weight
  <2>3. Weighed(begun, calls)
    BY <2>1, <2>2, FS_EmptySet DEF Weighed
  <2>4. \A s \in Session : tests[s] = NoTest
    BY DEF SequentialInit
  <2>5. \A s \in Session : TestWithin(tests[s], Weight(begun, calls, s))
    BY <2>3, <2>4, NothingIsWithinAWeight
  <2>6. QED
    BY <2>3, <2>5 DEF SequentialInit, EvidenceInv, AlarmWithin, NoVerdict
<1>2. EvidenceInv /\ [SequentialNext]_sequentialVars => EvidenceInv'
  <2> SUFFICES ASSUME EvidenceInv, [SequentialNext]_sequentialVars PROVE EvidenceInv'
    OBVIOUS
  <2>1. ASSUME NEW t \in Thread, NEW s \in Session, NEW state \in State, BeginObserve(t, s, state)
        PROVE  EvidenceInv'
    <3> DEFINE kept == Forget(tests, Cleaned(s), NoTest)
               c == [phase |-> "read", session |-> s, state |-> state, prev |-> kept[s].prev,
                     llr |-> kept[s].llr, count |-> kept[s].count]
    <3>1. /\ calls[t] = NotObserving /\ calls' = [calls EXCEPT ![t] = c]
          /\ begun' = [begun EXCEPT ![s] = @ + 1] /\ verdict' = verdict
          /\ tests' = IF multi THEN [kept EXCEPT ![s].prev = state] ELSE kept
      BY <2>1 DEF BeginObserve
    <3>2. /\ kept = [x \in Session |-> kept[x]]
          /\ \A x \in Session : kept[x] \in {tests[x], NoTest}
      BY DEF Forget
    <3>3. c.phase = "read" /\ c.session = s /\ c.llr = kept[s].llr /\ IsCall(c)
      BY DEF IsCall
    <3> HIDE DEF kept, c
    <3>4. /\ Weighed(begun', calls')
          /\ \A x \in Session : Weight(begun', calls', x) = Weight(begun, calls, x)
      BY <3>1, <3>3, BeginningWeighs
    <3>5. ASSUME NEW x \in Session PROVE TestWithin(kept[x], Weight(begun', calls', x))
      BY <3>2, <3>4, NothingIsWithinAWeight DEF EvidenceInv
    <3>6. CallWithin(c, begun', calls')
      BY <3>3, <3>5 DEF CallWithin, TestWithin
    <3>7. /\ tests' = [x \in Session |-> tests'[x]]
          /\ \A x \in Session \ {s} : tests'[x] = kept[x]
          /\ tests'[s] = IF multi THEN [kept[s] EXCEPT !.prev = state] ELSE kept[s]
      BY <3>1, <3>2
    <3>8. IsTest(tests'[s]) /\ tests'[s].llr = kept[s].llr
      BY <3>5, <3>7 DEF TestWithin, IsTest
    <3>9. \A x \in Session : TestWithin(tests'[x], Weight(begun', calls', x))
      BY <3>5, <3>7, <3>8 DEF TestWithin
    <3>10. /\ calls' = [u \in Thread |-> calls'[u]] /\ calls'[t] = c
           /\ \A u \in Thread \ {t} : calls'[u] = calls[u]
           /\ begun' = [x \in Session |-> begun'[x]]
      BY <3>1 DEF EvidenceInv
    <3>11. \A x \in Session : Weight(begun, calls, x) <= Weight(begun', calls', x)
      BY <3>4, WeightsAreNumbers
    <3>12. QED
      BY <3>1, <3>4, <3>6, <3>7, <3>9, <3>10, <3>11, EvidenceKept
  <2>2. ASSUME NEW t \in Thread, Accumulate(t) PROVE EvidenceInv'
    <3> DEFINE call == calls[t]
               s == call.session
               counted == IF call.prev = NoState THEN call.count ELSE call.count + 1
    <3>1. PICK i \in Increments(call) :
                calls' = [calls EXCEPT ![t] =
                    [call EXCEPT !.phase = "counted", !.llr = @ + i, !.count = counted]]
      BY <2>2 DEF Accumulate
    <3>2. i \in Int /\ -Cap <= i /\ i <= Cap
      BY SequentialConstants, CappedBounds DEF Increments
    <3> DEFINE c == [call EXCEPT !.phase = "counted", !.llr = @ + i, !.count = counted]
    <3>3. call.phase = "read" /\ begun' = begun /\ verdict' = verdict
            /\ tests' = [tests EXCEPT ![s].prev = call.state, ![s].count = counted]
      BY <2>2 DEF Accumulate
    <3>4. CallWithin(call, begun, calls)
      BY <3>3, CallsAreWithin
    <3>5. c.phase = "counted" /\ c.session = s /\ c.llr = call.llr + i /\ IsCall(c)
      <4>1. IsCall(call)
        BY <3>4 DEF CallWithin
      <4> HIDE DEF call, counted
      <4>2. QED
        BY <4>1 DEF IsCall, s
    <3>6. calls' = [calls EXCEPT ![t] = c]
      BY <3>1
    <3> HIDE DEF c
    <3>7. /\ s \in Session /\ Weighed(begun', calls')
          /\ Weight(begun', calls', s) = Weight(begun, calls, s) + 1
          /\ \A x \in Session : Weight(begun, calls, x) <= Weight(begun', calls', x)
      BY <3>3, <3>5, <3>6, AddingWeighs
    <3>8. Weight(begun, calls, s) \in Nat /\ Within(call.llr, Weight(begun, calls, s))
      BY <3>4, <3>7 DEF CallWithin, EvidenceInv, Weighed
    <3>9. Within(call.llr + i, Weight(begun, calls, s) + 1)
      BY <3>2, <3>8, WithinAdds
    <3>10. CallWithin(c, begun', calls')
      BY <3>5, <3>7, <3>9 DEF CallWithin
    <3>11. /\ calls' = [u \in Thread |-> calls'[u]] /\ calls'[t] = c
           /\ \A u \in Thread \ {t} : calls'[u] = calls[u]
      BY <3>6 DEF EvidenceInv
    <3>12. /\ tests' = [x \in Session |-> tests'[x]]
           /\ tests'[s] = [tests[s] EXCEPT !.prev = call.state, !.count = counted]
           /\ \A x \in Session \ {s} : tests'[x] = tests[x]
      BY <3>3, <3>7 DEF EvidenceInv
    <3>13. TestWithin(tests'[s], Weight(begun', calls', s))
      <4>1. IsTest(tests[s]) /\ Within(tests[s].llr, Weight(begun, calls, s))
        BY <3>7 DEF EvidenceInv, TestWithin
      <4>2. IsTest(tests'[s]) /\ tests'[s].llr = tests[s].llr
        BY <3>12, <4>1 DEF IsTest
      <4>3. Within(tests[s].llr, Weight(begun', calls', s))
        BY <3>7, <4>1, WithinGrows DEF EvidenceInv, Weighed
      <4>4. QED
        BY <4>2, <4>3 DEF TestWithin
    <3>14. begun' = [x \in Session |-> begun'[x]]
      BY <3>3 DEF EvidenceInv
    <3> HIDE DEF call, s
    <3>15. QED
      BY <3>3, <3>7, <3>10, <3>11, <3>12, <3>13, <3>14, EvidenceKept
  <2>4. ASSUME NEW t \in Thread, Conclude(t) PROVE EvidenceInv'
    <3> DEFINE call == calls[t]
               s == call.session
    <3>1. /\ call.phase = "counted" /\ begun' = begun
          /\ tests' = [tests EXCEPT ![s].llr = IF Status(call.llr) = "ACCEPT_H0" THEN 0 ELSE call.llr]
          /\ verdict' = [status |-> Status(call.llr), llr |-> call.llr, session |-> s]
          /\ calls' = [calls EXCEPT ![t] = NotObserving]
      BY <2>4 DEF Conclude
    <3>2. /\ s \in Session /\ CallWithin(call, begun', calls') /\ Weighed(begun', calls')
          /\ \A x \in Session : Weight(begun, calls, x) <= Weight(begun', calls', x)
          /\ calls' = [u \in Thread |-> calls'[u]]
          /\ \A u \in Thread : \/ calls'[u] = calls[u] \/ calls'[u] = NotObserving
                               \/ CallWithin(calls'[u], begun', calls')
          /\ begun' = [x \in Session |-> begun'[x]]
      BY <3>1, AfterAdding
    <3>3. Within(call.llr, Weight(begun', calls', s))
      BY <3>2 DEF CallWithin
    <3>4. Within(0, Weight(begun', calls', s))
      BY <3>2, <3>3, NothingIsWithin DEF Weighed
    <3>5. /\ tests' = [z \in Session |-> tests'[z]]
          /\ TestWithin(tests'[s], Weight(begun', calls', s))
          /\ \A z \in Session \ {s} : tests'[z] = tests[z]
      <4> DEFINE x == IF Status(call.llr) = "ACCEPT_H0" THEN 0 ELSE call.llr
      <4>1. tests' = [tests EXCEPT ![s].llr = x]
        BY <3>1
      <4>2. Within(x, Weight(begun', calls', s))
        BY <3>3, <3>4
      <4> HIDE DEF x, call, s
      <4>3. QED
        BY <3>2, <4>1, <4>2, RatioStored
    <3>6. AlarmWithin(verdict', begun', calls')
      BY <3>1, <3>2, <3>3, VerdictOf
    <3> HIDE DEF call, s
    <3>7. QED
      BY <3>2, <3>5, <3>6, EvidenceKept
  <2>5. ASSUME NEW t \in Thread, DivideByZero(t) PROVE EvidenceInv'
    <3>1. /\ calls[t].phase = "read" /\ begun' = begun /\ tests' = tests /\ verdict' = verdict
          /\ calls' = [calls EXCEPT ![t] = NotObserving] /\ NotObserving.phase # "read"
      BY <2>5 DEF DivideByZero, NotObserving
    <3>2. /\ Weighed(begun', calls')
          /\ \A x \in Session : Weight(begun, calls, x) <= Weight(begun', calls', x)
      BY <3>1, AddingWeighs
    <3>3. /\ calls' = [u \in Thread |-> calls'[u]] /\ calls'[t] = NotObserving
          /\ \A u \in Thread \ {t} : calls'[u] = calls[u]
      BY <3>1 DEF EvidenceInv
    <3>4. QED
      BY <3>1, <3>2, <3>3, EvidenceKept DEF EvidenceInv
  <2>6. ASSUME NEW t \in Thread, AddRatio(t) PROVE EvidenceInv'
    <3> DEFINE call == calls[t]
               s == call.session
    <3>1. PICK i \in Odds :
            LET llr == IF call.prev = NoState THEN 0 ELSE tests[s].llr + i IN
            /\ tests' = [tests EXCEPT ![s].llr = llr]
            /\ calls' = [calls EXCEPT ![t] = [call EXCEPT !.phase = "added", !.llr = llr]]
      BY <2>6 DEF AddRatio
    <3> DEFINE llr == IF call.prev = NoState THEN 0 ELSE tests[s].llr + i
               c == [call EXCEPT !.phase = "added", !.llr = llr]
    <3>2. call.phase = "read" /\ begun' = begun /\ verdict' = verdict
      BY <2>6 DEF AddRatio
    <3>3. tests' = [tests EXCEPT ![s].llr = llr] /\ calls' = [calls EXCEPT ![t] = c]
      BY <3>1
    <3>4. CallWithin(call, begun, calls)
      BY <3>2, CallsAreWithin
    <3>5. c.phase = "added" /\ c.session = s /\ c.llr = llr /\ IsCall(c)
      <4>1. IsCall(call)
        BY <3>4 DEF CallWithin
      <4> HIDE DEF call, llr
      <4>2. QED
        BY <4>1 DEF IsCall, s
    <3> HIDE DEF c
    <3>6. /\ s \in Session /\ Weighed(begun', calls')
          /\ Weight(begun', calls', s) = Weight(begun, calls, s) + 1
          /\ \A x \in Session : Weight(begun, calls, x) <= Weight(begun', calls', x)
      BY <3>2, <3>3, <3>5, AddingWeighs
    <3>7. Weight(begun, calls, s) \in Nat /\ Within(tests[s].llr, Weight(begun, calls, s))
      BY <3>6 DEF EvidenceInv, Weighed, TestWithin
    <3>8. Within(llr, Weight(begun', calls', s))
      <4>1. Within(0, Weight(begun', calls', s))
        BY <3>6, NothingIsWithin DEF Weighed
      <4>2. Within(tests[s].llr + i, Weight(begun, calls, s) + 1)
        BY <3>7, SequentialConstants, WithinAdds
      <4>3. QED
        BY <3>6, <4>1, <4>2
    <3> HIDE DEF llr
    <3>9. CallWithin(c, begun', calls')
      BY <3>5, <3>8 DEF CallWithin
    <3>10. /\ tests' = [z \in Session |-> tests'[z]]
           /\ TestWithin(tests'[s], Weight(begun', calls', s))
           /\ \A z \in Session \ {s} : tests'[z] = tests[z]
      BY <3>3, <3>6, <3>8, RatioStored
    <3>11. /\ calls' = [u \in Thread |-> calls'[u]] /\ calls'[t] = c
           /\ \A u \in Thread \ {t} : calls'[u] = calls[u]
           /\ begun' = [x \in Session |-> begun'[x]]
      BY <3>2, <3>3 DEF EvidenceInv
    <3> HIDE DEF call, s
    <3>12. QED
      BY <3>2, <3>6, <3>9, <3>10, <3>11, EvidenceKept
  <2>7. ASSUME NEW t \in Thread, AddStep(t) PROVE EvidenceInv'
    <3> DEFINE call == calls[t]
               s == call.session
               n == IF call.prev = NoState THEN 1 ELSE tests[s].count + 1
    <3>1. call.phase = "added" /\ begun' = begun /\ verdict' = verdict
            /\ tests' = [tests EXCEPT ![s].count = n]
      BY <2>7 DEF AddStep
    <3>2. calls' = [calls EXCEPT ![t] = [call EXCEPT !.phase = "counted"]]
      BY <2>7 DEF AddStep, EvidenceInv
    <3>3. /\ Weighed(begun', calls')
          /\ \A x \in Session : Weight(begun', calls', x) = Weight(begun, calls, x)
          /\ \A x \in Session : Weight(begun, calls, x) <= Weight(begun', calls', x)
          /\ calls' = [u \in Thread |-> calls'[u]]
          /\ \A u \in Thread : \/ calls'[u] = calls[u] \/ calls'[u] = NotObserving
                               \/ CallWithin(calls'[u], begun', calls')
          /\ begun' = [x \in Session |-> begun'[x]]
      BY <3>1, <3>2, AfterAdding
    <3>4. s \in Session
      BY <3>1, <3>2, AfterAdding
    <3>5. /\ tests' = [x \in Session |-> tests'[x]]
          /\ tests'[s] = [tests[s] EXCEPT !.count = n]
          /\ \A x \in Session \ {s} : tests'[x] = tests[x]
      BY <3>1, <3>4 DEF EvidenceInv
    <3>6. TestWithin(tests'[s], Weight(begun', calls', s))
      BY <3>3, <3>4, <3>5 DEF EvidenceInv, TestWithin, IsTest
    <3> HIDE DEF call, s
    <3>7. QED
      BY <3>1, <3>3, <3>5, <3>6, EvidenceKept
  <2>8. ASSUME NEW t \in Thread, ConcludeMulti(t) PROVE EvidenceInv'
    <3> DEFINE call == calls[t]
               s == call.session
    <3>1. /\ call.phase = "counted" /\ begun' = begun
          /\ \/ tests' = [tests EXCEPT ![s].llr = 0]
             \/ tests' = tests
          /\ verdict' = [status |-> Status(call.llr), llr |-> call.llr, session |-> s]
          /\ calls' = [calls EXCEPT ![t] = NotObserving]
      BY <2>8 DEF ConcludeMulti
    <3>2. /\ s \in Session /\ CallWithin(call, begun', calls') /\ Weighed(begun', calls')
          /\ \A x \in Session : Weight(begun, calls, x) <= Weight(begun', calls', x)
          /\ calls' = [u \in Thread |-> calls'[u]]
          /\ \A u \in Thread : \/ calls'[u] = calls[u] \/ calls'[u] = NotObserving
                               \/ CallWithin(calls'[u], begun', calls')
          /\ begun' = [x \in Session |-> begun'[x]]
      BY <3>1, AfterAdding
    <3>3. Within(call.llr, Weight(begun', calls', s))
      BY <3>2 DEF CallWithin
    <3>4. Within(0, Weight(begun', calls', s))
      BY <3>2, <3>3, NothingIsWithin DEF Weighed
    <3>5. /\ tests' = [z \in Session |-> tests'[z]]
          /\ \A z \in Session :
                tests'[z] = tests[z] \/ TestWithin(tests'[z], Weight(begun', calls', z))
      <4>1. CASE tests' = tests
        BY <4>1 DEF EvidenceInv
      <4>2. CASE tests' = [tests EXCEPT ![s].llr = 0]
        <5> HIDE DEF call, s
        <5>1. /\ tests' = [z \in Session |-> tests'[z]]
              /\ TestWithin(tests'[s], Weight(begun', calls', s))
              /\ \A z \in Session \ {s} : tests'[z] = tests[z]
          BY <3>2, <3>4, <4>2, RatioStored
        <5>2. QED
          BY <5>1
      <4>3. QED
        BY <3>1, <4>1, <4>2
    <3>6. AlarmWithin(verdict', begun', calls')
      BY <3>1, <3>2, <3>3, VerdictOf
    <3> HIDE DEF call, s
    <3>7. QED
      BY <3>2, <3>5, <3>6, EvidenceKept
  <2>9. ASSUME NEW s \in Session, ResetSession(s) PROVE EvidenceInv'
    BY <2>9, ForgettingKeeps DEF ResetSession, EvidenceInv
  <2>10. CASE ResetAll
    BY <2>10, ForgettingKeeps DEF ResetAll, EvidenceInv
  <2>11. ASSUME UNCHANGED <<tests, begun, calls, verdict>> PROVE EvidenceInv'
    BY <2>11, ForgettingKeeps DEF EvidenceInv
  <2>12. QED
    BY <2>1, <2>2, <2>4, <2>5, <2>6, <2>7, <2>8, <2>9, <2>10, <2>11
    DEF SequentialNext, Train, EstimateRow, SaveModel, LoadModel, PassClock,
        sequentialVars, sprtVars
<1>3. EvidenceInv => EvidenceBoundsTheRatio
  <2> SUFFICES ASSUME EvidenceInv PROVE EvidenceBoundsTheRatio
    OBVIOUS
  <2>1. ASSUME NEW s \in Session, NEW x, Within(x, Weight(begun, calls, s))
        PROVE  x \in Int /\ -Cap * begun[s] <= x /\ x <= Cap * begun[s]
    <3>1. Weight(begun, calls, s) \in Nat /\ begun[s] \in Nat /\ IsFiniteSet(PendingIn(calls, s))
      BY DEF EvidenceInv, Weighed
    <3>2. Weight(begun, calls, s) <= begun[s]
      BY <3>1, FS_CardinalityType DEF Weight
    <3>3. Within(x, begun[s])
      BY <2>1, <3>1, <3>2, WithinGrows
    <3>4. -Cap * begun[s] = -(Cap * begun[s])
      BY <3>1, SequentialConstants
    <3>5. QED
      BY <3>3, <3>4 DEF Within
  <2>2. \A s \in Session : -Cap * begun[s] <= tests[s].llr /\ tests[s].llr <= Cap * begun[s]
    BY <2>1 DEF EvidenceInv, TestWithin
  <2>3. ASSUME verdict.status = "ACCEPT_H1" PROVE Upper <= Cap * begun[verdict.session]
    <3>1. /\ verdict.session \in Session /\ verdict.llr >= Upper
          /\ Within(verdict.llr, Weight(begun, calls, verdict.session))
      BY <2>3 DEF EvidenceInv, AlarmWithin
    <3>2. verdict.llr \in Int /\ verdict.llr <= Cap * begun[verdict.session]
      BY <2>1, <3>1
    <3>3. begun[verdict.session] \in Nat
      BY <3>1 DEF EvidenceInv, Weighed
    <3> DEFINE bound == Cap * begun[verdict.session]
    <3>4. bound \in Int
      BY <3>3, SequentialConstants
    <3> HIDE DEF bound
    <3>5. QED
      BY <3>1, <3>2, <3>4, SequentialConstants DEF bound
  <2>4. QED
    BY <2>2, <2>3 DEF EvidenceBoundsTheRatio
<1>4. QED
  BY <1>1, <1>2, <1>3, PTL DEF SequentialSpec

(* A matrix with smoothing is positive but for the rows still to estimate. *)
MatrixInv == Smoothed => (known \ rows) \X known \subseteq positive

(* FaultsNeedTraining for any model and any interleaving: an observation   *)
(* that divides by zero although there is smoothing does so in the middle  *)
(* of a training.                                                          *)
THEOREM FaultsNeedTrainingHolds == SequentialSpec => FaultsNeedTraining
<1>1. SequentialInit => MatrixInv
  BY DEF SequentialInit, MatrixInv
<1>2. MatrixInv /\ [SequentialNext]_sequentialVars => MatrixInv'
  <2> SUFFICES ASSUME MatrixInv, [SequentialNext]_sequentialVars PROVE MatrixInv'
    OBVIOUS
  <2> USE DEF MatrixInv
  <2>1. ASSUME NEW batch \in Batch, Train(batch) PROVE MatrixInv'
    BY <2>1 DEF Train
  <2>2. ASSUME NEW from \in State, EstimateRow(from) PROVE MatrixInv'
    BY <2>2 DEF EstimateRow
  <2>3. CASE LoadModel
    BY <2>3 DEF LoadModel
  <2>4. ASSUME UNCHANGED <<known, positive, rows>> PROVE MatrixInv'
    BY <2>4
  <2>5. QED
    BY <2>1, <2>2, <2>3, <2>4
    DEF SequentialNext, SaveModel, BeginObserve, Accumulate, Conclude, DivideByZero, AddRatio,
        AddStep, ConcludeMulti, ResetSession, ResetAll, PassClock, sequentialVars, markovVars
<1>3. MatrixInv /\ [SequentialNext]_sequentialVars =>
        [(Smoothed /\ fault' /\ ~fault) => rows # {}]_sequentialVars
  <2> SUFFICES ASSUME MatrixInv, SequentialNext, Smoothed, fault', ~fault PROVE rows # {}
    OBVIOUS
  <2>1. PICK t \in Thread : DivideByZero(t)
    BY DEF SequentialNext, Train, EstimateRow, SaveModel, LoadModel, BeginObserve, Accumulate,
           Conclude, AddRatio, AddStep, ConcludeMulti, ResetSession, ResetAll, PassClock, sprtVars
  <2>2. ~Possible(calls[t].prev, calls[t].state)
    BY <2>1 DEF DivideByZero
  <2>3. QED
    BY <2>2 DEF Possible, MatrixInv
<1>4. QED
  BY <1>1, <1>2, <1>3, PTL DEF SequentialSpec, FaultsNeedTraining

-----------------------------------------------------------------------------
(* The runtime pipeline.                                                   *)

LEMMA AppendedElements ==
    ASSUME NEW S, NEW seq \in Seq(S), NEW x
    PROVE  Elements(Append(seq, x)) = Elements(seq) \cup {x}
<1>1. DOMAIN seq = 1..Len(seq) /\ Len(seq) \in Nat
  OBVIOUS
<1>2. DOMAIN Append(seq, x) = 1..(Len(seq) + 1)
  OBVIOUS
<1>3. \A i \in 1..Len(seq) : Append(seq, x)[i] = seq[i]
  OBVIOUS
<1>4. Append(seq, x)[Len(seq) + 1] = x
  OBVIOUS
<1>5. 1..(Len(seq) + 1) = 1..Len(seq) \cup {Len(seq) + 1}
  BY <1>1
<1>6. QED
  BY <1>1, <1>2, <1>3, <1>4, <1>5 DEF Elements

(* A request that has not been received is nobody's; one that has belongs  *)
(* to an engine and a session.                                             *)
IsRequest(r) ==
    /\ r = [f \in {"at", "engine", "trace", "bound"} |-> r[f]]
    /\ IF r.at = "new" THEN r.engine = 0 ELSE r.engine \in Engine /\ r.trace \in Trace

RequestsTyped(all) ==
    all = [ev \in Event |-> all[ev]] /\ \A ev \in Event : IsRequest(all[ev])

(* Once received it stays what it is.                                      *)
Stay(before, after) ==
    \A ev \in Event : before[ev].engine \in Engine =>
        after[ev].engine = before[ev].engine /\ after[ev].trace = before[ev].trace

LEMMA EnginesAreNumbered == 0 \notin Engine /\ 1 \in Engine /\ NoList \notin Event
BY RuntimeAssumption

LEMMA RequestGoes ==
    ASSUME RequestsTyped(requests), NEW ev \in Event, NEW at, at # "new",
           requests[ev].at # "new", Goes(ev, at)
    PROVE  /\ RequestsTyped(requests') /\ Stay(requests, requests')
           /\ requests'[ev].at = at /\ requests'[ev].bound = requests[ev].bound
           /\ \A x \in Event \ {ev} : requests'[x] = requests[x]
<1>1. requests'[ev] = [requests[ev] EXCEPT !.at = at]
        /\ \A x \in Event \ {ev} : requests'[x] = requests[x]
  BY DEF Goes, RequestsTyped
<1>2. IsRequest(requests[ev])
  BY DEF RequestsTyped
<1>3. /\ IsRequest(requests'[ev]) /\ requests'[ev].at = at
      /\ requests'[ev].bound = requests[ev].bound
      /\ requests'[ev].engine = requests[ev].engine /\ requests'[ev].trace = requests[ev].trace
  BY <1>1, <1>2 DEF IsRequest
<1>4. requests' = [x \in Event |-> requests'[x]]
  BY DEF Goes, RequestsTyped
<1>5. QED
  BY <1>1, <1>3, <1>4 DEF RequestsTyped, Stay

LEMMA RequestIsAdmitted ==
    ASSUME RequestsTyped(requests), engine \in Engine,
           NEW ev \in Event, NEW s \in Trace, Admit(ev, s)
    PROVE  /\ RequestsTyped(requests') /\ Stay(requests, requests')
           /\ requests'[ev].at \notin {"new", "encoding", "encoded"}
           /\ \A x \in Event \ {ev} : requests'[x] = requests[x]
<1>1. /\ requests'[ev] = [at |-> IF phases[engine] = "running" THEN "admitted" ELSE "refused",
                          engine |-> engine, trace |-> s, bound |-> NoList]
      /\ \A x \in Event \ {ev} : requests'[x] = requests[x]
      /\ requests' = [x \in Event |-> requests'[x]]
  BY DEF Admit, RequestsTyped
<1>2. requests[ev].engine = 0
  BY DEF Admit, RequestsTyped, IsRequest
<1>3. IsRequest(requests'[ev]) /\ requests'[ev].at \in {"admitted", "refused"}
  BY <1>1 DEF IsRequest
<1>4. QED
  BY <1>1, <1>2, <1>3, EnginesAreNumbered DEF RequestsTyped, Stay

LEMMA RequestIsBound ==
    ASSUME RequestsTyped(requests), NEW ev \in Event, BeginEncode(ev)
    PROVE  /\ RequestsTyped(requests') /\ Stay(requests, requests')
           /\ requests'[ev].at = "encoding" /\ requests'[ev].bound = Bind(ev)
           /\ \A x \in Event \ {ev} : requests'[x] = requests[x]
<1> DEFINE b == Bind(ev)
<1>1. requests[ev].at = "open"
        /\ requests' = [requests EXCEPT ![ev].at = "encoding", ![ev].bound = b]
  BY DEF BeginEncode
<1> HIDE DEF b
<1>2. requests'[ev] = [requests[ev] EXCEPT !.at = "encoding", !.bound = b]
        /\ \A x \in Event \ {ev} : requests'[x] = requests[x]
  BY <1>1 DEF RequestsTyped
<1>3. IsRequest(requests[ev])
  BY DEF RequestsTyped
<1>4. /\ IsRequest(requests'[ev]) /\ requests'[ev].at = "encoding" /\ requests'[ev].bound = b
      /\ requests'[ev].engine = requests[ev].engine /\ requests'[ev].trace = requests[ev].trace
  <2> DEFINE old == requests[ev]
             new == requests'[ev]
  <2>1. old = [f \in {"at", "engine", "trace", "bound"} |-> old[f]] /\ old.at = "open"
            /\ old.engine \in Engine /\ old.trace \in Trace
    BY <1>1, <1>3 DEF IsRequest
  <2>2. new = [old EXCEPT !.at = "encoding", !.bound = b]
    BY <1>2
  <2> HIDE DEF old, new
  <2>3. /\ new.at = "encoding" /\ new.bound = b
        /\ new.engine = old.engine /\ new.trace = old.trace
        /\ new = [f \in {"at", "engine", "trace", "bound"} |-> new[f]]
    BY <2>1, <2>2
  <2>4. IsRequest(new)
    BY <2>1, <2>3 DEF IsRequest
  <2>5. QED
    BY <2>3, <2>4 DEF old, new
<1>5. requests' = [x \in Event |-> requests'[x]]
  BY <1>1 DEF RequestsTyped
<1>6. QED
  BY <1>2, <1>4, <1>5 DEF RequestsTyped, Stay, b

(* FailSafe.                                                               *)

(* The state of an event that is encoded is in some list, and so it stays. *)
Encoded(ev, all) == \E l \in Event : ev \in Elements(all[l])

ListsTyped(all) == all = [l \in Event |-> all[l]] /\ \A l \in Event : all[l] \in Seq(Event)

BoundTyped(all) == \A ev \in Event : all[ev].at = "encoding" => all[ev].bound \in Event

SafeOutcome(outcome) ==
    outcome.status = "ALLOW" => \A d \in Detector : outcome.results[d] = "quiet"

SafeInv ==
    /\ engine \in Engine /\ RequestsTyped(requests) /\ ListsTyped(lists)
    /\ BoundTyped(requests)
    /\ histories = [e \in Engine |-> [s \in Trace |-> histories[e][s]]]
    /\ \A e \in Engine, s \in Trace : histories[e][s] \in Event \cup {NoList}
    /\ outcomes = [ev \in Event |-> outcomes[ev]]
    /\ \A ev \in Event :
        /\ requests[ev].at = "encoded" => Encoded(ev, lists)
        /\ outcomes[ev].status = "ALLOW" => Encoded(ev, lists)
        /\ SafeOutcome(outcomes[ev])

(* What an encoding that ends does to the lists and the histories.         *)
LEMMA ListGrows ==
    ASSUME ListsTyped(lists), NEW ev \in Event, NEW b \in Event,
           lists' = [lists EXCEPT ![b] = Append(@, ev)]
    PROVE  /\ ListsTyped(lists') /\ \A l \in Event \ {b} : lists'[l] = lists[l]
           /\ Elements(lists'[b]) = Elements(lists[b]) \cup {ev}
           /\ lists'[b] # <<>>
<1>1. /\ lists'[b] = Append(lists[b], ev) /\ \A l \in Event \ {b} : lists'[l] = lists[l]
      /\ lists' = [l \in Event |-> lists'[l]]
  BY DEF ListsTyped
<1>2. lists[b] \in Seq(Event)
  BY DEF ListsTyped
<1>3. lists'[b] \in Seq(Event) /\ lists'[b] # <<>>
  BY <1>1, <1>2
<1>4. Elements(lists'[b]) = Elements(lists[b]) \cup {ev}
  BY <1>1, <1>2, AppendedElements
<1>5. QED
  BY <1>1, <1>3, <1>4 DEF ListsTyped

LEMMA SafeInvHolds == RuntimeSpec => []SafeInv
<1>1. RuntimeInit => SafeInv
  <2> SUFFICES ASSUME RuntimeInit PROVE SafeInv
    OBVIOUS
  <2>1. RequestsTyped(requests) /\ BoundTyped(requests)
            /\ \A ev \in Event : requests[ev].at = "new"
    BY DEF RuntimeInit, RequestsTyped, IsRequest, NotReceived, BoundTyped
  <2>2. ListsTyped(lists)
    BY DEF RuntimeInit, ListsTyped
  <2>3. QED
    BY <2>1, <2>2, EnginesAreNumbered DEF RuntimeInit, SafeInv, SafeOutcome, Undecided
<1>2. SafeInv /\ [RuntimeNext]_runtimeVars => SafeInv'
  <2> SUFFICES ASSUME SafeInv, [RuntimeNext]_runtimeVars PROVE SafeInv'
    OBVIOUS
  <2>1. ASSUME UNCHANGED <<lists, histories, outcomes>>, engine' \in Engine,
               RequestsTyped(requests'), BoundTyped(requests'),
               \A ev \in Event : requests'[ev].at = "encoded" => requests[ev].at = "encoded"
        PROVE  SafeInv'
    BY <2>1 DEF SafeInv
  <2>2. ASSUME NEW ev \in Event, NEW at, at \notin {"new", "encoding", "encoded"},
               requests[ev].at # "new", Goes(ev, at)
        PROVE  /\ RequestsTyped(requests') /\ BoundTyped(requests')
               /\ \A x \in Event : requests'[x].at = "encoded" => requests[x].at = "encoded"
    <3>1. /\ RequestsTyped(requests') /\ requests'[ev].at = at
          /\ \A x \in Event \ {ev} : requests'[x] = requests[x]
      BY <2>2, RequestGoes DEF SafeInv
    <3>2. QED
      BY <2>2, <3>1 DEF BoundTyped, SafeInv
  <2>3. ASSUME NEW to, TransitionTo(to) PROVE SafeInv'
    BY <2>1, <2>3 DEF TransitionTo, SafeInv
  <2>4. ASSUME NEW e \in Engine, InitializeEngine(e) PROVE SafeInv'
    BY <2>1, <2>4 DEF InitializeEngine, SafeInv
  <2>5. ASSUME NEW e \in Engine, NEW s \in Trace, RemoveSession(e, s) PROVE SafeInv'
    BY <2>1, <2>5 DEF RemoveSession, SafeInv
  <2>6. ASSUME NEW ev \in Event, NEW s \in Trace, Admit(ev, s) PROVE SafeInv'
    <3>1. /\ RequestsTyped(requests') /\ requests'[ev].at \notin {"new", "encoding", "encoded"}
          /\ \A x \in Event \ {ev} : requests'[x] = requests[x]
      BY <2>6, RequestIsAdmitted DEF SafeInv
    <3>2. BoundTyped(requests')
            /\ \A x \in Event : requests'[x].at = "encoded" => requests[x].at = "encoded"
      BY <3>1 DEF BoundTyped, SafeInv
    <3>3. QED
      BY <2>1, <2>6, <3>1, <3>2 DEF Admit, SafeInv
  <2>7. ASSUME NEW ev \in Event, OpenSession(ev) PROVE SafeInv'
    BY <2>1, <2>2, <2>7 DEF OpenSession, SafeInv
  <2>8. ASSUME NEW ev \in Event, BeginEncode(ev) PROVE SafeInv'
    <3>1. /\ RequestsTyped(requests') /\ requests'[ev].at = "encoding"
          /\ requests'[ev].bound = Bind(ev)
          /\ \A x \in Event \ {ev} : requests'[x] = requests[x]
      BY <2>8, RequestIsBound DEF SafeInv
    <3>2. requests[ev].engine \in Engine /\ requests[ev].trace \in Trace
      BY <2>8 DEF BeginEncode, SafeInv, RequestsTyped, IsRequest
    <3>3. Bind(ev) \in Event
      BY <3>2 DEF Bind, SafeInv
    <3>4. BoundTyped(requests')
            /\ \A x \in Event : requests'[x].at = "encoded" => requests[x].at = "encoded"
      BY <3>1, <3>3 DEF BoundTyped, SafeInv
    <3>5. QED
      BY <2>1, <2>8, <3>1, <3>4 DEF BeginEncode, SafeInv
  <2>9. ASSUME NEW ev \in Event, FinishEncode(ev) PROVE SafeInv'
    <3> DEFINE b == requests[ev].bound
               e == requests[ev].engine
               s == requests[ev].trace
    <3>1. /\ requests[ev].at = "encoding" /\ lists' = [lists EXCEPT ![b] = Append(@, ev)]
          /\ histories' = [histories EXCEPT ![e][s] = b] /\ Goes(ev, "encoded")
          /\ UNCHANGED <<engine, outcomes>>
      BY <2>9 DEF FinishEncode
    <3>2. b \in Event /\ e \in Engine /\ s \in Trace
      BY <3>1 DEF SafeInv, BoundTyped, RequestsTyped, IsRequest
    <3> HIDE DEF b, e, s
    <3>3. /\ RequestsTyped(requests') /\ requests'[ev].at = "encoded"
          /\ \A x \in Event \ {ev} : requests'[x] = requests[x]
      BY <3>1, RequestGoes DEF SafeInv
    <3>4. /\ ListsTyped(lists') /\ ev \in Elements(lists'[b])
          /\ \A l \in Event : Elements(lists[l]) \subseteq Elements(lists'[l])
      <4>1. ListsTyped(lists)
        BY DEF SafeInv
      <4>2. /\ ListsTyped(lists') /\ \A l \in Event \ {b} : lists'[l] = lists[l]
            /\ Elements(lists'[b]) = Elements(lists[b]) \cup {ev}
        BY <3>1, <3>2, <4>1, ListGrows
      <4>3. QED
        BY <4>2
    <3>5. \A x \in Event : Encoded(x, lists) => Encoded(x, lists')
      BY <3>4 DEF Encoded
    <3>6. Encoded(ev, lists')
      BY <3>2, <3>4 DEF Encoded
    <3>7. /\ histories' = [f \in Engine |-> [z \in Trace |-> histories'[f][z]]]
          /\ \A f \in Engine, z \in Trace : histories'[f][z] \in Event \cup {NoList}
      <4>1. /\ histories' = [f \in Engine |-> [z \in Trace |-> histories'[f][z]]]
            /\ \A f \in Engine, z \in Trace :
                    histories'[f][z] = IF f = e /\ z = s THEN b ELSE histories[f][z]
        <5>1. histories = [f \in Engine |-> [z \in Trace |-> histories[f][z]]]
          BY DEF SafeInv
        <5>2. QED
          BY <3>1, <3>2, <5>1
      <4>2. QED
        BY <3>2, <4>1 DEF SafeInv
    <3>8. BoundTyped(requests')
      BY <3>3 DEF BoundTyped, SafeInv
    <3>9. QED
      BY <3>1, <3>3, <3>4, <3>5, <3>6, <3>7, <3>8 DEF SafeInv
  <2>10. ASSUME NEW ev \in Event, NEW outcome, Decides(ev, outcome), requests[ev].at # "new",
                SafeOutcome(outcome), outcome.status = "ALLOW" => requests[ev].at = "encoded"
         PROVE  SafeInv'
    <3>1. /\ outcomes'[ev] = outcome /\ outcomes' = [x \in Event |-> outcomes'[x]]
          /\ \A x \in Event \ {ev} : outcomes'[x] = outcomes[x]
      BY <2>10 DEF Decides, SafeInv
    <3>2. /\ RequestsTyped(requests') /\ BoundTyped(requests')
          /\ \A x \in Event : requests'[x].at = "encoded" => requests[x].at = "encoded"
      BY <2>2, <2>10 DEF Decides
    <3>3. UNCHANGED <<engine, lists, histories>>
      BY <2>10 DEF Decides
    <3>4. QED
      BY <2>10, <3>1, <3>2, <3>3 DEF SafeInv
  <2>11. ASSUME NEW ev \in Event, Dispatch(ev) PROVE SafeInv'
    <3>1. PICK results \in [Detector -> DetectorResult] :
                Decides(ev, [status |-> PipelineVerdict(results), results |-> results])
      BY <2>11 DEF Dispatch
    <3> DEFINE outcome == [status |-> PipelineVerdict(results), results |-> results]
    <3>2. outcome.status = PipelineVerdict(results) /\ outcome.results = results
      OBVIOUS
    <3> HIDE DEF outcome
    <3>3. SafeOutcome(outcome)
      BY <3>2 DEF SafeOutcome, PipelineVerdict, DetectorResult
    <3>4. QED
      BY <2>10, <2>11, <3>1, <3>3 DEF Dispatch, outcome
  <2>12. ASSUME NEW ev \in Event, StageRaises(ev) PROVE SafeInv'
    <3>1. Failed.status # "ALLOW" /\ SafeOutcome(Failed)
      BY DEF Failed, SafeOutcome
    <3>2. QED
      BY <2>10, <2>12, <3>1 DEF StageRaises
  <2>13. ASSUME NEW ev \in Event, Synchronize(ev) PROVE SafeInv'
    <3>1. Goes(ev, "observed") \/ Goes(ev, "refused")
      BY <2>13 DEF Synchronize
    <3>2. requests[ev].at # "new" /\ UNCHANGED <<engine, lists, histories, outcomes>>
      BY <2>13 DEF Synchronize
    <3>3. QED
      BY <2>1, <2>2, <3>1, <3>2 DEF SafeInv
  <2>14. ASSUME NEW ev \in Event, LookForRecords(ev) PROVE SafeInv'
    <3>1. Goes(ev, "recording first") \/ Goes(ev, "recording")
      BY <2>14 DEF LookForRecords
    <3>2. requests[ev].at # "new" /\ UNCHANGED <<engine, lists, histories, outcomes>>
      BY <2>14 DEF LookForRecords
    <3>3. QED
      BY <2>1, <2>2, <3>1, <3>2 DEF SafeInv
  <2>15. ASSUME NEW ev \in Event, Record(ev) PROVE SafeInv'
    <3>1. Goes(ev, "done") /\ requests[ev].at # "new"
            /\ UNCHANGED <<engine, lists, histories, outcomes>>
      BY <2>15 DEF Record
    <3>2. QED
      BY <2>1, <2>2, <3>1 DEF SafeInv
  <2>16. ASSUME UNCHANGED runtimeVars PROVE SafeInv'
    BY <2>16 DEF SafeInv, runtimeVars
  <2>17. QED
    BY <2>3, <2>4, <2>5, <2>6, <2>7, <2>8, <2>9, <2>11, <2>12, <2>13, <2>14, <2>15, <2>16
    DEF RuntimeNext
<1>3. QED
  BY <1>1, <1>2, PTL DEF RuntimeSpec

(* FailSafe for any events, sessions, engines and detectors, whatever the  *)
(* interleaving and whichever stages raise: an ALLOW is only given to an   *)
(* event that has been encoded and that every detector found quiet.        *)
THEOREM FailSafeHolds == RuntimeSpec => []FailSafe
<1>1. SafeInv => FailSafe
  BY DEF SafeInv, FailSafe, SafeOutcome, Encoded
<1>2. QED
  BY <1>1, SafeInvHolds, PTL

(* SessionsAreIsolated.                                                    *)

(* Event x belongs to session s of engine e.                               *)
Of(all, x, e, s) == x \in Event /\ e \in Engine /\ all[x].engine = e /\ all[x].trace = s

SameOwner(all, x, l) == Of(all, x, all[l].engine, all[l].trace)

(* The list that event l made holds events of the session of l, which all  *)
(* requests that hold it belong to, and histories store it for.            *)
ListsOwned(all, ls) == \A l \in Event : \A x \in Elements(ls[l]) : SameOwner(all, x, l)

BoundOwned(all) ==
    \A ev \in Event : all[ev].at = "encoding" =>
        all[ev].bound \in Event /\ SameOwner(all, ev, all[ev].bound)

HistoriesOwned(all, hs, ls) ==
    \A e \in Engine, s \in Trace : hs[e][s] # NoList =>
        Of(all, hs[e][s], e, s) /\ ls[hs[e][s]] # <<>>

TraceOwned(all, trace, e, s) ==
    trace # Absent => trace \in Seq(Event) /\ \A x \in Elements(trace) : Of(all, x, e, s)

SessionsOwned(all, ss) ==
    /\ ss = [e \in Engine |-> [s \in Trace |-> ss[e][s]]]
    /\ \A e \in Engine, s \in Trace : TraceOwned(all, ss[e][s], e, s)

RecordsOwned(all, records, s) ==
    records \in Seq(Event) /\
    \A x \in Elements(records) : \E e \in Engine : Of(all, x, e, s)

LedgerOwned(all, ld) ==
    ld = [s \in Trace |-> ld[s]] /\ \A s \in Trace : RecordsOwned(all, ld[s], s)

IsolationInv ==
    /\ ListsOwned(requests, lists) /\ BoundOwned(requests)
    /\ HistoriesOwned(requests, histories, lists)
    /\ SessionsOwned(requests, sessions) /\ LedgerOwned(requests, ledger)

(* As requests stay what they are, what is theirs stays theirs.            *)
LEMMA OwnersStay ==
    ASSUME NEW before, NEW after, Stay(before, after)
    PROVE  /\ \A x, e, s : Of(before, x, e, s) => Of(after, x, e, s)
           /\ \A x, l : l \in Event /\ SameOwner(before, x, l) => SameOwner(after, x, l)
           /\ \A ls : ListsOwned(before, ls) => ListsOwned(after, ls)
           /\ \A hs, ls : HistoriesOwned(before, hs, ls) => HistoriesOwned(after, hs, ls)
           /\ \A ss : SessionsOwned(before, ss) => SessionsOwned(after, ss)
           /\ \A ld : LedgerOwned(before, ld) => LedgerOwned(after, ld)
<1>1. \A x, e, s : Of(before, x, e, s) => Of(after, x, e, s)
  BY DEF Of, Stay
<1>2. \A x, l : l \in Event /\ SameOwner(before, x, l) => SameOwner(after, x, l)
  BY DEF SameOwner, Of, Stay
<1>3. \A ls : ListsOwned(before, ls) => ListsOwned(after, ls)
  BY <1>2 DEF ListsOwned
<1>4. \A hs, ls : HistoriesOwned(before, hs, ls) => HistoriesOwned(after, hs, ls)
  BY <1>1 DEF HistoriesOwned
<1>5. \A ss : SessionsOwned(before, ss) => SessionsOwned(after, ss)
  BY <1>1 DEF SessionsOwned, TraceOwned
<1>6. \A ld : LedgerOwned(before, ld) => LedgerOwned(after, ld)
  BY <1>1 DEF LedgerOwned, RecordsOwned
<1>7. QED
  BY <1>1, <1>2, <1>3, <1>4, <1>5, <1>6

(* A step in which one request goes on, but not to the encoder.            *)
LEMMA OwnersGoOn ==
    ASSUME SafeInv, IsolationInv, NEW ev \in Event, NEW at, at \notin {"new", "encoding"},
           requests[ev].at # "new", Goes(ev, at)
    PROVE  /\ Stay(requests, requests') /\ BoundOwned(requests')
           /\ ListsOwned(requests', lists) /\ HistoriesOwned(requests', histories, lists)
           /\ SessionsOwned(requests', sessions) /\ LedgerOwned(requests', ledger)
<1>1. RequestsTyped(requests)
  BY DEF SafeInv
<1>2. /\ Stay(requests, requests') /\ requests'[ev].at = at
      /\ \A x \in Event \ {ev} : requests'[x] = requests[x]
  BY <1>1, RequestGoes
<1>3. BoundOwned(requests')
  BY <1>2, OwnersStay DEF BoundOwned, IsolationInv
<1>4. QED
  BY <1>2, <1>3, OwnersStay DEF IsolationInv

LEMMA IsolationInvHolds == RuntimeSpec => []IsolationInv
<1>1. RuntimeInit => IsolationInv
  <2> SUFFICES ASSUME RuntimeInit PROVE IsolationInv
    OBVIOUS
  <2>1. Elements(<<>>) = {} /\ <<>> \in Seq(Event)
    BY DEF Elements
  <2>2. \A l \in Event : lists[l] = <<>>
    BY DEF RuntimeInit
  <2>3. ListsOwned(requests, lists)
    BY <2>1, <2>2 DEF ListsOwned
  <2>4. BoundOwned(requests)
    BY DEF RuntimeInit, NotReceived, BoundOwned
  <2>5. HistoriesOwned(requests, histories, lists)
    BY DEF RuntimeInit, HistoriesOwned
  <2>6. SessionsOwned(requests, sessions)
    BY DEF RuntimeInit, SessionsOwned, TraceOwned
  <2>7. LedgerOwned(requests, ledger)
    BY <2>1 DEF RuntimeInit, LedgerOwned, RecordsOwned
  <2>8. QED
    BY <2>3, <2>4, <2>5, <2>6, <2>7 DEF IsolationInv
<1>2. SafeInv /\ IsolationInv /\ [RuntimeNext]_runtimeVars => IsolationInv'
  <2> SUFFICES ASSUME SafeInv, IsolationInv, [RuntimeNext]_runtimeVars PROVE IsolationInv'
    OBVIOUS
  <2>1. ASSUME NEW ev \in Event, requests[ev].at # "new"
        PROVE  requests[ev].engine \in Engine /\ requests[ev].trace \in Trace
    BY <2>1 DEF SafeInv, RequestsTyped, IsRequest
  <2>2. ASSUME NEW to, TransitionTo(to) PROVE IsolationInv'
    BY <2>2 DEF TransitionTo, IsolationInv
  <2>3. ASSUME NEW e \in Engine, InitializeEngine(e) PROVE IsolationInv'
    BY <2>3 DEF InitializeEngine, IsolationInv
  <2>4. ASSUME NEW e \in Engine, NEW s \in Trace, RemoveSession(e, s) PROVE IsolationInv'
    <3>1. sessions' = [sessions EXCEPT ![e][s] = Absent]
            /\ UNCHANGED <<requests, lists, histories, ledger>>
      BY <2>4 DEF RemoveSession
    <3>2. SessionsOwned(requests, sessions)
      BY DEF IsolationInv
    <3>3. SessionsOwned(requests', sessions')
      BY <3>1, <3>2 DEF SessionsOwned, TraceOwned
    <3>4. QED
      BY <3>1, <3>3 DEF IsolationInv
  <2>5. ASSUME NEW ev \in Event, NEW s \in Trace, Admit(ev, s) PROVE IsolationInv'
    <3>1. /\ Stay(requests, requests') /\ requests'[ev].at # "encoding"
          /\ \A x \in Event \ {ev} : requests'[x] = requests[x]
      BY <2>5, RequestIsAdmitted DEF SafeInv
    <3>2. BoundOwned(requests')
      BY <3>1, OwnersStay DEF BoundOwned, IsolationInv
    <3>3. UNCHANGED <<sessions, lists, histories, ledger>>
      BY <2>5 DEF Admit
    <3>4. QED
      BY <3>1, <3>2, <3>3, OwnersStay DEF IsolationInv
  <2>6. ASSUME NEW ev \in Event, OpenSession(ev) PROVE IsolationInv'
    <3> DEFINE e == requests[ev].engine
               s == requests[ev].trace
    <3>1. /\ sessions' = [sessions EXCEPT ![e][s] = IF @ = Absent THEN <<>> ELSE @]
          /\ requests[ev].at = "admitted" /\ Goes(ev, "open")
          /\ UNCHANGED <<lists, histories, ledger>>
      BY <2>6 DEF OpenSession
    <3>2. /\ BoundOwned(requests') /\ ListsOwned(requests', lists)
          /\ HistoriesOwned(requests', histories, lists)
          /\ SessionsOwned(requests', sessions) /\ LedgerOwned(requests', ledger)
      BY <3>1, OwnersGoOn
    <3>3. e \in Engine /\ s \in Trace
      BY <2>1, <3>1
    <3> HIDE DEF e, s
    <3>4. Elements(<<>>) = {} /\ <<>> \in Seq(Event)
      BY DEF Elements
    <3>5. SessionsOwned(requests', sessions')
      BY <3>1, <3>2, <3>3, <3>4 DEF SessionsOwned, TraceOwned
    <3>6. QED
      BY <3>1, <3>2, <3>5 DEF IsolationInv
  <2>7. ASSUME NEW ev \in Event, BeginEncode(ev) PROVE IsolationInv'
    <3>1. requests[ev].at = "open" /\ UNCHANGED <<sessions, lists, histories, ledger>>
      BY <2>7 DEF BeginEncode
    <3>2. /\ Stay(requests, requests')
          /\ requests'[ev].at = "encoding" /\ requests'[ev].bound = Bind(ev)
          /\ \A x \in Event \ {ev} : requests'[x] = requests[x]
      BY <2>7, RequestIsBound DEF SafeInv
    <3>3. requests[ev].engine \in Engine /\ requests[ev].trace \in Trace
      BY <2>1, <3>1
    <3>4. Bind(ev) \in Event /\ SameOwner(requests, ev, Bind(ev))
      <4> DEFINE h == histories[requests[ev].engine][requests[ev].trace]
      <4>1. CASE h # NoList
        <5>1. Bind(ev) = h /\ Of(requests, h, requests[ev].engine, requests[ev].trace)
          BY <3>3, <4>1 DEF Bind, IsolationInv, HistoriesOwned
        <5>2. QED
          BY <3>3, <5>1 DEF SameOwner, Of
      <4>2. CASE h = NoList
        BY <3>3, <4>2 DEF Bind, SameOwner, Of
      <4>3. QED
        BY <4>1, <4>2
    <3> DEFINE b == Bind(ev)
    <3> HIDE DEF b
    <3>5. BoundOwned(requests')
      <4>1. SameOwner(requests', ev, requests'[ev].bound) /\ requests'[ev].bound \in Event
        BY <3>2, <3>4, OwnersStay
      <4>2. \A x \in Event \ {ev} : requests'[x].at = "encoding" =>
                requests'[x].bound \in Event /\ SameOwner(requests', x, requests'[x].bound)
        BY <3>2, OwnersStay DEF IsolationInv, BoundOwned
      <4>3. QED
        BY <4>1, <4>2 DEF BoundOwned
    <3>6. QED
      BY <3>1, <3>2, <3>5, OwnersStay DEF IsolationInv
  <2>8. ASSUME NEW ev \in Event, FinishEncode(ev) PROVE IsolationInv'
    <3> DEFINE b == requests[ev].bound
               e == requests[ev].engine
               s == requests[ev].trace
    <3>1. /\ requests[ev].at = "encoding" /\ lists' = [lists EXCEPT ![b] = Append(@, ev)]
          /\ histories' = [histories EXCEPT ![e][s] = b] /\ Goes(ev, "encoded")
          /\ UNCHANGED <<sessions, ledger>>
      BY <2>8 DEF FinishEncode
    <3>2. e \in Engine /\ s \in Trace
      BY <2>1, <3>1
    <3>3. b \in Event /\ SameOwner(requests, ev, b)
      BY <3>1 DEF IsolationInv, BoundOwned
    <3>4. Of(requests, b, e, s)
      BY <3>2, <3>3 DEF SameOwner, Of
    <3> HIDE DEF b, e, s
    <3>5. /\ Stay(requests, requests') /\ BoundOwned(requests')
          /\ ListsOwned(requests', lists) /\ HistoriesOwned(requests', histories, lists)
          /\ SessionsOwned(requests', sessions) /\ LedgerOwned(requests', ledger)
      BY <3>1, OwnersGoOn
    <3>6. /\ \A l \in Event \ {b} : lists'[l] = lists[l]
          /\ Elements(lists'[b]) = Elements(lists[b]) \cup {ev} /\ lists'[b] # <<>>
      <4>1. ListsTyped(lists)
        BY DEF SafeInv
      <4>2. QED
        BY <3>1, <3>3, <4>1, ListGrows
    <3>7. SameOwner(requests', ev, b) /\ Of(requests', b, e, s)
      BY <3>3, <3>4, <3>5, OwnersStay
    <3>8. ListsOwned(requests', lists')
      BY <3>5, <3>6, <3>7 DEF ListsOwned
    <3>9. \A f \in Engine, z \in Trace :
                histories'[f][z] = IF f = e /\ z = s THEN b ELSE histories[f][z]
      <4>1. histories = [f \in Engine |-> [z \in Trace |-> histories[f][z]]]
        BY DEF SafeInv
      <4>2. QED
        BY <3>1, <3>2, <4>1
    <3>10. \A f \in Engine, z \in Trace : histories[f][z] \in Event \cup {NoList}
      BY DEF SafeInv
    <3>11. HistoriesOwned(requests', histories', lists')
      <4>1. ASSUME NEW f \in Engine, NEW z \in Trace, histories'[f][z] # NoList
            PROVE  Of(requests', histories'[f][z], f, z) /\ lists'[histories'[f][z]] # <<>>
        <5>1. CASE f = e /\ z = s
          BY <3>6, <3>7, <3>9, <5>1
        <5>2. CASE ~(f = e /\ z = s)
          <6>1. histories'[f][z] = histories[f][z] /\ histories[f][z] \in Event
            BY <3>9, <3>10, <4>1, <5>2
          <6>2. Of(requests', histories[f][z], f, z) /\ lists[histories[f][z]] # <<>>
            BY <3>5, <4>1, <6>1 DEF HistoriesOwned
          <6>3. QED
            BY <3>6, <6>1, <6>2
        <5>3. QED
          BY <5>1, <5>2
      <4>2. QED
        BY <4>1 DEF HistoriesOwned
    <3>12. QED
      BY <3>1, <3>5, <3>8, <3>11 DEF IsolationInv
  <2>9. ASSUME NEW ev \in Event, Dispatch(ev) \/ StageRaises(ev) PROVE IsolationInv'
    <3>1. /\ requests[ev].at # "new" /\ Goes(ev, "decided")
          /\ UNCHANGED <<lists, histories, sessions, ledger>>
      BY <2>9 DEF Dispatch, StageRaises, Decides
    <3>2. QED
      BY <3>1, OwnersGoOn DEF IsolationInv
  <2>10. ASSUME NEW ev \in Event, Synchronize(ev) PROVE IsolationInv'
    <3> DEFINE e == requests[ev].engine
               s == requests[ev].trace
               l == histories[e][s]
    <3>1. requests[ev].at = "decided" /\ UNCHANGED <<lists, histories, ledger>>
      BY <2>10 DEF Synchronize
    <3>2. e \in Engine /\ s \in Trace
      BY <2>1, <3>1
    <3>3. Goes(ev, "observed") \/ Goes(ev, "refused")
      BY <2>10 DEF Synchronize
    <3>4. /\ Stay(requests, requests') /\ BoundOwned(requests')
          /\ ListsOwned(requests', lists) /\ HistoriesOwned(requests', histories, lists)
          /\ SessionsOwned(requests', sessions) /\ LedgerOwned(requests', ledger)
      BY <3>1, <3>3, OwnersGoOn
    <3>5. \/ UNCHANGED sessions
          \/ /\ l # NoList /\ sessions[e][s] # Absent
             /\ sessions' = [sessions EXCEPT ![e][s] = Append(@, lists[l][Len(lists[l])])]
      BY <2>10 DEF Synchronize
    <3>6. CASE UNCHANGED sessions
      BY <3>1, <3>4, <3>6 DEF IsolationInv
    <3>7. CASE /\ l # NoList /\ sessions[e][s] # Absent
               /\ sessions' = [sessions EXCEPT ![e][s] = Append(@, lists[l][Len(lists[l])])]
      <4> DEFINE last == lists[l][Len(lists[l])]
      <4>1. l \in Event /\ Of(requests', l, e, s) /\ lists[l] # <<>>
        BY <3>2, <3>4, <3>7 DEF HistoriesOwned, Of
      <4>2. lists[l] \in Seq(Event)
        BY <4>1 DEF SafeInv, ListsTyped
      <4> HIDE DEF l
      <4>3. Len(lists[l]) \in DOMAIN lists[l]
        BY <4>1, <4>2
      <4>4. last \in Elements(lists[l]) /\ last \in Event
        BY <4>2, <4>3 DEF Elements
      <4>5. SameOwner(requests', last, l)
        BY <3>4, <4>1, <4>4 DEF ListsOwned
      <4> HIDE DEF last, e, s
      <4>6. Of(requests', last, e, s)
        BY <3>2, <4>1, <4>5 DEF SameOwner, Of
      <4>7. sessions = [f \in Engine |-> [z \in Trace |-> sessions[f][z]]]
        BY <3>4 DEF SessionsOwned
      <4>8. /\ sessions' = [f \in Engine |-> [z \in Trace |-> sessions'[f][z]]]
            /\ sessions'[e][s] = Append(sessions[e][s], last)
            /\ \A f \in Engine, z \in Trace :
                    ~(f = e /\ z = s) => sessions'[f][z] = sessions[f][z]
        BY <3>2, <3>7, <4>7 DEF last
      <4>9. sessions[e][s] \in Seq(Event) /\ \A x \in Elements(sessions[e][s]) : Of(requests', x, e, s)
        BY <3>2, <3>4, <3>7 DEF SessionsOwned, TraceOwned
      <4>10. TraceOwned(requests', sessions'[e][s], e, s)
        <5>1. Append(sessions[e][s], last) \in Seq(Event)
          BY <4>4, <4>9
        <5>2. Elements(Append(sessions[e][s], last)) = Elements(sessions[e][s]) \cup {last}
          BY <4>9, AppendedElements
        <5>3. QED
          BY <4>6, <4>8, <4>9, <5>1, <5>2 DEF TraceOwned
      <4>11. ASSUME NEW f \in Engine, NEW z \in Trace, ~(f = e /\ z = s)
             PROVE  TraceOwned(requests', sessions'[f][z], f, z)
        BY <3>4, <4>8, <4>11 DEF SessionsOwned
      <4>12. SessionsOwned(requests', sessions')
        BY <4>8, <4>10, <4>11 DEF SessionsOwned
      <4>13. QED
        BY <3>1, <3>4, <4>12 DEF IsolationInv
    <3>8. QED
      BY <3>5, <3>6, <3>7
  <2>11. ASSUME NEW ev \in Event, LookForRecords(ev) PROVE IsolationInv'
    <3>1. /\ requests[ev].at # "new" /\ (Goes(ev, "recording first") \/ Goes(ev, "recording"))
          /\ UNCHANGED <<lists, histories, sessions, ledger>>
      BY <2>11 DEF LookForRecords
    <3>2. QED
      BY <3>1, OwnersGoOn DEF IsolationInv
  <2>12. ASSUME NEW ev \in Event, Record(ev) PROVE IsolationInv'
    <3> DEFINE e == requests[ev].engine
               s == requests[ev].trace
               records == IF requests[ev].at = "recording" THEN Append(ledger[s], ev) ELSE <<ev>>
    <3>1. /\ requests[ev].at # "new" /\ Goes(ev, "done")
          /\ UNCHANGED <<lists, histories, sessions>>
      BY <2>12 DEF Record
    <3>2. e \in Engine /\ s \in Trace
      BY <2>1, <3>1
    <3>3. /\ Stay(requests, requests') /\ BoundOwned(requests')
          /\ ListsOwned(requests', lists) /\ HistoriesOwned(requests', histories, lists)
          /\ SessionsOwned(requests', sessions) /\ LedgerOwned(requests', ledger)
      BY <3>1, OwnersGoOn
    <3>4. Of(requests', ev, e, s)
      BY <3>2, <3>3, OwnersStay DEF Of
    <3>5. /\ ledger' = [z \in Trace |-> ledger'[z]] /\ ledger'[s] = records
          /\ \A z \in Trace \ {s} : ledger'[z] = ledger[z]
      BY <2>12, <3>2, <3>3 DEF Record, LedgerOwned
    <3> HIDE DEF e, s
    <3>6. RecordsOwned(requests', ledger[s], s)
      BY <3>2, <3>3 DEF LedgerOwned
    <3>7. RecordsOwned(requests', Append(ledger[s], ev), s)
      <4>1. ledger[s] \in Seq(Event)
        BY <3>6 DEF RecordsOwned
      <4>2. Elements(Append(ledger[s], ev)) = Elements(ledger[s]) \cup {ev}
        BY <4>1, AppendedElements
      <4>3. QED
        BY <3>2, <3>4, <3>6, <4>1, <4>2 DEF RecordsOwned
    <3>8. RecordsOwned(requests', <<ev>>, s)
      <4>1. <<ev>> \in Seq(Event) /\ Elements(<<ev>>) = {ev}
        BY DEF Elements
      <4>2. QED
        BY <3>2, <3>4, <4>1 DEF RecordsOwned
    <3>9. LedgerOwned(requests', ledger')
      BY <3>3, <3>5, <3>7, <3>8 DEF LedgerOwned
    <3>10. QED
      BY <3>1, <3>3, <3>9 DEF IsolationInv
  <2>13. ASSUME UNCHANGED runtimeVars PROVE IsolationInv'
    BY <2>13 DEF IsolationInv, runtimeVars
  <2>14. QED
    BY <2>2, <2>3, <2>4, <2>5, <2>6, <2>7, <2>8, <2>9, <2>10, <2>11, <2>12, <2>13
    DEF RuntimeNext
<1>3. QED
  BY <1>1, <1>2, SafeInvHolds, PTL DEF RuntimeSpec

(* SessionsAreIsolated for any events, sessions and engines and any        *)
(* interleaving, although lists are shared, updates of histories are lost  *)
(* and sessions removed: nothing of one session, or of an engine that has  *)
(* been replaced, gets into another.                                       *)
THEOREM SessionsAreIsolatedHolds == RuntimeSpec => []SessionsAreIsolated
<1>1. SafeInv /\ IsolationInv => SessionsAreIsolated
  <2> SUFFICES ASSUME SafeInv, IsolationInv, NEW e \in Engine, NEW s \in Trace
               PROVE  LET own == {ev \in Event : requests[ev].trace = s /\ requests[ev].engine = e}
                      IN  /\ sessions[e][s] # Absent => Elements(sessions[e][s]) \subseteq own
                          /\ histories[e][s] # NoList =>
                                Elements(lists[histories[e][s]]) \subseteq own
                          /\ \A ev \in Elements(ledger[s]) : requests[ev].trace = s
    BY DEF SessionsAreIsolated
  <2> DEFINE own == {ev \in Event : requests[ev].trace = s /\ requests[ev].engine = e}
             h == histories[e][s]
  <2>1. sessions[e][s] # Absent => Elements(sessions[e][s]) \subseteq own
    BY DEF IsolationInv, SessionsOwned, TraceOwned, Of
  <2>2. ASSUME h # NoList PROVE Elements(lists[h]) \subseteq own
    <3>1. h \in Event /\ Of(requests, h, e, s)
      BY <2>2 DEF IsolationInv, HistoriesOwned, Of
    <3>2. \A x \in Elements(lists[h]) : SameOwner(requests, x, h)
      BY <3>1 DEF IsolationInv, ListsOwned
    <3>3. QED
      BY <3>1, <3>2 DEF SameOwner, Of
  <2>3. \A ev \in Elements(ledger[s]) : requests[ev].trace = s
    BY DEF IsolationInv, LedgerOwned, RecordsOwned, Of
  <2>4. QED
    BY <2>1, <2>2, <2>3
<1>2. QED
  BY <1>1, SafeInvHolds, IsolationInvHolds, PTL

-----------------------------------------------------------------------------
(* Telemetry.                                                              *)

Frame == [kind : {"run", "tool", "llm", "span"}, run : Run \cup {NoRun},
          token : Run \cup {NoRun}, manager : Manager \cup {NoManager}]

(* r is the session of the innermost run among the first k calls of f.     *)
Inner(f, k, r) ==
    \/ \E i \in 1..k : f[i].kind = "run" /\ f[i].run = r /\ \A j \in (i + 1)..k : f[j].kind # "run"
    \/ r = NoRun /\ \A i \in 1..k : f[i].kind # "run"

(* The active context is the innermost run's, and every call keeps as its  *)
(* token, and a span as its session, what was innermost when it began.     *)
Nested(f, c) ==
    /\ f \in Seq(Frame) /\ c \in Run \cup {NoRun}
    /\ Inner(f, Len(f), c)
    /\ \A i \in 1..Len(f) : Inner(f, i - 1, f[i].token)
    /\ \A i \in 1..Len(f) : f[i].kind # "run" => Inner(f, i - 1, f[i].run)

LEMMA PushedIsNested ==
    ASSUME NEW f, NEW c, Nested(f, c), NEW x \in Frame, x.token = c, NEW d,
           \/ x.kind = "run" /\ d = x.run
           \/ x.kind # "run" /\ x.run = c /\ d = c
    PROVE  Nested(Append(f, x), d)
<1> DEFINE g == Append(f, x)
           n == Len(f)
<1>1. f \in Seq(Frame) /\ n \in Nat
  BY DEF Nested
<1>2. /\ g \in Seq(Frame) /\ Len(g) = n + 1 /\ g[n + 1] = x
      /\ \A i \in 1..n : g[i] = f[i]
  BY <1>1
<1> HIDE DEF g, n
<1>3. ASSUME NEW k \in 0..n, NEW r, Inner(f, k, r) PROVE Inner(g, k, r)
  BY <1>1, <1>2, <1>3 DEF Inner
<1>4. Inner(g, n, c)
  BY <1>1, <1>3 DEF Nested, n
<1>5. d \in Run \cup {NoRun}
  BY DEF Nested, Frame
<1>6. Inner(g, n + 1, d)
  <2>1. CASE x.kind = "run" /\ d = x.run
    BY <1>1, <1>2, <2>1 DEF Inner
  <2>2. CASE x.kind # "run" /\ d = c
    BY <1>1, <1>2, <1>4, <2>2 DEF Inner
  <2>3. QED
    BY <2>1, <2>2
<1>7. ASSUME NEW i \in 1..(n + 1)
      PROVE  /\ Inner(g, i - 1, g[i].token)
             /\ g[i].kind # "run" => Inner(g, i - 1, g[i].run)
  <2>1. CASE i = n + 1
    BY <1>1, <1>2, <1>4, <2>1
  <2>2. CASE i # n + 1
    <3>1. i \in 1..n /\ i - 1 \in 0..n /\ g[i] = f[i]
      BY <1>1, <1>2, <2>2
    <3>2. Inner(f, i - 1, f[i].token) /\ (f[i].kind # "run" => Inner(f, i - 1, f[i].run))
      BY <3>1 DEF Nested, n
    <3>3. QED
      BY <1>3, <3>1, <3>2
  <2>3. QED
    BY <2>1, <2>2
<1>8. QED
  BY <1>2, <1>5, <1>6, <1>7 DEF Nested, g

LEMMA PoppedIsNested ==
    ASSUME NEW f, NEW c, Nested(f, c), f # <<>>, NEW d,
           IF f[Len(f)].kind = "run" THEN d = f[Len(f)].token ELSE d = c
    PROVE  Nested(SubSeq(f, 1, Len(f) - 1), d)
<1> DEFINE n == Len(f) - 1
           g == SubSeq(f, 1, n)
<1>1. f \in Seq(Frame) /\ n \in Nat /\ Len(f) = n + 1
  BY DEF Nested
<1>2. g \in Seq(Frame) /\ Len(g) = n /\ \A i \in 1..n : g[i] = f[i]
  BY <1>1
<1> HIDE DEF g, n
<1>3. ASSUME NEW k \in 0..n, NEW r, Inner(f, k, r) PROVE Inner(g, k, r)
  BY <1>1, <1>2, <1>3 DEF Inner
<1>4. d \in Run \cup {NoRun} /\ Inner(f, n, d)
  <2>1. f[n + 1] \in Frame
    BY <1>1
  <2>2. CASE f[n + 1].kind = "run"
    <3>1. d = f[n + 1].token
      BY <1>1, <2>2
    <3>2. n + 1 \in 1..Len(f) /\ (n + 1) - 1 = n
      BY <1>1
    <3>3. Inner(f, (n + 1) - 1, f[n + 1].token)
      BY <3>2 DEF Nested
    <3>4. QED
      BY <2>1, <3>1, <3>2, <3>3 DEF Frame
  <2>3. CASE f[n + 1].kind # "run"
    <3>1. d = c /\ Inner(f, n + 1, c)
      BY <1>1, <2>3 DEF Nested
    <3>2. Inner(f, n, c)
      BY <1>1, <2>3, <3>1 DEF Inner
    <3>3. QED
      BY <3>1, <3>2 DEF Nested
  <2>4. QED
    BY <2>2, <2>3
<1>5. Inner(g, n, d)
  BY <1>1, <1>3, <1>4
<1>6. ASSUME NEW i \in 1..n
      PROVE  /\ Inner(g, i - 1, g[i].token)
             /\ g[i].kind # "run" => Inner(g, i - 1, g[i].run)
  <2>1. i \in 1..Len(f) /\ i - 1 \in 0..n /\ g[i] = f[i]
    BY <1>1, <1>2
  <2>2. Inner(f, i - 1, f[i].token) /\ (f[i].kind # "run" => Inner(f, i - 1, f[i].run))
    BY <2>1 DEF Nested
  <2>3. QED
    BY <1>3, <2>1, <2>2
<1>7. QED
  BY <1>2, <1>4, <1>5, <1>6 DEF Nested, g, n

ContextInv ==
    /\ manager \in Manager \cup {NoManager}
    /\ context = [t \in Task |-> context[t]] /\ frames = [t \in Task |-> frames[t]]
    /\ \A t \in Task : Nested(frames[t], context[t])

(* What is innermost in the sense of Inner is what InnermostRun finds.     *)
LEMMA InnerIsInnermost ==
    ASSUME NEW t \in Task, frames[t] \in Seq(Frame), NEW r, Inner(frames[t], Len(frames[t]), r)
    PROVE  r = InnermostRun(t)
<1> DEFINE f == frames[t]
           runs == {i \in DOMAIN f : f[i].kind = "run"}
<1>1. DOMAIN f = 1..Len(f) /\ Len(f) \in Nat
  OBVIOUS
<1>2. InnermostRun(t) =
        IF runs = {} THEN NoRun ELSE f[CHOOSE i \in runs : \A j \in runs : j <= i].run
  BY DEF InnermostRun, RunFrames
<1>3. CASE r = NoRun /\ \A i \in 1..Len(f) : f[i].kind # "run"
  BY <1>1, <1>2, <1>3
<1>4. ASSUME NEW i \in 1..Len(f), f[i].kind = "run", f[i].run = r,
             \A j \in (i + 1)..Len(f) : f[j].kind # "run"
      PROVE  r = InnermostRun(t)
  <2>1. i \in runs /\ runs \subseteq Nat
    BY <1>1, <1>4
  <2>2. \A j \in runs : j <= i
    BY <1>1, <1>4
  <2> HIDE DEF runs
  <2> DEFINE top == CHOOSE k \in runs : \A j \in runs : j <= k
  <2>3. top \in runs /\ \A j \in runs : j <= top
    BY <2>1, <2>2
  <2> HIDE DEF top
  <2>4. top = i
    BY <2>1, <2>2, <2>3
  <2>5. InnermostRun(t) = f[top].run
    BY <1>2, <2>1 DEF top
  <2>6. QED
    BY <1>4, <2>4, <2>5
<1>5. QED
  BY <1>3, <1>4 DEF Inner

(* EventsCarryTheirRun for any tasks and runs and any depth of nesting,    *)
(* however runs fail, are cancelled and overlap: what is reported carries  *)
(* the session of the innermost run around it.                             *)
THEOREM EventsCarryTheirRunHolds == TelemetrySpec => EventsCarryTheirRun
<1>1. TelemetryInit => ContextInv
  <2> SUFFICES ASSUME TelemetryInit PROVE ContextInv
    OBVIOUS
  <2>1. Nested(<<>>, NoRun)
    BY DEF Nested, Inner
  <2>2. QED
    BY <2>1 DEF TelemetryInit, ContextInv
<1>2. ContextInv /\ [TelemetryNext]_telemetryVars => ContextInv'
  <2> SUFFICES ASSUME ContextInv, [TelemetryNext]_telemetryVars PROVE ContextInv'
    OBVIOUS
  <2>1. ASSUME NEW t \in Task, NEW f, NEW d, frames' = [frames EXCEPT ![t] = f],
               context' = [context EXCEPT ![t] = d], manager' = manager, Nested(f, d)
        PROVE  ContextInv'
    <3>1. /\ frames' = [u \in Task |-> frames'[u]] /\ context' = [u \in Task |-> context'[u]]
          /\ frames'[t] = f /\ context'[t] = d
          /\ \A u \in Task \ {t} : frames'[u] = frames[u] /\ context'[u] = context[u]
      BY <2>1 DEF ContextInv
    <3>2. \A u \in Task : Nested(frames'[u], context'[u])
      BY <2>1, <3>1 DEF ContextInv
    <3>3. QED
      BY <2>1, <3>1, <3>2 DEF ContextInv
  <2>2. ASSUME NEW t \in Task, NEW kind \in {"run", "tool", "llm", "span"},
               NEW run \in Run \cup {NoRun}, Push(t, kind, run),
               IF kind = "run" THEN context' = [context EXCEPT ![t] = run]
                               ELSE run = context[t] /\ context' = context
        PROVE  ContextInv' \/ manager' # manager
    <3> DEFINE x == [kind |-> kind, run |-> run, token |-> context[t], manager |-> manager]
               d == IF kind = "run" THEN run ELSE context[t]
    <3>1. Nested(frames[t], context[t]) /\ context[t] \in Run \cup {NoRun}
      BY DEF ContextInv, Nested
    <3>2. x \in Frame /\ x.token = context[t] /\ x.kind = kind /\ x.run = run
      BY <3>1 DEF Frame, ContextInv
    <3>3. frames' = [frames EXCEPT ![t] = Append(frames[t], x)]
      BY <2>2 DEF Push, ContextInv
    <3>4. context' = [context EXCEPT ![t] = d]
      BY <2>2 DEF ContextInv
    <3> HIDE DEF x
    <3>5. \/ x.kind = "run" /\ d = x.run
          \/ x.kind # "run" /\ x.run = context[t] /\ d = context[t]
      BY <2>2, <3>2
    <3> HIDE DEF d
    <3>6. Nested(Append(frames[t], x), d)
      BY <3>1, <3>2, <3>5, PushedIsNested
    <3>7. QED
      BY <2>1, <3>3, <3>4, <3>6
  <2>3. ASSUME NEW t \in Task, Pop(t), frames[t] # <<>>, manager' = manager,
               context' = [context EXCEPT ![t] =
                    IF Top(t).kind = "run" THEN Top(t).token ELSE context[t]]
        PROVE  ContextInv'
    <3> DEFINE f == frames[t]
               d == IF Top(t).kind = "run" THEN Top(t).token ELSE context[t]
               g == SubSeq(f, 1, Len(f) - 1)
    <3>1. Nested(f, context[t])
      BY DEF ContextInv
    <3>2. IF f[Len(f)].kind = "run" THEN d = f[Len(f)].token ELSE d = context[t]
      BY DEF Top
    <3>3. frames' = [frames EXCEPT ![t] = g] /\ context' = [context EXCEPT ![t] = d]
      BY <2>3 DEF Pop, ContextInv
    <3> HIDE DEF d
    <3>4. Nested(g, d)
      BY <2>3, <3>1, <3>2, PoppedIsNested
    <3> HIDE DEF g
    <3>5. QED
      BY <2>1, <2>3, <3>3, <3>4
  <2>4. ASSUME NEW t \in Task, NEW m \in Manager, CreateManager(t, m) PROVE ContextInv'
    BY <2>4 DEF CreateManager, ContextInv
  <2>5. ASSUME NEW t \in Task, NEW r \in Run, StartRun(t, r) PROVE ContextInv'
    BY <2>2, <2>5 DEF StartRun, singletonVars
  <2>6. ASSUME NEW t \in Task, StartCall(t) PROVE ContextInv'
    <3>1. PICK kind \in {"tool", "llm", "span"} : Push(t, kind, context[t])
      BY <2>6 DEF StartCall
    <3>2. context[t] \in Run \cup {NoRun} /\ context' = context /\ manager' = manager
      BY <2>6 DEF StartCall, ContextInv, Nested, singletonVars
    <3>3. QED
      BY <2>2, <3>1, <3>2
  <2>7. ASSUME NEW t \in Task, EndRun(t) PROVE ContextInv'
    BY <2>3, <2>7 DEF EndRun, Restored, singletonVars
  <2>8. ASSUME NEW t \in Task, Cancel(t) PROVE ContextInv'
    <3>1. context' = [context EXCEPT ![t] =
                    IF Top(t).kind = "run" THEN Top(t).token ELSE context[t]]
      BY <2>8 DEF Cancel, Restored, ContextInv
    <3>2. QED
      BY <2>3, <2>8, <3>1 DEF Cancel, singletonVars
  <2>9. ASSUME NEW t \in Task, NEW kind \in {"tool", "llm", "span"}, Ends(t, kind),
               context' = context, manager' = manager
        PROVE  ContextInv'
    <3>1. context' = [context EXCEPT ![t] =
                    IF Top(t).kind = "run" THEN Top(t).token ELSE context[t]]
      BY <2>9 DEF Ends, ContextInv
    <3>2. QED
      BY <2>3, <2>9, <3>1 DEF Ends
  <2>10. ASSUME NEW t \in Task, Reports(t) PROVE ContextInv'
    <3>1. CASE EndTool(t)
      BY <2>9, <3>1 DEF EndTool, Collect, singletonVars
    <3>2. CASE EndLlm(t)
      BY <2>9, <3>2 DEF EndLlm, Collect, singletonVars
    <3>3. CASE EndSpan(t)
      BY <2>9, <3>3 DEF EndSpan, singletonVars
    <3>4. CASE CollectDirectly(t)
      BY <3>4 DEF CollectDirectly, Collect, singletonVars, ContextInv
    <3>5. QED
      BY <2>10, <3>1, <3>2, <3>3, <3>4 DEF Reports
  <2>11. ASSUME UNCHANGED <<manager, context, frames>> PROVE ContextInv'
    BY <2>11 DEF ContextInv
  <2>12. QED
    BY <2>4, <2>5, <2>6, <2>7, <2>8, <2>10, <2>11
    DEF TelemetryNext, LookForManager, BeginSubscribe, FinishSubscribe, Unsubscribe,
        singletonVars, telemetryVars
<1>3. ContextInv => [\A t \in Task : Reports(t) => lastEvent'.run = InnermostRun(t)]_telemetryVars
  <2> SUFFICES ASSUME ContextInv, NEW t \in Task, Reports(t)
               PROVE  lastEvent'.run = InnermostRun(t)
    OBVIOUS
  <2>1. context[t] = InnermostRun(t)
    BY InnerIsInnermost DEF ContextInv, Nested
  <2>2. CASE EndTool(t) \/ EndLlm(t) \/ CollectDirectly(t)
    <3>1. lastEvent'.run = context[t]
      BY <2>2 DEF EndTool, EndLlm, CollectDirectly, Collect, Emit
    <3>2. QED
      BY <2>1, <3>1
  <2>3. CASE EndSpan(t)
    <3> DEFINE f == frames[t]
               n == Len(f)
    <3>1. f \in Seq(Frame) /\ n \in Nat /\ n > 0 /\ f[n].kind = "span"
            /\ lastEvent'.run = f[n].run
      BY <2>3 DEF EndSpan, Ends, Emit, Top, ContextInv, Nested
    <3>2. Inner(f, n - 1, f[n].run)
      BY <3>1 DEF ContextInv, Nested
    <3> HIDE DEF n
    <3>3. Inner(f, n, f[n].run)
      BY <3>1, <3>2 DEF Inner
    <3>4. QED
      BY <3>1, <3>3, InnerIsInnermost DEF n
  <2>4. QED
    BY <2>2, <2>3 DEF Reports
<1>4. QED
  BY <1>1, <1>2, <1>3, PTL DEF TelemetrySpec, EventsCarryTheirRun
-----------------------------------------------------------------------------
(***************************************************************************)
(* The learner of topologies.  Its counters, as units: one for each time   *)
(* that an interaction was counted.                                        *)
(***************************************************************************)
Units(f) == UNION {{c} \X (1..f[c]) : c \in DOMAIN f}

Counters(f) == IsFiniteSet(DOMAIN f) /\ \A c \in DOMAIN f : f[c] \in Nat

\* What the units of counters are, without the sets they come from.
LEMMA UnitsAre ==
    ASSUME NEW f, Counters(f), NEW c, NEW n
    PROVE  <<c, n>> \in Units(f) <=> c \in DOMAIN f /\ n \in 1..f[c]
BY DEF Units

LEMMA UnitsAreFinite ==
    ASSUME NEW f, Counters(f)
    PROVE  IsFiniteSet(Units(f))
<1> DEFINE each == {{c} \X (1..f[c]) : c \in DOMAIN f}
           units == [c \in DOMAIN f |-> {c} \X (1..f[c])]
<1>1. ASSUME NEW c \in DOMAIN f
      PROVE  IsFiniteSet({c} \X (1..f[c]))
  <2>1. IsFiniteSet(1..f[c])
    BY FS_Interval DEF Counters
  <2>2. IsFiniteSet({c})
    BY FS_Singleton
  <2> QED
    BY <2>1, <2>2, FS_Product
<1>2. \A T \in each : IsFiniteSet(T)
  BY <1>1
<1>3. units \in Surjection(DOMAIN f, each)
  BY DEF Surjection
<1>4. IsFiniteSet(each)
  <2> HIDE DEF units, each
  <2> QED
    BY <1>3, FS_Surjection DEF Counters
<1>5. IsFiniteSet(UNION each)
  <2> HIDE DEF each
  <2> QED
    BY <1>2, <1>4, FS_UNION
<1> QED
  BY <1>5 DEF Units

(* To count once more adds one unit.                                       *)
LEMMA UnitAdded ==
    ASSUME NEW f, Counters(f), NEW c, NEW g,
           g = [d \in DOMAIN f \cup {c} |->
                    (IF d \in DOMAIN f THEN f[d] ELSE 0) + IF d = c THEN 1 ELSE 0]
    PROVE  /\ Counters(g)
           /\ <<c, g[c]>> \notin Units(f)
           /\ Units(g) = Units(f) \cup {<<c, g[c]>>}
<1>1. Counters(g)
  <2>1. DOMAIN g = DOMAIN f \cup {c}
    OBVIOUS
  <2>2. IsFiniteSet(DOMAIN g)
    BY <2>1, FS_AddElement DEF Counters
  <2>3. \A d \in DOMAIN g : g[d] \in Nat
    BY DEF Counters
  <2> QED
    BY <2>2, <2>3 DEF Counters
<1>2. <<c, g[c]>> \notin Units(f)
  <2>1. c \in DOMAIN f => g[c] = f[c] + 1 /\ f[c] \in Nat
    BY DEF Counters
  <2>2. c \in DOMAIN f => g[c] \notin 1..f[c]
    BY <2>1
  <2> QED
    BY <2>2, UnitsAre
<1>3. ASSUME NEW d, NEW n
      PROVE  <<d, n>> \in Units(g) <=> <<d, n>> \in Units(f) \/ (d = c /\ n = g[c])
  <2>1. CASE d # c
    <3>1. d \in DOMAIN g <=> d \in DOMAIN f
      BY <2>1
    <3>2. d \in DOMAIN f => g[d] = f[d]
      BY <2>1 DEF Counters
    <3> QED
      BY <1>1, <2>1, <3>1, <3>2, UnitsAre
  <2>2. CASE d = c /\ c \in DOMAIN f
    <3>1. c \in DOMAIN g /\ g[c] = f[c] + 1 /\ f[c] \in Nat
      BY <2>2 DEF Counters
    <3>2. n \in 1..g[c] <=> n \in 1..f[c] \/ n = g[c]
      BY <3>1
    <3> QED
      BY <1>1, <2>2, <3>1, <3>2, UnitsAre
  <2>3. CASE d = c /\ c \notin DOMAIN f
    <3>1. c \in DOMAIN g /\ g[c] = 1
      BY <2>3
    <3>2. n \in 1..g[c] <=> n = g[c]
      BY <3>1
    <3> QED
      BY <1>1, <2>3, <3>1, <3>2, UnitsAre
  <2> QED
    BY <2>1, <2>2, <2>3
<1>4. Units(g) = Units(f) \cup {<<c, g[c]>>}
  <2>1. ASSUME NEW h, NEW u \in Units(h)
        PROVE  \E d, n : u = <<d, n>>
    BY DEF Units
  <2> QED
    BY <1>3, <2>1
<1> QED
  BY <1>1, <1>2, <1>4

(* A set that grows by one element or not at all.                          *)
LEMMA OneMore ==
    ASSUME NEW S, IsFiniteSet(S), NEW x, x \notin S, NEW grows \in BOOLEAN,
           NEW T, T = IF grows THEN S \cup {x} ELSE S
    PROVE  /\ Cardinality(S) \in Nat
           /\ Cardinality(T) = Cardinality(S) + IF grows THEN 1 ELSE 0
<1>1. Cardinality(S) \in Nat
  BY FS_CardinalityType
<1>2. CASE grows
  BY <1>1, <1>2, FS_AddElement
<1>3. CASE ~grows
  BY <1>1, <1>3
<1> QED
  BY <1>1, <1>2, <1>3

(* The observed interactions that one more of them adds to: a set of       *)
(* positions grows by the last one, if that is one of its kind.            *)
LEMMA PositionsGrow ==
    ASSUME NEW s, NEW i, s \in Seq(Interaction), i \in Interaction
    PROVE  /\ Append(s, i) \in Seq(Interaction)
           /\ DOMAIN Append(s, i) = DOMAIN s \cup {Len(s) + 1}
           /\ Len(s) + 1 \notin DOMAIN s /\ IsFiniteSet(DOMAIN s)
           /\ Append(s, i)[Len(s) + 1] = i
           /\ \A k \in DOMAIN s : Append(s, i)[k] = s[k]
<1>1. DOMAIN s = 1..Len(s) /\ Len(s) \in Nat
  OBVIOUS
<1>2. IsFiniteSet(DOMAIN s)
  BY <1>1, FS_Interval
<1> QED
  BY <1>1, <1>2

(* What was observed is counted at least as often along each edge, and at  *)
(* most as often by its source, and its action is known.                   *)
CountInv ==
    /\ observed \in Seq(Interaction)
    /\ Counters(counts)
    /\ \A r, q : q # NoRole => Along(<<r, q>>) <= EdgeCount(<<r, q>>)
    /\ \A r : SourceCount(r) <= FromRole(r)
    /\ \A k \in DOMAIN observed : observed[k].targetRole # NoRole =>
            <<observed[k].role, observed[k].targetRole, observed[k].action>> \in DOMAIN counts

LEMMA CountsAreNumbers ==
    ASSUME CountInv, NEW r, NEW q
    PROVE  /\ Along(<<r, q>>) \in Nat /\ EdgeCount(<<r, q>>) \in Nat
           /\ SourceCount(r) \in Nat /\ FromRole(r) \in Nat
<1>1. IsFiniteSet(Counted)
  BY UnitsAreFinite DEF CountInv, Counted, Units
<1>2. IsFiniteSet(DOMAIN observed)
  <2>1. DOMAIN observed = 1..Len(observed) /\ Len(observed) \in Nat
    BY DEF CountInv
  <2> QED
    BY <2>1, FS_Interval
<1>3. Along(<<r, q>>) \in Nat
  <2> DEFINE S == {k \in DOMAIN observed : observed[k].role = <<r, q>>[1]
                                            /\ observed[k].targetRole = <<r, q>>[2]}
  <2>1. IsFiniteSet(S)
    BY <1>2, FS_Subset
  <2> QED
    BY <2>1, FS_CardinalityType DEF Along
<1>4. FromRole(r) \in Nat
  <2> DEFINE S == {k \in DOMAIN observed : observed[k].role = r}
  <2>1. IsFiniteSet(S)
    BY <1>2, FS_Subset
  <2> QED
    BY <2>1, FS_CardinalityType DEF FromRole
<1>5. EdgeCount(<<r, q>>) \in Nat
  <2> DEFINE S == {u \in Counted : <<u[1][1], u[1][2]>> = <<r, q>>}
  <2>1. IsFiniteSet(S)
    BY <1>1, FS_Subset
  <2> QED
    BY <2>1, FS_CardinalityType DEF EdgeCount
<1>6. SourceCount(r) \in Nat
  <2> DEFINE S == {u \in Counted : u[1][1] = r}
  <2>1. IsFiniteSet(S)
    BY <1>1, FS_Subset
  <2> QED
    BY <2>1, FS_CardinalityType DEF SourceCount
<1> QED
  BY <1>3, <1>4, <1>5, <1>6

(* One more interaction is observed.                                       *)
LEMMA ObservedMore ==
    ASSUME CountInv, NEW i \in Interaction, ObserveInteraction(i), NEW r, NEW q
    PROVE  /\ Along(<<r, q>>)' = Along(<<r, q>>)
                    + IF i.role = r /\ i.targetRole = q THEN 1 ELSE 0
           /\ FromRole(r)' = FromRole(r) + IF i.role = r THEN 1 ELSE 0
<1>1. observed' = Append(observed, i) /\ observed \in Seq(Interaction)
  BY DEF ObserveInteraction, CountInv
<1>2. /\ DOMAIN observed' = DOMAIN observed \cup {Len(observed) + 1}
      /\ Len(observed) + 1 \notin DOMAIN observed /\ IsFiniteSet(DOMAIN observed)
      /\ observed'[Len(observed) + 1] = i
      /\ \A k \in DOMAIN observed : observed'[k] = observed[k]
  BY <1>1, PositionsGrow
<1>3. Along(<<r, q>>)' = Along(<<r, q>>) + IF i.role = r /\ i.targetRole = q THEN 1 ELSE 0
  <2> DEFINE S == {k \in DOMAIN observed : observed[k].role = r /\ observed[k].targetRole = q}
             T == {k \in DOMAIN observed' : observed'[k].role = r /\ observed'[k].targetRole = q}
             n == Len(observed) + 1
             grows == i.role = r /\ i.targetRole = q
  <2>1. IsFiniteSet(S)
    BY <1>2, FS_Subset
  <2>2. T = IF grows THEN S \cup {n} ELSE S
    BY <1>2
  <2>3. n \notin S /\ grows \in BOOLEAN
    BY <1>2
  <2>4. Along(<<r, q>>) = Cardinality(S) /\ Along(<<r, q>>)' = Cardinality(T)
    BY DEF Along
  <2> HIDE DEF S, T, n, grows
  <2>5. Cardinality(T) = Cardinality(S) + IF grows THEN 1 ELSE 0
    BY <2>1, <2>2, <2>3, OneMore
  <2> QED
    BY <2>4, <2>5 DEF grows
<1>4. FromRole(r)' = FromRole(r) + IF i.role = r THEN 1 ELSE 0
  <2> DEFINE S == {k \in DOMAIN observed : observed[k].role = r}
             T == {k \in DOMAIN observed' : observed'[k].role = r}
             n == Len(observed) + 1
             grows == i.role = r
  <2>1. IsFiniteSet(S)
    BY <1>2, FS_Subset
  <2>2. T = IF grows THEN S \cup {n} ELSE S
    BY <1>2
  <2>3. n \notin S /\ grows \in BOOLEAN
    BY <1>2
  <2>4. FromRole(r) = Cardinality(S) /\ FromRole(r)' = Cardinality(T)
    BY DEF FromRole
  <2> HIDE DEF S, T, n, grows
  <2>5. Cardinality(T) = Cardinality(S) + IF grows THEN 1 ELSE 0
    BY <2>1, <2>2, <2>3, OneMore
  <2> QED
    BY <2>4, <2>5 DEF grows
<1> QED
  BY <1>3, <1>4

(* ... and is counted, if its target's role is known.                      *)
LEMMA CountedMore ==
    ASSUME CountInv, NEW i \in Interaction, ObserveInteraction(i), TargetRole(i) # NoRole,
           NEW r, NEW q
    PROVE  /\ Counters(counts')
           /\ DOMAIN counts' = DOMAIN counts \cup {<<i.role, TargetRole(i), i.action>>}
           /\ EdgeCount(<<r, q>>)' = EdgeCount(<<r, q>>)
                    + IF i.role = r /\ TargetRole(i) = q THEN 1 ELSE 0
           /\ SourceCount(r)' = SourceCount(r) + IF i.role = r THEN 1 ELSE 0
<1> DEFINE target == TargetRole(i)
           c == <<i.role, target, i.action>>
           u1 == <<c, counts'[c]>>
<1>1. Counters(counts)
  BY DEF CountInv
<1>2. counts' = [d \in DOMAIN counts \cup {c} |->
                    (IF d \in DOMAIN counts THEN counts[d] ELSE 0) + IF d = c THEN 1 ELSE 0]
  BY DEF ObserveInteraction
<1>3. /\ Counters(counts')
      /\ u1 \notin Units(counts) /\ Units(counts') = Units(counts) \cup {u1}
  <2> HIDE DEF c
  <2> QED
    BY <1>1, <1>2, UnitAdded
<1>4. IsFiniteSet(Counted) /\ u1 \notin Counted /\ Counted' = Counted \cup {u1}
  BY <1>1, <1>3, UnitsAreFinite DEF Counted, Units
<1>5. u1[1][1] = i.role /\ u1[1][2] = target
  OBVIOUS
<1>6. DOMAIN counts' = DOMAIN counts \cup {c}
  BY <1>2
<1>7. EdgeCount(<<r, q>>)' = EdgeCount(<<r, q>>) + IF i.role = r /\ target = q THEN 1 ELSE 0
  <2> DEFINE S == {u \in Counted : <<u[1][1], u[1][2]>> = <<r, q>>}
             T == {u \in Counted' : <<u[1][1], u[1][2]>> = <<r, q>>}
             grows == i.role = r /\ target = q
  <2>1. IsFiniteSet(S)
    BY <1>4, FS_Subset
  <2>2. T = IF grows THEN S \cup {u1} ELSE S
    <3> HIDE DEF u1, c, target
    <3> QED
      BY <1>4, <1>5
  <2>3. u1 \notin S /\ grows \in BOOLEAN
    BY <1>4
  <2>4. EdgeCount(<<r, q>>) = Cardinality(S) /\ EdgeCount(<<r, q>>)' = Cardinality(T)
    BY DEF EdgeCount
  <2> HIDE DEF S, T, u1, grows
  <2>5. Cardinality(T) = Cardinality(S) + IF grows THEN 1 ELSE 0
    BY <2>1, <2>2, <2>3, OneMore
  <2> QED
    BY <2>4, <2>5 DEF grows
<1>8. SourceCount(r)' = SourceCount(r) + IF i.role = r THEN 1 ELSE 0
  <2> DEFINE S == {u \in Counted : u[1][1] = r}
             T == {u \in Counted' : u[1][1] = r}
             grows == i.role = r
  <2>1. IsFiniteSet(S)
    BY <1>4, FS_Subset
  <2>2. T = IF grows THEN S \cup {u1} ELSE S
    <3> HIDE DEF u1, c, target
    <3> QED
      BY <1>4, <1>5
  <2>3. u1 \notin S /\ grows \in BOOLEAN
    BY <1>4
  <2>4. SourceCount(r) = Cardinality(S) /\ SourceCount(r)' = Cardinality(T)
    BY DEF SourceCount
  <2> HIDE DEF S, T, u1, grows
  <2>5. Cardinality(T) = Cardinality(S) + IF grows THEN 1 ELSE 0
    BY <2>1, <2>2, <2>3, OneMore
  <2> QED
    BY <2>4, <2>5 DEF grows
<1> QED
  BY <1>3, <1>6, <1>7, <1>8

LEMMA SharesCompare ==
    ASSUME NEW f \in Nat, NEW a \in Nat, NEW b \in Nat, NEW d \in Nat, NEW e \in Nat,
           a <= b, d <= e, a * 100 >= f * e
    PROVE  b * 100 >= f * d
<1>1. PICK n \in Nat : e = d + n
  OBVIOUS
<1>2. f * e = f * d + f * n
  BY <1>1
<1>3. f * n >= 0 /\ f * d \in Nat /\ f * n \in Nat
  OBVIOUS
<1> QED
  BY <1>2, <1>3

(* A verifier that is given the graph learned from a team's traffic finds  *)
(* no structural fault in the interactions that made up their share of it, *)
(* in whatever order they were observed and however many of the others had *)
(* a target whose role was known only by then.                             *)
THEOREM LearnedTrafficConformsHolds == TopologySpec => []LearnedTrafficConforms
<1>1. TopologyInit => CountInv
  <2> SUFFICES ASSUME TopologyInit
               PROVE  CountInv
    OBVIOUS
  <2>1. DOMAIN counts = {} /\ observed = <<>> /\ DOMAIN observed = {} /\ Counted = {}
    BY DEF TopologyInit, Counted
  <2>2. Counters(counts)
    BY <2>1, FS_EmptySet DEF Counters
  <2>3. ASSUME NEW r, NEW q
        PROVE  Along(<<r, q>>) <= EdgeCount(<<r, q>>) /\ SourceCount(r) <= FromRole(r)
    <3>1. /\ {k \in DOMAIN observed : observed[k].role = <<r, q>>[1]
                                      /\ observed[k].targetRole = <<r, q>>[2]} = {}
          /\ {k \in DOMAIN observed : observed[k].role = r} = {}
          /\ {u \in Counted : <<u[1][1], u[1][2]>> = <<r, q>>} = {}
          /\ {u \in Counted : u[1][1] = r} = {}
      BY <2>1
    <3>2. Along(<<r, q>>) = 0
      BY <3>1, FS_EmptySet DEF Along
    <3>3. EdgeCount(<<r, q>>) = 0
      BY <3>1, FS_EmptySet DEF EdgeCount
    <3>4. SourceCount(r) = 0
      BY <3>1, FS_EmptySet DEF SourceCount
    <3>5. FromRole(r) = 0
      BY <3>1, FS_EmptySet DEF FromRole
    <3> QED
      BY <3>2, <3>3, <3>4, <3>5
  <2>4. observed \in Seq(Interaction)
    BY <2>1
  <2>5. \A k \in DOMAIN observed : observed[k].targetRole # NoRole =>
            <<observed[k].role, observed[k].targetRole, observed[k].action>> \in DOMAIN counts
    BY <2>1
  <2> QED
    BY <2>2, <2>3, <2>4, <2>5 DEF CountInv
<1>2. CountInv /\ [TopologyNext]_topologyVars => CountInv'
  <2> SUFFICES ASSUME CountInv, [TopologyNext]_topologyVars
               PROVE  CountInv'
    OBVIOUS
  <2>1. ASSUME UNCHANGED <<counts, observed>>
        PROVE  CountInv'
    <3>1. counts' = counts /\ observed' = observed
      BY <2>1
    <3>2. ASSUME NEW r, NEW q
          PROVE  /\ Along(<<r, q>>)' = Along(<<r, q>>) /\ FromRole(r)' = FromRole(r)
                 /\ EdgeCount(<<r, q>>)' = EdgeCount(<<r, q>>)
                 /\ SourceCount(r)' = SourceCount(r)
      <4>1. Counted' = Counted
        BY <3>1 DEF Counted
      <4>2. EdgeCount(<<r, q>>)' = EdgeCount(<<r, q>>) /\ SourceCount(r)' = SourceCount(r)
        BY <4>1 DEF EdgeCount, SourceCount
      <4>3. Along(<<r, q>>)' = Along(<<r, q>>) /\ FromRole(r)' = FromRole(r)
        BY <3>1 DEF Along, FromRole
      <4> QED
        BY <4>2, <4>3
    <3>3. ASSUME NEW r, NEW q, q # NoRole
          PROVE  Along(<<r, q>>)' <= EdgeCount(<<r, q>>)'
      BY <3>2, <3>3 DEF CountInv
    <3>4. ASSUME NEW r
          PROVE  SourceCount(r)' <= FromRole(r)'
      BY <3>2 DEF CountInv
    <3>5. Counters(counts')
      BY <3>1 DEF CountInv
    <3> QED
      BY <3>1, <3>3, <3>4, <3>5 DEF CountInv, Counters
  <2>2. ASSUME NEW i \in Interaction, ObserveInteraction(i)
        PROVE  CountInv'
    <3>1. observed' = Append(observed, i) /\ observed \in Seq(Interaction)
      BY <2>2 DEF ObserveInteraction, CountInv
    <3>2. i.targetRole # NoRole => TargetRole(i) = i.targetRole
      BY DEF TargetRole
    <3>3. CASE TargetRole(i) = NoRole
      <4>1. counts' = counts
        BY <2>2, <3>3 DEF ObserveInteraction
      <4>2. ASSUME NEW r, NEW q
            PROVE  EdgeCount(<<r, q>>)' = EdgeCount(<<r, q>>) /\ SourceCount(r)' = SourceCount(r)
        BY <4>1 DEF EdgeCount, SourceCount, Counted
      <4>3. ASSUME NEW r, NEW q, q # NoRole
            PROVE  Along(<<r, q>>)' <= EdgeCount(<<r, q>>)'
        <5>1. Along(<<r, q>>)' = Along(<<r, q>>)
          BY <2>2, <3>2, <3>3, <4>3, ObservedMore, CountsAreNumbers
        <5> QED
          BY <4>2, <4>3, <5>1 DEF CountInv
      <4>4. ASSUME NEW r
            PROVE  SourceCount(r)' <= FromRole(r)'
        <5>1. FromRole(r)' = FromRole(r) + IF i.role = r THEN 1 ELSE 0
          BY <2>2, ObservedMore
        <5>2. SourceCount(r)' = SourceCount(r)
          BY <4>2
        <5>3. SourceCount(r) \in Nat /\ FromRole(r) \in Nat /\ SourceCount(r) <= FromRole(r)
          BY CountsAreNumbers DEF CountInv
        <5> QED
          BY <5>1, <5>2, <5>3
      <4>5. ASSUME NEW k \in DOMAIN observed', observed'[k].targetRole # NoRole
            PROVE  <<observed'[k].role, observed'[k].targetRole, observed'[k].action>>
                        \in DOMAIN counts'
        BY <3>1, <3>2, <3>3, <4>1, <4>5, PositionsGrow DEF CountInv
      <4>6. Counters(counts')
        BY <4>1 DEF CountInv
      <4> QED
        BY <3>1, <4>3, <4>4, <4>5, <4>6 DEF CountInv, Counters
    <3>4. CASE TargetRole(i) # NoRole
      <4>1. ASSUME NEW r, NEW q
            PROVE  /\ EdgeCount(<<r, q>>)' = EdgeCount(<<r, q>>)
                            + IF i.role = r /\ TargetRole(i) = q THEN 1 ELSE 0
                   /\ SourceCount(r)' = SourceCount(r) + IF i.role = r THEN 1 ELSE 0
        BY <2>2, <3>4, CountedMore
      <4>2. ASSUME NEW r, NEW q, q # NoRole
            PROVE  Along(<<r, q>>)' <= EdgeCount(<<r, q>>)'
        <5>1. Along(<<r, q>>)' = Along(<<r, q>>)
                    + IF i.role = r /\ i.targetRole = q THEN 1 ELSE 0
          BY <2>2, ObservedMore
        <5>2. /\ Along(<<r, q>>) \in Nat /\ EdgeCount(<<r, q>>) \in Nat
              /\ Along(<<r, q>>) <= EdgeCount(<<r, q>>)
          BY <4>2, CountsAreNumbers DEF CountInv
        <5>3. i.targetRole = q => TargetRole(i) = q
          BY <3>2, <4>2
        <5>4. EdgeCount(<<r, q>>)' = EdgeCount(<<r, q>>)
                    + IF i.role = r /\ TargetRole(i) = q THEN 1 ELSE 0
          BY <4>1
        <5> QED
          BY <5>1, <5>2, <5>3, <5>4
      <4>3. ASSUME NEW r
            PROVE  SourceCount(r)' <= FromRole(r)'
        <5>1. FromRole(r)' = FromRole(r) + IF i.role = r THEN 1 ELSE 0
          BY <2>2, ObservedMore
        <5>2. SourceCount(r)' = SourceCount(r) + IF i.role = r THEN 1 ELSE 0
          BY <4>1
        <5>3. SourceCount(r) \in Nat /\ FromRole(r) \in Nat /\ SourceCount(r) <= FromRole(r)
          BY CountsAreNumbers DEF CountInv
        <5> QED
          BY <5>1, <5>2, <5>3
      <4>4. /\ Counters(counts')
            /\ DOMAIN counts' = DOMAIN counts \cup {<<i.role, TargetRole(i), i.action>>}
        BY <2>2, <3>4, CountedMore
      <4>5. ASSUME NEW k \in DOMAIN observed', observed'[k].targetRole # NoRole
            PROVE  <<observed'[k].role, observed'[k].targetRole, observed'[k].action>>
                        \in DOMAIN counts'
        <5>1. CASE k \in DOMAIN observed
          BY <3>1, <4>4, <4>5, <5>1, PositionsGrow DEF CountInv
        <5>2. CASE k = Len(observed) + 1
          <6>1. observed'[k] = i
            BY <3>1, <5>2, PositionsGrow
          <6> QED
            BY <3>2, <4>4, <4>5, <6>1
        <5>3. k \in DOMAIN observed \/ k = Len(observed) + 1
          BY <3>1, <4>5, PositionsGrow
        <5> QED
          BY <5>1, <5>2, <5>3
      <4>6. observed' \in Seq(Interaction)
        BY <3>1, PositionsGrow
      <4> QED
        BY <4>2, <4>3, <4>4, <4>5, <4>6 DEF CountInv, Counters
    <3> QED
      BY <3>3, <3>4
  <2> QED
    BY <2>1, <2>2 DEF TopologyNext, VerifyInteraction, Build, topologyVars
<1>3. CountInv => LearnedTrafficConforms
  <2> SUFFICES ASSUME CountInv, NEW k \in DOMAIN observed,
                      observed[k].targetRole # NoRole,
                      Along(<<observed[k].role, observed[k].targetRole>>) >= MinTransitionCount,
                      Along(<<observed[k].role, observed[k].targetRole>>) * 100
                            >= FrequencyThreshold * FromRole(observed[k].role)
               PROVE  EdgeAnomalies(Learned, observed[k]) = {}
    BY DEF LearnedTrafficConforms
  <2> DEFINE i == observed[k]
             p == <<i.role, i.targetRole>>
             c == <<i.role, i.targetRole, i.action>>
  <2>1. c \in DOMAIN counts
    BY DEF CountInv
  <2>2. Frequent(p)
    <3>1. /\ Along(p) \in Nat /\ EdgeCount(p) \in Nat
          /\ SourceCount(i.role) \in Nat /\ FromRole(i.role) \in Nat
      BY CountsAreNumbers
    <3>2. Along(p) <= EdgeCount(p) /\ SourceCount(i.role) <= FromRole(i.role)
      BY DEF CountInv
    <3>3. FrequencyThreshold \in Nat /\ MinTransitionCount \in Nat
      BY TopologyAssumption
    <3>4. Along(p) >= MinTransitionCount
          /\ Along(p) * 100 >= FrequencyThreshold * FromRole(i.role)
      OBVIOUS
    <3>5. p[1] = i.role
      OBVIOUS
    <3> HIDE DEF p, i
    <3>6. EdgeCount(p) * 100 >= FrequencyThreshold * SourceCount(i.role)
      BY <3>1, <3>2, <3>3, <3>4, SharesCompare
    <3>7. EdgeCount(p) >= MinTransitionCount
      BY <3>1, <3>2, <3>3, <3>4
    <3> QED
      BY <3>5, <3>6, <3>7 DEF Frequent
  <2>3. p \in {<<d[1], d[2]>> : d \in DOMAIN counts}
    BY <2>1
  <2>4. p \in DOMAIN Learned
    BY <2>2, <2>3 DEF Learned
  <2>5. Learned[p].actions = ActionsSeen(p)
    BY <2>2, <2>3 DEF Learned, EdgeOf
  <2>6. i.action \in ActionsSeen(p)
    <3>1. c[3] = i.action /\ <<c[1], c[2]>> = p
      OBVIOUS
    <3> HIDE DEF c, p, i
    <3> QED
      BY <2>1, <3>1 DEF ActionsSeen
  <2> QED
    BY <2>4, <2>5, <2>6 DEF EdgeAnomalies
<1> QED
  BY <1>1, <1>2, <1>3, PTL DEF TopologySpec
=============================================================================
