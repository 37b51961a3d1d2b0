--------------------------- MODULE ServiceProofs ----------------------------
(***************************************************************************)
(* Proofs about the services around the decision path: the rate limiter    *)
(* and the authentication of the gateway, the evaluator of policies that   *)
(* threads share, the sessions of the SDK, the records of the REST API,    *)
(* and of the enterprise edition the dual control of approvals, the        *)
(* lifetime of API keys and service assertions, and the policy sets.  They *)
(* share no state, so each has an inductive invariant of its own.          *)
(***************************************************************************)
EXTENDS ApiGateway, PolicyEvaluation, SdkSession, ApiRecords, EnterpriseApproval,
        EnterpriseIdentity, PolicySets, SubsequenceProofs, FiniteSetTheorems,
        TLAPS

-----------------------------------------------------------------------------
LEMMA LimiterConstants ==
    MaxRequests \in Nat /\ Window \in Nat /\ MaxRequests > 0 /\ Window > 0
BY GatewayAssumption

-----------------------------------------------------------------------------
(* The rate limiter: A is when the requests of a client were admitted, W   *)
(* its window, now the clock.                                              *)

InOrder(A, now) ==
    /\ A \in Seq(Nat)
    /\ \A i \in 1..Len(A) : A[i] <= now
    /\ \A i, j \in 1..Len(A) : i <= j => A[i] <= A[j]

(* The window is what the admissions end with, and the rest is older than  *)
(* the window.                                                             *)
EndsWith(A, W, now) ==
    /\ W \in Seq(Nat) /\ Len(W) <= Len(A) /\ Len(W) <= MaxRequests
    /\ \A i \in 1..Len(W) : W[i] = A[Len(A) - Len(W) + i]
    /\ \A i \in 1..Len(A) - Len(W) : A[i] < now - Window

(* Of max_requests + 1 admissions in a row the last is more than a window  *)
(* after the first.                                                        *)
Spaced(A) ==
    \A i \in 1..Len(A) : i + MaxRequests <= Len(A) => A[i] + Window < A[i + MaxRequests]

Limited(A, W, now) == InOrder(A, now) /\ EndsWith(A, W, now) /\ Spaced(A)

(* A client that has been refused and asked for nothing since: its last    *)
(* max_requests admissions fill the window, and Retry-After was computed   *)
(* from the first of them.                                                 *)
ToldRight(t, A, now) ==
    t # Untold =>
        /\ t.at \in Nat /\ t.wait \in Nat /\ t.wait > 0 /\ t.at <= now
        /\ (\A i \in 1..Len(A) : A[i] <= t.at) =>
                /\ Len(A) >= MaxRequests
                /\ A[Len(A) - MaxRequests + 1] = t.at + t.wait - Window - 1

LimiterInv ==
    /\ instant \in Nat
    /\ windows \in [Client -> Seq(Nat)] /\ admittedAt \in [Client -> Seq(Nat)]
    /\ told = [c \in Client |-> told[c]]
    /\ \A c \in Client :
        /\ Limited(admittedAt[c], windows[c], instant)
        /\ ToldRight(told[c], admittedAt[c], instant)

(* Pruning leaves the end of the admissions that is not older than the     *)
(* window: popping from the left is enough, as timestamps are in order.    *)
LEMMA PruningKeepsEnd ==
    ASSUME instant \in Nat, NEW A, NEW W, InOrder(A, instant), EndsWith(A, W, instant)
    PROVE  /\ EndsWith(A, Pruned(W), instant)
           /\ \A i \in 1..Len(Pruned(W)) : Pruned(W)[i] >= instant - Window
<1> DEFINE c == instant - Window
           recent == {i \in DOMAIN W : W[i] >= c}
           P == Pruned(W)
           d == Len(A) - Len(W)
<1>1. c \in Int
  BY LimiterConstants
<1>2. W \in Seq(Nat) /\ Len(W) \in Nat /\ DOMAIN W = 1..Len(W)
  BY DEF EndsWith
<1>3. \A i \in 1..Len(W) : W[i] \in Nat
  BY <1>2
<1>4. A \in Seq(Nat) /\ Len(A) \in Nat /\ \A i \in 1..Len(A) : A[i] \in Nat
  BY DEF InOrder
<1>5. d \in Nat /\ Len(W) = Len(A) - d /\ Len(A) = Len(W) + d
  BY <1>2, <1>4 DEF EndsWith
<1>6. \A i \in 1..Len(W) : W[i] = A[d + i]
  BY DEF EndsWith
<1>7. \A i \in 1..d : A[i] < c
  BY DEF EndsWith
<1>8. P = IF recent = {} THEN <<>> ELSE SubSeq(W, Min(recent), Len(W))
  BY DEF Pruned
<1>9. Len(W) <= MaxRequests
  BY DEF EndsWith
<1> HIDE DEF c, d, P, recent
<1>10. CASE recent = {}
  <2>1. \A i \in 1..Len(W) : W[i] < c
    BY <1>1, <1>2, <1>3, <1>10 DEF recent
  <2>2. ASSUME NEW i \in 1..Len(A) PROVE A[i] < c
    <3>1. CASE i <= d
      BY <3>1, <1>5, <1>7
    <3>2. CASE i > d
      <4>1. i - d \in 1..Len(W) /\ d + (i - d) = i
        BY <3>2, <1>2, <1>4, <1>5
      <4>2. A[i] = W[i - d]
        BY <4>1, <1>6
      <4>3. QED
        BY <4>1, <4>2, <2>1
    <3>3. QED
      BY <3>1, <3>2, <1>5, <1>4
  <2>3. P = <<>> /\ Len(<<>>) = 0 /\ <<>> \in Seq(Nat)
    BY <1>8, <1>10
  <2>4. Len(A) - 0 = Len(A)
    BY <1>4
  <2>5. QED
    BY <1>4, <2>2, <2>3, <2>4, LimiterConstants DEF EndsWith, P, c
<1>11. CASE recent # {}
  <2> DEFINE m == Min(recent)
             k == Len(P)
  <2>1. recent \subseteq Nat
    BY <1>2 DEF recent
  <2>2. m \in recent /\ \A j \in recent : m <= j
    BY <1>11, <2>1, LeastExists
  <2>3. P = SubSeq(W, m, Len(W))
    BY <1>8, <1>11
  <2> HIDE DEF m
  <2>4. m \in 1..Len(W) /\ W[m] >= c
    BY <2>2, <1>2 DEF recent
  <2>5. ASSUME NEW i \in 1..Len(W), i < m PROVE W[i] < c
    <3>1. i \notin recent
      BY <2>5, <2>2, <2>4, <1>2
    <3>2. QED
      BY <3>1, <1>1, <1>2, <1>3 DEF recent
  <2>6. P \in Seq(Nat) /\ Len(P) = Len(W) - m + 1
    BY <2>3, <2>4, <1>2
  <2>7. \A i \in 1..Len(P) : P[i] = W[m + i - 1]
    BY <2>3, <2>4, <1>2
  <2>8. k \in Nat /\ k = Len(W) - m + 1 /\ Len(A) - k = d + m - 1
    BY <2>4, <2>6, <1>2, <1>4, <1>5
  <2> HIDE DEF k
  <2>9. ASSUME NEW i \in 1..k
        PROVE  P[i] = A[Len(A) - k + i] /\ P[i] \in Nat /\ P[i] >= c
    <3>1. m + i - 1 \in 1..Len(W) /\ d + (m + i - 1) = Len(A) - k + i
      BY <2>4, <2>8, <1>2, <1>5, <1>4
    <3>2. P[i] = W[m + i - 1]
      BY <2>7 DEF k
    <3>3. P[i] = A[d + (m + i - 1)] /\ W[m] = A[d + m]
      BY <3>1, <3>2, <1>6, <2>4
    <3>4. d + m \in 1..Len(A) /\ d + (m + i - 1) \in 1..Len(A) /\ d + m <= d + (m + i - 1)
      BY <2>4, <2>8, <1>2, <1>5, <1>4
    <3>5. A[d + m] <= A[d + (m + i - 1)]
      BY <3>4 DEF InOrder
    <3>6. P[i] \in Nat /\ W[m] \in Nat
      BY <3>1, <3>2, <1>3, <2>4
    <3>7. P[i] >= c
      BY <3>3, <3>5, <3>6, <2>4, <1>1
    <3>8. QED
      BY <3>1, <3>3, <3>6, <3>7
  <2>10. ASSUME NEW i \in 1..Len(A) - k PROVE A[i] < c
    <3>1. CASE i <= d
      BY <3>1, <1>5, <1>7
    <3>2. CASE i > d
      <4>1. i - d \in 1..Len(W) /\ i - d < m /\ d + (i - d) = i
        BY <3>2, <1>2, <1>4, <1>5, <2>4, <2>8
      <4>2. A[i] = W[i - d]
        BY <4>1, <1>6
      <4>3. QED
        BY <4>1, <4>2, <2>5
    <3>3. QED
      BY <3>1, <3>2, <1>5, <1>4, <2>8, <2>4
  <2>11. k <= Len(A) /\ k <= MaxRequests
    <3>1. k <= Len(W)
      BY <2>4, <2>8, <1>2
    <3>2. QED
      BY <3>1, <2>8, <1>2, <1>5, <1>9, LimiterConstants
  <2>12. QED
    BY <2>6, <2>9, <2>10, <2>11 DEF EndsWith, P, c, k
<1>12. QED
  BY <1>10, <1>11 DEF P, c

(* A request of this instant that the pruned window has room for.          *)
LEMMA AdmissionKeepsLimit ==
    ASSUME instant \in Nat, NEW A, NEW P, Limited(A, P, instant), Len(P) < MaxRequests
    PROVE  Limited(Append(A, instant), Append(P, instant), instant)
<1> DEFINE B == Append(A, instant)
           Q == Append(P, instant)
           n == Len(A)
           k == Len(P)
<1>1. A \in Seq(Nat) /\ P \in Seq(Nat)
  BY DEF Limited, InOrder, EndsWith
<1>2. n \in Nat /\ k \in Nat /\ k <= n
  BY <1>1 DEF Limited, EndsWith
<1>3. B \in Seq(Nat) /\ Len(B) = n + 1 /\ B[n + 1] = instant
  BY <1>1
<1>4. \A i \in 1..n : B[i] = A[i] /\ A[i] \in Nat
  BY <1>1
<1>5. Q \in Seq(Nat) /\ Len(Q) = k + 1 /\ Q[k + 1] = instant
  BY <1>1
<1>6. \A i \in 1..k : Q[i] = P[i]
  BY <1>1
<1>7. /\ \A i \in 1..n : A[i] <= instant
      /\ \A i, j \in 1..n : i <= j => A[i] <= A[j]
  BY DEF Limited, InOrder
<1>8. /\ \A i \in 1..k : P[i] = A[n - k + i]
      /\ \A i \in 1..n - k : A[i] < instant - Window
  BY DEF Limited, EndsWith
<1>9. \A i \in 1..n : i + MaxRequests <= n => A[i] + Window < A[i + MaxRequests]
  BY DEF Limited, Spaced
<1> HIDE DEF B, Q, n, k
<1>10. InOrder(B, instant)
  <2>1. ASSUME NEW i \in 1..n + 1 PROVE B[i] <= instant
    <3>1. CASE i = n + 1
      BY <3>1, <1>3
    <3>2. CASE i \in 1..n
      BY <3>2, <1>4, <1>7
    <3>3. QED
      BY <3>1, <3>2, <1>2
  <2>2. ASSUME NEW i \in 1..n + 1, NEW j \in 1..n + 1, i <= j PROVE B[i] <= B[j]
    <3>1. CASE j = n + 1
      BY <3>1, <2>1, <1>3
    <3>2. CASE j # n + 1
      <4>1. i \in 1..n /\ j \in 1..n
        BY <3>2, <2>2, <1>2
      <4>2. QED
        BY <4>1, <2>2, <1>4, <1>7
    <3>3. QED
      BY <3>1, <3>2
  <2>3. QED
    BY <2>1, <2>2, <1>3 DEF InOrder
<1>11. EndsWith(B, Q, instant)
  <2>1. ASSUME NEW i \in 1..k + 1 PROVE Q[i] = B[Len(B) - Len(Q) + i]
    <3>1. Len(B) - Len(Q) + i = n - k + i
      BY <1>2, <1>3, <1>5
    <3>2. CASE i = k + 1
      <4>1. n - k + i = n + 1
        BY <3>2, <1>2
      <4>2. QED
        BY <3>1, <3>2, <4>1, <1>3, <1>5
    <3>3. CASE i \in 1..k
      <4>1. n - k + i \in 1..n
        BY <3>3, <1>2
      <4>2. QED
        BY <3>1, <3>3, <4>1, <1>4, <1>6, <1>8
    <3>4. QED
      BY <3>2, <3>3, <1>2
  <2>2. ASSUME NEW i \in 1..n - k PROVE B[i] < instant - Window
    <3>1. i \in 1..n
      BY <1>2
    <3>2. QED
      BY <3>1, <1>4, <1>8
  <2>3. Len(B) - Len(Q) = n - k /\ Len(Q) <= Len(B)
    BY <1>2, <1>3, <1>5
  <2>4. Len(Q) <= MaxRequests
    BY <1>2, <1>5, LimiterConstants DEF k
  <2>5. QED
    BY <2>1, <2>2, <2>3, <2>4, <1>5 DEF EndsWith
<1>12. Spaced(B)
  <2>1. ASSUME NEW i \in 1..n + 1, i + MaxRequests <= n + 1
        PROVE  B[i] + Window < B[i + MaxRequests]
    <3>1. i \in 1..n
      BY <2>1, <1>2, LimiterConstants
    <3>2. CASE i + MaxRequests = n + 1
      <4>1. i \in 1..n - k
        BY <3>1, <3>2, <1>2, LimiterConstants DEF k
      <4>2. A[i] < instant - Window
        BY <4>1, <1>8
      <4>3. B[i] \in Nat /\ B[i] < instant - Window /\ B[i + MaxRequests] = instant
        BY <4>2, <3>1, <3>2, <1>3, <1>4
      <4>4. QED
        BY <4>3, LimiterConstants
    <3>3. CASE i + MaxRequests <= n
      <4>1. i + MaxRequests \in 1..n
        BY <3>1, <3>3, LimiterConstants
      <4>2. A[i] + Window < A[i + MaxRequests]
        BY <3>1, <3>3, <1>9
      <4>3. QED
        BY <3>1, <4>1, <4>2, <1>4
    <3>4. i + MaxRequests = n + 1 \/ i + MaxRequests <= n
      BY <2>1, <1>2, LimiterConstants
    <3>5. QED
      BY <3>2, <3>3, <3>4
  <2>2. QED
    BY <2>1, <1>3 DEF Spaced
<1>13. QED
  BY <1>10, <1>11, <1>12 DEF Limited, B, Q

(* Once the window has room for a request of this instant, the client has  *)
(* waited long enough: with an admission of now it asked for something     *)
(* after it was told to wait.                                              *)
LEMMA AdmissionKeepsTold ==
    ASSUME instant \in Nat, NEW A, NEW P, Limited(A, P, instant), Len(P) < MaxRequests,
           NEW t, ToldRight(t, A, instant)
    PROVE  ToldRight(t, Append(A, instant), instant)
<1> USE LimiterConstants
<1> DEFINE B == Append(A, instant)
           n == Len(A)
<1> SUFFICES ASSUME t # Untold
             PROVE  ~\A i \in 1..Len(B) : B[i] <= t.at
  BY DEF ToldRight
<1> SUFFICES ASSUME \A i \in 1..Len(B) : B[i] <= t.at
             PROVE  FALSE
  OBVIOUS
<1>1. A \in Seq(Nat) /\ n \in Nat /\ P \in Seq(Nat) /\ Len(P) \in Nat /\ Len(P) <= n
  BY DEF Limited, InOrder, EndsWith
<1>2. Len(B) = n + 1 /\ B[n + 1] = instant /\ \A i \in 1..n : B[i] = A[i] /\ A[i] \in Nat
  BY <1>1
<1>3. t.at \in Nat /\ t.wait \in Nat /\ t.wait > 0 /\ t.at <= instant
  BY DEF ToldRight
<1> HIDE DEF B
<1>5x. t.at = instant
  <2>1. n + 1 \in 1..Len(B)
    BY <1>1, <1>2
  <2>2. B[n + 1] <= t.at
    BY <2>1
  <2>3. QED
    BY <2>2, <1>2, <1>3
<1>6x. \A i \in 1..n : A[i] <= t.at
  BY <1>1, <1>2
<1>4. n >= MaxRequests /\ A[n - MaxRequests + 1] = instant + t.wait - Window - 1
  BY <1>5x, <1>6x DEF ToldRight
<1>5. n - MaxRequests + 1 \in 1..n - Len(P)
  BY <1>1, <1>4
<1>6. A[n - MaxRequests + 1] < instant - Window
  BY <1>5 DEF Limited, EndsWith
<1>7. QED
  BY <1>3, <1>4, <1>6

(* A refusal: the pruned window is full, and Retry-After counts from its   *)
(* first timestamp.                                                        *)
LEMMA RefusalTellsRight ==
    ASSUME instant \in Nat, NEW A, NEW P, Limited(A, P, instant), Len(P) >= MaxRequests,
           \A i \in 1..Len(P) : P[i] >= instant - Window
    PROVE  ToldRight([at |-> instant, wait |-> RetryAfter(P)], A, instant)
<1> USE LimiterConstants
<1>1. A \in Seq(Nat) /\ Len(A) \in Nat /\ P \in Seq(Nat) /\ Len(P) = MaxRequests /\ Len(P) <= Len(A)
  BY DEF Limited, InOrder, EndsWith
<1>2. P[1] = A[Len(A) - MaxRequests + 1] /\ P[1] \in Nat /\ P[1] >= instant - Window
  BY <1>1 DEF Limited, EndsWith
<1>3. P[1] + Window - instant + 1 \in Nat /\ P[1] + Window - instant + 1 > 0
  BY <1>2
<1> DEFINE t == [at |-> instant, wait |-> RetryAfter(P)]
<1>4. t.at = instant /\ t.wait = P[1] + Window - instant + 1
  BY DEF RetryAfter
<1> HIDE DEF t
<1>5. t.wait \in Nat /\ t.wait > 0 /\ t.at \in Nat /\ t.at <= instant
  BY <1>3, <1>4
<1>6. P[1] = t.at + t.wait - Window - 1
  BY <1>2, <1>4, LimiterConstants
<1>7. QED
  BY <1>1, <1>2, <1>5, <1>6 DEF ToldRight, t

(* The clock moves on.                                                     *)
LEMMA LaterKeepsLimit ==
    ASSUME instant \in Nat, NEW A, NEW W, NEW t,
           Limited(A, W, instant), ToldRight(t, A, instant)
    PROVE  Limited(A, W, instant + 1) /\ ToldRight(t, A, instant + 1)
<1> USE LimiterConstants
<1>1. A \in Seq(Nat) /\ Len(A) \in Nat /\ Len(W) \in Nat /\ \A i \in 1..Len(A) : A[i] \in Nat
  BY DEF Limited, InOrder, EndsWith
<1>2. InOrder(A, instant + 1)
  BY <1>1 DEF Limited, InOrder
<1>3. \A i \in 1..Len(A) - Len(W) : A[i] < instant + 1 - Window
  BY <1>1 DEF Limited, EndsWith
<1>4. EndsWith(A, W, instant + 1)
  BY <1>3 DEF Limited, EndsWith
<1>5. QED
  BY <1>2, <1>4 DEF Limited, ToldRight

(* Only an arrival and the clock touch what the limiter knows.             *)
LEMMA LimiterStep ==
    ASSUME LimiterInv, [GatewayNext]_gatewayVars
    PROVE  LimiterInv'
<1>1. ASSUME UNCHANGED <<instant, limiterVars>>
      PROVE  LimiterInv'
  BY <1>1 DEF LimiterInv, limiterVars, Limited, InOrder, EndsWith, Spaced, ToldRight
<1>2. ASSUME NEW c \in Client, Arrive(c)
      PROVE  LimiterInv'
  <2> DEFINE P == Pruned(windows[c])
             A == admittedAt[c]
  <2>1. instant \in Nat /\ Limited(A, windows[c], instant) /\ ToldRight(told[c], A, instant)
    BY DEF LimiterInv
  <2>2. Limited(A, P, instant) /\ \A i \in 1..Len(P) : P[i] >= instant - Window
    BY <2>1, PruningKeepsEnd DEF Limited
  <2>3. CASE /\ Len(P) < MaxRequests
             /\ windows' = [windows EXCEPT ![c] = Append(P, instant)]
             /\ admittedAt' = [admittedAt EXCEPT ![c] = Append(A, instant)]
             /\ UNCHANGED <<told, instant>>
    <3>1. Limited(Append(A, instant), Append(P, instant), instant)
      BY <2>1, <2>2, <2>3, AdmissionKeepsLimit
    <3>2. ToldRight(told[c], Append(A, instant), instant)
      BY <2>1, <2>2, <2>3, AdmissionKeepsTold
    <3>3. Append(P, instant) \in Seq(Nat) /\ Append(A, instant) \in Seq(Nat)
      BY <3>1 DEF Limited, InOrder, EndsWith
    <3>4. /\ windows' \in [Client -> Seq(Nat)] /\ admittedAt' \in [Client -> Seq(Nat)]
          /\ windows'[c] = Append(P, instant) /\ admittedAt'[c] = Append(A, instant)
          /\ \A d \in Client \ {c} : windows'[d] = windows[d] /\ admittedAt'[d] = admittedAt[d]
      BY <2>3, <3>3 DEF LimiterInv
    <3> HIDE DEF P, A
    <3>5. ASSUME NEW d \in Client
          PROVE  /\ Limited(admittedAt'[d], windows'[d], instant')
                 /\ ToldRight(told'[d], admittedAt'[d], instant')
      <4>1. CASE d = c
        BY <4>1, <2>3, <3>1, <3>2, <3>4
      <4>2. CASE d # c
        <5>1. admittedAt'[d] = admittedAt[d] /\ windows'[d] = windows[d]
          BY <4>2, <3>4
        <5>2. QED
          BY <2>3, <5>1 DEF LimiterInv
      <4>3. QED
        BY <4>1, <4>2
    <3>6. instant' \in Nat /\ told' = [d \in Client |-> told'[d]]
      BY <2>3 DEF LimiterInv
    <3>7. QED
      BY <3>4, <3>5, <3>6 DEF LimiterInv, Limited, InOrder, EndsWith, Spaced, ToldRight
  <2>4. CASE /\ Len(P) >= MaxRequests
             /\ windows' = [windows EXCEPT ![c] = P]
             /\ told' = [told EXCEPT ![c] = [at |-> instant, wait |-> RetryAfter(P)]]
             /\ UNCHANGED <<admittedAt, instant>>
    <3> DEFINE t == [at |-> instant, wait |-> RetryAfter(P)]
    <3>1. ToldRight(t, A, instant)
      BY <2>1, <2>2, <2>4, RefusalTellsRight
    <3> HIDE DEF t
    <3>2. told' = [told EXCEPT ![c] = t]
      BY <2>4 DEF t
    <3> HIDE DEF P
    <3>3. P \in Seq(Nat)
      BY <2>2 DEF Limited, EndsWith
    <3>4. /\ windows' \in [Client -> Seq(Nat)] /\ windows'[c] = P
          /\ \A d \in Client \ {c} : windows'[d] = windows[d]
      BY <2>4, <3>3 DEF LimiterInv
    <3>5. /\ told' = [d \in Client |-> told'[d]] /\ told'[c] = t
          /\ \A d \in Client \ {c} : told'[d] = told[d]
      BY <3>2 DEF LimiterInv
    <3>6. ASSUME NEW d \in Client
          PROVE  /\ Limited(admittedAt[d], windows'[d], instant)
                 /\ ToldRight(told'[d], admittedAt[d], instant)
      <4>1. CASE d = c
        BY <4>1, <3>1, <3>4, <3>5, <2>2
      <4>2. CASE d # c
        <5>1. told'[d] = told[d] /\ windows'[d] = windows[d]
          BY <4>2, <3>4, <3>5
        <5>2. QED
          BY <5>1 DEF LimiterInv
      <4>3. QED
        BY <4>1, <4>2
    <3>7. instant' \in Nat /\ admittedAt' \in [Client -> Seq(Nat)]
      BY <2>4 DEF LimiterInv
    <3>8. QED
      BY <2>4, <3>4, <3>5, <3>6, <3>7 DEF LimiterInv, Limited, InOrder, EndsWith, Spaced, ToldRight
  <2>5. QED
    BY <1>2, <2>3, <2>4 DEF Arrive
<1>3. CASE PassInstant
  <2>1. /\ instant' = instant + 1
        /\ UNCHANGED <<windows, admittedAt, told>>
    BY <1>3 DEF PassInstant, limiterVars
  <2>2. \A c \in Client :
            /\ Limited(admittedAt[c], windows[c], instant + 1)
            /\ ToldRight(told[c], admittedAt[c], instant + 1)
    BY LaterKeepsLimit DEF LimiterInv
  <2>3. instant' \in Nat
    BY <2>1 DEF LimiterInv
  <2>4. QED
    BY <2>1, <2>2, <2>3 DEF LimiterInv, Limited, InOrder, EndsWith, Spaced, ToldRight
<1>4. CASE UNCHANGED gatewayVars
  BY <1>1, <1>4 DEF gatewayVars, limiterVars
<1>5. QED
  BY <1>1, <1>2, <1>3, <1>4 DEF GatewayNext, Serve, RegisterKey, SetAuthProvider

LEMMA LimiterInitInv == GatewayInit => LimiterInv
<1> SUFFICES ASSUME GatewayInit PROVE LimiterInv
  OBVIOUS
<1>1. <<>> \in Seq(Nat) /\ Len(<<>>) = 0
  OBVIOUS
<1>2. Limited(<<>>, <<>>, 0)
  BY <1>1, LimiterConstants DEF Limited, InOrder, EndsWith, Spaced
<1>3. ToldRight(Untold, <<>>, 0)
  BY DEF ToldRight
<1>4. QED
  BY <1>1, <1>2, <1>3 DEF GatewayInit, LimiterInv

LEMMA LimiterInvHolds == GatewaySpec => []LimiterInv
BY LimiterInitInv, LimiterStep, PTL DEF GatewaySpec

(* Admissions that are spaced are few in any window: what lies in one is   *)
(* within max_requests of the first of them.                               *)
LEMMA SpacedAreFew ==
    ASSUME NEW A, NEW now \in Nat, InOrder(A, now), Spaced(A), NEW t \in Int
    PROVE  Cardinality({i \in DOMAIN A : A[i] \in (t - Window)..t}) <= MaxRequests
<1> DEFINE S == {i \in DOMAIN A : A[i] \in (t - Window)..t}
<1>1. A \in Seq(Nat) /\ Len(A) \in Nat /\ DOMAIN A = 1..Len(A)
  BY DEF InOrder
<1>2. \A i \in 1..Len(A) : A[i] \in Nat
  BY <1>1
<1>3. S \subseteq 1..Len(A) /\ \A i \in S : A[i] <= t /\ A[i] >= t - Window
  BY <1>1, <1>2, LimiterConstants
<1> HIDE DEF S
<1>4. CASE S = {}
  BY <1>4, FS_EmptySet, LimiterConstants DEF S
<1>5. CASE S # {}
  <2> DEFINE m == Min(S)
             T == m..(m + MaxRequests - 1)
  <2>1. S \subseteq Nat
    BY <1>3, <1>1
  <2>2. m \in S /\ \A j \in S : m <= j
    BY <1>5, <2>1, LeastExists
  <2> HIDE DEF m
  <2>3. ASSUME NEW i \in S PROVE i < m + MaxRequests
    <3> SUFFICES ASSUME m + MaxRequests <= i PROVE FALSE
      BY <1>3, <2>1, <2>2, LimiterConstants
    <3>1. m \in 1..Len(A) /\ i \in 1..Len(A) /\ i \in Nat /\ m \in Nat
      BY <1>3, <2>1, <2>2
    <3>2. m + MaxRequests \in 1..Len(A)
      BY <3>1, <1>1, LimiterConstants
    <3>3. A[m] + Window < A[m + MaxRequests]
      BY <3>1, <3>2, <1>1 DEF Spaced
    <3>4. A[m + MaxRequests] <= A[i]
      BY <3>1, <3>2 DEF InOrder
    <3>5. A[i] <= t /\ A[m] >= t - Window
      BY <1>3, <2>2
    <3>6. A[m] \in Nat /\ A[i] \in Nat /\ A[m + MaxRequests] \in Nat
      BY <1>2, <3>1, <3>2
    <3>7. QED
      BY <3>3, <3>4, <3>5, <3>6, LimiterConstants
  <2>4. m \in Nat /\ m + MaxRequests - 1 \in Nat
    BY <2>1, <2>2, LimiterConstants
  <2>5. S \subseteq T
    BY <2>1, <2>2, <2>3, <2>4, LimiterConstants
  <2>6. IsFiniteSet(T) /\ Cardinality(T) = MaxRequests
    BY <2>4, FS_Interval, LimiterConstants
  <2>7. Cardinality(S) <= Cardinality(T)
    BY <2>5, <2>6, FS_Subset
  <2>8. QED
    BY <2>6, <2>7 DEF S
<1>6. QED
  BY <1>4, <1>5

(* WindowsAreBounded for any clients, max_requests and window: no client   *)
(* is admitted more than max_requests times in a window, wherever it lies. *)
THEOREM WindowsAreBoundedHolds == GatewaySpec => []WindowsAreBounded
<1>1. LimiterInv => WindowsAreBounded
  <2> SUFFICES ASSUME LimiterInv, NEW c \in Client, NEW t \in 0..MaxInstant
               PROVE  Cardinality({i \in DOMAIN admittedAt[c] :
                            admittedAt[c][i] \in (t - Window)..t}) <= MaxRequests
    BY DEF WindowsAreBounded
  <2>1. t \in Int
    OBVIOUS
  <2>2. QED
    BY <2>1, SpacedAreFew DEF LimiterInv, Limited
<1>2. QED
  BY <1>1, LimiterInvHolds, PTL

(* RetryAfterSuffices for any clients, max_requests and window: the header *)
(* never sends a client back too early, although it is rounded.            *)
THEOREM RetryAfterSufficesHolds == GatewaySpec => []RetryAfterSuffices
<1>1. LimiterInv => RetryAfterSuffices
  <2> SUFFICES ASSUME LimiterInv, NEW c \in Client, told[c] # Untold,
                      instant >= told[c].at + told[c].wait,
                      \A i \in DOMAIN admittedAt[c] : admittedAt[c][i] <= told[c].at
               PROVE  Len(Pruned(windows[c])) < MaxRequests
    BY DEF RetryAfterSuffices
  <2> DEFINE A == admittedAt[c]
             P == Pruned(windows[c])
             t == told[c]
  <2>1. instant \in Nat /\ Limited(A, windows[c], instant) /\ ToldRight(t, A, instant)
    BY DEF LimiterInv
  <2>2. EndsWith(A, P, instant) /\ \A i \in 1..Len(P) : P[i] >= instant - Window
    BY <2>1, PruningKeepsEnd DEF Limited
  <2>3. A \in Seq(Nat) /\ Len(A) \in Nat /\ DOMAIN A = 1..Len(A)
    BY <2>1 DEF Limited, InOrder
  <2>4. /\ t.at \in Nat /\ t.wait \in Nat /\ Len(A) >= MaxRequests
        /\ A[Len(A) - MaxRequests + 1] = t.at + t.wait - Window - 1
    BY <2>1, <2>3 DEF ToldRight
  <2> HIDE DEF A, P, t
  <2>5. P \in Seq(Nat) /\ Len(P) \in Nat /\ Len(P) <= MaxRequests
    BY <2>2 DEF EndsWith
  <2>6. CASE Len(P) = MaxRequests
    <3>1. 1 \in 1..Len(P)
      BY <2>6, LimiterConstants
    <3>2. P[1] = A[Len(A) - MaxRequests + 1] /\ P[1] >= instant - Window
      BY <3>1, <2>2, <2>6 DEF EndsWith
    <3>3. instant >= t.at + t.wait
      BY DEF t
    <3>4. FALSE
      BY <3>2, <3>3, <2>1, <2>4, LimiterConstants
    <3>5. QED
      BY <3>4
  <2>7. QED
    BY <2>5, <2>6, LimiterConstants DEF P
<1>2. QED
  BY <1>1, LimiterInvHolds, PTL

-----------------------------------------------------------------------------
(* Authentication.                                                         *)

ProviderInv ==
    /\ provider \in Seq({provider[i] : i \in DOMAIN provider})
    /\ \A i \in DOMAIN provider : provider[i].kind \in {"anonymous", "api key", "oidc"}

LEMMA ProviderIndices ==
    ASSUME ProviderInv
    PROVE  Len(provider) \in Nat /\ DOMAIN provider = 1..Len(provider)
<1> DEFINE S == {provider[i] : i \in DOMAIN provider}
<1>1. provider \in Seq(S)
  BY DEF ProviderInv
<1> HIDE DEF S
<1>2. QED
  BY <1>1

(* PermissionsAreGranted for any keys, tokens, roles and configurations,   *)
(* also those that replace each other while requests are on their way: an  *)
(* endpoint is entered with a permission of the key or token presented, or *)
(* by way of a configuration that admits guests.                           *)
THEOREM PermissionsAreGrantedHolds == GatewaySpec => PermissionsAreGranted
<1> DEFINE Entered(r) ==
        \/ \E i \in DOMAIN provider : Grants(provider[i], r, r.needs)
        \/ Len(provider) = 1 /\ provider[1].allow_anonymous
<1>1. GatewayInit => ProviderInv
  <2> SUFFICES ASSUME GatewayInit PROVE ProviderInv
    OBVIOUS
  <2> DEFINE p == [kind |-> "anonymous", allow_all |-> TRUE]
  <2>1. provider = <<p>> /\ p.kind = "anonymous"
    BY DEF GatewayInit
  <2> HIDE DEF p
  <2>2. DOMAIN <<p>> = {1} /\ <<p>>[1] = p /\ <<p>> \in Seq({p})
    OBVIOUS
  <2>3. {<<p>>[i] : i \in DOMAIN <<p>>} = {p}
    BY <2>2
  <2>4. QED
    BY <2>1, <2>2, <2>3 DEF ProviderInv
<1>2. ProviderInv /\ [GatewayNext]_gatewayVars => ProviderInv'
  <2> SUFFICES ASSUME ProviderInv, [GatewayNext]_gatewayVars PROVE ProviderInv'
    OBVIOUS
  <2>1. ASSUME NEW p \in AuthProvider, SetAuthProvider(p) PROVE ProviderInv'
    BY <2>1, ProviderAssumption DEF SetAuthProvider, ProviderInv
  <2>2. ASSUME UNCHANGED provider PROVE ProviderInv'
    BY <2>2 DEF ProviderInv
  <2>3. QED
    BY <2>1, <2>2
    DEF GatewayNext, Arrive, Serve, RegisterKey, PassInstant, gatewayVars
<1>3. ASSUME ProviderInv, NEW c \in Client, NEW r \in ApiRequest, Serve(c, r),
             answer'.status = 200
      PROVE  answer'.request = r /\ Entered(r)
  <2>1. answer'.request = r /\ answer'.status = StatusOf(CurrentAuth(r), r)
    BY <1>3 DEF Serve
  <2>2. CurrentAuth(r).refused = FALSE /\ HasPermission(CurrentAuth(r), r.needs)
    BY <2>1, <1>3 DEF StatusOf
  <2>3. CASE Len(provider) = 1
    <3>1. CurrentAuth(r) = AuthenticateBy(provider[1], r) /\ 1 \in DOMAIN provider
      BY <1>3, <2>3, ProviderIndices DEF CurrentAuth
    <3>2. provider[1].kind \in {"anonymous", "api key", "oidc"}
      BY <1>3, <3>1 DEF ProviderInv
    <3>3. \/ provider[1].kind = "anonymous"
          \/ AuthenticateBy(provider[1], r).authenticated
          \/ provider[1].allow_anonymous
      <4> DEFINE p == provider[1]
      <4>1. AuthenticateBy(p, r).refused = FALSE
        BY <2>2, <3>1
      <4>2. Unauthorized401.refused
        BY DEF Unauthorized401
      <4>3. \A permissions : ContextOf(TRUE, permissions).authenticated
        BY DEF ContextOf
      <4>4. CASE p.kind = "api key"
        <5>1. AuthenticateBy(p, r) = AuthenticateKey(p, r)
          BY <4>4 DEF AuthenticateBy
        <5>2. CASE r.key = NoApiKey
          BY <5>1, <5>2, <4>1, <4>2 DEF AuthenticateKey, WithoutCredential
        <5>3. CASE r.key # NoApiKey
          BY <5>1, <5>3, <4>1, <4>2, <4>3 DEF AuthenticateKey
        <5>4. QED
          BY <5>2, <5>3
      <4>5. CASE p.kind = "oidc"
        <5>1. AuthenticateBy(p, r) = AuthenticateToken(p, r)
          BY <4>5 DEF AuthenticateBy
        <5>2. CASE r.token = NoToken
          BY <5>1, <5>2, <4>1, <4>2 DEF AuthenticateToken, WithoutCredential
        <5>3. CASE r.token # NoToken
          BY <5>1, <5>3, <4>1, <4>2, <4>3 DEF AuthenticateToken
        <5>4. QED
          BY <5>2, <5>3
      <4>6. QED
        BY <3>2, <4>4, <4>5
    <3>4. QED
      BY <2>1, <2>2, <2>3, <3>1, <3>3 DEF Grants
  <2>4. CASE Len(provider) # 1
    <3> DEFINE context(i) == AuthenticateBy(provider[i], r)
               certain == {i \in DOMAIN provider : context(i).authenticated}
               open == {i \in DOMAIN provider : provider[i].kind = "anonymous"}
    <3>1. CurrentAuth(r) =
            CASE certain # {} -> context(Min(certain))
              [] certain = {} /\ open # {} -> context(Min(open))
              [] OTHER -> Unauthorized401
      BY <2>4 DEF CurrentAuth, AuthenticateAll
    <3>2. certain \subseteq Nat /\ open \subseteq Nat
      BY <1>3, ProviderIndices
    <3>3. CASE certain # {}
      <4>1. Min(certain) \in certain
        BY <3>2, <3>3, LeastExists
      <4> HIDE DEF context
      <4>2. CurrentAuth(r) = context(Min(certain))
        BY <3>1, <3>3
      <4>3. QED
        BY <2>1, <2>2, <4>1, <4>2 DEF context, Grants
    <3>4. CASE open # {}
      BY <2>1, <3>4 DEF Grants
    <3>5. CASE certain = {} /\ open = {}
      <4>1. CurrentAuth(r) = Unauthorized401
        BY <3>1, <3>5
      <4>2. QED
        BY <4>1, <2>2 DEF Unauthorized401
    <3>6. QED
      BY <3>3, <3>4, <3>5
  <2>5. QED
    BY <2>3, <2>4
<1>4. ProviderInv /\ [GatewayNext]_gatewayVars =>
        [inside' \subseteq inside /\ inside' # inside /\ answer'.status = 200 =>
            Entered(answer'.request)]_gatewayVars
  <2> SUFFICES ASSUME ProviderInv, GatewayNext, inside' \subseteq inside, inside' # inside,
                      answer'.status = 200
               PROVE  Entered(answer'.request)
    OBVIOUS
  <2>1. \A c \in Client : ~Arrive(c)
    BY DEF Arrive
  <2>2. PICK c \in Client, r \in ApiRequest : Serve(c, r)
    BY <2>1 DEF GatewayNext, RegisterKey, SetAuthProvider, PassInstant
  <2>3. QED
    BY <2>2, <1>3
<1>5. QED
  BY <1>1, <1>2, <1>4, PTL DEF GatewaySpec, PermissionsAreGranted

-----------------------------------------------------------------------------
(* The evaluator of policies.                                              *)

(* A PolicySet with its fields.                                            *)
IsPolicySet(set) ==
    set = [policies |-> set.policies, default_decision |-> set.default_decision,
           conflict_resolution |-> set.conflict_resolution,
           semantic_engine |-> set.semantic_engine]

(* A decision is made from the rules, the default and the strategy of a    *)
(* set, not from its semantic engine.                                      *)
LEMMA DecisionReads ==
    ASSUME NEW s, NEW t, NEW e, s.policies = t.policies,
           s.default_decision = t.default_decision,
           s.conflict_resolution = t.conflict_resolution
    PROVE  Decision(s, e) = Decision(t, e)
BY DEF Decision, DefaultRule

(* What an evaluation under way would decide now, with the rules it holds  *)
(* and the rest of the set in force, is a decision of a set that has been  *)
(* in force since it began.                                                *)
PolicyInv ==
    /\ IsPolicySet(policySet)
    /\ evaluating = [v \in Evaluation |-> evaluating[v]]
    /\ possible = [v \in Evaluation |-> possible[v]]
    /\ ruling = [v \in Evaluation |-> ruling[v]]
    /\ \A v \in Evaluation : evaluating[v].on =>
        Decision([policySet EXCEPT !.policies = evaluating[v].rules], evaluating[v].event)
            \in possible[v]
    /\ DecidesByOneSet

(* The keys of the sort under most_restrictive.                            *)
Keyed(rule) == rule.priority \in Int

IntKey(key) == key[1] \in Int /\ key[2] \in Int /\ key[3] \in Int

LEMMA KeysAreInts ==
    ASSUME NEW rule, Keyed(rule), NEW strategy
    PROVE  IntKey(SortKey(rule, strategy))
<1>1. Restrictiveness(rule.decision) \in Int /\ SeverityRank(rule.severity) \in Int
  BY DEF Restrictiveness, SeverityRank
<1> HIDE DEF Restrictiveness, SeverityRank
<1> QED
  BY <1>1 DEF SortKey, Keyed, IntKey

(* Keys are compared as tuples are, and that is an order.                  *)
LEMMA ExceedsIsLexicographic ==
    ASSUME NEW a, NEW b, IntKey(a), IntKey(b)
    PROVE  Exceeds(a, b) <=>
            \/ a[1] > b[1]
            \/ a[1] = b[1] /\ a[2] > b[2]
            \/ a[1] = b[1] /\ a[2] = b[2] /\ a[3] > b[3]
<1>1. 1..3 = {1, 2, 3} /\ 1..(1 - 1) = {} /\ 1..(2 - 1) = {1} /\ 1..(3 - 1) = {1, 2}
  OBVIOUS
<1> QED
  BY <1>1 DEF Exceeds

LEMMA ExceedsIsTransitive ==
    ASSUME NEW a, NEW b, NEW c, IntKey(a), IntKey(b), IntKey(c),
           ~Exceeds(b, a), Exceeds(c, a)
    PROVE  ~Exceeds(b, c)
BY ExceedsIsLexicographic DEF IntKey

(* Among finitely many keys there is one that none exceeds.                *)
LEMMA GreatestKeyExists ==
    ASSUME NEW n \in Nat, NEW M, M \subseteq 1..n, M # {}, NEW K, \A i \in M : IntKey(K[i])
    PROVE  \E b \in M : \A j \in M : ~Exceeds(K[j], K[b])
<1> DEFINE Best(m) == \E b \in M \cap 1..m : \A j \in M \cap 1..m : ~Exceeds(K[j], K[b])
           Bad == {m \in Nat : M \cap 1..m # {} /\ ~Best(m)}
<1>1. Bad = {}
  <2> SUFFICES ASSUME Bad # {} PROVE FALSE
    OBVIOUS
  <2>1. PICK m \in Nat : m = Min(Bad) /\ m \in Bad /\ \A j \in Bad : m <= j
    BY LeastExists
  <2>2. m - 1 \in Nat /\ m - 1 \notin Bad
    <3>1. M \cap 1..m # {}
      BY <2>1, Zenon
    <3>2. m # 0
      BY <3>1
    <3> HIDE DEF Bad
    <3> QED
      BY <2>1, <3>2
  <2>3. M \cap 1..(m - 1) = {} \/ Best(m - 1)
    BY <2>2
  <2>4. M \cap 1..m \subseteq (M \cap 1..(m - 1)) \cup {m}
    OBVIOUS
  <2>5. M \cap 1..(m - 1) \subseteq M \cap 1..m
    OBVIOUS
  <2>6. CASE m \notin M
    <3>1. M \cap 1..m = M \cap 1..(m - 1)
      BY <2>4, <2>5, <2>6
    <3> QED
      BY <2>1, <2>3, <3>1
  <2>7. CASE m \in M
    <3>1. m \in M \cap 1..m /\ ~Exceeds(K[m], K[m])
      <4>1. IntKey(K[m])
        BY <2>7
      <4>2. ~Exceeds(K[m], K[m])
        BY <4>1, ExceedsIsLexicographic DEF IntKey
      <4> QED
        BY <2>7, <4>2
    <3>2. CASE M \cap 1..(m - 1) = {}
      BY <2>1, <2>4, <3>1, <3>2
    <3>3. CASE Best(m - 1)
      <4>1. PICK b \in M \cap 1..(m - 1) : \A j \in M \cap 1..(m - 1) : ~Exceeds(K[j], K[b])
        BY <3>3
      <4>2. CASE Exceeds(K[m], K[b])
        <5>1. \A j \in M \cap 1..(m - 1) : ~Exceeds(K[j], K[m])
          BY <4>1, <4>2, <2>7, ExceedsIsTransitive
        <5> QED
          BY <2>1, <2>4, <3>1, <5>1
      <4>3. CASE ~Exceeds(K[m], K[b])
        BY <2>1, <2>4, <2>5, <4>1, <4>3
      <4> QED
        BY <4>2, <4>3
    <3> QED
      BY <2>3, <3>2, <3>3
  <2> QED
    BY <2>6, <2>7
<1>2. M \cap 1..n = M
  OBVIOUS
<1>3. Best(n)
  BY <1>1, <1>2
<1> QED
  BY <1>2, <1>3

(* The winner under most_restrictive is a rule that matched, and no rule   *)
(* that matched is more restrictive.                                       *)
LEMMA WinnerIsStrictest ==
    ASSUME NEW n \in Nat, NEW M, M \subseteq 1..n, M # {},
           NEW rules, \A i \in M : Keyed(rules[i])
    PROVE  \E w \in M :
            /\ Winner(rules, M, "most_restrictive") = rules[w]
            /\ \A i \in M :
                Restrictiveness(rules[i].decision) <= Restrictiveness(rules[w].decision)
<1> DEFINE key(j) == SortKey(rules[j], "most_restrictive")
           K == [j \in M |-> key(j)]
           best == {b \in M : \A j \in M : ~Exceeds(key(j), key(b))}
           w == Min(best)
<1>1. \A j \in M : IntKey(K[j])
  BY KeysAreInts
<1>2. best # {} /\ best \subseteq Nat
  <2>1. \E b \in M : \A j \in M : ~Exceeds(K[j], K[b])
    <3> HIDE DEF K
    <3> QED
      BY <1>1, GreatestKeyExists
  <2>2. \A j \in M : K[j] = key(j)
    OBVIOUS
  <2>3. best \subseteq M /\ M \subseteq Nat
    OBVIOUS
  <2>4. \E b \in M : \A j \in M : ~Exceeds(key(j), key(b))
    <3> HIDE DEF K, key
    <3> QED
      BY <2>1, <2>2
  <2>5. best # {}
    BY <2>4, Zenon
  <2> QED
    BY <2>3, <2>5
<1>3. w \in best
  <2> HIDE DEF best
  <2> QED
    BY <1>2, LeastExists
<1>4. Winner(rules, M, "most_restrictive") = rules[w]
  BY DEF Winner
<1>5. ASSUME NEW i \in M
      PROVE  key(i)[1] <= key(w)[1]
  <2>1. ~Exceeds(key(i), key(w)) /\ IntKey(key(i)) /\ IntKey(key(w))
    <3> HIDE DEF w
    <3> QED
      BY <1>1, <1>3
  <2> HIDE DEF key, w
  <2> QED
    BY <2>1, ExceedsIsLexicographic DEF IntKey
<1>6. \A j : key(j)[1] = Restrictiveness(rules[j].decision)
  BY DEF SortKey
<1>7. w \in M
  BY <1>3
<1> HIDE DEF w, key
<1> QED
  BY <1>4, <1>5, <1>6, <1>7

(* The rules that an evaluator can ever hold.                              *)
RuleList == Seq(KnownRules)

RulesInv ==
    /\ IsPolicySet(policySet) /\ policySet.policies \in RuleList
    /\ editing = [d \in Edit |-> editing[d]]
    /\ \A d \in Edit : editing[d].on => editing[d].rules \in RuleList

LEMMA RulesInvHolds == PolicySpec => []RulesInv
<1>1. PolicyInit => RulesInv
  BY PolicyAssumption DEF PolicyInit, RulesInv, IsPolicySet, NoEdit, RuleList
<1>2. RulesInv /\ [PolicyNext]_policyVars => RulesInv'
  <2> SUFFICES ASSUME RulesInv, [PolicyNext]_policyVars PROVE RulesInv'
    OBVIOUS
  <2>1. ASSUME NEW d \in Edit, NEW rule \in Rule, BeginAdd(d, rule)
        PROVE  RulesInv'
    <3>1. rule \in KnownRules
      BY DEF KnownRules
    <3>2. Append(policySet.policies, rule) \in RuleList
      BY <3>1 DEF RulesInv, RuleList
    <3> QED
      BY <2>1, <3>2 DEF BeginAdd, RulesInv
  <2>2. ASSUME NEW d \in Edit, NEW rule \in Rule, BeginRemove(d, rule.id)
        PROVE  RulesInv'
    <3> DEFINE rules == policySet.policies
               others == {i \in DOMAIN rules : rules[i].id # rule.id}
    <3>1. Kept(rules, others) \in RuleList
      BY KeptIsList DEF RulesInv, RuleList
    <3>2. editing' = [editing EXCEPT ![d] = [on |-> TRUE, rules |-> Kept(rules, others)]]
          /\ policySet' = policySet
      BY <2>2 DEF BeginRemove
    <3> HIDE DEF others
    <3> QED
      BY <3>1, <3>2 DEF RulesInv
  <2>3. ASSUME NEW d \in Edit, StoreSet(d)
        PROVE  RulesInv'
    BY <2>3 DEF StoreSet, Rebuilt, RulesInv, IsPolicySet, NoEdit
  <2>4. ASSUME UNCHANGED <<policySet, editing>>
        PROVE  RulesInv'
    BY <2>4 DEF RulesInv
  <2> QED
    BY <2>1, <2>2, <2>3, <2>4 DEF PolicyNext, BeginEvaluate, FinishEvaluate, policyVars
<1> QED
  BY <1>1, <1>2, PTL DEF PolicySpec

(* RulesOnlyRestrict for any rules, priorities and events and any edits:   *)
(* the rules that matched before still match, and the winner is no milder  *)
(* than any of them.                                                       *)
THEOREM RulesOnlyRestrictHolds == PolicySpec => []RulesOnlyRestrict
<1>1. RulesInv => RulesOnlyRestrict
  <2> SUFFICES ASSUME RulesInv, policySet.conflict_resolution = "most_restrictive",
                      NEW e \in PolicyEvent, NEW rule \in Rule,
                      ~MatchingRaises(Append(policySet.policies, rule), e),
                      Matched(policySet.policies, e) # {}
               PROVE  LET more == [policySet EXCEPT !.policies = Append(@, rule)] IN
                      Restrictiveness(Decision(more, e).decision)
                        >= Restrictiveness(Decision(policySet, e).decision)
    BY DEF RulesOnlyRestrict
  <2> DEFINE rules == policySet.policies
             longer == Append(rules, rule)
             n == Len(rules)
             more == [policySet EXCEPT !.policies = longer]
             M == Matched(rules, e)
             N == Matched(longer, e)
  <2>1. /\ n \in Nat /\ DOMAIN rules = 1..n /\ DOMAIN longer = 1..(n + 1)
        /\ \A i \in 1..n : longer[i] = rules[i] /\ Keyed(rules[i])
        /\ longer[n + 1] = rule
    BY PolicyAssumption DEF RulesInv, RuleList, Keyed
  <2>2. Keyed(rule)
    BY PolicyAssumption DEF Keyed, KnownRules
  <2>3. M \subseteq 1..n /\ N \subseteq 1..(n + 1) /\ M \subseteq N
    BY <2>1 DEF Matched
  <2>4. \A i \in 1..(n + 1) : Keyed(longer[i])
    BY <2>1, <2>2
  <2>5. ~MatchingRaises(rules, e)
    BY <2>1 DEF MatchingRaises
  <2>6. Decision(policySet, e) = Ruling(Winner(rules, M, "most_restrictive"))
    BY <2>5 DEF Decision
  <2>7. more.policies = longer /\ more.conflict_resolution = "most_restrictive"
    BY DEF RulesInv, IsPolicySet
  <2>8. N # {}
    BY <2>3
  <2>9. Decision(more, e) = Ruling(Winner(longer, N, "most_restrictive"))
    <3> HIDE DEF more, longer
    <3> QED
      BY <2>7, <2>8 DEF Decision, longer
  <2>10. PICK w \in M : Winner(rules, M, "most_restrictive") = rules[w]
    <3>1. M # {} /\ M \subseteq 1..n /\ n \in Nat /\ \A i \in M : Keyed(rules[i])
      BY <2>1, <2>3
    <3> HIDE DEF rules, M, n
    <3>2. \E w \in M :
            /\ Winner(rules, M, "most_restrictive") = rules[w]
            /\ \A i \in M :
                Restrictiveness(rules[i].decision) <= Restrictiveness(rules[w].decision)
      BY <3>1, WinnerIsStrictest
    <3> QED
      BY <3>2
  <2>11. rules[w] = longer[w] /\ w \in N
    BY <2>1, <2>3, <2>10
  <2>12. Restrictiveness(longer[w].decision)
            <= Restrictiveness(Winner(longer, N, "most_restrictive").decision)
    <3>1. n + 1 \in Nat /\ \A i \in N : Keyed(longer[i])
      BY <2>1, <2>3, <2>4
    <3> HIDE DEF longer, N, n
    <3> QED
      BY <2>3, <2>8, <2>11, <3>1, WinnerIsStrictest
  <2>13. Restrictiveness(Decision(more, e).decision)
            >= Restrictiveness(Decision(policySet, e).decision)
    <3>1. \A d : Restrictiveness(d) \in Int
      BY DEF Restrictiveness
    <3> HIDE DEF more, longer, rules, M, N
    <3> QED
      BY <2>6, <2>9, <2>10, <2>11, <2>12, <3>1 DEF Ruling
  <2> QED
    BY <2>13
<1> QED
  BY <1>1, RulesInvHolds, PTL

(* DecidesByOneSet for any rules, events and number of threads: whatever   *)
(* is added and removed while an evaluation iterates, it returns what one  *)
(* policy set that was in force meanwhile decides.                         *)
THEOREM DecidesByOneSetHolds == PolicySpec => []DecidesByOneSet
<1>1. PolicyInit => PolicyInv
  BY PolicyAssumption DEF PolicyInit, PolicyInv, IsPolicySet, NoEvaluation, DecidesByOneSet
<1>2. PolicyInv /\ [PolicyNext]_policyVars => PolicyInv'
  <2> SUFFICES ASSUME PolicyInv, [PolicyNext]_policyVars PROVE PolicyInv'
    OBVIOUS
  <2>1. ASSUME NEW v \in Evaluation, NEW e \in PolicyEvent, BeginEvaluate(v, e)
        PROVE  PolicyInv'
    <3>1. policySet = [policySet EXCEPT !.policies = policySet.policies]
      BY DEF PolicyInv, IsPolicySet
    <3>2. Decision([policySet EXCEPT !.policies = evaluating'[v].rules], evaluating'[v].event)
            \in possible'[v]
      BY <2>1, <3>1 DEF BeginEvaluate, PolicyInv
    <3>3. ASSUME NEW w \in Evaluation, w # v
          PROVE  evaluating'[w] = evaluating[w] /\ possible'[w] = possible[w]
                    /\ ruling'[w] = ruling[w]
      BY <2>1, <3>3 DEF BeginEvaluate, PolicyInv
    <3>4. ruling'[v] = NoRuling /\ policySet' = policySet
      BY <2>1 DEF BeginEvaluate, PolicyInv
    <3>5. DecidesByOneSet'
      BY <3>3, <3>4 DEF DecidesByOneSet, PolicyInv
    <3>6. ASSUME NEW w \in Evaluation, evaluating'[w].on
          PROVE  Decision([policySet' EXCEPT !.policies = evaluating'[w].rules],
                          evaluating'[w].event) \in possible'[w]
      BY <3>2, <3>3, <3>4, <3>6 DEF PolicyInv
    <3>7. /\ evaluating' = [w \in Evaluation |-> evaluating'[w]]
          /\ possible' = [w \in Evaluation |-> possible'[w]]
          /\ ruling' = [w \in Evaluation |-> ruling'[w]]
      BY <2>1 DEF BeginEvaluate, PolicyInv
    <3>8. QED
      BY <3>4, <3>5, <3>6, <3>7 DEF PolicyInv
  <2>2. ASSUME NEW v \in Evaluation, FinishEvaluate(v) PROVE PolicyInv'
    <3>1. ruling'[v] \in possible[v] /\ ~evaluating'[v].on
      BY <2>2 DEF FinishEvaluate, RulesOf, PolicyInv, NoEvaluation
    <3>2. ASSUME NEW w \in Evaluation, w # v
          PROVE  evaluating'[w] = evaluating[w] /\ ruling'[w] = ruling[w]
      BY <2>2, <3>2 DEF FinishEvaluate, PolicyInv
    <3>3. possible' = possible /\ policySet' = policySet
      BY <2>2 DEF FinishEvaluate
    <3>4. DecidesByOneSet'
      BY <3>1, <3>2, <3>3 DEF DecidesByOneSet, PolicyInv
    <3>5. ASSUME NEW w \in Evaluation, evaluating'[w].on
          PROVE  Decision([policySet' EXCEPT !.policies = evaluating'[w].rules],
                          evaluating'[w].event) \in possible'[w]
      BY <3>1, <3>2, <3>3, <3>5 DEF PolicyInv
    <3>6. /\ evaluating' = [w \in Evaluation |-> evaluating'[w]]
          /\ ruling' = [w \in Evaluation |-> ruling'[w]]
      BY <2>2 DEF FinishEvaluate, PolicyInv
    <3>7. QED
      BY <3>3, <3>4, <3>5, <3>6 DEF PolicyInv
  <2>3. ASSUME NEW d \in Edit, StoreSet(d) PROVE PolicyInv'
    <3>1. policySet' = Rebuilt(editing[d].rules) /\ evaluating' = evaluating /\ ruling' = ruling
      BY <2>3 DEF StoreSet
    <3>2. IsPolicySet(policySet')
      BY <3>1 DEF Rebuilt, PolicyInv, IsPolicySet
    <3>3. ASSUME NEW v \in Evaluation PROVE possible[v] \subseteq possible'[v]
      BY <2>3 DEF StoreSet
    <3>4. ASSUME NEW v \in Evaluation, evaluating[v].on
          PROVE  Decision([policySet' EXCEPT !.policies = evaluating[v].rules],
                          evaluating[v].event) \in possible'[v]
      <4> DEFINE held == [policySet EXCEPT !.policies = evaluating[v].rules]
                 after == [policySet' EXCEPT !.policies = evaluating[v].rules]
      <4>1. /\ held.policies = after.policies
            /\ held.default_decision = after.default_decision
            /\ held.conflict_resolution = after.conflict_resolution
        BY <3>1 DEF Rebuilt, PolicyInv, IsPolicySet
      <4> DEFINE decided == Decision(held, evaluating[v].event)
      <4>2. decided \in possible'[v]
        BY <3>3, <3>4 DEF PolicyInv
      <4> HIDE DEF held, after
      <4>3. Decision(held, evaluating[v].event) = Decision(after, evaluating[v].event)
        BY <4>1, DecisionReads
      <4>4. QED
        BY <4>2, <4>3 DEF after
    <3>5. DecidesByOneSet'
      BY <3>1, <3>3 DEF DecidesByOneSet, PolicyInv
    <3>6. possible' = [v \in Evaluation |-> possible'[v]]
      BY <2>3 DEF StoreSet
    <3>7. QED
      BY <3>1, <3>2, <3>4, <3>5, <3>6 DEF PolicyInv
  <2>4. ASSUME UNCHANGED <<policySet, evaluating, possible, ruling>> PROVE PolicyInv'
    BY <2>4 DEF PolicyInv, DecidesByOneSet
  <2>5. QED
    BY <2>1, <2>2, <2>3, <2>4 DEF PolicyNext, BeginAdd, BeginRemove, policyVars
<1>3. QED
  BY <1>1, <1>2, PTL DEF PolicySpec, PolicyInv

-----------------------------------------------------------------------------
(***************************************************************************)
(* The session of the SDK: what a tool runs with, next to the action that   *)
(* was verified.  The arguments the callers' objects have gathered may be   *)
(* anything; the keywords of the call prevail over them.                    *)
(***************************************************************************)
LEMMA KindsOfNames ==
    ASSUME NEW name
    PROVE  KindOf(name) \in {"shell", "filesystem", "network", "git", "process", "custom"}
<1> DEFINE found == {i \in DOMAIN Kinds : Kinds[i] \in TermsOf[name]}
<1>1. CASE found = {}
  BY <1>1 DEF KindOf
<1>2. CASE found # {}
  <2>1. found \subseteq Nat /\ found \subseteq 1..5
    BY DEF Kinds
  <2>2. Min(found) \in found
    BY <1>2, <2>1, LeastExists
  <2>3. Min(found) \in 1..5
    BY <2>1, <2>2
  <2>4. \A i \in 1..5 : Kinds[i] \in {"shell", "filesystem", "network", "git", "process"}
    BY DEF Kinds
  <2> QED
    BY <1>2, <2>3, <2>4 DEF KindOf
<1> QED
  BY <1>1, <1>2

(* The keys of a kind that are among the arguments have a first one.        *)
LEMMA FirstGiven ==
    ASSUME NEW args, NEW kind \in DOMAIN TargetKeys, Given(args, TargetKeys[kind]) # {}
    PROVE  Min(Given(args, TargetKeys[kind])) \in Given(args, TargetKeys[kind])
<1>1. DOMAIN TargetKeys[kind] \subseteq Nat
  BY DEF TargetKeys
<1>2. Given(args, TargetKeys[kind]) \subseteq Nat
  BY <1>1 DEF Given
<1> QED
  BY <1>2, LeastExists

(* Each argument a name is mapped with can be seen in the action, or is one *)
(* of those the mapping displaces.                                          *)
LEMMA ArgumentsAreShown ==
    ASSUME NEW name, NEW args, NEW k \in DOMAIN args
    PROVE  \/ Shows(Infer(name, args), k, args[k])
           \/ Displaced(Infer(name, args), args, k)
<1> DEFINE kind == KindOf(name)
           action == Infer(name, args)
           ofKind == TargetKeys[kind]
           given == Given(args, ofKind)
<1>1. kind \in {"shell", "filesystem", "network", "git", "process", "custom"}
  BY KindsOfNames
<1>2. action.type = kind /\ action.target = TargetOf(kind, name, args)
  BY DEF Infer, Factory
<1>3. CASE kind = "custom"
  <2>1. action.params = args
    BY <1>3 DEF Infer, Factory
  <2> QED
    BY <2>1 DEF Shows
<1>4. CASE kind # "custom" /\ k \notin Taken(kind)
  <2>1. action.params = [j \in DOMAIN args \ Taken(kind) |-> args[j]]
    BY <1>4 DEF Infer, Factory
  <2> QED
    BY <1>4, <2>1 DEF Shows
<1>5. CASE kind # "custom" /\ k \in Taken(kind)
  <2>1. k \in ToSet(ofKind) \/ (kind = "filesystem" /\ k = "operation")
    BY <1>1, <1>5 DEF Taken
  <2>2. CASE kind = "filesystem" /\ k = "operation"
    BY <1>2, <2>2 DEF Displaced
  <2>3. CASE k \in ToSet(ofKind)
    <3>1. PICK i \in DOMAIN ofKind : ofKind[i] = k
      BY <2>3 DEF ToSet
    <3>2. i \in given
      BY <3>1 DEF Given
    <3>3. kind \in DOMAIN TargetKeys
      BY <1>1 DEF TargetKeys
    <3>4. CASE i = Min(given)
      <4>1. action.target = args[k]
        BY <1>2, <3>1, <3>2, <3>4 DEF TargetOf
      <4> QED
        BY <4>1 DEF Shows
    <3>5. CASE i # Min(given)
      <4> DEFINE j == Min(given)
      <4>1. j \in given
        BY <3>2, <3>3, FirstGiven
      <4>2. i \in Nat /\ given \subseteq Nat
        BY <3>1, <3>3 DEF Given, TargetKeys
      <4>3. j <= i /\ j \in Nat
        BY <3>2, <4>2, LeastExists
      <4>4. j < i
        BY <3>5, <4>2, <4>3
      <4> HIDE DEF j
      <4> QED
        BY <1>2, <3>1, <3>2, <4>1, <4>4 DEF Displaced
    <3> QED
      BY <3>4, <3>5
  <2> QED
    BY <2>1, <2>2, <2>3
<1> QED
  BY <1>3, <1>4, <1>5

(* The keywords of a call are among its merged arguments, as they are.      *)
LEMMA KeywordsPrevail ==
    ASSUME NEW call, NEW kwargs, NEW k \in DOMAIN kwargs
    PROVE  k \in DOMAIN Merged(call, kwargs) /\ Merged(call, kwargs)[k] = kwargs[k]
BY DEF Merged, Updated

(* However the arguments of earlier calls have piled up in a caller's tool  *)
(* call, a tool that is run with keywords is run with what the verified     *)
(* action shows of them.                                                    *)
THEOREM RunsWhatWasVerifiedHolds == SessionSpec => []RunsWhatWasVerified
<1>1. SessionInit => RunsWhatWasVerified
  BY DEF SessionInit, NoRun, RunsWhatWasVerified
<1>2. RunsWhatWasVerified /\ [SessionNext]_sessionVars => RunsWhatWasVerified'
  <2> SUFFICES ASSUME RunsWhatWasVerified, [SessionNext]_sessionVars
               PROVE  RunsWhatWasVerified'
    OBVIOUS
  <2>1. ASSUME NEW call \in ToolCall, NEW kwargs \in Keywords, NEW permitted \in BOOLEAN,
               Execute(call, kwargs, permitted)
        PROVE  RunsWhatWasVerified'
    <3> DEFINE args == Merged(call, kwargs)
               action == MapToAction(call, kwargs)
    <3>1. CASE lastRun' = NoRun
      BY <3>1 DEF NoRun, RunsWhatWasVerified
    <3>2. CASE lastRun' = Ran(call, action, args,
                              IF RunsKeywords(call.shape) THEN kwargs ELSE action.params)
      <4> SUFFICES ASSUME RunsKeywords(call.shape), NEW k \in DOMAIN kwargs
                   PROVE  Shows(action, k, kwargs[k]) \/ Displaced(action, args, k)
        BY <3>2 DEF Ran, RunsWhatWasVerified
      <4>1. action = Infer(call.name, args)
        BY DEF MapToAction, RunsKeywords
      <4>2. k \in DOMAIN args /\ args[k] = kwargs[k]
        BY KeywordsPrevail
      <4> HIDE DEF args, action
      <4> QED
        BY <4>1, <4>2, ArgumentsAreShown
    <3> QED
      BY <2>1, <3>1, <3>2 DEF Execute
  <2>2. ASSUME NEW name, NEW kwargs, NEW defaults, NEW permitted,
               Wrapped(name, kwargs, defaults, permitted)
        PROVE  RunsWhatWasVerified'
    <3> DEFINE bound == Updated(defaults, kwargs)
               action == Infer(name, bound)
    <3>1. CASE lastRun' = NoRun
      BY <3>1 DEF NoRun, RunsWhatWasVerified
    <3>2. CASE lastRun' = Ran([shape |-> "name"], action, bound, bound)
      <4> SUFFICES ASSUME NEW k \in DOMAIN bound
                   PROVE  Shows(action, k, bound[k]) \/ Displaced(action, bound, k)
        BY <3>2 DEF Ran, RunsWhatWasVerified
      <4> QED
        BY ArgumentsAreShown
    <3> QED
      BY <2>2, <3>1, <3>2 DEF Wrapped
  <2>3. ASSUME NEW call, NEW kwargs, Inspect(call, kwargs)
        PROVE  RunsWhatWasVerified'
    BY <2>3 DEF Inspect, NoRun, RunsWhatWasVerified
  <2>4. CASE lastRun' = lastRun
    BY <2>4 DEF RunsWhatWasVerified
  <2>5. ASSUME Enter \/ Close \/ Record \/ \E raised : Exit(raised)
        PROVE  lastRun' = lastRun
    BY <2>5 DEF Enter, Close, Record, Exit
  <2> QED
    BY <2>1, <2>2, <2>3, <2>4, <2>5 DEF SessionNext, sessionVars
<1> QED
  BY <1>1, <1>2, PTL DEF SessionSpec

-----------------------------------------------------------------------------
(***************************************************************************)
(* The records of the REST API.  A record is in decisions_cache before it   *)
(* is appended to a session, and nothing leaves decisions_cache; what the   *)
(* overlapping calls lose, they lose from session_db.                       *)
(***************************************************************************)
ApiRecord == [id : RecordId \cup Call, session : Dialog, agent : ApiAgent, verdict : Unverified]

ApiCall ==
    [at : {"verified", "cached", "unlisted", "listed", "asking", "answered"},
     live : BOOLEAN, kind : {"event", "verification"}, record : ApiRecord]

\* Where a call can be, by its kind, and what it has then left behind.
CallTraced(c, call, cached, waiting) ==
    /\ call.kind = "verification" => call.record.id = c
    /\ call.kind = "event" => call.at # "asking"
    /\ call.at \in {"unlisted", "listed"} => call.kind = "event"
    /\ call.at \in {"cached", "unlisted", "listed", "asking"} =>
            call.live /\ call.record.id \in cached
    /\ call.at = "asking" => call.record.verdict = "REVIEW"
    /\ c \in waiting <=> /\ call.at = "answered" /\ call.kind = "verification"
                         /\ call.live /\ call.record.verdict = "REVIEW"

CallsTraced(called, cached, waiting) ==
    /\ called \in [Call -> ApiCall \cup {NotCalled}]
    /\ waiting \subseteq Call
    /\ \A c \in Call :
        IF called[c] = NotCalled THEN c \notin waiting
        ELSE CallTraced(c, called[c], cached, waiting)

Filed(db, cached) ==
    \A s \in DOMAIN db :
        /\ db[s] \in Seq(ApiRecord)
        /\ \A i \in DOMAIN db[s] : db[s][i].session = s /\ db[s][i].id \in cached

RecordsInv ==
    /\ CallsTraced(calls, DOMAIN decisionsCache, queued)
    /\ Filed(sessionDb, DOMAIN decisionsCache)

(* The state of a call after its first step is a record of its four fields. *)
LEMMA CallMoves ==
    ASSUME NEW called \in [Call -> ApiCall \cup {NotCalled}], NEW c \in Call,
           called[c] \in ApiCall,
           NEW at \in {"verified", "cached", "unlisted", "listed", "asking", "answered"},
           NEW new, new = [called EXCEPT ![c].at = at]
    PROVE  /\ new \in [Call -> ApiCall \cup {NotCalled}]
           /\ new[c] \in ApiCall /\ new[c].at = at /\ new[c].live = called[c].live
           /\ new[c].kind = called[c].kind /\ new[c].record = called[c].record
           /\ \A d \in Call \ {c} : new[d] = called[d]
<1>1. new = [called EXCEPT ![c] = [called[c] EXCEPT !.at = at]]
  OBVIOUS
<1>2. [called[c] EXCEPT !.at = at] \in ApiCall
  BY DEF ApiCall
<1> QED
  BY <1>1, <1>2 DEF ApiCall

LEMMA NotCalledIsNoCall == NotCalled \notin ApiCall /\ NotCalled.at = "new"
BY DEF NotCalled, ApiCall

(* One call moves, the records and the queue grow or stay.                  *)
LEMMA OneMoves ==
    ASSUME NEW called, NEW new, NEW cached, NEW more, NEW waiting, NEW asked, NEW c \in Call,
           CallsTraced(called, cached, waiting), cached \subseteq more,
           new \in [Call -> ApiCall \cup {NotCalled}], new[c] \in ApiCall,
           \A d \in Call \ {c} : new[d] = called[d],
           asked \subseteq Call, \A d \in Call \ {c} : d \in asked <=> d \in waiting,
           CallTraced(c, new[c], more, asked)
    PROVE  CallsTraced(new, more, asked)
<1> SUFFICES ASSUME NEW d \in Call
             PROVE  IF new[d] = NotCalled THEN d \notin asked
                    ELSE CallTraced(d, new[d], more, asked)
  BY DEF CallsTraced
<1>1. CASE d = c
  BY <1>1, NotCalledIsNoCall
<1>2. CASE d # c
  <2>1. /\ new[d] = called[d] /\ (d \in asked <=> d \in waiting)
        /\ IF called[d] = NotCalled THEN d \notin waiting
           ELSE CallTraced(d, called[d], cached, waiting)
    BY <1>2 DEF CallsTraced
  <2> QED
    BY <2>1 DEF CallTraced
<1> QED
  BY <1>1, <1>2

(* A record appended to the list of its session.                            *)
LEMMA AppendedIsFiled ==
    ASSUME NEW db, NEW cached, Filed(db, cached), NEW r \in ApiRecord, r.id \in cached,
           NEW list \in Seq(ApiRecord),
           \A i \in DOMAIN list : list[i].session = r.session /\ list[i].id \in cached
    PROVE  /\ Append(list, r) \in Seq(ApiRecord)
           /\ \A i \in DOMAIN Append(list, r) :
                Append(list, r)[i].session = r.session /\ Append(list, r)[i].id \in cached
OBVIOUS

LEMMA FiledInMore ==
    ASSUME NEW db, NEW cached, NEW more, Filed(db, cached), cached \subseteq more
    PROVE  Filed(db, more)
BY DEF Filed

LEMMA FirstStepTraced ==
    ASSUME RecordsInv, NEW c \in Call, calls[c].at = "new", NEW call \in ApiCall,
           call.at = "verified", call.kind = "verification" => call.record.id = c,
           calls' = [calls EXCEPT ![c] = call], UNCHANGED <<decisionsCache, sessionDb, queued>>
    PROVE  RecordsInv'
<1>1. calls \in [Call -> ApiCall \cup {NotCalled}] /\ queued \subseteq Call
  BY DEF RecordsInv, CallsTraced
<1>2. calls[c] = NotCalled
  BY <1>1 DEF ApiCall
<1>3. c \notin queued
  BY <1>2 DEF RecordsInv, CallsTraced
<1>4. CallTraced(c, call, DOMAIN decisionsCache, queued)
  BY <1>3 DEF CallTraced
<1>5. CallsTraced(calls', DOMAIN decisionsCache, queued)
  BY <1>1, <1>4, OneMoves DEF RecordsInv
<1> QED
  BY <1>5 DEF RecordsInv

(* Each later step of a call.                                               *)
LEMMA LaterStepTraced ==
    ASSUME RecordsInv, NEW c \in Call,
           \/ AnswerDryRun(c) \/ CacheDecision(c) \/ LookForSession(c) \/ StartSession(c)
           \/ AppendEvent(c) \/ AppendDecision(c) \/ CreateRequest(c)
    PROVE  RecordsInv'
<1> DEFINE r == calls[c].record
           cached == DOMAIN decisionsCache
<1>1. calls \in [Call -> ApiCall \cup {NotCalled}] /\ queued \subseteq Call
  BY DEF RecordsInv, CallsTraced
<1>2. calls[c].at # "new"
  BY DEF AnswerDryRun, CacheDecision, LookForSession, StartSession, AppendEvent, AppendDecision,
         CreateRequest
<1>3. calls[c] \in ApiCall /\ calls[c] # NotCalled
  BY <1>1, <1>2, NotCalledIsNoCall
<1>4. CallTraced(c, calls[c], cached, queued)
  BY <1>3 DEF RecordsInv, CallsTraced
<1>5. r \in ApiRecord /\ calls[c].live \in BOOLEAN
  BY <1>3 DEF ApiCall
<1>6. Filed(sessionDb, cached)
  BY DEF RecordsInv
<1>7. ASSUME NEW at \in {"cached", "unlisted", "listed", "asking", "answered"}, Moves(c, at),
             cached \subseteq DOMAIN decisionsCache', queued' \subseteq Call,
             \A d \in Call \ {c} : d \in queued' <=> d \in queued,
             \A call \in ApiCall :
                /\ call.at = at /\ call.live = calls[c].live
                /\ call.kind = calls[c].kind /\ call.record = r
                => CallTraced(c, call, DOMAIN decisionsCache', queued'),
             Filed(sessionDb', DOMAIN decisionsCache')
      PROVE  RecordsInv'
  <2>1. /\ calls' \in [Call -> ApiCall \cup {NotCalled}]
        /\ calls'[c] \in ApiCall /\ calls'[c].at = at /\ calls'[c].live = calls[c].live
        /\ calls'[c].kind = calls[c].kind /\ calls'[c].record = r
        /\ \A d \in Call \ {c} : calls'[d] = calls[d]
    <3>1. calls' = [calls EXCEPT ![c].at = at]
      BY <1>7 DEF Moves
    <3>2. at \in {"verified", "cached", "unlisted", "listed", "asking", "answered"}
      BY <1>7
    <3> QED
      BY <1>1, <1>3, <3>1, <3>2, CallMoves
  <2>2. CallTraced(c, calls'[c], DOMAIN decisionsCache', queued')
    BY <1>7, <2>1
  <2>3. CallsTraced(calls', DOMAIN decisionsCache', queued')
    BY <1>7, <2>1, <2>2, OneMoves DEF RecordsInv
  <2> QED
    BY <1>7, <2>3 DEF RecordsInv
<1>8. CASE AnswerDryRun(c)
  <2>1. Moves(c, "answered") /\ ~calls[c].live /\ calls[c].at = "verified"
        /\ UNCHANGED <<decisionsCache, sessionDb, queued>>
    BY <1>8 DEF AnswerDryRun
  <2> QED
    BY <1>1, <1>4, <1>6, <1>7, <2>1 DEF CallTraced
<1>9. CASE CacheDecision(c)
  <2>1. /\ Moves(c, "cached") /\ calls[c].live /\ calls[c].at = "verified"
        /\ UNCHANGED <<sessionDb, queued>>
        /\ DOMAIN decisionsCache' = cached \cup {r.id}
    BY <1>9 DEF CacheDecision, Put
  <2>2. Filed(sessionDb', DOMAIN decisionsCache')
    BY <1>6, <2>1, FiledInMore
  <2>3. ASSUME NEW call \in ApiCall, call.at = "cached", call.live = calls[c].live,
               call.kind = calls[c].kind, call.record = r
        PROVE  CallTraced(c, call, DOMAIN decisionsCache', queued')
    BY <1>4, <2>1, <2>3 DEF CallTraced
  <2>4. /\ cached \subseteq DOMAIN decisionsCache' /\ queued' = queued
    BY <2>1
  <2> HIDE DEF r, cached
  <2> QED
    BY <1>1, <1>7, <2>1, <2>2, <2>3, <2>4
<1>10. CASE LookForSession(c)
  <2>1. PICK at \in {"listed", "unlisted"} : Moves(c, at)
    BY <1>10 DEF LookForSession
  <2>2. /\ calls[c].at = "cached" /\ calls[c].kind = "event"
        /\ UNCHANGED <<decisionsCache, sessionDb, queued>>
    BY <1>10 DEF LookForSession
  <2> QED
    BY <1>1, <1>4, <1>6, <1>7, <2>1, <2>2 DEF CallTraced
<1>11. CASE StartSession(c)
  <2>1. /\ Moves(c, "listed") /\ calls[c].at = "unlisted"
        /\ UNCHANGED <<decisionsCache, queued>>
        /\ sessionDb' = Put(sessionDb, r.session, <<>>)
    BY <1>11 DEF StartSession
  <2>2. Filed(sessionDb', cached)
    BY <1>6, <2>1 DEF Filed, Put
  <2> QED
    BY <1>1, <1>4, <1>7, <2>1, <2>2 DEF CallTraced
<1>12. CASE AppendEvent(c)
  <2>1. /\ Moves(c, "answered") /\ calls[c].at = "listed"
        /\ UNCHANGED <<decisionsCache, queued>>
        /\ sessionDb' = [sessionDb EXCEPT ![r.session] = Append(@, r)]
    BY <1>12 DEF AppendEvent
  <2>2. r.id \in cached /\ calls[c].kind = "event"
    BY <1>4, <2>1 DEF CallTraced
  <2>3. Filed(sessionDb', cached)
    <3> SUFFICES ASSUME NEW s \in DOMAIN sessionDb
                 PROVE  /\ sessionDb'[s] \in Seq(ApiRecord)
                        /\ \A i \in DOMAIN sessionDb'[s] :
                                sessionDb'[s][i].session = s /\ sessionDb'[s][i].id \in cached
      BY <2>1 DEF Filed
    <3>1. CASE s = r.session
      <4>1. sessionDb'[s] = Append(sessionDb[s], r)
        BY <2>1, <3>1
      <4> HIDE DEF r
      <4> QED
        BY <1>5, <1>6, <2>2, <3>1, <4>1, AppendedIsFiled DEF Filed
    <3>2. CASE s # r.session
      BY <1>6, <2>1, <3>2 DEF Filed
    <3> QED
      BY <3>1, <3>2
  <2> QED
    BY <1>1, <1>4, <1>7, <2>1, <2>2, <2>3 DEF CallTraced
<1>13. CASE AppendDecision(c)
  <2> DEFINE list == IF r.session \in DOMAIN sessionDb THEN sessionDb[r.session] ELSE <<>>
  <2>1. /\ calls[c].at = "cached" /\ calls[c].kind = "verification"
        /\ UNCHANGED <<decisionsCache, queued>>
        /\ sessionDb' = Put(sessionDb, r.session, Append(list, r))
        /\ Moves(c, IF r.verdict = "REVIEW" THEN "asking" ELSE "answered")
    BY <1>13 DEF AppendDecision
  <2>2. r.id \in cached /\ calls[c].live
    BY <1>4, <2>1 DEF CallTraced
  <2>3. /\ list \in Seq(ApiRecord)
        /\ \A i \in DOMAIN list : list[i].session = r.session /\ list[i].id \in cached
    BY <1>6 DEF Filed
  <2>4. Filed(sessionDb', cached)
    <3> HIDE DEF r, list
    <3> QED
      BY <1>5, <1>6, <2>1, <2>2, <2>3, AppendedIsFiled DEF Filed, Put
  <2>5. CASE r.verdict = "REVIEW"
    <3>1. ASSUME NEW call \in ApiCall, call.at = "asking", call.live = calls[c].live,
                 call.kind = calls[c].kind, call.record = r
          PROVE  CallTraced(c, call, DOMAIN decisionsCache', queued')
      BY <1>4, <2>1, <2>2, <2>5, <3>1 DEF CallTraced
    <3>2. Moves(c, "asking")
      BY <2>1, <2>5
    <3> HIDE DEF r
    <3> QED
      BY <1>1, <1>7, <2>1, <2>4, <3>1, <3>2
  <2>6. CASE r.verdict # "REVIEW"
    BY <1>1, <1>4, <1>7, <2>1, <2>2, <2>4, <2>6 DEF CallTraced
  <2> QED
    BY <2>5, <2>6
<1>14. CASE CreateRequest(c)
  <2>1. /\ Moves(c, "answered") /\ calls[c].at = "asking" /\ queued' = queued \cup {r.id}
        /\ UNCHANGED <<decisionsCache, sessionDb>>
    BY <1>14 DEF CreateRequest
  <2>2. /\ calls[c].kind = "verification" /\ r.id = c /\ calls[c].live /\ r.verdict = "REVIEW"
    BY <1>3, <1>4, <2>1 DEF CallTraced, ApiCall
  <2> QED
    BY <1>1, <1>4, <1>6, <1>7, <2>1, <2>2 DEF CallTraced
<1> QED
  BY <1>8, <1>9, <1>10, <1>11, <1>12, <1>13, <1>14

SessionsAreFinite == IsFiniteSet(DOMAIN sessionDb)

(* Every call adds at most one session.                                     *)
LEMMA SessionsStayFinite ==
    ASSUME SessionsAreFinite, [RecordsNext]_recordVars
    PROVE  SessionsAreFinite'
<1>1. ASSUME NEW c \in Call, StartSession(c)
      PROVE  DOMAIN sessionDb' = DOMAIN sessionDb \cup {calls[c].record.session}
  BY <1>1 DEF StartSession, Put
<1>2. ASSUME NEW c \in Call, AppendDecision(c)
      PROVE  DOMAIN sessionDb' = DOMAIN sessionDb \cup {calls[c].record.session}
  BY <1>2 DEF AppendDecision, Put
<1>3. ASSUME NEW c \in Call, AppendEvent(c)
      PROVE  DOMAIN sessionDb' = DOMAIN sessionDb
  BY <1>3 DEF AppendEvent
<1>4. \/ DOMAIN sessionDb' = DOMAIN sessionDb
      \/ \E s : DOMAIN sessionDb' = DOMAIN sessionDb \cup {s}
  BY <1>1, <1>2, <1>3 DEF RecordsNext, recordVars, Ingest, Evaluate, AnswerDryRun, CacheDecision,
         LookForSession, CreateRequest
<1> QED
  BY <1>4, FS_AddElement DEF SessionsAreFinite

(* The alarms of an agent are among its events, and these are finitely many *)
(* in every session.                                                        *)
LEMMA AlarmsAreEvents ==
    ASSUME RecordsInv, SessionsAreFinite
    PROVE  ProfilesAddUp
<1> SUFFICES ASSUME NEW agent \in ApiAgent
             PROVE  Profile(agent).total_anomalies <= Profile(agent).total_events
  BY DEF ProfilesAddUp
<1> DEFINE sessions == {s \in DOMAIN sessionDb : Own(agent, s) # {}}
           alarming == {e \in OwnEvents(agent) : sessionDb[e[1]][e[2]].verdict \in Alarms}
           bySession == {{s} \X Own(agent, s) : s \in DOMAIN sessionDb}
<1>1. IsFiniteSet(OwnEvents(agent))
  <2>1. ASSUME NEW s \in DOMAIN sessionDb
        PROVE  IsFiniteSet({s} \X Own(agent, s))
    <3>1. sessionDb[s] \in Seq(ApiRecord)
      BY DEF RecordsInv, Filed
    <3>2. DOMAIN sessionDb[s] = 1..Len(sessionDb[s]) /\ Len(sessionDb[s]) \in Nat
      BY <3>1
    <3>3. IsFiniteSet(1..Len(sessionDb[s]))
      BY <3>2, FS_Interval
    <3>4. Own(agent, s) \in SUBSET (1..Len(sessionDb[s]))
      BY <3>2 DEF Own
    <3>5. IsFiniteSet(Own(agent, s))
      BY <3>3, <3>4, FS_Subset
    <3>6. IsFiniteSet({s})
      BY FS_Singleton
    <3> QED
      BY <3>5, <3>6, FS_Product
  <2>2. IsFiniteSet(bySession)
    <3> DEFINE pairs == [s \in DOMAIN sessionDb |-> {s} \X Own(agent, s)]
    <3>1. pairs \in Surjection(DOMAIN sessionDb, bySession)
      BY DEF Surjection
    <3> HIDE DEF pairs, bySession
    <3> QED
      BY <3>1, FS_Surjection DEF SessionsAreFinite
  <2>3. \A T \in bySession : IsFiniteSet(T)
    BY <2>1
  <2>4. IsFiniteSet(UNION bySession)
    <3> HIDE DEF bySession
    <3> QED
      BY <2>2, <2>3, FS_UNION
  <2> QED
    BY <2>4 DEF OwnEvents
<1>2. alarming \in SUBSET OwnEvents(agent)
  OBVIOUS
<1>3. Cardinality(alarming) <= Cardinality(OwnEvents(agent))
  <2> HIDE DEF alarming
  <2> QED
    BY <1>1, <1>2, FS_Subset
<1>4. CASE sessions # {}
  <2>1. Profile(agent).total_events = Cardinality(OwnEvents(agent))
    BY <1>4 DEF Profile
  <2>2. Profile(agent).total_anomalies = Cardinality(alarming)
    BY <1>4 DEF Profile
  <2> QED
    BY <1>3, <2>1, <2>2
<1>5. CASE sessions = {}
  BY <1>5 DEF Profile
<1> QED
  BY <1>4, <1>5

(* Every event that a listing shows is found by its id and counted in its   *)
(* agent's profile, no profile has more alarms than events, and every       *)
(* verdict to review that was answered waits, however the calls overlap.    *)
THEOREM ListedIsFoundHolds == RecordsSpec => []ListedIsFound
<1>1. RecordsInit => RecordsInv
  BY NotCalledIsNoCall DEF RecordsInit, RecordsInv, CallsTraced, Filed
<1>2. RecordsInv /\ [RecordsNext]_recordVars => RecordsInv'
  <2> SUFFICES ASSUME RecordsInv, [RecordsNext]_recordVars
               PROVE  RecordsInv'
    OBVIOUS
  <2>1. ASSUME NEW c \in Call, NEW s \in Dialog, NEW agent \in ApiAgent, NEW verdict \in Unverified,
               NEW id \in RecordId \cup {c}, Ingest(c, id, s, agent, verdict)
        PROVE  RecordsInv'
    <3> DEFINE call == [at |-> "verified", live |-> TRUE, kind |-> "event",
                        record |-> [id |-> id, session |-> s, agent |-> agent, verdict |-> verdict]]
    <3>1. call \in ApiCall
      BY DEF ApiCall, ApiRecord
    <3> QED
      BY <2>1, <3>1, FirstStepTraced DEF Ingest
  <2>2. ASSUME NEW c \in Call, NEW s \in Dialog, NEW agent \in ApiAgent, NEW verdict \in Unverified,
               NEW dry_run \in BOOLEAN, Evaluate(c, s, agent, verdict, dry_run)
        PROVE  RecordsInv'
    <3> DEFINE call == [at |-> "verified", live |-> ~dry_run, kind |-> "verification",
                        record |-> [id |-> c, session |-> s, agent |-> agent, verdict |-> verdict]]
    <3>1. call \in ApiCall
      BY DEF ApiCall, ApiRecord
    <3> QED
      BY <2>2, <3>1, FirstStepTraced DEF Evaluate
  <2>3. CASE UNCHANGED recordVars
    BY <2>3 DEF recordVars, RecordsInv
  <2> QED
    BY <2>1, <2>2, <2>3, LaterStepTraced DEF RecordsNext
<1>3. RecordsInv => EventsAreFound
  <2> SUFFICES ASSUME RecordsInv, NEW r \in ListEvents("any", "any")
               PROVE  /\ r.id \in DOMAIN decisionsCache /\ GetEvent(r.id) # {}
                      /\ r.session \in Profile(r.agent).sessions
    BY DEF EventsAreFound
  <2>1. PICK s \in DOMAIN sessionDb : \E i \in DOMAIN sessionDb[s] : sessionDb[s][i] = r
    BY DEF ListEvents, RecordsOf
  <2>2. PICK i \in DOMAIN sessionDb[s] : sessionDb[s][i] = r
    BY <2>1
  <2>3. r.session = s /\ r.id \in DOMAIN decisionsCache
    BY <2>2 DEF RecordsInv, Filed
  <2>4. GetEvent(r.id) # {}
    BY <2>3 DEF GetEvent
  <2>5. s \in Profile(r.agent).sessions
    <3> DEFINE sessions == {q \in DOMAIN sessionDb : Own(r.agent, q) # {}}
    <3>1. s \in sessions
      BY <2>2 DEF Own
    <3>2. Profile(r.agent).sessions = sessions
      BY <3>1 DEF Profile
    <3> QED
      BY <3>1, <3>2
  <2> QED
    BY <2>3, <2>4, <2>5
<1>4. RecordsInv => ReviewsWait
  BY DEF RecordsInv, CallsTraced, CallTraced, ReviewsWait, NotCalled
<1>5. RecordsInit => SessionsAreFinite
  BY FS_EmptySet DEF RecordsInit, SessionsAreFinite
<1>6. RecordsInv /\ SessionsAreFinite => ListedIsFound
  BY <1>3, <1>4, AlarmsAreEvents DEF ListedIsFound
<1> QED
  BY <1>1, <1>2, <1>5, <1>6, SessionsStayFinite, PTL DEF RecordsSpec

-----------------------------------------------------------------------------
(* Approvals of the enterprise edition.                                    *)

(* Roles whose permissions include approval:approve.                       *)
Approver == {"security_engineer", "org_admin", "super_admin"}

(* Policies name only roles that hold approval:approve: what DualControl   *)
(* says of AccessControlEvaluator supposes it.                             *)
ApproversOnly == \A policy \in Policy : policy.roles \subseteq Approver

Escalation ==
    [status : {"PENDING", "APPROVED", "REJECTED", "EXPIRED"}, partition : Partition,
     agent : Principal, required : Nat \ {0}, approvedBy : Seq(Principal),
     rejectedBy : Principal \cup {NoOne}, expires : Nat]

Draft == [partition : Partition, required : Nat \ {0}, expires : Nat]

(* Types of the manager of approvals.                                      *)
EscalationTypeOK ==
    /\ policies \in [Partition -> Policy \cup {NoPolicy}]
    /\ escalations \in [Request -> Escalation \cup {NoEscalation}]
    /\ creating \in [Creator -> Draft \cup {NotCreating}]
    /\ time \in Nat

(* The signatures of one request: of principals with an approver's role    *)
(* where the policies name no other, never of the agent, all different,    *)
(* and as many as the status says.                                         *)
WellSigned(e) ==
    /\ \A i \in DOMAIN e.approvedBy :
            /\ ApproversOnly => RolesOf[e.approvedBy[i]] \cap Approver # {}
            /\ e.approvedBy[i] # e.agent
    /\ \A i, j \in DOMAIN e.approvedBy : i # j => e.approvedBy[i] # e.approvedBy[j]
    /\ e.status = "APPROVED" => Len(e.approvedBy) >= e.required
    /\ e.status = "PENDING" => Len(e.approvedBy) < e.required

EscalationInv ==
    /\ EscalationTypeOK
    /\ \A r \in Request : escalations[r] # NoEscalation => WellSigned(escalations[r])

-----------------------------------------------------------------------------
(* The policy in force, default or not, is one an administrator could have *)
(* set.                                                                    *)
LEMMA PolicyInForce ==
    ASSUME EscalationTypeOK, NEW p \in Partition
    PROVE  /\ GetApprovalPolicy(p) \in ApprovalPolicy
           /\ ApproversOnly => GetApprovalPolicy(p).roles \subseteq Approver
<1>1. CASE policies[p] # NoPolicy
  <2>1. policies[p] \in Policy
    BY <1>1 DEF EscalationTypeOK
  <2>2. QED
    BY <1>1, <2>1, EnterpriseAssumption DEF GetApprovalPolicy, ApproversOnly
<1>2. CASE policies[p] = NoPolicy
  BY <1>2, EnterpriseAssumption DEF GetApprovalPolicy, ApprovalPolicy, Approver, Role
<1>3. QED
  BY <1>1, <1>2

(* A principal whose signature approve accepts has an approver's role, if  *)
(* the policies name no other.                                             *)
LEMMA SignerIsApprover ==
    ASSUME EscalationTypeOK, NEW e \in Escalation, NEW by \in Principal, HoldsRole(by, e)
    PROVE  ApproversOnly => RolesOf[by] \cap Approver # {}
<1>1. e.partition \in Partition
  BY DEF Escalation
<1>2. ApproversOnly =>
        GetApprovalPolicy(e.partition).roles \cup {"super_admin"} \subseteq Approver
  BY <1>1, PolicyInForce DEF Approver
<1>3. QED
  BY <1>2 DEF HoldsRole

(* One more signature, of somebody new, keeps a request well signed.       *)
LEMMA SigningKeepsOrder ==
    ASSUME NEW e \in Escalation, NEW by \in Principal,
           WellSigned(e), e.status = "PENDING", by # e.agent, ~HasSigned(by, e),
           ApproversOnly => RolesOf[by] \cap Approver # {}
    PROVE  Signed(e, by) \in Escalation /\ WellSigned(Signed(e, by))
<1> DEFINE s == Append(e.approvedBy, by)
           f == Signed(e, by)
<1>1. e.approvedBy \in Seq(Principal) /\ e.required \in Nat /\ e.agent \in Principal
  BY DEF Escalation
<1>2. s \in Seq(Principal) /\ Len(s) = Len(e.approvedBy) + 1
  BY <1>1
<1>3. f \in Escalation
  BY <1>2 DEF Signed, Escalation
<1>4. f.approvedBy = s /\ f.agent = e.agent /\ f.required = e.required
  BY DEF Signed, Escalation
<1>5. f.status = IF Len(s) >= e.required THEN "APPROVED" ELSE "PENDING"
  BY DEF Signed, Escalation
<1>6. DOMAIN s = 1..Len(e.approvedBy) + 1 /\ DOMAIN e.approvedBy = 1..Len(e.approvedBy)
  BY <1>1, <1>2
<1>7. \A i \in DOMAIN s :
        s[i] = IF i \in DOMAIN e.approvedBy THEN e.approvedBy[i] ELSE by
  BY <1>1, <1>6
<1>8. \A i \in DOMAIN e.approvedBy : e.approvedBy[i] # by
  BY DEF HasSigned
<1>9. \A i \in DOMAIN s :
        (ApproversOnly => RolesOf[s[i]] \cap Approver # {}) /\ s[i] # e.agent
  BY <1>7 DEF WellSigned
<1>10. ASSUME NEW i \in DOMAIN s, NEW j \in DOMAIN s, i # j
       PROVE  s[i] # s[j]
  <2>1. i \in DOMAIN e.approvedBy \/ j \in DOMAIN e.approvedBy
    BY <1>10, <1>6, <1>1
  <2>2. QED
    BY <2>1, <1>10, <1>7, <1>8 DEF WellSigned
<1>11. QED
  BY <1>3, <1>4, <1>5, <1>9, <1>10, <1>2, <1>1 DEF WellSigned

-----------------------------------------------------------------------------
LEMMA EscalationInitInv == EscalationInit => EscalationInv
<1>1. 0 \in Nat
  OBVIOUS
<1>2. QED
  BY <1>1 DEF EscalationInit, EscalationInv, EscalationTypeOK, NoEscalation

(* What expires was PENDING, and keeps its signatures.                     *)
LEMMA ExpiryKeepsOrder ==
    ASSUME NEW e \in Escalation \cup {NoEscalation}, e # NoEscalation => WellSigned(e)
    PROVE  /\ EvaluateTimeout(e) \in Escalation \cup {NoEscalation}
           /\ EvaluateTimeout(e) # NoEscalation => WellSigned(EvaluateTimeout(e))
<1>1. CASE ~TimedOut(e)
  BY <1>1 DEF EvaluateTimeout
<1>2. CASE TimedOut(e)
  <2>1. e \in Escalation /\ EvaluateTimeout(e) = [e EXCEPT !.status = "EXPIRED"]
    BY <1>2 DEF TimedOut, EvaluateTimeout, NoEscalation
  <2>2. /\ EvaluateTimeout(e) \in Escalation
        /\ EvaluateTimeout(e).approvedBy = e.approvedBy
        /\ EvaluateTimeout(e).agent = e.agent
        /\ EvaluateTimeout(e).status = "EXPIRED"
    BY <2>1 DEF Escalation
  <2>3. e # NoEscalation
    BY <1>2 DEF TimedOut, NoEscalation
  <2>4. QED
    BY <2>2, <2>3 DEF WellSigned
<1>3. QED
  BY <1>1, <1>2

(* Storing a well signed request keeps the invariant.                      *)
LEMMA StoreKeepsInv ==
    ASSUME EscalationInv, NEW r \in Request, NEW e \in Escalation, WellSigned(e), Store(r, e)
    PROVE  EscalationInv'
<1>1. EscalationTypeOK'
  BY DEF EscalationInv, EscalationTypeOK, Store
<1>2. \A q \in Request : escalations'[q] = IF q = r THEN e ELSE escalations[q]
  BY DEF EscalationInv, EscalationTypeOK, Store
<1>3. QED
  BY <1>1, <1>2 DEF EscalationInv, WellSigned

LEMMA ExpireAllKeepsInv ==
    ASSUME EscalationInv, NEW rs, ExpireAll(rs)
    PROVE  EscalationInv'
<1>1. \A q \in Request :
        escalations'[q] = IF q \in rs THEN EvaluateTimeout(escalations[q]) ELSE escalations[q]
  BY DEF ExpireAll
<1>2. \A q \in Request :
        /\ escalations[q] \in Escalation \cup {NoEscalation}
        /\ escalations[q] # NoEscalation => WellSigned(escalations[q])
  BY DEF EscalationInv, EscalationTypeOK
<1>3. \A q \in Request :
        /\ escalations'[q] \in Escalation \cup {NoEscalation}
        /\ escalations'[q] # NoEscalation => WellSigned(escalations'[q])
  BY <1>1, <1>2, ExpiryKeepsOrder
<1>4. escalations' \in [Request -> Escalation \cup {NoEscalation}]
  BY <1>3 DEF ExpireAll
<1>5. QED
  BY <1>3, <1>4 DEF EscalationInv, EscalationTypeOK, ExpireAll, WellSigned

(* The conjunct of the invariant that only speaks of the requests.         *)
LEMMA SameRequestsKeepInv ==
    ASSUME EscalationInv, UNCHANGED escalations, EscalationTypeOK'
    PROVE  EscalationInv'
BY DEF EscalationInv, WellSigned

LEMMA EscalationStep ==
    ASSUME EscalationInv, [EscalationNext]_escalationVars
    PROVE  EscalationInv'
<1> USE DEF EscalationInv
<1>1. ASSUME NEW p \in Partition, NEW policy \in Policy, SetApprovalPolicy(p, policy)
      PROVE  EscalationInv'
  <2>1. EscalationTypeOK'
    BY <1>1 DEF SetApprovalPolicy, EscalationTypeOK
  <2>2. QED
    BY <2>1, <1>1, SameRequestsKeepInv DEF SetApprovalPolicy
<1>2. ASSUME NEW c \in Creator, NEW p \in Partition, BeginCreate(c, p)
      PROVE  EscalationInv'
  <2>1. GetApprovalPolicy(p) \in ApprovalPolicy
    BY PolicyInForce
  <2>2. [partition |-> p, required |-> GetApprovalPolicy(p).minApprovers,
         expires |-> time + GetApprovalPolicy(p).timeout] \in Draft
    BY <2>1 DEF ApprovalPolicy, Draft, EscalationTypeOK
  <2>3. EscalationTypeOK'
    BY <1>2, <2>2 DEF BeginCreate, EscalationTypeOK
  <2>4. QED
    BY <2>3, <1>2, SameRequestsKeepInv DEF BeginCreate
<1>3. ASSUME NEW c \in Creator, NEW r \in Request, NEW agent \in Principal,
             FinishCreate(c, r, agent)
      PROVE  EscalationInv'
  <2> DEFINE e == [status |-> "PENDING", partition |-> creating[c].partition,
                   agent |-> agent, required |-> creating[c].required,
                   approvedBy |-> <<>>, rejectedBy |-> NoOne,
                   expires |-> creating[c].expires]
  <2>1. creating[c] \in Draft
    BY <1>3 DEF FinishCreate, EscalationTypeOK
  <2>2. e \in Escalation
    BY <2>1 DEF Draft, Escalation
  <2>3. WellSigned(e)
    BY <2>1 DEF WellSigned, Draft
  <2>4. escalations' = [escalations EXCEPT ![r] = e]
    BY <1>3 DEF FinishCreate
  <2>5. EscalationTypeOK'
    BY <1>3, <2>2, <2>4 DEF FinishCreate, EscalationTypeOK
  <2>6. \A q \in Request : escalations'[q] = IF q = r THEN e ELSE escalations[q]
    BY <2>4 DEF EscalationTypeOK
  <2> HIDE DEF e
  <2>7. QED
    BY <2>3, <2>5, <2>6 DEF WellSigned
<1>4. ASSUME NEW r \in Request, GetEscalation(r)
      PROVE  EscalationInv'
  BY <1>4, ExpireAllKeepsInv DEF GetEscalation
<1>5. ASSUME NEW r \in Request, RefuseOverdue(r)
      PROVE  EscalationInv'
  <2>1. escalations[r] \in Escalation /\ escalations[r] # NoEscalation
    BY <1>5 DEF RefuseOverdue, TimedOut, EscalationTypeOK, NoEscalation
  <2>2. EvaluateTimeout(escalations[r]) # NoEscalation
    BY <1>5, <2>1 DEF RefuseOverdue, EvaluateTimeout, Escalation, NoEscalation
  <2>3. EvaluateTimeout(escalations[r]) \in Escalation /\ WellSigned(EvaluateTimeout(escalations[r]))
    BY <2>1, <2>2, ExpiryKeepsOrder
  <2>4. QED
    BY <2>3, <1>5, StoreKeepsInv DEF RefuseOverdue
<1>6. CASE ListPendingEscalations
  BY <1>6, ExpireAllKeepsInv DEF ListPendingEscalations
<1>7. ASSUME NEW r \in Request, NEW by \in Principal, Approve(r, by)
      PROVE  EscalationInv'
  <2>1. escalations[r] \in Escalation /\ escalations[r] # NoEscalation
    BY <1>7 DEF Approve, EscalationTypeOK, NoEscalation
  <2>2. ApproversOnly => RolesOf[by] \cap Approver # {}
    BY <1>7, <2>1, SignerIsApprover DEF Approve
  <2>3. Signed(escalations[r], by) \in Escalation /\ WellSigned(Signed(escalations[r], by))
    BY <1>7, <2>1, <2>2, SigningKeepsOrder DEF Approve
  <2>4. QED
    BY <2>3, <1>7, StoreKeepsInv DEF Approve
<1>8. ASSUME NEW r \in Request, NEW by \in Principal, Reject(r, by)
      PROVE  EscalationInv'
  <2> DEFINE e == escalations[r]
             f == [e EXCEPT !.status = "REJECTED", !.rejectedBy = by]
  <2>1. e \in Escalation /\ e # NoEscalation
    BY <1>8 DEF Reject, EscalationTypeOK, NoEscalation
  <2>2. /\ f \in Escalation /\ f.status = "REJECTED"
        /\ f.approvedBy = e.approvedBy /\ f.agent = e.agent
    BY <2>1 DEF Escalation
  <2>3. WellSigned(f)
    BY <2>1, <2>2 DEF WellSigned
  <2>4. QED
    BY <2>2, <2>3, <1>8, StoreKeepsInv DEF Reject
<1>9. CASE PassTime
  <2>1. EscalationTypeOK'
    BY <1>9 DEF PassTime, EscalationTypeOK
  <2>2. QED
    BY <2>1, <1>9, SameRequestsKeepInv DEF PassTime
<1>10. CASE UNCHANGED escalationVars
  BY <1>10 DEF escalationVars, EscalationTypeOK, WellSigned
<1>11. QED
  BY <1>1, <1>2, <1>3, <1>4, <1>5, <1>6, <1>7, <1>8, <1>9, <1>10 DEF EscalationNext

(* AccessControlEvaluator grants the signature of anyone with an           *)
(* approver's role on a request of somebody else: they are of one tenant,  *)
(* and a developer with such a role has one of those that may act in       *)
(* production.                                                             *)
LEMMA ApproversAreGranted ==
    ASSUME NEW e, NEW by \in Principal, RolesOf[by] \cap Approver # {}, by # e.agent
    PROVE  Granted(SubjectOf(by), "approval:approve", ResourceOf(e))
<1>1. PICK role \in RolesOf[by] : role \in Approver
  OBVIOUS
<1>2. RolesOf[by] \subseteq Role
  BY EnterpriseAssumption
<1>3. RolePermissions[role] \subseteq ResolvePermissions(SubjectOf(by))
  BY <1>1 DEF ResolvePermissions, SubjectOf
<1>4. {"*", "approval:approve"} \cap RolePermissions[role] # {}
  BY <1>1 DEF Approver, RolePermissions
<1>5. ~CrossesTenants(SubjectOf(by), ResourceOf(e))
  BY DEF CrossesTenants, SubjectOf, ResourceOf
<1>6. ~DeveloperInProduction(SubjectOf(by), "approval:approve", ResourceOf(e))
  BY DEF DeveloperInProduction, SubjectOf, Approver
<1>7. ~ApprovesOwnRequest(SubjectOf(by), "approval:approve", ResourceOf(e))
  BY DEF ApprovesOwnRequest, SubjectOf, ResourceOf
<1>8. QED
  BY <1>3, <1>4, <1>5, <1>6, <1>7 DEF Granted

(* DualControl for any requests, principals, policies and partitions, of   *)
(* policies that name only roles with approval:approve: a request is       *)
(* APPROVED with as many signatures as it asked for, of different          *)
(* principals, each of whom AccessControlEvaluator would let approve it.   *)
THEOREM DualControlHolds ==
    ASSUME ApproversOnly
    PROVE  EscalationSpec => []DualControl
<1>1. EscalationInv => DualControl
  <2> SUFFICES ASSUME EscalationInv, NEW r \in Request, escalations[r] # NoEscalation,
                      NEW i \in DOMAIN escalations[r].approvedBy
               PROVE  Granted(SubjectOf(escalations[r].approvedBy[i]), "approval:approve",
                              ResourceOf(escalations[r]))
    BY DEF DualControl, EscalationInv, WellSigned
  <2>1. escalations[r] \in Escalation /\ WellSigned(escalations[r])
    BY DEF EscalationInv, EscalationTypeOK
  <2>2. escalations[r].approvedBy[i] \in Principal
    BY <2>1 DEF Escalation
  <2>3. QED
    BY <2>1, <2>2, ApproversAreGranted DEF WellSigned
<1>2. EscalationInv /\ [EscalationNext]_escalationVars => EscalationInv'
  BY EscalationStep
<1>3. QED
  BY EscalationInitInv, <1>1, <1>2, PTL DEF EscalationSpec

(* ResolvedIsFinal for any requests, principals and policies: once         *)
(* APPROVED, REJECTED or EXPIRED a request never changes again, and a      *)
(* PENDING one changes after its deadline only to EXPIRED.                 *)
THEOREM ResolvedIsFinalHolds == EscalationSpec => ResolvedIsFinal
<1> DEFINE Settled(r) ==
        escalations'[r] # escalations[r] =>
            \/ escalations[r] = NoEscalation
            \/ /\ escalations[r].status = "PENDING"
               /\ \/ escalations'[r].status = "EXPIRED"
                  \/ time <= escalations[r].expires
<1>1. EscalationInv /\ [EscalationNext]_escalationVars
        => [\A r \in Request : Settled(r)]_escalationVars
  <2> SUFFICES ASSUME EscalationInv, EscalationNext, NEW r \in Request,
                      escalations'[r] # escalations[r]
               PROVE  Settled(r)
    OBVIOUS
  <2>1. ASSUME NEW p \in Partition, NEW policy \in Policy, SetApprovalPolicy(p, policy)
        PROVE  FALSE
    BY <2>1 DEF SetApprovalPolicy
  <2>2. ASSUME NEW c \in Creator, NEW p \in Partition, BeginCreate(c, p)
        PROVE  FALSE
    BY <2>2 DEF BeginCreate
  <2>3. ASSUME NEW c \in Creator, NEW q \in Request, NEW agent \in Principal,
               FinishCreate(c, q, agent)
        PROVE  Settled(r)
    BY <2>3 DEF FinishCreate, EscalationInv, EscalationTypeOK
  <2>4. ASSUME NEW e, e = escalations[r], escalations'[r] = EvaluateTimeout(e)
        PROVE  Settled(r)
    <3>1. e \in Escalation /\ e.status = "PENDING" /\ escalations'[r] = [e EXCEPT !.status = "EXPIRED"]
      BY <2>4 DEF EvaluateTimeout, TimedOut, EscalationInv, EscalationTypeOK, NoEscalation
    <3>2. escalations'[r].status = "EXPIRED"
      BY <3>1 DEF Escalation
    <3>3. QED
      BY <3>1, <3>2, <2>4
  <2>5. ASSUME NEW q \in Request, NEW f, Store(q, f)
        PROVE  q = r /\ escalations'[r] = f
    BY <2>5 DEF Store, EscalationInv, EscalationTypeOK
  <2>6. ASSUME NEW rs, ExpireAll(rs)
        PROVE  Settled(r)
    BY <2>6, <2>4 DEF ExpireAll
  <2>7. ASSUME NEW q \in Request, RefuseOverdue(q)
        PROVE  Settled(r)
    BY <2>7, <2>5, <2>4 DEF RefuseOverdue
  <2>8. ASSUME NEW q \in Request, escalations[q].status = "PENDING",
               ~TimedOut(escalations[q]), NEW f, Store(q, f)
        PROVE  Settled(r)
    <3>1. escalations[q] \in Escalation
      BY <2>8 DEF EscalationInv, EscalationTypeOK, NoEscalation
    <3>2. time <= escalations[q].expires
      BY <2>8, <3>1 DEF TimedOut, Escalation, EscalationInv, EscalationTypeOK
    <3>3. QED
      BY <2>5, <2>8, <3>2
  <2>9. ASSUME NEW q \in Request, NEW by \in Principal, Approve(q, by) \/ Reject(q, by)
        PROVE  Settled(r)
    BY <2>9, <2>8 DEF Approve, Reject
  <2>10. CASE PassTime
    BY <2>10 DEF PassTime
  <2> HIDE DEF Settled
  <2>11. QED
    BY <2>1, <2>2, <2>3, <2>6, <2>7, <2>9, <2>10
    DEF EscalationNext, GetEscalation, ListPendingEscalations
<1>2. EscalationInv /\ [EscalationNext]_escalationVars => EscalationInv'
  BY EscalationStep
<1>3. QED
  BY EscalationInitInv, <1>1, <1>2, PTL DEF EscalationSpec, ResolvedIsFinal

-----------------------------------------------------------------------------
(* Credentials.                                                            *)

ApiKeyRecord ==
    [environment : Environment, made : Nat, ttl : Lifetime,
     expires : Nat \cup {Never}, revoked : BOOLEAN]

(* The instant of expiry of a key that has a lifetime, cut to the second.  *)
KeyDeadline(record) == (record.made + 2 * record.ttl) \div 2

AcceptedInTime ==
    accepted.by = "service" =>
        \E t \in assertions :
            /\ t.service = accepted.service /\ t.expires = accepted.expires
            /\ accepted.at < 2 * (t.issued + AssertionTtl + 1)

IdentityInv ==
    /\ halves \in Nat
    /\ keys \in [KeyId -> ApiKeyRecord \cup {NoKey}]
    /\ \A k \in KeyId : keys[k] # NoKey /\ keys[k].ttl # 0 =>
            keys[k].expires = KeyDeadline(keys[k])
    /\ \A t \in assertions : t.issued \in Nat /\ t.expires = t.issued + AssertionTtl
    /\ AcceptedInTime

(* Cutting to whole seconds loses at most one half second.                 *)
LEMMA CutToSeconds ==
    ASSUME NEW n \in Nat
    PROVE  /\ n \div 2 \in Nat
           /\ 2 * (n \div 2) <= n
           /\ n <= 2 * (n \div 2) + 1
OBVIOUS

LEMMA IdentityInitInv == IdentityInit => IdentityInv
<1>1. NothingAccepted.by # "service"
  BY DEF NothingAccepted
<1>2. QED
  BY <1>1 DEF IdentityInit, IdentityInv, AcceptedInTime

LEMMA IdentityStep ==
    ASSUME IdentityInv, [IdentityNext]_identityVars
    PROVE  IdentityInv'
<1>1. ASSUME NEW k \in KeyId, NEW environment \in Environment, NEW ttl \in Lifetime,
             GenerateApiKey(k, environment, ttl)
      PROVE  IdentityInv'
  <2> DEFINE record == [environment |-> environment, made |-> halves, ttl |-> ttl,
                        expires |-> ExpiresAt(ttl), revoked |-> FALSE]
  <2>1. halves \in Nat /\ ttl \in Nat
    BY IdentityAssumption DEF IdentityInv
  <2>2. (halves + 2 * ttl) \div 2 \in Nat
    BY <2>1, CutToSeconds
  <2>3. record \in ApiKeyRecord
    BY <2>1, <2>2 DEF ApiKeyRecord, ExpiresAt
  <2>4. record.ttl # 0 => record.expires = KeyDeadline(record)
    BY DEF ExpiresAt, KeyDeadline
  <2>5. keys' = [keys EXCEPT ![k] = record]
    BY <1>1 DEF GenerateApiKey
  <2> HIDE DEF record
  <2>6. keys' \in [KeyId -> ApiKeyRecord \cup {NoKey}]
    BY <2>3, <2>5 DEF IdentityInv
  <2>7. \A q \in KeyId : keys'[q] # NoKey /\ keys'[q].ttl # 0 =>
            keys'[q].expires = KeyDeadline(keys'[q])
    BY <2>4, <2>5 DEF IdentityInv
  <2>8. QED
    BY <1>1, <2>6, <2>7 DEF GenerateApiKey, IdentityInv, AcceptedInTime
<1>2. ASSUME NEW k \in KeyId, RevokeKey(k)
      PROVE  IdentityInv'
  <2>1. keys[k] \in ApiKeyRecord /\ keys' = [keys EXCEPT ![k] = [keys[k] EXCEPT !.revoked = TRUE]]
    BY <1>2 DEF RevokeKey, IdentityInv
  <2>2. keys' \in [KeyId -> ApiKeyRecord \cup {NoKey}]
    BY <2>1 DEF IdentityInv, ApiKeyRecord
  <2>3. \A q \in KeyId \ {k} : keys'[q] = keys[q]
    BY <2>1 DEF IdentityInv
  <2>4. /\ keys'[k].ttl = keys[k].ttl /\ keys'[k].expires = keys[k].expires
        /\ keys'[k].made = keys[k].made
    BY <2>1 DEF IdentityInv, ApiKeyRecord
  <2>5. \A q \in KeyId : keys'[q] # NoKey /\ keys'[q].ttl # 0 =>
            keys'[q].expires = KeyDeadline(keys'[q])
    BY <1>2, <2>3, <2>4 DEF RevokeKey, IdentityInv, KeyDeadline
  <2>6. QED
    BY <1>2, <2>2, <2>5 DEF RevokeKey, IdentityInv, AcceptedInTime
<1>3. ASSUME UNCHANGED <<keys, assertions, halves>>, AcceptedInTime'
      PROVE  IdentityInv'
  BY <1>3 DEF IdentityInv, KeyDeadline
<1>4. ASSUME NEW k \in KeyId, NEW prefix, VerifyApiKey(k, prefix)
      PROVE  IdentityInv'
  BY <1>3, <1>4 DEF VerifyApiKey, AcceptedInTime
<1>5. ASSUME NEW s \in Service, CreateServiceToken(s)
      PROVE  IdentityInv'
  <2>1. Seconds \in Nat
    BY CutToSeconds DEF Seconds, IdentityInv
  <2>2. \A t \in assertions' : t.issued \in Nat /\ t.expires = t.issued + AssertionTtl
    BY <1>5, <2>1 DEF CreateServiceToken, IdentityInv
  <2>3. assertions \subseteq assertions'
    BY <1>5 DEF CreateServiceToken
  <2>4. QED
    BY <1>5, <2>2, <2>3 DEF CreateServiceToken, IdentityInv, AcceptedInTime, KeyDeadline
<1>6. ASSUME NEW s \in Service, NEW issued \in Instant, NEW expires \in Instant,
             VerifyServiceToken(s, issued, expires)
      PROVE  IdentityInv'
  <2> DEFINE t == [service |-> s, issued |-> issued, expires |-> expires]
  <2>1. t \in assertions /\ Seconds <= expires
    BY <1>6 DEF VerifyServiceToken
  <2>2. issued \in Nat /\ expires = issued + AssertionTtl
    BY <2>1 DEF IdentityInv
  <2>3. halves < 2 * (issued + AssertionTtl + 1)
    BY <2>1, <2>2, CutToSeconds, IdentityAssumption DEF Seconds, IdentityInv
  <2>4. accepted' = [by |-> "service", service |-> s, expires |-> expires, at |-> halves]
    BY <1>6 DEF VerifyServiceToken
  <2>5. AcceptedInTime'
    BY <1>6, <2>1, <2>3, <2>4 DEF VerifyServiceToken, AcceptedInTime
  <2>6. QED
    BY <1>3, <1>6, <2>5 DEF VerifyServiceToken
<1>7. ASSUME NEW exp, NEW nbf, NEW issuer, NEW audience, ValidateToken(exp, nbf, issuer, audience)
      PROVE  IdentityInv'
  BY <1>3, <1>7 DEF ValidateToken, AcceptedInTime
<1>8. CASE PassHalf
  BY <1>8 DEF PassHalf, IdentityInv, AcceptedInTime, KeyDeadline
<1>9. CASE UNCHANGED identityVars
  BY <1>9 DEF identityVars, IdentityInv, AcceptedInTime, KeyDeadline
<1>10. QED
  BY <1>1, <1>2, <1>4, <1>5, <1>6, <1>7, <1>8, <1>9 DEF IdentityNext

(* CredentialsLiveTheirTtl for any keys, lifetimes and clock: cutting the  *)
(* dates to whole seconds shortens no lifetime and lengthens it by less    *)
(* than a second, and no service assertion is accepted past its own.       *)
THEOREM CredentialsLiveTheirTtlHolds == IdentitySpec => []CredentialsLiveTheirTtl
<1>1. IdentityInv => CredentialsLiveTheirTtl
  <2> SUFFICES ASSUME IdentityInv, NEW k \in KeyId, keys[k] # NoKey, keys[k].ttl # 0
               PROVE  /\ KeyExpired(keys[k]) => halves > keys[k].made + 2 * keys[k].ttl
                      /\ halves >= keys[k].made + 2 * (keys[k].ttl + 1) => KeyExpired(keys[k])
    BY DEF CredentialsLiveTheirTtl, IdentityInv, AcceptedInTime
  <2>1. keys[k].made \in Nat /\ keys[k].ttl \in Nat /\ halves \in Nat
    BY IdentityAssumption DEF IdentityInv, ApiKeyRecord
  <2>2. keys[k].expires = (keys[k].made + 2 * keys[k].ttl) \div 2
    BY DEF IdentityInv, KeyDeadline
  <2>3. keys[k].expires \in Nat /\ keys[k].expires # Never
    BY <2>1, <2>2, CutToSeconds, IdentityAssumption
  <2>4. QED
    BY <2>1, <2>2, <2>3, CutToSeconds DEF KeyExpired, Seconds
<1>2. IdentityInv /\ [IdentityNext]_identityVars => IdentityInv'
  BY IdentityStep
<1>3. QED
  BY IdentityInitInv, <1>1, <1>2, PTL DEF IdentitySpec

-----------------------------------------------------------------------------
(* Policy sets.                                                            *)

Distinct(ids) == \A j, k \in DOMAIN ids : j # k => ids[j] # ids[k]

(* Each set is in the index of the tenant that owns it, and no index names *)
(* a set twice; an earlier owner's index may still name it.                *)
IndexInv ==
    /\ policySets = [i \in SetId |-> policySets[i]]
    /\ \A i \in SetId : policySets[i] \in PolicySet \cup {NoPolicySet}
    /\ tenantIndex \in [Tenant -> Seq(SetId)]
    /\ \A t \in Tenant : Distinct(tenantIndex[t])
    /\ \A i \in SetId : policySets[i] # NoPolicySet => Listed(tenantIndex[policySets[i].tenant], i)

LEMMA WithoutKeepsOthers ==
    ASSUME NEW ids \in Seq(SetId), Distinct(ids), NEW i \in SetId
    PROVE  /\ Without(ids, i) \in Seq(SetId) /\ Distinct(Without(ids, i))
           /\ \A j \in SetId : j # i /\ Listed(ids, j) => Listed(Without(ids, i), j)
<1> DEFINE I == {k \in DOMAIN ids : ids[k] = i => \E j \in 1..(k - 1) : ids[j] = i}
           n == Cardinality(I)
           f == Listing(I, Ascending(I))
           rest == Without(ids, i)
<1>1. Len(ids) \in Nat /\ I \subseteq 1..Len(ids) /\ DOMAIN ids = 1..Len(ids)
  OBVIOUS
<1>2. rest = Kept(ids, I)
  BY DEF Without
<1>3. \A k \in DOMAIN ids : ids[k] # i => k \in I
  OBVIOUS
<1> HIDE DEF I
<1>4. rest \in Seq(SetId)
  BY <1>1, <1>2, KeptIsList
<1>5. /\ n \in Nat /\ f \in [1..n -> I] /\ \A k \in 1..n : rest[k] = ids[f[k]]
      /\ rest = [k \in 1..n |-> rest[k]]
      /\ \A k, m \in 1..n : k < m => f[k] < f[m]
      /\ \A k \in I : \E m \in 1..n : f[m] = k
  BY <1>1, <1>2, KeptInOrder
<1> HIDE DEF n, f, rest
<1>6. \A k, m \in 1..n : k # m => f[k] # f[m]
  <2> SUFFICES ASSUME NEW k \in 1..n, NEW m \in 1..n, k # m
               PROVE  f[k] # f[m]
    OBVIOUS
  <2>1. k < m \/ m < k
    BY <1>5
  <2>2. f[k] \in Int /\ f[m] \in Int
    BY <1>1, <1>5
  <2> QED
    BY <1>5, <2>1, <2>2
<1>7. DOMAIN rest = 1..n
  BY <1>5
<1>8. Distinct(rest)
  BY <1>1, <1>5, <1>6, <1>7 DEF Distinct
<1>9. ASSUME NEW j \in SetId, j # i, Listed(ids, j)
      PROVE  Listed(rest, j)
  <2>1. PICK k \in DOMAIN ids : ids[k] = j
    BY <1>9 DEF Listed
  <2>2. PICK m \in 1..n : f[m] = k
    BY <1>3, <1>5, <1>9, <2>1
  <2> QED
    BY <1>5, <1>7, <2>1, <2>2 DEF Listed
<1> QED
  BY <1>4, <1>8, <1>9 DEF rest

LEMMA IndexInvHolds == PolicySetsSpec => []IndexInv
<1>1. PolicySetsInit => IndexInv
  BY DEF PolicySetsInit, IndexInv, Distinct
<1>2. IndexInv /\ [PolicySetsNext]_policySetVars => IndexInv'
  <2> SUFFICES ASSUME IndexInv, [PolicySetsNext]_policySetVars
               PROVE  IndexInv'
    OBVIOUS
  <2>1. ASSUME NEW i \in SetId, NEW set \in PolicySet, RegisterPolicySet(i, set)
        PROVE  IndexInv'
    <3> DEFINE t == set.tenant
               ids == tenantIndex[t]
    <3>1. /\ t \in Tenant /\ ids \in Seq(SetId) /\ Distinct(ids)
      BY DEF PolicySet, IndexInv
    <3>2. /\ policySets' = [j \in SetId |-> policySets'[j]] /\ policySets'[i] = set
          /\ \A j \in SetId \ {i} : policySets'[j] = policySets[j]
      BY <2>1 DEF RegisterPolicySet, IndexInv
    <3>3. /\ tenantIndex'[t] \in Seq(SetId) /\ Distinct(tenantIndex'[t])
          /\ Listed(tenantIndex'[t], i)
          /\ \A j \in SetId : Listed(ids, j) => Listed(tenantIndex'[t], j)
      <4>1. CASE Listed(ids, i)
        BY <2>1, <3>1, <4>1 DEF RegisterPolicySet
      <4>2. CASE ~Listed(ids, i)
        <5>1. tenantIndex'[t] = Append(ids, i)
          BY <2>1, <3>1, <4>2 DEF RegisterPolicySet, IndexInv
        <5> HIDE DEF ids
        <5>2. Append(ids, i) \in Seq(SetId) /\ Distinct(Append(ids, i))
          BY <3>1, <4>2 DEF Distinct, Listed
        <5>3. Listed(Append(ids, i), i)
          <6>1. Append(ids, i)[Len(ids) + 1] = i /\ Len(ids) + 1 \in DOMAIN Append(ids, i)
            BY <3>1
          <6> QED
            BY <6>1 DEF Listed
        <5>4. \A j \in SetId : Listed(ids, j) => Listed(Append(ids, i), j)
          BY <3>1 DEF Listed
        <5> QED
          BY <5>1, <5>2, <5>3, <5>4
      <4> QED
        BY <4>1, <4>2
    <3>4. /\ tenantIndex' = [u \in Tenant |-> tenantIndex'[u]]
          /\ \A u \in Tenant \ {t} : tenantIndex'[u] = tenantIndex[u]
      BY <2>1 DEF RegisterPolicySet, IndexInv
    <3>5. \A u \in Tenant : tenantIndex'[u] \in Seq(SetId) /\ Distinct(tenantIndex'[u])
      BY <3>3, <3>4 DEF IndexInv
    <3>6. ASSUME NEW j \in SetId, policySets'[j] # NoPolicySet
          PROVE  Listed(tenantIndex'[policySets'[j].tenant], j)
      <4>1. CASE j = i
        BY <3>2, <3>3, <4>1
      <4>2. CASE j # i
        <5>1. /\ policySets'[j] = policySets[j] /\ policySets[j].tenant \in Tenant
              /\ Listed(tenantIndex[policySets[j].tenant], j)
          BY <3>2, <3>6, <4>2 DEF IndexInv, PolicySet
        <5> QED
          BY <3>3, <3>4, <5>1
      <4> QED
        BY <4>1, <4>2
    <3>7. \A j \in SetId : policySets'[j] \in PolicySet \cup {NoPolicySet}
      BY <3>2 DEF IndexInv
    <3> HIDE DEF t, ids
    <3> QED
      BY <3>2, <3>4, <3>5, <3>6, <3>7 DEF IndexInv
  <2>2. ASSUME NEW i \in SetId, DeletePolicySet(i)
        PROVE  IndexInv'
    <3> DEFINE t == policySets[i].tenant
               ids == tenantIndex[t]
    <3>1. /\ t \in Tenant /\ ids \in Seq(SetId) /\ Distinct(ids)
      BY <2>2 DEF DeletePolicySet, PolicySet, IndexInv
    <3>2. /\ policySets' = [j \in SetId |-> policySets'[j]] /\ policySets'[i] = NoPolicySet
          /\ \A j \in SetId \ {i} : policySets'[j] = policySets[j]
      BY <2>2 DEF DeletePolicySet, IndexInv
    <3>3. /\ tenantIndex' = [u \in Tenant |-> tenantIndex'[u]]
          /\ \A u \in Tenant \ {t} : tenantIndex'[u] = tenantIndex[u]
          /\ tenantIndex'[t] = Without(ids, i)
      BY <2>2, <3>1 DEF DeletePolicySet, IndexInv
    <3>4. /\ tenantIndex'[t] \in Seq(SetId) /\ Distinct(tenantIndex'[t])
          /\ \A j \in SetId : j # i /\ Listed(ids, j) => Listed(tenantIndex'[t], j)
      BY <3>1, <3>3, WithoutKeepsOthers
    <3>5. \A u \in Tenant : tenantIndex'[u] \in Seq(SetId) /\ Distinct(tenantIndex'[u])
      BY <3>3, <3>4 DEF IndexInv
    <3>6. ASSUME NEW j \in SetId, policySets'[j] # NoPolicySet
          PROVE  Listed(tenantIndex'[policySets'[j].tenant], j)
      <4>1. j # i
        BY <3>2, <3>6
      <4>2. /\ policySets'[j] = policySets[j] /\ policySets[j].tenant \in Tenant
            /\ Listed(tenantIndex[policySets[j].tenant], j)
        BY <3>2, <3>6, <4>1 DEF IndexInv, PolicySet
      <4> QED
        BY <3>3, <3>4, <4>1, <4>2
    <3>7. \A j \in SetId : policySets'[j] \in PolicySet \cup {NoPolicySet}
      BY <3>2 DEF IndexInv
    <3> HIDE DEF t, ids
    <3> QED
      BY <3>2, <3>3, <3>5, <3>6, <3>7 DEF IndexInv
  <2>3. CASE UNCHANGED policySetVars
    BY <2>3 DEF policySetVars, IndexInv
  <2> QED
    BY <2>1, <2>2, <2>3 DEF PolicySetsNext
<1> QED
  BY <1>1, <1>2, PTL DEF PolicySetsSpec

(* What AtLevel lists are sets of that level, each once, and all of them.  *)
LEMMA LevelsAreLists ==
    ASSUME IndexInv, NEW t \in Tenant, NEW unit, NEW stage, NEW n
    PROVE  /\ AtLevel(t, unit, stage, n) \in Seq(SetId)
           /\ \A k \in DOMAIN AtLevel(t, unit, stage, n) :
                Level(policySets[AtLevel(t, unit, stage, n)[k]], unit, stage) = n
           /\ \A j, k \in DOMAIN AtLevel(t, unit, stage, n) :
                j # k => AtLevel(t, unit, stage, n)[j] # AtLevel(t, unit, stage, n)[k]
           /\ \A i \in SetId :
                /\ Listed(tenantIndex[t], i) /\ policySets[i] # NoPolicySet
                /\ Level(policySets[i], unit, stage) = n
                => \E k \in DOMAIN AtLevel(t, unit, stage, n) : AtLevel(t, unit, stage, n)[k] = i
<1> DEFINE ids == tenantIndex[t]
           I == {k \in ListByTenant(t) : Level(policySets[ids[k]], unit, stage) = n}
           c == Cardinality(I)
           f == Listing(I, Ascending(I))
           at == AtLevel(t, unit, stage, n)
<1>1. ids \in Seq(SetId) /\ Distinct(ids)
  BY DEF IndexInv
<1>2. Len(ids) \in Nat /\ DOMAIN ids = 1..Len(ids) /\ I \subseteq 1..Len(ids)
  BY <1>1 DEF ListByTenant
<1>3. at = Kept(ids, I)
  BY DEF AtLevel
<1>4. \A k \in I : Level(policySets[ids[k]], unit, stage) = n
  OBVIOUS
<1>5. \A k \in DOMAIN ids : policySets[ids[k]] # NoPolicySet
            /\ Level(policySets[ids[k]], unit, stage) = n => k \in I
  BY DEF ListByTenant
<1> HIDE DEF I, ids
<1>6. at \in Seq(SetId)
  BY <1>1, <1>2, <1>3, KeptIsList
<1>7. /\ c \in Nat /\ f \in [1..c -> I] /\ \A k \in 1..c : at[k] = ids[f[k]]
      /\ at = [k \in 1..c |-> at[k]]
      /\ \A k, m \in 1..c : k < m => f[k] < f[m]
      /\ \A k \in I : \E m \in 1..c : f[m] = k
  BY <1>2, <1>3, KeptInOrder
<1> HIDE DEF c, f, at
<1>8. DOMAIN at = 1..c
  BY <1>7
<1>9. \A k \in DOMAIN at : Level(policySets[at[k]], unit, stage) = n
  BY <1>4, <1>7, <1>8
<1>10. ASSUME NEW j \in DOMAIN at, NEW k \in DOMAIN at, j # k
       PROVE  at[j] # at[k]
  <2>1. j \in 1..c /\ k \in 1..c /\ (j < k \/ k < j)
    BY <1>7, <1>8, <1>10
  <2>2. f[j] \in DOMAIN ids /\ f[k] \in DOMAIN ids /\ f[j] \in Int /\ f[k] \in Int
    BY <1>2, <1>7, <2>1
  <2>3. f[j] # f[k]
    BY <1>7, <2>1, <2>2
  <2> QED
    BY <1>1, <1>7, <2>1, <2>2, <2>3 DEF Distinct
<1>11. ASSUME NEW i \in SetId, Listed(ids, i), policySets[i] # NoPolicySet,
              Level(policySets[i], unit, stage) = n
       PROVE  \E k \in DOMAIN at : at[k] = i
  <2>1. PICK k \in DOMAIN ids : ids[k] = i
    BY <1>11 DEF Listed
  <2>2. PICK m \in 1..c : f[m] = k
    BY <1>5, <1>7, <1>11, <2>1
  <2> QED
    BY <1>7, <1>8, <2>1, <2>2
<1> QED
  BY <1>6, <1>9, <1>10, <1>11 DEF at, ids

(* GuardrailsApply for any sets, tenants and environments: a guardrail is  *)
(* in its tenant's index once, at the first level, where only guardrails   *)
(* are.                                                                    *)
THEOREM GuardrailsApplyHolds == PolicySetsSpec => []GuardrailsApply
<1>1. IndexInv => GuardrailsApply
  <2> SUFFICES ASSUME IndexInv, NEW i \in SetId, IsGuardrail(i), NEW unit \in Unit,
                      NEW stage \in Stage, policySets[i].stage \in {AnyStage, stage}
               PROVE  LET ids == ResolveEffectivePolicies(policySets[i].tenant, unit, stage) IN
                      \E k \in DOMAIN ids :
                        /\ ids[k] = i
                        /\ \A j \in DOMAIN ids : j # k => ids[j] # i
                        /\ \A j \in 1..(k - 1) : IsGuardrail(ids[j])
    BY DEF GuardrailsApply
  <2> DEFINE t == policySets[i].tenant
             at(n) == AtLevel(t, unit, stage, n)
             LevelOf(j) == Level(policySets[j], unit, stage)
             Starts(p) ==
                /\ p \in Seq(SetId) /\ Len(p) >= Len(at(1))
                /\ \A j \in 1..Len(at(1)) : p[j] = at(1)[j]
                /\ \A j \in 1..Len(p) : j > Len(at(1)) => LevelOf(p[j]) # 1
             ids == ResolveEffectivePolicies(t, unit, stage)
  <2>1. policySets[i] # NoPolicySet
    BY DEF IsGuardrail, NoPolicySet
  <2>2. t \in Tenant /\ Listed(tenantIndex[t], i)
    BY <2>1 DEF IndexInv, PolicySet
  <2>3. LevelOf(i) = 1
    <3>1. /\ policySets[i].scope = "tenant" /\ policySets[i].immutable
          /\ policySets[i].stage \in {AnyStage, stage}
      BY DEF IsGuardrail
    <3> QED
      BY <3>1 DEF Level, Applies
  <2>4. \A n \in 1..4 :
            /\ at(n) \in Seq(SetId) /\ \A k \in DOMAIN at(n) : LevelOf(at(n)[k]) = n
    BY <2>2, LevelsAreLists
  <2>5. /\ \A j, k \in DOMAIN at(1) : j # k => at(1)[j] # at(1)[k]
        /\ \E k \in DOMAIN at(1) : at(1)[k] = i
    <3>1. \A j, k \in DOMAIN at(1) : j # k => at(1)[j] # at(1)[k]
      BY <2>2, LevelsAreLists
    <3>2. \A j \in SetId :
            Listed(tenantIndex[t], j) /\ policySets[j] # NoPolicySet /\ LevelOf(j) = 1
            => \E k \in DOMAIN at(1) : at(1)[k] = j
      <4> SUFFICES ASSUME NEW j \in SetId, Listed(tenantIndex[t], j), policySets[j] # NoPolicySet,
                          Level(policySets[j], unit, stage) = 1
                   PROVE  \E k \in DOMAIN AtLevel(t, unit, stage, 1) : AtLevel(t, unit, stage, 1)[k] = j
        OBVIOUS
      <4> HIDE DEF t
      <4> QED
        BY <2>2, LevelsAreLists
    <3> HIDE DEF t, at, LevelOf
    <3> QED
      BY <2>1, <2>2, <2>3, <3>1, <3>2
  <2>6. \A j \in SetId : LevelOf(j) = 1 => IsGuardrail(j)
    <3> TAKE j \in SetId
    <3> QED
      BY DEF Level, IsGuardrail
  <2> HIDE DEF t, at, LevelOf
  <2>7. at(1) \in Seq(SetId) /\ \A k \in DOMAIN at(1) : LevelOf(at(1)[k]) = 1
    BY <2>4
  <2>8. ASSUME NEW p, Starts(p), NEW n \in 2..4
        PROVE  Starts(p \o at(n))
    <3>1. /\ at(n) \in Seq(SetId) /\ \A j \in 1..Len(at(n)) : LevelOf(at(n)[j]) # 1
      BY <2>4
    <3>2. p \in Seq(SetId) /\ Len(p) \in Nat /\ Len(at(n)) \in Nat /\ Len(at(1)) \in Nat
      BY <2>7, <2>8, <3>1
    <3>3. /\ p \o at(n) \in Seq(SetId) /\ Len(p \o at(n)) = Len(p) + Len(at(n))
          /\ \A j \in 1..Len(p) : (p \o at(n))[j] = p[j]
          /\ \A j \in 1..(Len(p) + Len(at(n))) :
                j > Len(p) => j - Len(p) \in 1..Len(at(n)) /\ (p \o at(n))[j] = at(n)[j - Len(p)]
      BY <3>1, <3>2
    <3>4. ASSUME NEW j \in 1..(Len(p) + Len(at(n))), j > Len(at(1))
          PROVE  LevelOf((p \o at(n))[j]) # 1
      <4>1. CASE j <= Len(p)
        BY <2>8, <3>2, <3>3, <3>4, <4>1
      <4>2. CASE j > Len(p)
        BY <3>1, <3>3, <4>2
      <4> QED
        BY <3>2, <4>1, <4>2
    <3> QED
      BY <2>8, <3>2, <3>3, <3>4
  <2>9. Starts(ids)
    <3>1. ids = ((at(1) \o at(2)) \o at(3)) \o at(4)
      BY DEF ResolveEffectivePolicies, at, t
    <3>2. Starts(at(1))
      BY <2>7
    <3> HIDE DEF Starts
    <3> QED
      BY <2>8, <3>1, <3>2
  <2> HIDE DEF ids
  <2>10. /\ ids \in Seq(SetId) /\ DOMAIN ids = 1..Len(ids) /\ Len(ids) >= Len(at(1))
         /\ \A j \in 1..Len(at(1)) : ids[j] = at(1)[j]
         /\ \A j \in DOMAIN ids : j > Len(at(1)) => LevelOf(ids[j]) # 1
    BY <2>9
  <2>11. PICK k \in DOMAIN at(1) : at(1)[k] = i
    BY <2>5
  <2>12. /\ Len(at(1)) \in Nat /\ DOMAIN at(1) = 1..Len(at(1)) /\ Len(ids) \in Nat
    BY <2>7, <2>10
  <2>13. k \in DOMAIN ids /\ ids[k] = i
    BY <2>10, <2>11, <2>12
  <2>14. ASSUME NEW j \in DOMAIN ids, j # k
         PROVE  ids[j] # i
    <3>1. CASE j <= Len(at(1))
      BY <2>5, <2>10, <2>11, <2>12, <2>14, <3>1
    <3>2. CASE j > Len(at(1))
      BY <2>3, <2>10, <3>2
    <3> QED
      BY <2>10, <2>12, <3>1, <3>2
  <2>15. ASSUME NEW j \in 1..(k - 1)
         PROVE  IsGuardrail(ids[j])
    <3>1. j \in DOMAIN at(1) /\ ids[j] = at(1)[j]
      BY <2>10, <2>11, <2>12
    <3> QED
      BY <2>6, <2>7, <3>1
  <2> QED
    BY <2>13, <2>14, <2>15 DEF ids, t
<1> QED
  BY <1>1, IndexInvHolds, PTL
=============================================================================
