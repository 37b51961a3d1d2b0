---------------------------- MODULE MCInterceptor ----------------------------
(* Finite instance of Interceptor.                                          *)
EXTENDS Interceptor

\* A clean action, one the policy forbids, one it wants reviewed, one that
\* only the sequential test objects to.
Clean == [policy |-> "ALLOW", semantic |-> NullSignal, markov |-> "NORMAL", sprt |-> "PENDING"]
SomeReports ==
    {Clean, [Clean EXCEPT !.policy = "BLOCK"], [Clean EXCEPT !.policy = "REVIEW"],
     [Clean EXCEPT !.sprt = "ACCEPT_H1"]}

CONSTANTS t1, t2

Use(first, second) ==
    {[uses |-> [t \in {t1, t2} |-> IF t = t1 THEN first ELSE second],
      failClosed |-> f, provider |-> p] : f, p \in BOOLEAN}

\* Two threads that enforce, or one thread that uses everything.
EnforcingClients == Use({"authorize"}, {"authorize"})
SingleThreadedClients == Use({"authorize", "check", "observe"}, {})
OrderlyClients == EnforcingClients \cup SingleThreadedClients

\* Checks beside an enforcing thread.
MixedClients == Use({"authorize"}, {"check"})
=============================================================================
