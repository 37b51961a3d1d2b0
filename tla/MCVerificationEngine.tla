------------------------ MODULE MCVerificationEngine ------------------------
(* Finite instance of VerificationEngine.                                   *)
EXTENDS VerificationEngine

CONSTANTS a, b

RareStep == {<<a, b>>}

\* One signal per way the strategy reads one, and an engine's fallback.
SomeSignals ==
    {[risk |-> "LOW", signal |-> "ALLOW", confident |-> TRUE, fallback |-> FALSE],
     [risk |-> "MEDIUM", signal |-> "ALLOW", confident |-> TRUE, fallback |-> FALSE],
     [risk |-> "HIGH", signal |-> "REVIEW", confident |-> TRUE, fallback |-> FALSE],
     [risk |-> "CRITICAL", signal |-> "BLOCK", confident |-> TRUE, fallback |-> FALSE],
     LayaFallback}

\* semantic_high_escalates_to as strict as it can be.
StrictHigh == [DefaultConfig EXCEPT !.high = "BLOCK"]

\* No failure, each alone, and all together.
SomeFailures == {{}} \cup {{f} : f \in FailurePoint} \cup {FailurePoint}
=============================================================================
