-------------------------- MODULE MCAuditRepository --------------------------
(* Finite instance of AuditRepository.                                      *)
EXTENDS AuditRepository

CONSTANTS i1, i2

OneFile ==
    [kind |-> "file", users |-> {i1}, via |-> {"store"}, crashes |-> FALSE,
     writeFails |-> FALSE, late |-> FALSE, limit |-> 6]
InMemory == [OneFile EXCEPT !.kind = "memory"]

\* Two processes and the sink on one file, where everything can go wrong.
Chaos ==
    [kind |-> "file", users |-> {i1, i2}, via |-> {"store", "sink"}, crashes |-> TRUE,
     writeFails |-> TRUE, late |-> TRUE, limit |-> 3]

AllSetups == {OneFile, InMemory, Chaos}

\* Two processes whose writes succeed.
TwoProcesses == {[OneFile EXCEPT !.users = {i1, i2}, !.limit = 3]}
=============================================================================
