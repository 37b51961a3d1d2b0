----------------------------- MODULE AuditSinks -----------------------------
(***************************************************************************)
(* audit/service.py, audit/redaction.py and audit/sinks.py: threads that   *)
(* log through the default AuditService, whose composite sink hands each   *)
(* record to its sinks in turn before the repository is given it.  A       *)
(* payload is the set of kinds of value found in it.                       *)
(***************************************************************************)
EXTENDS Integers, Sequences, TLC

CONSTANTS
    Logger,         \* threads
    Entry,          \* calls of log_*, each made at most once
    PayloadOf,      \* their method, sign or level, summary, details and metadata
    Setup,          \* services that set_default_audit_service installs
    BatchSize,      \* PostgresAuditSink.batch_size
    NoLogger, NoEntry

ASSUME SinkAssumption ==
    /\ BatchSize \in Nat \ {0}
    /\ NoLogger \notin Logger /\ NoEntry \notin Entry
    /\ \A s \in Setup : s.sinks \in Seq({"memory", "file", "console", "postgres", "storage", "siem"})

VARIABLES
    service,        \* the default AuditService
    logging,        \* what each thread is doing
    buffers,        \* PostgresAuditSink._buffer of each service
    lockedBy,       \* the thread that holds the lock of that sink
    delivered,      \* what has been given to each sink, by service
    stored,         \* what the repositories have been given
    failures,       \* the entries and sinks that raised
    logged          \* entries whose call has returned, and their service

sinkVars == <<service, logging, buffers, lockedBy, delivered, stored, failures, logged>>

NotLogging == [at |-> "idle", entry |-> NoEntry]
SinkKind == {"memory", "file", "console", "postgres", "storage", "siem"}

SinkInit ==
    /\ service \in Setup
    /\ logging = [t \in Logger |-> NotLogging]
    /\ buffers = [s \in Setup |-> <<>>]
    /\ lockedBy = [s \in Setup |-> NoLogger]
    /\ delivered = [s \in Setup |-> [k \in SinkKind |-> {}]]
    /\ stored = [s \in Setup |-> {}]
    /\ failures = {}
    /\ logged = {}

-----------------------------------------------------------------------------
(* SecretRedactor.redact: the values under a sensitive key, and texts that *)
(* a pattern matches.  Objects of other types are copied as they are.      *)
Redact(values) == {IF v \in {"keyed", "matching"} THEN "marker" ELSE v : v \in values}

IsRedacted(record) ==
    [f \in {"summary", "details", "metadata"} |-> Redact(record[f])]

Modified(record) ==
    \E f \in {"summary", "details", "metadata"} : Redact(record[f]) # record[f]

(* The severity the log_ methods give: events and errors that of the       *)
(* caller, a policy or semantic decision its level if that is a severity;  *)
(* of the others the sign is whether they are what is hoped for.           *)
Severities == {"CRITICAL", "HIGH", "WARNING", "MEDIUM", "LOW", "INFO"}

LeveledSeverity(record) ==
    IF record.level \in Severities THEN record.level ELSE "INFO"

SignedSeverity(record) ==
    CASE record.method = "behavioral" -> IF record.hoped THEN "LOW" ELSE "HIGH"
      [] record.method = "sprt" -> IF record.hoped THEN "INFO" ELSE "CRITICAL"
      [] record.method = "approval request" -> IF record.hoped THEN "MEDIUM" ELSE "HIGH"
      [] record.method \in {"approval decision", "execution"} ->
            IF record.hoped THEN "INFO" ELSE "HIGH"

Severity(record) ==
    IF "level" \in DOMAIN record THEN LeveledSeverity(record) ELSE SignedSeverity(record)

MutantEmitted(entry) ==
    LET record == PayloadOf[entry] IN
    [summary |-> record.summary, details |-> Redact(record.details),
     metadata |-> Redact(record.metadata), redacted |-> Modified(record),
     severity |-> Severity(record), entry |-> entry]

(* emit_record before it dispatches, with what the method has filled in.   *)
Emitted(entry) ==
    LET record == PayloadOf[entry] IN
    [summary |-> Redact(record.summary), details |-> Redact(record.details),
     metadata |-> Redact(record.metadata), redacted |-> Modified(record),
     severity |-> Severity(record), entry |-> entry]

(* AuditSink._sanitize                                                     *)
Sanitize(record) ==
    IF record.redacted \/ ~Modified(record) THEN record
    ELSE IsRedacted(record) @@ [redacted |-> TRUE] @@ record

(* log_error, log_execution_result and the other log_ methods.             *)
Log(t, entry) ==
    /\ logging[t].at = "idle"
    /\ \A l \in logged : l.entry # entry
    /\ \A u \in Logger : logging[u].entry # entry
    /\ logging' = [logging EXCEPT ![t] =
            [at |-> "broadcast", entry |-> entry, service |-> service,
             record |-> Sanitize(Emitted(entry)), next |-> 1]]
    /\ UNCHANGED <<service, buffers, lockedBy, delivered, stored, failures, logged>>

-----------------------------------------------------------------------------
Facing(t) == logging[t].service.sinks[logging[t].next]
HasSink(t) == logging[t].at = "broadcast" /\ logging[t].next <= Len(logging[t].service.sinks)
Proceeds(t) == logging' = [logging EXCEPT ![t].next = @ + 1]

Delivers(t, kind) ==
    delivered' = [delivered EXCEPT ![logging[t].service][kind] =
                    @ \cup {Sanitize(logging[t].record)}]

(* emit of the sinks that keep or forward what they are given.             *)
EmitTo(t) ==
    /\ HasSink(t) /\ Facing(t) # "postgres"
    /\ Delivers(t, Facing(t))
    /\ Proceeds(t)
    /\ UNCHANGED <<service, buffers, lockedBy, stored, failures, logged>>

(* PostgresAuditSink.emit: once the batch is full it calls flush, which    *)
(* takes the lock that emit holds.  The lock is not reentrant: the thread  *)
(* takes no further step.                                                  *)
EmitToPostgres(t) ==
    LET s == logging[t].service IN
    /\ HasSink(t) /\ Facing(t) = "postgres" /\ lockedBy[s] = NoLogger
    /\ buffers' = [buffers EXCEPT ![s] = Append(@, logging[t].entry)]
    /\ Delivers(t, "postgres")
    /\ IF Len(buffers'[s]) >= BatchSize
         THEN /\ lockedBy' = [lockedBy EXCEPT ![s] = t]
              /\ logging' = [logging EXCEPT ![t].at = "flushing"]
         ELSE Proceeds(t) /\ UNCHANGED lockedBy
    /\ UNCHANGED <<service, stored, failures, logged>>

(* CompositeAuditSink.flush, by somebody who may wait for the lock.        *)
Flush(s) ==
    /\ lockedBy[s] = NoLogger /\ buffers[s] # <<>>
    /\ buffers' = [buffers EXCEPT ![s] = <<>>]
    /\ UNCHANGED <<service, logging, lockedBy, delivered, stored, failures, logged>>

MutantSinkRaises(t) ==
    /\ HasSink(t) /\ Facing(t) \in {"file", "console"}
    /\ failures' = failures \cup {<<logging[t].entry, Facing(t)>>}
    /\ logging' = [logging EXCEPT ![t].next = Len(logging[t].service.sinks) + 1]
    /\ UNCHANGED <<service, buffers, lockedBy, delivered, stored, logged>>

(* A sink that cannot write is passed over.                                *)
SinkRaises(t) ==
    /\ HasSink(t) /\ Facing(t) \in {"file", "console"}
    /\ failures' = failures \cup {<<logging[t].entry, Facing(t)>>}
    /\ Proceeds(t)
    /\ UNCHANGED <<service, buffers, lockedBy, delivered, stored, logged>>

(* The end of emit_record: the repository, unless the sink is the file.    *)
StoreRecord(t) ==
    LET s == logging[t].service IN
    /\ logging[t].at = "broadcast" /\ ~HasSink(t)
    /\ \/ s.repository /\ s.sinks # <<"file">>
          /\ stored' = [stored EXCEPT ![s] = @ \cup {logging[t].record}]
       \/ UNCHANGED stored
    /\ logged' = logged \cup {[entry |-> logging[t].entry, service |-> s]}
    /\ logging' = [logging EXCEPT ![t] = NotLogging]
    /\ UNCHANGED <<service, buffers, lockedBy, delivered, failures>>

SetDefault(s) ==
    /\ service' = s
    /\ UNCHANGED <<logging, buffers, lockedBy, delivered, stored, failures, logged>>

LoggerStep(t) ==
    EmitTo(t) \/ EmitToPostgres(t) \/ SinkRaises(t) \/ StoreRecord(t)

SinkNext ==
    \/ \E t \in Logger : LoggerStep(t) \/ \E entry \in Entry : Log(t, entry)
    \/ \E s \in Setup : Flush(s) \/ SetDefault(s)

(* A thread that has called log_* runs on.                                 *)
SinkSpec == SinkInit /\ [][SinkNext]_sinkVars /\ \A t \in Logger : WF_sinkVars(LoggerStep(t))
-----------------------------------------------------------------------------
Secrets == {"keyed", "matching"}

(* Every call that has returned has given its record to every sink of the  *)
(* service it was made on but those that raised, and to its repository,    *)
(* and no sink or repository holds a value that the redactor recognises.   *)
DeliveredRedacted ==
    /\ \A l \in logged : \A i \in DOMAIN l.service.sinks :
            \/ <<l.entry, l.service.sinks[i]>> \in failures
            \/ \E r \in delivered[l.service][l.service.sinks[i]] : r.entry = l.entry
    /\ \A s \in Setup : \A r \in stored[s] \cup UNION {delivered[s][k] : k \in SinkKind} :
            (r.summary \cup r.details \cup r.metadata) \cap Secrets = {}

(* AuditService "Guarantees that all decisions, state transitions,         *)
(* approvals, and errors are [...] dispatched to configured sinks": a call *)
(* that has begun returns.                                                 *)
RecordsAreDispatched ==
    \A t \in Logger : logging[t].at # "idle" ~> logging[t].at = "idle"
=============================================================================
