---------------------------- MODULE AuditRepository ----------------------------
(***************************************************************************)
(* audit/repository.py, FileAuditRepository and MemoryAuditRepository: the  *)
(* hash chain they build, their retention, and what                         *)
(* security/audit_integrity.py verifies.  Around them, what else writes the *)
(* same file: other processes with a repository of their own, and the       *)
(* FileAuditSink through which AuditService writes by default.              *)
(*                                                                         *)
(* A record's content is never altered here, so its SHA-256 hash is as good *)
(* as its identity: prev holds the id of the record hashed before it, and   *)
(* the content check of verify_chain always succeeds.                       *)
(*                                                                         *)
(* The RLock of a repository object makes store one step of its process.    *)
(* apply_retention reads the file and later replaces it: nothing keeps the  *)
(* sink or another process from appending in between.                       *)
(***************************************************************************)
EXTENDS Subsequences, SequencesExt

CONSTANTS
    Repository,     \* the repository objects on the file, one per process
    Setups,         \* the situations considered
    MaxAudited      \* bound on the number of records in all of them

(* kind: the class of the repository.  via: how records get to the log.     *)
(* crashes: can a process die in the middle of an append?  writeFails: can  *)
(* the write of store raise?  limit: the bound on the number of records.    *)
(* late: AuditRecord takes its timestamp when it is constructed, before any *)
(* lock; can it be equal to or earlier than those already written?          *)
ASSUME RepositoryAssumption ==
    /\ Setups \subseteq
            [kind : {"file", "memory"}, users : SUBSET Repository, via : SUBSET {"store", "sink"},
             crashes : BOOLEAN, writeFails : BOOLEAN, late : BOOLEAN, limit : 1..MaxAudited]
    /\ \A s \in Setups :
            s.kind = "memory" =>
                Cardinality(s.users) = 1 /\ s.via = {"store"} /\ ~s.crashes /\ ~s.writeFails
    /\ MaxAudited \in Nat \ {0}
    /\ IsFiniteSet(Repository)

VARIABLES
    setup,      \* one of Setups, which never changes
    log,        \* the lines of the file, or self._records
    lastHash,   \* self._last_hash of each repository
    pruning,    \* the survivors an apply_retention has chosen and not yet written
    audited     \* the records whose store or emit has returned, in that order

vars == <<setup, log, lastHash, pruning, audited>>

NoHash == 0
UnwrittenHash == MaxAudited + 1     \* of a record whose write has failed
AuditRecord ==
    [id : 1..MaxAudited, time : 0..MaxAudited, hashed : BOOLEAN, prev : 0..UnwrittenHash]

\* A line cut short by a crash, with whatever was appended to it since.
Unreadable == [id |-> NoHash]
NotPruning == <<Unreadable>>

Init ==
    /\ setup \in Setups
    /\ log = <<>>
    /\ lastHash = [i \in Repository |-> NoHash]
    /\ pruning = [i \in Repository |-> NotPruning]
    /\ audited = <<>>

-----------------------------------------------------------------------------
Earlier(s, i, j) == s[i].time < s[j].time \/ (s[i].time = s[j].time /\ i < j)

\* sorted(..., key=timestamp): stable.
InTimeOrder(s, indices) ==
    [k \in 1..Cardinality(indices) |->
        s[CHOOSE i \in indices : Cardinality({j \in indices : Earlier(s, j, i)}) = k - 1]]

\* _read_records stops at the first line it cannot parse.
Readable(s) ==
    LET bad == {i \in 1..Len(s) : s[i] = Unreadable}
    IN IF bad = {} THEN s ELSE SubSeq(s, 1, (CHOOSE i \in bad : \A j \in bad : i <= j) - 1)

MutantNewest(s, n) == {i \in DOMAIN s : i <= n}

\* sorted(..., reverse=True)[:n] is stable too: of two equal timestamps the
\* one nearer the start of the file is kept.
Newest(s, n) ==
    {i \in DOMAIN s :
        Cardinality({j \in DOMAIN s : s[j].time > s[i].time
                                        \/ (s[j].time = s[i].time /\ j < i)}) < n}

Recent(s, cutoff) == Kept(s, {i \in DOMAIN s : s[i].time >= cutoff})

(* Age first, then volume.  The file is put back in the order of its        *)
(* timestamps; the memory repository leaves the newest first.               *)
Survivors(s, cutoff, maxRecords) ==
    LET recent == Recent(s, cutoff) IN
    IF maxRecords = 0 \/ Len(recent) <= maxRecords THEN recent
    ELSE IF setup.kind = "file" THEN InTimeOrder(recent, Newest(recent, maxRecords))
    ELSE Reverse(InTimeOrder(recent, Newest(recent, maxRecords)))

Hashed(s) == Kept(s, {i \in DOMAIN s : s[i].hashed})

MutantVerifiedAsStored(s) ==
    LET chain == Hashed(s)
    IN \A k \in 2..Len(chain) : chain[k].prev \in {NoHash, chain[k - 1].id}

(* verify_integrity: every line parses, and each hashed record that names a *)
(* predecessor names the hashed record before it.  Records without a hash   *)
(* are skipped, and the first hashed one may name anything.                 *)
Verified(s) ==
    /\ \A i \in DOMAIN s : s[i] # Unreadable
    /\ LET listed == IF setup.kind = "file" THEN s ELSE InTimeOrder(s, DOMAIN s)
           chain == Hashed(listed)
       IN \A k \in 2..Len(chain) : chain[k].prev \in {NoHash, chain[k - 1].id}

-----------------------------------------------------------------------------
\* Appended to a cut-off line, a record is part of an unreadable line.
Appended(s, line) ==
    IF s # <<>> /\ s[Len(s)] = Unreadable THEN s ELSE Append(s, line)

LatestTime == IF audited = <<>> THEN 0
              ELSE LET times == {audited[i].time : i \in DOMAIN audited}
                   IN CHOOSE t \in times : \A u \in times : u <= t

Timestamp ==
    IF setup.late THEN 1..(LatestTime + 1) ELSE {LatestTime + 1}

NewId == Len(audited) + 1
Writing(record) ==
    /\ Len(audited) < setup.limit
    /\ audited' = Append(audited, record)
    /\ log' = Appended(log, record)

\* The hash the next record will name: remembered, or read from the file.
Parent(i) ==
    LET existing == Readable(log) IN
    IF lastHash[i] = NoHash /\ setup.kind = "file" /\ existing # <<>> /\ existing[Len(existing)].hashed
      THEN existing[Len(existing)].id
      ELSE lastHash[i]

Store(i) ==
    /\ pruning[i] = NotPruning
    /\ \E time \in Timestamp :
        Writing([id |-> NewId, time |-> time, hashed |-> TRUE, prev |-> Parent(i)])
    /\ lastHash' = [lastHash EXCEPT ![i] = NewId]
    /\ UNCHANGED <<setup, pruning>>

(* The write raises, possibly half-way through the line: the caller gets    *)
(* the exception, and the hash has already been remembered.                 *)
StoreFails(i) ==
    /\ setup.writeFails
    /\ pruning[i] = NotPruning
    /\ lastHash' = [lastHash EXCEPT ![i] = UnwrittenHash]
    /\ log' \in {log, Appended(log, Unreadable)}
    /\ UNCHANGED <<setup, pruning, audited>>

\* FileAuditSink.emit: a lock of its own, and no hash.
Emit ==
    /\ \E time \in Timestamp :
        Writing([id |-> NewId, time |-> time, hashed |-> FALSE, prev |-> NoHash])
    /\ UNCHANGED <<setup, lastHash, pruning>>

\* apply_retention up to the comparison of the counts.
ChooseSurvivors(i) ==
    /\ pruning[i] = NotPruning
    /\ \E cutoff \in 0..(LatestTime + 1), maxRecords \in 0..setup.limit :
        LET s == Survivors(Readable(log), cutoff, maxRecords) IN
        /\ Len(s) < Len(Readable(log))
        /\ pruning' = [pruning EXCEPT ![i] = s]
    /\ UNCHANGED <<setup, log, lastHash, audited>>

MutantReplaceAppends(i) ==
    /\ pruning[i] # NotPruning
    /\ log' = log \o pruning[i]
    /\ pruning' = [pruning EXCEPT ![i] = NotPruning]
    /\ UNCHANGED <<setup, lastHash, audited>>

\* _write_records: a temporary file replaces the log.
ReplaceLog(i) ==
    /\ pruning[i] # NotPruning
    /\ log' = pruning[i]
    /\ lastHash' = IF setup.kind = "file" /\ pruning[i] # <<>> /\ pruning[i][Len(pruning[i])].hashed
                     THEN [lastHash EXCEPT ![i] = pruning[i][Len(pruning[i])].id]
                     ELSE lastHash
    /\ pruning' = [pruning EXCEPT ![i] = NotPruning]
    /\ UNCHANGED <<setup, audited>>

(* The process of a repository ends, at worst in the middle of an append,   *)
(* and a new one takes its place.                                           *)
Restart(i) ==
    /\ lastHash' = [lastHash EXCEPT ![i] = NoHash]
    /\ pruning' = [pruning EXCEPT ![i] = NotPruning]
    /\ \/ log' = IF setup.kind = "file" THEN log ELSE <<>>
       \/ setup.crashes /\ log' = Appended(log, Unreadable)
    /\ UNCHANGED <<setup, audited>>

Next ==
    \/ \E i \in setup.users :
        \/ "store" \in setup.via /\ (Store(i) \/ StoreFails(i))
        \/ ChooseSurvivors(i) \/ ReplaceLog(i) \/ Restart(i)
    \/ "sink" \in setup.via /\ Emit

Spec == Init /\ [][Next]_vars

-----------------------------------------------------------------------------
\* One process, whose records carry growing timestamps and whose writes succeed.
Orderly ==
    /\ Cardinality(setup.users) = 1 /\ setup.via = {"store"}
    /\ ~setup.crashes /\ ~setup.writeFails /\ ~setup.late

(* verify_integrity raises no false alarm: after any stores, prunings and   *)
(* restarts the log verifies, though its beginning has been pruned away and *)
(* a new process has picked up the chain.                                   *)
IntegrityHolds == Orderly => Verified(log)

InLog == {log[k] : k \in DOMAIN log}

(* Whatever writers, prunings and crashes do to each other, a line that can *)
(* be parsed is a record that was audited, no record is there twice, and a  *)
(* hashed record names one that was hashed before it (or one whose write    *)
(* failed).                                                                 *)
NothingIsForged ==
    \A k \in DOMAIN log :
        log[k] # Unreadable =>
            /\ \E m \in DOMAIN audited : audited[m] = log[k]
            /\ \A n \in DOMAIN log : n # k => log[n] # log[k]
            /\ log[k].prev \notin {NoHash, UnwrittenHash} =>
                    \E m \in 1..(log[k].id - 1) : audited[m].id = log[k].prev /\ audited[m].hashed

(* docs/audit/README.md:78, retention keeps only the newest records,        *)
(* "discarding older excess items": whatever is missing from the log was    *)
(* written before everything that is still in it.                           *)
OldestGoFirst ==
    Orderly =>
        \A k, m \in DOMAIN audited : k < m /\ audited[k] \in InLog => audited[m] \in InLog

(* security/audit_integrity.py:15, "Each record binds to the cryptographic  *)
(* hash of the preceding record": the record after another names it.  It    *)
(* does not hold of two processes: see the README.                          *)
BindsToPredecessor ==
    \A k \in 2..Len(log) :
        log[k] # Unreadable /\ log[k - 1] # Unreadable => log[k].prev = log[k - 1].id
=============================================================================
