----------------------------- MODULE ApiRecords -----------------------------
(***************************************************************************)
(* The records of the REST API: POST /events and POST /decisions/evaluate  *)
(* write decisions_cache and session_db, and the listings of events,       *)
(* decisions and agents read them (api/v1/events.py, decisions.py,         *)
(* agents.py).  Endpoints run in threads of a pool, and nothing locks.     *)
(***************************************************************************)
EXTENDS Integers, Sequences, FiniteSets

CONSTANTS
    Call,           \* calls of the two endpoints
    RecordId,       \* event ids that clients choose
    Dialog,         \* session ids
    ApiAgent

VARIABLES
    decisionsCache, \* decisions_cache: id -> record
    sessionDb,      \* session_db: session -> records
    calls,          \* where each call is
    queued          \* ids for which an approval request was created

recordVars == <<decisionsCache, sessionDb, calls, queued>>

NotCalled == [at |-> "new"]
Unverified == {"ALLOW", "REVIEW", "BLOCK"}

RecordsInit ==
    /\ decisionsCache = [id \in {} |-> NotCalled]
    /\ sessionDb = [s \in {} |-> <<>>]
    /\ calls = [c \in Call |-> NotCalled]
    /\ queued = {}

Put(f, key, value) == [k \in DOMAIN f \cup {key} |-> IF k = key THEN value ELSE f[k]]

-----------------------------------------------------------------------------
(* ingest_event and evaluate_decision up to the verdict; the event's id is *)
(* the client's or new, a verification's is new.                           *)
Ingest(c, id, s, agent, verdict) ==
    /\ calls[c].at = "new" /\ verdict # "REVIEW"
    /\ calls' = [calls EXCEPT ![c] =
            [at |-> "verified", live |-> TRUE, kind |-> "event",
             record |-> [id |-> id, session |-> s, agent |-> agent, verdict |-> verdict]]]
    /\ UNCHANGED <<decisionsCache, sessionDb, queued>>

Evaluate(c, s, agent, verdict, dry_run) ==
    /\ calls[c].at = "new"
    /\ calls' = [calls EXCEPT ![c] =
            [at |-> "verified", live |-> ~dry_run, kind |-> "verification",
             record |-> [id |-> c, session |-> s, agent |-> agent, verdict |-> verdict]]]
    /\ UNCHANGED <<decisionsCache, sessionDb, queued>>

Moves(c, at) == calls' = [calls EXCEPT ![c].at = at]

(* A dry run stores nothing.                                               *)
AnswerDryRun(c) ==
    /\ calls[c].at = "verified" /\ ~calls[c].live
    /\ Moves(c, "answered")
    /\ UNCHANGED <<decisionsCache, sessionDb, queued>>

MutantCacheDecision(c) ==
    /\ calls[c].at = "verified" /\ calls[c].live
    /\ Moves(c, "cached")
    /\ decisionsCache' = IF calls[c].kind = "event" THEN decisionsCache
                         ELSE Put(decisionsCache, calls[c].record.id, calls[c].record)
    /\ UNCHANGED <<sessionDb, queued>>

CacheDecision(c) ==
    /\ calls[c].at = "verified" /\ calls[c].live
    /\ decisionsCache' = Put(decisionsCache, calls[c].record.id, calls[c].record)
    /\ Moves(c, "cached")
    /\ UNCHANGED <<sessionDb, queued>>

(* ingest_event looks for the session, puts an empty list there if it has  *)
(* found none, and appends to the list that is there then ...              *)
LookForSession(c) ==
    /\ calls[c].at = "cached" /\ calls[c].kind = "event"
    /\ Moves(c, IF calls[c].record.session \in DOMAIN sessionDb THEN "listed" ELSE "unlisted")
    /\ UNCHANGED <<decisionsCache, sessionDb, queued>>

StartSession(c) ==
    /\ calls[c].at = "unlisted"
    /\ sessionDb' = Put(sessionDb, calls[c].record.session, <<>>)
    /\ Moves(c, "listed")
    /\ UNCHANGED <<decisionsCache, queued>>

AppendEvent(c) ==
    LET r == calls[c].record IN
    /\ calls[c].at = "listed"
    /\ sessionDb' = [sessionDb EXCEPT ![r.session] = Append(@, r)]
    /\ Moves(c, "answered")
    /\ UNCHANGED <<decisionsCache, queued>>

(* ... while evaluate_decision uses setdefault.                            *)
AppendDecision(c) ==
    LET r == calls[c].record IN
    /\ calls[c].at = "cached" /\ calls[c].kind = "verification"
    /\ sessionDb' = Put(sessionDb, r.session,
            Append(IF r.session \in DOMAIN sessionDb THEN sessionDb[r.session] ELSE <<>>, r))
    /\ Moves(c, IF r.verdict = "REVIEW" THEN "asking" ELSE "answered")
    /\ UNCHANGED <<decisionsCache, queued>>

CreateRequest(c) ==
    /\ calls[c].at = "asking"
    /\ queued' = queued \cup {calls[c].record.id}
    /\ Moves(c, "answered")
    /\ UNCHANGED <<decisionsCache, sessionDb>>

RecordsNext ==
    \E c \in Call :
        \/ \E s \in Dialog, agent \in ApiAgent, verdict \in Unverified :
            \/ \E id \in RecordId \cup {c} : Ingest(c, id, s, agent, verdict)
            \/ \E dry_run \in BOOLEAN : Evaluate(c, s, agent, verdict, dry_run)
        \/ AnswerDryRun(c) \/ CacheDecision(c)
        \/ LookForSession(c) \/ StartSession(c) \/ AppendEvent(c)
        \/ AppendDecision(c) \/ CreateRequest(c)

RecordsSpec == RecordsInit /\ [][RecordsNext]_recordVars

-----------------------------------------------------------------------------
(* The listings, with filters that may be "any".                           *)
RecordsOf(s) == IF s \in DOMAIN sessionDb THEN {sessionDb[s][i] : i \in DOMAIN sessionDb[s]} ELSE {}

ListEvents(agent, s) ==
    {r \in UNION {RecordsOf(d) : d \in DOMAIN sessionDb} :
        agent \in {r.agent, "any"} /\ s \in {r.session, "any"}}

ListDecisions(agent, s, verdict) ==
    {d \in {decisionsCache[id] : id \in DOMAIN decisionsCache} :
        agent \in {d.agent, "any"} /\ s \in {d.session, "any"} /\ verdict \in {d.verdict, "any"}}

GetEvent(id) ==
    IF id \in DOMAIN decisionsCache THEN {decisionsCache[id]}
    ELSE {r \in ListEvents("any", "any") : r.id = id}

(* _aggregate_agents_data: by session_db, or else by decisions_cache.      *)
Alarms == {"BLOCK", "REVIEW"}
Own(agent, s) == {i \in DOMAIN sessionDb[s] : sessionDb[s][i].agent = agent}
OwnEvents(agent) == UNION {{s} \X Own(agent, s) : s \in DOMAIN sessionDb}

Profile(agent) ==
    LET sessions == {s \in DOMAIN sessionDb : Own(agent, s) # {}}
        alarming == {e \in OwnEvents(agent) : sessionDb[e[1]][e[2]].verdict \in Alarms}
        known == ListDecisions(agent, "any", "any")
        first == CHOOSE d \in known : TRUE
    IN  IF sessions # {}
        THEN [sessions |-> sessions, total_events |-> Cardinality(OwnEvents(agent)),
              total_anomalies |-> Cardinality(alarming)]
        ELSE IF known = {} THEN [sessions |-> {}, total_events |-> 0, total_anomalies |-> 0]
        ELSE [sessions |-> {first.session}, total_events |-> 1,
              total_anomalies |-> IF first.verdict = "ALLOW" THEN 0 ELSE 1]

(* An event that is listed is found by its id, and its agent has a profile *)
(* that counts it in that session.                                         *)
EventsAreFound ==
    \A r \in ListEvents("any", "any") :
        /\ r.id \in DOMAIN decisionsCache /\ GetEvent(r.id) # {}
        /\ r.session \in Profile(r.agent).sessions

ProfilesAddUp ==
    \A agent \in ApiAgent : Profile(agent).total_anomalies <= Profile(agent).total_events

(* A REVIEW that was answered waits for approval unless it was a dry run.  *)
ReviewsWait ==
    \A c \in Call : (calls[c].at = "answered" /\ calls[c].kind = "verification") =>
            (calls[c].record.id \in queued <=> calls[c].live /\ calls[c].record.verdict = "REVIEW")

(* Whatever calls overlap, records they lose and ids clients use again: an *)
(* event that is listed is found by its id, its agent has a profile that   *)
(* counts it in that session, no profile has more alarms than events, and  *)
(* a REVIEW that was answered waits for approval unless it was a dry run.  *)
ListedIsFound == EventsAreFound /\ ProfilesAddUp /\ ReviewsWait
=============================================================================
