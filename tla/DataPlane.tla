----------------------------- MODULE DataPlane -----------------------------
(***************************************************************************)
(* What a tenant sees: POST /ingest and GET /logs (internal/queryapi over  *)
(* logstore.Search) beside the control plane, whose keys both look up once *)
(* at the start of a request.  SealBatch is taken as the append to the     *)
(* tenant's log that AppendLog promises; Gateway has its steps.            *)
(***************************************************************************)
EXTENDS ControlPlane, Integers, Sequences, FiniteSets

CONSTANTS
    Recs,          \* contents of log records: source and raw line
    Requests,      \* POST /ingest and GET /logs requests
    Queries,       \* the parameters GET /logs requests come with
    MaxLimit,      \* the largest limit Search grants (10000)
    DefaultLimit   \* the limit Search uses otherwise (1000)

ASSUME DataPlaneConstants ==
    /\ \A p \in Queries : p.matching \subseteq Recs /\ p.limit \in Int
    /\ MaxLimit \in Nat /\ DefaultLimit \in Nat /\ DefaultLimit <= MaxLimit

VARIABLES
    log,   \* per tenant, its rows by seq: ingest time, record, sealing key
    now,   \* the gateway's clock, read by each ingest request
    req    \* per request, the locals of its handler

dataVars == <<controlVars, log, now, req>>

NewRequest == [pc |-> "new", key |-> None, tenant |-> None, time |-> 0,
               params |-> None, answer |-> {}, late |-> FALSE, acked |-> {}]

\* logstore.SearchParams as ServeHTTP fills it in.  A start or end that is
\* absent or does not parse is None, such a limit is 0; q and source select
\* records.
Params(start, end, matching, limit) ==
    [start |-> start, end |-> end, matching |-> matching, limit |-> limit]

DataInit ==
    /\ ControlInit
    /\ log = [t \in Tenants |-> <<>>]
    /\ now = 0
    /\ req = [r \in Requests |-> NewRequest]

-----------------------------------------------------------------------------
\* The rows of t that some request was told about: those with a time no other
\* request has, acknowledged by it.
AckedSeqs(t) ==
    {s \in 1 .. Len(log[t]) :
        \E r \in Requests : /\ req[r].pc = "ok" /\ req[r].params = None
                            /\ req[r].tenant = t /\ req[r].time = log[t][s].time}

\* The start of both handlers: the key is looked up, once.
Admit(r, k, pc, time, params) ==
    /\ req[r].pc = "new"
    /\ issuedTo[k] # None
    /\ req' = [req EXCEPT ![r] =
          [NewRequest EXCEPT
              !.pc = IF Authenticate(k) = None THEN "refused" ELSE pc,
              !.key = k, !.tenant = Authenticate(k), !.time = time,
              !.params = params, !.late = k \in dead,
              !.acked = IF params = None \/ Authenticate(k) = None THEN {}
                        ELSE AckedSeqs(Authenticate(k))]]

\* ingest.Handler: authenticated, the body parsed, the ingest time taken.
Ingest(r, k) ==
    /\ Admit(r, k, "sealing", now, None)
    /\ now' = now + 1
    /\ UNCHANGED <<controlVars, log>>

SealBatch(r, rec) ==
    /\ req[r].pc = "sealing"
    /\ log' = [log EXCEPT ![req[r].tenant] =
          Append(@, [time |-> req[r].time, rec |-> rec, by |-> req[r].key])]
    /\ req' = [req EXCEPT ![r].pc = "ok"]
    /\ UNCHANGED <<controlVars, now>>

\* queryapi.Handler: authenticated, the parameters parsed.
Query(r, k, params) ==
    /\ Admit(r, k, "searching", 0, params)
    /\ UNCHANGED <<controlVars, log, now>>

\* The lookup of the key, SealBatch or Search returns an error: 500.
RequestFails(r) ==
    /\ req[r].pc \in {"new", "sealing", "searching"}
    /\ req' = [req EXCEPT ![r] = [NewRequest EXCEPT !.pc = "failed"]]
    /\ UNCHANGED <<controlVars, log, now>>

-----------------------------------------------------------------------------
\* The limit Search applies: too large a one falls back to the default too.
EffectiveLimit(l) == IF l <= 0 \/ l > MaxLimit THEN DefaultLimit ELSE l

\* The WHERE clause after the tenant predicate.
Matches(p, row) ==
    /\ p.start # None => row.time >= p.start
    /\ p.end # None => row.time <= p.end
    /\ row.rec \in p.matching

Found(t, p) == {s \in 1 .. Len(log[t]) : Matches(p, log[t][s])}

\* ORDER BY seq DESC LIMIT n.
Newest(seqs, n) == {s \in seqs : Cardinality({u \in seqs : u > s}) < n}

\* Mutant: the rows of all tenants are searched.
SearchAll(t, p) ==
    UNION {{<<u, s>> : s \in Newest(Found(u, p), EffectiveLimit(p.limit))} : u \in Tenants}

\* Mutant: ORDER BY seq without DESC.
SearchOldest(t, p) ==
    {<<t, s>> : s \in {i \in Found(t, p) :
        Cardinality({u \in Found(t, p) : u < i}) < EffectiveLimit(p.limit)}}

\* logstore.Search: the tenant's matching rows, of which the newest up to the
\* limit.  A row is named by its tenant and its position.
Search(t, p) == {<<t, s>> : s \in Newest(Found(t, p), EffectiveLimit(p.limit))}

AnswerQuery(r) ==
    /\ req[r].pc = "searching"
    /\ req' = [req EXCEPT ![r].pc = "ok",
                          ![r].answer = Search(req[r].tenant, req[r].params)]
    /\ UNCHANGED <<controlVars, log, now>>

DataNext ==
    \/ ControlNext /\ UNCHANGED <<log, now, req>>
    \/ \E r \in Requests :
          \/ \E k \in Keys : Ingest(r, k) \/ \E p \in Queries : Query(r, k, p)
          \/ \E rec \in Recs : SealBatch(r, rec)
          \/ AnswerQuery(r) \/ RequestFails(r)

DataSpec == DataInit /\ [][DataNext]_dataVars

-----------------------------------------------------------------------------
(* Properties.                                                             *)

LogRow == [time: Nat, rec: Recs, by: Keys]

Request ==
    [pc: {"new", "refused", "sealing", "searching", "ok", "failed"},
     key: Keys \cup {None}, tenant: Tenants \cup {None}, time: Nat,
     params: Queries \cup {None}, answer: SUBSET (Tenants \X Nat),
     late: BOOLEAN, acked: SUBSET Nat]

DataTypeOK ==
    /\ ControlTypeOK
    /\ log \in [Tenants -> Seq(LogRow)]
    /\ now \in Nat
    /\ req \in [Requests -> Request]

\* queryapi: "there is no code path that reads across tenants".  Every row in
\* an answer was sealed with a key that had been handed out for the tenant of
\* the asking key, whatever became of the two keys and of the tenant between
\* the lookup of a key and the use of its tenant id.
TenantIsolation ==
    \A r \in Requests : \A row \in req[r].answer :
        issuedTo[log[row[1]][row[2]].by] = issuedTo[req[r].key]

\* A client reads its own writes: a row acknowledged before the query was sent
\* is in the answer if it matches, unless the answer is full of newer rows.
ReadYourWrites ==
    \A r \in Requests : req[r].pc = "ok" /\ req[r].params # None =>
        LET t == req[r].tenant
            p == req[r].params
        IN  \A s \in req[r].acked : Matches(p, log[t][s]) =>
              \/ <<t, s>> \in req[r].answer
              \/ /\ Cardinality(req[r].answer) = EffectiveLimit(p.limit)
                 /\ \A row \in req[r].answer : row[2] > s

\* control: "unknown or revoked".  A request sent after its key was revoked, or
\* deleted with its tenant, is never served, not even when the tenant has been
\* created again.
DeadKeyRefused == \A r \in Requests : req[r].late => req[r].pc \in {"refused", "failed"}
=============================================================================
