-------------------------- MODULE DataPlaneProofs --------------------------
(***************************************************************************)
(* What keys and tenants guarantee, for any tenants, keys, requests,       *)
(* queries and limits.                                                     *)
(***************************************************************************)
EXTENDS DataPlane, Induction

-----------------------------------------------------------------------------
(* The inductive invariant.                                                *)

\* A key that is being issued has not been handed out.
PendingInv == \A k \in Keys : lookedUp[k] # None => issuedTo[k] = None

\* A stored key is the one that was handed out for its tenant.
StoredInv == \A k \in Keys : apiKeys[k] # None => apiKeys[k].tenant = issuedTo[k]

\* A dead key was handed out once and has no row that Authenticate accepts.
DeadInv ==
    \A k \in dead : issuedTo[k] # None /\ (apiKeys[k] = None \/ apiKeys[k].revoked)

\* A row was sealed with a key of the tenant it is stored under.
LogInv == \A t \in Tenants : \A s \in 1 .. Len(log[t]) : issuedTo[log[t][s].by] = t

\* A request that was let in goes by the tenant its key was handed out for.
RequestInv ==
    \A r \in Requests :
        /\ req[r].tenant # None => req[r].key \in Keys /\ issuedTo[req[r].key] = req[r].tenant
        /\ req[r].pc \in {"sealing", "searching"} => req[r].tenant # None
        /\ \A row \in req[r].answer :
              row[1] = req[r].tenant /\ row[1] \in Tenants /\ row[2] \in 1 .. Len(log[row[1]])

DataInv ==
    /\ DataTypeOK
    /\ KeyHasTenant /\ PendingInv /\ StoredInv /\ DeadInv
    /\ LogInv /\ RequestInv /\ DeadKeyRefused

-----------------------------------------------------------------------------
(* The operators the model is built from.                                  *)

\* Authenticate answers with a tenant only for a stored key, and then with the
\* one the key was handed out for; a dead key gets None.
LEMMA AuthenticateCorrect ==
    ASSUME DataInv, NEW k \in Keys
    PROVE  /\ Authenticate(k) \in Tenants \cup {None}
           /\ Authenticate(k) # None => Authenticate(k) = issuedTo[k]
           /\ k \in dead => Authenticate(k) = None
BY DEF Authenticate, DataInv, DataTypeOK, ControlTypeOK, KeyRow, StoredInv, DeadInv

\* Search names rows of the tenant it was asked about.
LEMMA SearchWithinTenant ==
    ASSUME NEW t, NEW p, NEW row \in Search(t, p)
    PROVE  row = <<t, row[2]>> /\ row[1] = t /\ row[2] \in 1 .. Len(log[t])
<1>1. PICK s \in Newest(Found(t, p), EffectiveLimit(p.limit)) : row = <<t, s>>
  BY DEF Search
<1>2. s \in 1 .. Len(log[t])
  BY DEF Newest, Found
<1> QED
  BY <1>1, <1>2

\* A row that stays is the same row after the log has grown.
LEMMA AppendKeeps ==
    ASSUME NEW S, NEW q \in Seq(S), NEW x \in S
    PROVE  /\ Append(q, x) \in Seq(S)
           /\ Len(Append(q, x)) = Len(q) + 1
           /\ \A s \in 1 .. Len(q) : Append(q, x)[s] = q[s]
           /\ Append(q, x)[Len(q) + 1] = x
OBVIOUS

-----------------------------------------------------------------------------
(* Every step preserves the invariant.                                     *)

\* Empty tables, no rows and no requests satisfy the invariant.
LEMMA InitInvariant == DataInit => DataInv
<1> SUFFICES ASSUME DataInit PROVE DataInv
  OBVIOUS
<1> USE DEF DataInit, ControlInit
<1>1. ControlTypeOK
  BY DEF ControlTypeOK
<1>2. req \in [Requests -> Request]
  BY DEF NewRequest, Request
<1>3. DataTypeOK
  BY <1>1, <1>2 DEF DataTypeOK
<1>4. KeyHasTenant /\ PendingInv /\ StoredInv /\ DeadInv
  BY DEF KeyHasTenant, PendingInv, StoredInv, DeadInv
<1>5. LogInv
  BY DEF LogInv
<1>6. RequestInv /\ DeadKeyRefused
  BY DEF RequestInv, DeadKeyRefused, NewRequest
<1> QED
  BY <1>3, <1>4, <1>5, <1>6 DEF DataInv

\* A step of the control plane that hands out no key and does not revive one
\* leaves what is said about rows and requests alone.
LEMMA ControlFrame ==
    ASSUME DataInv, UNCHANGED <<log, now, req>>,
           ControlTypeOK', \A k \in Keys : issuedTo[k] # None => issuedTo'[k] = issuedTo[k]
    PROVE  DataTypeOK' /\ LogInv' /\ RequestInv' /\ DeadKeyRefused'
<1> USE DEF DataInv, DataTypeOK
<1>1. DataTypeOK'
  OBVIOUS
<1>2. ASSUME NEW t \in Tenants, NEW s \in 1 .. Len(log[t])
      PROVE  issuedTo'[log[t][s].by] = t
  <2>1. log[t] \in Seq(LogRow)
    OBVIOUS
  <2>2. log[t][s].by \in Keys
    <3>1. log[t][s] \in LogRow
      BY <2>1
    <3> QED
      BY <3>1 DEF LogRow
  <2>3. issuedTo[log[t][s].by] = t
    BY DEF LogInv
  <2> QED
    BY <2>2, <2>3, ControlConstants
<1>3. LogInv'
  BY <1>2 DEF LogInv
<1>4. RequestInv'
  BY DEF RequestInv
<1>5. DeadKeyRefused'
  BY DEF DeadKeyRefused
<1> QED
  BY <1>1, <1>3, <1>4, <1>5

\* CreateTenant.
LEMMA CreateTenantStep ==
    ASSUME DataInv, UNCHANGED <<log, now, req>>, NEW t \in Tenants, CreateTenant(t)
    PROVE  DataInv'
<1> USE DEF CreateTenant
<1>1. ControlTypeOK'
  BY DEF DataInv, DataTypeOK, ControlTypeOK
<1>2. KeyHasTenant' /\ PendingInv' /\ StoredInv' /\ DeadInv'
  BY DEF DataInv, KeyHasTenant, PendingInv, StoredInv, DeadInv
<1> QED
  BY <1>1, <1>2, ControlFrame DEF DataInv

\* The first statement of IssueAPIKey.
LEMMA IssueLookupStep ==
    ASSUME DataInv, UNCHANGED <<log, now, req>>, NEW k \in Keys, NEW t \in Tenants,
           IssueLookup(k, t)
    PROVE  DataInv'
<1> USE DEF IssueLookup
<1>1. ControlTypeOK'
  BY DEF DataInv, DataTypeOK, ControlTypeOK
<1>2. KeyHasTenant' /\ StoredInv' /\ DeadInv'
  BY DEF DataInv, KeyHasTenant, StoredInv, DeadInv
<1>3. PendingInv'
  BY DEF DataInv, DataTypeOK, ControlTypeOK, PendingInv
<1> QED
  BY <1>1, <1>2, <1>3, ControlFrame DEF DataInv

\* The second statement of IssueAPIKey: the only step that hands out a key,
\* and one that was not handed out before.
LEMMA IssueInsertStep ==
    ASSUME DataInv, UNCHANGED <<log, now, req>>, NEW k \in Keys, IssueInsert(k)
    PROVE  DataInv'
<1> USE DEF IssueInsert
<1> DEFINE row == [tenant |-> lookedUp[k], revoked |-> FALSE]
<1>0. ControlTypeOK
  BY DEF DataInv, DataTypeOK
<1>1. lookedUp[k] \in Tenants /\ lookedUp[k] # None /\ issuedTo[k] = None
  BY <1>0, ControlConstants DEF DataInv, ControlTypeOK, PendingInv
<1>2. row \in KeyRow
  BY <1>1 DEF KeyRow
<1>3. ControlTypeOK'
  BY <1>0, <1>1, <1>2 DEF ControlTypeOK
<1>4. /\ apiKeys'[k] = row /\ issuedTo'[k] = lookedUp[k] /\ lookedUp'[k] = None
      /\ \A q \in Keys \ {k} : /\ apiKeys'[q] = apiKeys[q] /\ issuedTo'[q] = issuedTo[q]
                               /\ lookedUp'[q] = lookedUp[q]
  BY <1>0 DEF ControlTypeOK
<1>5. KeyHasTenant'
  BY <1>4 DEF DataInv, KeyHasTenant
<1>6. PendingInv' /\ StoredInv'
  BY <1>4 DEF DataInv, PendingInv, StoredInv
<1>7. DeadInv'
  BY <1>0, <1>1, <1>4 DEF DataInv, DeadInv, ControlTypeOK
<1>8. \A q \in Keys : issuedTo[q] # None => issuedTo'[q] = issuedTo[q]
  BY <1>1, <1>4
<1> QED
  BY <1>3, <1>5, <1>6, <1>7, <1>8, ControlFrame DEF DataInv

\* IssueAPIKey fails.
LEMMA IssueFailsStep ==
    ASSUME DataInv, UNCHANGED <<log, now, req>>, NEW k \in Keys, IssueFails(k)
    PROVE  DataInv'
<1> USE DEF IssueFails
<1>1. ControlTypeOK'
  BY DEF DataInv, DataTypeOK, ControlTypeOK
<1>2. KeyHasTenant' /\ StoredInv' /\ DeadInv'
  BY DEF DataInv, KeyHasTenant, StoredInv, DeadInv
<1>3. PendingInv'
  BY DEF DataInv, DataTypeOK, ControlTypeOK, PendingInv
<1> QED
  BY <1>1, <1>2, <1>3, ControlFrame DEF DataInv

\* An operator revokes a key.
LEMMA RevokeKeyStep ==
    ASSUME DataInv, UNCHANGED <<log, now, req>>, NEW k \in Keys, RevokeKey(k)
    PROVE  DataInv'
<1> USE DEF RevokeKey
<1>0. ControlTypeOK
  BY DEF DataInv, DataTypeOK
<1>1. apiKeys[k] \in KeyRow /\ apiKeys[k].tenant \in Tenants
  BY <1>0 DEF ControlTypeOK, KeyRow
<1>2. /\ apiKeys'[k] = [apiKeys[k] EXCEPT !.revoked = TRUE]
      /\ \A q \in Keys \ {k} : apiKeys'[q] = apiKeys[q]
  BY <1>0 DEF ControlTypeOK
<1>3. apiKeys'[k] \in KeyRow /\ apiKeys'[k].tenant = apiKeys[k].tenant /\ apiKeys'[k].revoked
  BY <1>1, <1>2 DEF KeyRow
<1>4. ControlTypeOK'
  BY <1>0, <1>3 DEF ControlTypeOK
<1>5. KeyHasTenant' /\ PendingInv' /\ StoredInv'
  BY <1>2, <1>3 DEF DataInv, KeyHasTenant, PendingInv, StoredInv
<1>6. issuedTo[k] # None
  BY <1>1, ControlConstants DEF DataInv, StoredInv
<1>7. DeadInv'
  BY <1>0, <1>2, <1>3, <1>6 DEF DataInv, DeadInv, ControlTypeOK
<1> QED
  BY <1>4, <1>5, <1>7, ControlFrame DEF DataInv

\* An operator deletes a tenant.
LEMMA DeleteTenantStep ==
    ASSUME DataInv, UNCHANGED <<log, now, req>>, NEW t \in Tenants, DeleteTenant(t)
    PROVE  DataInv'
<1> USE DEF DeleteTenant
<1> DEFINE gone == {k \in Keys : apiKeys[k] # None /\ apiKeys[k].tenant = t}
<1>0. ControlTypeOK
  BY DEF DataInv, DataTypeOK
<1>1. \A q \in Keys : apiKeys'[q] = IF q \in gone THEN None ELSE apiKeys[q]
  OBVIOUS
<1>2. ControlTypeOK'
  BY <1>0 DEF ControlTypeOK
<1>3. KeyHasTenant'
  BY <1>1 DEF DataInv, KeyHasTenant
<1>4. PendingInv' /\ StoredInv'
  BY <1>1 DEF DataInv, PendingInv, StoredInv
<1>5. \A q \in gone : issuedTo[q] # None
  BY ControlConstants DEF DataInv, StoredInv
<1>6. DeadInv'
  BY <1>0, <1>1, <1>5 DEF DataInv, DeadInv, ControlTypeOK
<1> QED
  BY <1>2, <1>3, <1>4, <1>6, ControlFrame DEF DataInv

\* A step of one request's handler leaves what is said about the tables alone;
\* it is enough to look at that request.
LEMMA HandlerFrame ==
    ASSUME DataInv, UNCHANGED <<controlVars, log>>, now' \in Nat,
           NEW r \in Requests, NEW q \in Request, req' = [req EXCEPT ![r] = q],
           q.tenant # None => q.key \in Keys /\ issuedTo[q.key] = q.tenant,
           q.pc \in {"sealing", "searching"} => q.tenant # None,
           \A row \in q.answer :
               row[1] = q.tenant /\ row[1] \in Tenants /\ row[2] \in 1 .. Len(log[row[1]]),
           q.late => q.pc \in {"refused", "failed"}
    PROVE  DataInv'
<1> USE DEF controlVars
<1>1. req'[r] = q /\ \A other \in Requests \ {r} : req'[other] = req[other]
  BY DEF DataInv, DataTypeOK
<1>2. DataTypeOK'
  BY DEF DataInv, DataTypeOK, ControlTypeOK
<1>3. KeyHasTenant' /\ PendingInv' /\ StoredInv' /\ DeadInv' /\ LogInv'
  BY DEF DataInv, KeyHasTenant, PendingInv, StoredInv, DeadInv, LogInv
<1>4. RequestInv'
  BY <1>1 DEF DataInv, RequestInv
<1>5. DeadKeyRefused'
  BY <1>1 DEF DataInv, DeadKeyRefused
<1> QED
  BY <1>2, <1>3, <1>4, <1>5 DEF DataInv

\* The rows AckedSeqs names are numbered.
LEMMA AckedSeqsType ==
    ASSUME NEW t
    PROVE  AckedSeqs(t) \in SUBSET Nat
BY DEF AckedSeqs

\* What Admit makes of a new request, for both handlers.
LEMMA AdmitStep ==
    ASSUME DataInv, UNCHANGED <<controlVars, log>>, now' \in Nat,
           NEW r \in Requests, NEW k \in Keys, NEW time \in Nat,
           NEW pc \in {"sealing", "searching"}, NEW params \in Queries \cup {None},
           Admit(r, k, pc, time, params)
    PROVE  DataInv'
<1> DEFINE pcNow == IF Authenticate(k) = None THEN "refused" ELSE pc
           late  == k \in dead
           acked == IF params = None \/ Authenticate(k) = None THEN {}
                    ELSE AckedSeqs(Authenticate(k))
           q     == [NewRequest EXCEPT !.pc = pcNow, !.key = k, !.tenant = Authenticate(k),
                                       !.time = time, !.params = params, !.late = late,
                                       !.acked = acked]
<1>1. req' = [req EXCEPT ![r] = q]
  BY DEF Admit
<1>2. /\ pcNow \in {"refused", "sealing", "searching"}
      /\ late = TRUE \/ late = FALSE
      /\ late => pcNow = "refused"
      /\ acked \in SUBSET Nat
      /\ pcNow \in {"sealing", "searching"} => Authenticate(k) # None
  BY AuthenticateCorrect, AckedSeqsType
<1> HIDE DEF pcNow, late, acked
<1>3. /\ q.pc = pcNow /\ q.key = k /\ q.tenant = Authenticate(k) /\ q.answer = {}
      /\ q.late => late
  <2>1. q.pc = pcNow /\ q.key = k /\ q.tenant = Authenticate(k) /\ q.answer = {}
    BY DEF NewRequest
  <2>2. CASE late = TRUE
    BY <2>1, <2>2
  <2>3. CASE late = FALSE
    BY <2>1, <2>3 DEF NewRequest
  <2> QED
    BY <1>2, <2>1, <2>2, <2>3
<1>4. q \in Request
  <2>1. CASE late = TRUE
    BY <1>2, <2>1, AuthenticateCorrect DEF NewRequest, Request
  <2>2. CASE late = FALSE
    BY <1>2, <2>2, AuthenticateCorrect DEF NewRequest, Request
  <2> HIDE DEF q
  <2> QED
    BY <1>2, <2>1, <2>2
<1> HIDE DEF q
<1>5. /\ q.tenant # None => q.key \in Keys /\ issuedTo[q.key] = q.tenant
      /\ q.pc \in {"sealing", "searching"} => q.tenant # None
      /\ q.late => q.pc \in {"refused", "failed"}
  BY <1>2, <1>3, AuthenticateCorrect
<1> QED
  BY <1>1, <1>3, <1>4, <1>5, HandlerFrame

\* The start of POST /ingest.
LEMMA IngestStep ==
    ASSUME DataInv, NEW r \in Requests, NEW k \in Keys, Ingest(r, k)
    PROVE  DataInv'
<1>1. now \in Nat /\ now' = now + 1
  BY DEF DataInv, DataTypeOK, Ingest
<1> QED
  BY <1>1, AdmitStep DEF Ingest

\* The start of GET /logs.
LEMMA QueryStep ==
    ASSUME DataInv, NEW r \in Requests, NEW k \in Keys, NEW p \in Queries, Query(r, k, p)
    PROVE  DataInv'
<1>1. now' \in Nat
  BY DEF DataInv, DataTypeOK, Query
<1> QED
  BY <1>1, AdmitStep DEF Query

\* The answer of GET /logs.
LEMMA AnswerQueryStep ==
    ASSUME DataInv, NEW r \in Requests, AnswerQuery(r)
    PROVE  DataInv'
<1> DEFINE found == Search(req[r].tenant, req[r].params)
           q == [req[r] EXCEPT !.pc = "ok", !.answer = found]
<1>0. req[r] \in Request /\ req \in [Requests -> Request] /\ now \in Nat
  BY DEF DataInv, DataTypeOK
<1>1. req' = [req EXCEPT ![r] = q]
  BY <1>0 DEF AnswerQuery
<1>2. req[r].tenant \in Tenants /\ req[r].pc = "searching"
  BY <1>0 DEF DataInv, RequestInv, AnswerQuery, Request
<1>3. \A row \in found : /\ row = <<req[r].tenant, row[2]>> /\ row[1] = req[r].tenant
                         /\ row[2] \in 1 .. Len(log[row[1]])
  BY SearchWithinTenant
<1>4. log[req[r].tenant] \in Seq(LogRow)
  BY <1>2 DEF DataInv, DataTypeOK
<1>5. found \in SUBSET (Tenants \X Nat)
  BY <1>2, <1>3, <1>4
<1>6. /\ q \in Request
      /\ q.tenant = req[r].tenant /\ q.key = req[r].key /\ q.late = req[r].late
      /\ q.pc = "ok" /\ q.answer = found
  <2> HIDE DEF found
  <2> QED
    BY <1>0, <1>5 DEF Request
<1>7. q.tenant # None => q.key \in Keys /\ issuedTo[q.key] = q.tenant
  BY <1>6 DEF DataInv, RequestInv
<1>8. ~q.late
  BY <1>2, <1>6 DEF DataInv, DeadKeyRefused
<1>9. UNCHANGED <<controlVars, log>> /\ now' \in Nat
  BY <1>0 DEF AnswerQuery
<1> HIDE DEF q, found
<1> QED
  BY <1>1, <1>2, <1>3, <1>6, <1>7, <1>8, <1>9, HandlerFrame

\* A request ends in an error.
LEMMA RequestFailsStep ==
    ASSUME DataInv, NEW r \in Requests, RequestFails(r)
    PROVE  DataInv'
<1> DEFINE q == [NewRequest EXCEPT !.pc = "failed"]
<1>1. /\ q \in Request
      /\ q.tenant = None /\ q.pc = "failed" /\ q.answer = {} /\ q.late = FALSE
  BY DEF NewRequest, Request
<1>2. req' = [req EXCEPT ![r] = q] /\ UNCHANGED <<controlVars, log>> /\ now' \in Nat
  BY DEF RequestFails, DataInv, DataTypeOK
<1> HIDE DEF q
<1> QED
  BY <1>1, <1>2, HandlerFrame

\* SealBatch.
LEMMA SealBatchStep ==
    ASSUME DataInv, NEW r \in Requests, NEW rec \in Recs, SealBatch(r, rec)
    PROVE  DataInv'
<1> USE DEF controlVars
<1> DEFINE t == req[r].tenant
           row == [time |-> req[r].time, rec |-> rec, by |-> req[r].key]
<1>0. /\ req[r] \in Request /\ req \in [Requests -> Request]
      /\ log \in [Tenants -> Seq(LogRow)] /\ UNCHANGED controlVars /\ UNCHANGED now
  BY DEF DataInv, DataTypeOK, SealBatch
<1>1. /\ t \in Tenants /\ t # None /\ req[r].key \in Keys /\ issuedTo[req[r].key] = t
      /\ ~req[r].late
  BY <1>0 DEF DataInv, RequestInv, DeadKeyRefused, SealBatch, Request
<1>2. row \in LogRow /\ row.by = req[r].key
  BY <1>0, <1>1 DEF LogRow, Request
<1>3. /\ log' = [log EXCEPT ![t] = Append(log[t], row)]
      /\ req' = [req EXCEPT ![r] = [req[r] EXCEPT !.pc = "ok"]]
  BY DEF SealBatch
<1> HIDE DEF row
<1>4. /\ log'[t] \in Seq(LogRow) /\ Len(log'[t]) = Len(log[t]) + 1
      /\ \A s \in 1 .. Len(log[t]) : log'[t][s] = log[t][s]
      /\ log'[t][Len(log[t]) + 1] = row
  BY <1>0, <1>1, <1>2, <1>3, AppendKeeps
<1>5. \A u \in Tenants \ {t} : log'[u] = log[u]
  BY <1>0, <1>3
<1>6. /\ req'[r] \in Request /\ req'[r].tenant = t /\ req'[r].key = req[r].key
      /\ req'[r].pc = "ok" /\ req'[r].answer = req[r].answer /\ req'[r].late = req[r].late
  BY <1>0, <1>3 DEF Request
<1>7. \A other \in Requests \ {r} : req'[other] = req[other]
  BY <1>0, <1>3
<1>8. DataTypeOK'
  <2>1. log' \in [Tenants -> Seq(LogRow)]
    BY <1>0, <1>1, <1>3, <1>4
  <2>2. req' \in [Requests -> Request]
    BY <1>0, <1>3, <1>6
  <2> QED
    BY <1>0, <2>1, <2>2 DEF DataInv, DataTypeOK, ControlTypeOK
<1>9. KeyHasTenant' /\ PendingInv' /\ StoredInv' /\ DeadInv'
  BY <1>0 DEF DataInv, KeyHasTenant, PendingInv, StoredInv, DeadInv
<1>10. \A u \in Tenants : Len(log[u]) \in Nat /\ 1 .. Len(log[u]) \subseteq 1 .. Len(log'[u])
  <2>1. ASSUME NEW u \in Tenants
        PROVE  Len(log[u]) \in Nat /\ 1 .. Len(log[u]) \subseteq 1 .. Len(log'[u])
    <3>1. log[u] \in Seq(LogRow)
      BY <1>0
    <3>2. Len(log[u]) \in Nat
      BY <3>1
    <3> QED
      BY <3>2, <1>4, <1>5
  <2> QED
    BY <2>1
<1>11. LogInv'
  <2> SUFFICES ASSUME NEW u \in Tenants, NEW s \in 1 .. Len(log'[u])
               PROVE  issuedTo[log'[u][s].by] = u
    BY <1>0 DEF LogInv
  <2>1. CASE u # t
    BY <2>1, <1>5 DEF DataInv, LogInv
  <2>2. CASE u = t /\ s = Len(log[t]) + 1
    BY <2>2, <1>1, <1>2, <1>4
  <2>3. CASE u = t /\ s \in 1 .. Len(log[t])
    BY <2>3, <1>4 DEF DataInv, LogInv
  <2> QED
    BY <2>1, <2>2, <2>3, <1>4, <1>10
<1>12. RequestInv'
  <2>1. ASSUME NEW q \in Requests
        PROVE  /\ req'[q].tenant = req[q].tenant /\ req'[q].key = req[q].key
               /\ req'[q].answer = req[q].answer
               /\ req'[q].pc \in {"sealing", "searching"} => req'[q].pc = req[q].pc
    BY <1>6, <1>7
  <2>2. ASSUME NEW q \in Requests, NEW hit \in req[q].answer
        PROVE  /\ hit[1] = req[q].tenant /\ hit[1] \in Tenants
               /\ hit[2] \in 1 .. Len(log'[hit[1]])
    BY <1>10 DEF DataInv, RequestInv
  <2> QED
    BY <1>0, <2>1, <2>2 DEF DataInv, RequestInv
<1>13. DeadKeyRefused'
  BY <1>1, <1>6, <1>7 DEF DataInv, DeadKeyRefused
<1> QED
  BY <1>8, <1>9, <1>11, <1>12, <1>13 DEF DataInv

-----------------------------------------------------------------------------
(* The theorems.                                                           *)

\* DataInv holds in every reachable state.
LEMMA DataInvariance == DataSpec => []DataInv
<1>1. ASSUME DataInv, [DataNext]_dataVars PROVE DataInv'
  <2>1. CASE ControlNext /\ UNCHANGED <<log, now, req>>
    BY <1>1, <2>1, CreateTenantStep, DeleteTenantStep, IssueLookupStep, IssueInsertStep,
       IssueFailsStep, RevokeKeyStep DEF ControlNext
  <2>2. ASSUME NEW r \in Requests, NEW k \in Keys, Ingest(r, k) PROVE DataInv'
    BY <1>1, <2>2, IngestStep
  <2>3. ASSUME NEW r \in Requests, NEW k \in Keys, NEW p \in Queries, Query(r, k, p)
        PROVE  DataInv'
    BY <1>1, <2>3, QueryStep
  <2>4. ASSUME NEW r \in Requests, NEW rec \in Recs, SealBatch(r, rec) PROVE DataInv'
    BY <1>1, <2>4, SealBatchStep
  <2>5. ASSUME NEW r \in Requests, AnswerQuery(r) PROVE DataInv'
    BY <1>1, <2>5, AnswerQueryStep
  <2>6. ASSUME NEW r \in Requests, RequestFails(r) PROVE DataInv'
    BY <1>1, <2>6, RequestFailsStep
  <2>7. CASE UNCHANGED dataVars
    BY <1>1, <2>7 DEF dataVars, controlVars, DataInv, DataTypeOK, ControlTypeOK, KeyHasTenant,
       PendingInv, StoredInv, DeadInv, LogInv, RequestInv, DeadKeyRefused
  <2> QED
    BY <1>1, <2>1, <2>2, <2>3, <2>4, <2>5, <2>6, <2>7 DEF DataNext
<1> QED
  BY <1>1, InitInvariant, PTL DEF DataSpec

\* Tables, log and requests keep their types.
THEOREM DataTypeCorrectness == DataSpec => []DataTypeOK
<1>1. DataInv => DataTypeOK
  BY DEF DataInv
<1> QED
  BY <1>1, DataInvariance, PTL

\* A live key's tenant exists, although IssueAPIKey takes two statements.
THEOREM LiveKeysHaveTenants == DataSpec => []KeyHasTenant
<1>1. DataInv => KeyHasTenant
  BY DEF DataInv
<1> QED
  BY <1>1, DataInvariance, PTL

\* No request sent after its key died is served.
THEOREM DeadKeysOpenNothing == DataSpec => []DeadKeyRefused
<1>1. DataInv => DeadKeyRefused
  BY DEF DataInv
<1> QED
  BY <1>1, DataInvariance, PTL

\* A query's answer holds only rows sealed for the tenant whose key asked,
\* whatever was revoked, deleted and created again meanwhile.
THEOREM NoReadAcrossTenants == DataSpec => []TenantIsolation
<1>1. ASSUME DataInv PROVE TenantIsolation
  <2> SUFFICES ASSUME NEW r \in Requests, NEW row \in req[r].answer
               PROVE  issuedTo[log[row[1]][row[2]].by] = issuedTo[req[r].key]
    BY DEF TenantIsolation
  <2>1. row[1] = req[r].tenant /\ row[1] \in Tenants /\ row[2] \in 1 .. Len(log[row[1]])
    BY <1>1 DEF DataInv, RequestInv
  <2>2. issuedTo[log[row[1]][row[2]].by] = row[1]
    BY <1>1, <2>1 DEF DataInv, LogInv
  <2>3. issuedTo[req[r].key] = req[r].tenant
    BY <1>1, <2>1, ControlConstants DEF DataInv, RequestInv
  <2> QED
    BY <2>1, <2>2, <2>3
<1> QED
  BY <1>1, DataInvariance, PTL

-----------------------------------------------------------------------------
(* What ORDER BY seq DESC LIMIT returns.                                   *)

\* The rows above one of a finite selection are finitely many.
LEMMA AboveFinite ==
    ASSUME NEW S, IsFiniteSet(S), NEW s
    PROVE  /\ IsFiniteSet({u \in S : u > s})
           /\ Cardinality({u \in S : u > s}) \in Nat
BY FS_Subset, FS_CardinalityType

\* A row left out is below all that are returned.
LEMMA NewestIsAbove ==
    ASSUME NEW S, IsFiniteSet(S), S \subseteq Nat, NEW n \in Nat,
           NEW s \in S \ Newest(S, n), NEW x \in Newest(S, n)
    PROVE  x > s
<1> DEFINE above(y) == {u \in S : u > y}
<1>1. x \in S /\ Cardinality(above(x)) < n /\ ~(Cardinality(above(s)) < n)
  BY DEF Newest
<1>2. Cardinality(above(x)) \in Nat /\ Cardinality(above(s)) \in Nat
  BY AboveFinite
<1>3. ASSUME x <= s PROVE FALSE
  <2>1. above(s) \subseteq above(x)
    <3>1. s \in Nat /\ x \in Nat
      BY <1>1
    <3>2. ASSUME NEW u \in S, u > s PROVE u > x
      BY <1>3, <3>1, <3>2
    <3> QED
      BY <3>2
  <2>2. IsFiniteSet(above(x))
    BY AboveFinite
  <2>3. Cardinality(above(s)) <= Cardinality(above(x))
    BY <2>1, <2>2, FS_Subset
  <2> HIDE DEF above
  <2> QED
    BY <1>1, <1>2, <2>3
<1> QED
  BY <1>1, <1>3

\* One row more is asked for: the highest of those left out comes in.
LEMMA NewestGrows ==
    ASSUME NEW S, IsFiniteSet(S), S \subseteq Nat, NEW bound \in Nat, \A u \in S : u <= bound,
           NEW n \in Nat, Cardinality(Newest(S, n)) = n, n + 1 <= Cardinality(S)
    PROVE  Cardinality(Newest(S, n + 1)) = n + 1
<1> DEFINE above(y) == {u \in S : u > y}
           rest == S \ Newest(S, n)
<1>1. \A y \in S : IsFiniteSet(above(y)) /\ Cardinality(above(y)) \in Nat
  BY AboveFinite
<1>2. Newest(S, n) \subseteq S
  BY DEF Newest
<1>3. rest # {} /\ rest \subseteq Nat
  <2>1. ASSUME rest = {} PROVE FALSE
    <3>1. Newest(S, n) = S
      BY <1>2, <2>1
    <3> HIDE DEF rest
    <3> QED
      BY <3>1
  <2> QED
    BY <2>1
<1>4. PICK m \in rest : \A y \in rest : m >= y
  BY <1>3, LargestElement
<1>5. above(m) = Newest(S, n)
  <2>1. ASSUME NEW u \in S, u > m PROVE u \in Newest(S, n)
    BY <1>3, <1>4, <2>1
  <2>2. ASSUME NEW u \in Newest(S, n) PROVE u > m
    BY NewestIsAbove, <1>4, <2>2
  <2> QED
    BY <1>2, <2>1, <2>2
<1>6. m \in Newest(S, n + 1)
  <2>1. Cardinality(above(m)) < n + 1
    BY <1>5
  <2> QED
    BY <2>1, <1>4 DEF Newest
<1>7. Newest(S, n) \subseteq Newest(S, n + 1)
  <2> SUFFICES ASSUME NEW x \in Newest(S, n) PROVE x \in Newest(S, n + 1)
    OBVIOUS
  <2>1. x \in S /\ Cardinality(above(x)) < n
    BY DEF Newest
  <2>2. Cardinality(above(x)) \in Nat
    BY <1>1, <2>1
  <2>3. Cardinality(above(x)) < n + 1
    <3> HIDE DEF above
    <3> QED
      BY <2>1, <2>2
  <2> QED
    BY <2>1, <2>3 DEF Newest
<1>8. ASSUME NEW x \in Newest(S, n + 1), x \notin Newest(S, n), x # m PROVE FALSE
  <2>1. x \in S /\ Cardinality(above(x)) < n + 1
    BY DEF Newest
  <2>2. x < m
    BY <1>3, <1>4, <1>8, <2>1
  <2>3. above(m) \cup {m} \subseteq above(x)
    <3>1. m \in S /\ m \in Nat /\ x \in Nat
      BY <1>3, <1>4, <2>1
    <3>2. ASSUME NEW u \in S, u > m PROVE u > x
      BY <2>2, <3>1, <3>2
    <3> QED
      BY <2>2, <3>1, <3>2
  <2>4. IsFiniteSet(above(m)) /\ m \notin above(m)
    BY <1>1, <1>3, <1>4
  <2>5. Cardinality(above(m) \cup {m}) = n + 1
    <3> HIDE DEF above
    <3> QED
      BY <1>5, <2>4, FS_AddElement
  <2>6. Cardinality(above(m) \cup {m}) <= Cardinality(above(x))
    BY <1>1, <2>1, <2>3, FS_Subset
  <2>7. Cardinality(above(x)) \in Nat
    BY <1>1, <2>1
  <2> HIDE DEF above
  <2> QED
    BY <2>1, <2>5, <2>6, <2>7
<1>9. Newest(S, n + 1) = Newest(S, n) \cup {m}
  BY <1>6, <1>7, <1>8
<1>10. IsFiniteSet(Newest(S, n)) /\ m \notin Newest(S, n)
  BY <1>2, <1>4, FS_Subset
<1> QED
  BY <1>9, <1>10, FS_AddElement

\* A full answer has as many rows as were asked for.
LEMMA NewestSize ==
    ASSUME NEW S, IsFiniteSet(S), S \subseteq Nat, NEW bound \in Nat, \A u \in S : u <= bound
    PROVE  \A n \in Nat : n <= Cardinality(S) => Cardinality(Newest(S, n)) = n
<1> DEFINE sized == {n \in Nat : n <= Cardinality(S) => Cardinality(Newest(S, n)) = n}
<1>1. 0 \in sized
  <2>1. \A s \in S : ~(Cardinality({u \in S : u > s}) < 0)
    <3> SUFFICES ASSUME NEW s \in S PROVE ~(Cardinality({u \in S : u > s}) < 0)
      OBVIOUS
    <3>1. Cardinality({u \in S : u > s}) \in Nat
      BY AboveFinite
    <3> QED
      BY <3>1
  <2>2. Newest(S, 0) = {}
    BY <2>1 DEF Newest
  <2> QED
    BY <2>2, FS_EmptySet
<1>2. ASSUME NEW n \in Nat, n \in sized PROVE n + 1 \in sized
  <2>1. Cardinality(S) \in Nat
    BY FS_CardinalityType
  <2>2. ASSUME n + 1 <= Cardinality(S) PROVE Cardinality(Newest(S, n + 1)) = n + 1
    <3>1. Cardinality(Newest(S, n)) = n
      BY <1>2, <2>1, <2>2
    <3> QED
      BY <2>2, <3>1, NewestGrows
  <2> QED
    BY <2>2
<1>3. \A n \in Nat : n \in sized
  <2> HIDE DEF sized
  <2> QED
    BY <1>1, <1>2, InductionStep
<1> QED
  BY <1>3

\* A matching row that is not returned gave way to as many newer ones as the
\* limit allows.
LEMMA NewestFull ==
    ASSUME NEW S, IsFiniteSet(S), S \subseteq Nat, NEW bound \in Nat, \A u \in S : u <= bound,
           NEW n \in Nat, NEW s \in S, s \notin Newest(S, n)
    PROVE  Cardinality(Newest(S, n)) = n /\ \A x \in Newest(S, n) : x > s
<1>1. Cardinality({u \in S : u > s}) \in Nat /\ Cardinality({u \in S : u > s}) >= n
  BY AboveFinite DEF Newest
<1>2. Cardinality({u \in S : u > s}) <= Cardinality(S) /\ Cardinality(S) \in Nat
  BY FS_Subset, FS_CardinalityType
<1>3. n <= Cardinality(S)
  BY <1>1, <1>2
<1> QED
  BY <1>3, NewestSize, NewestIsAbove

\* Search leaves a matching row out only where its answer is full of newer ones.
LEMMA SearchComplete ==
    ASSUME NEW t, Len(log[t]) \in Nat, NEW p, p.limit \in Int,
           NEW s \in 1 .. Len(log[t]), Matches(p, log[t][s]), <<t, s>> \notin Search(t, p)
    PROVE  /\ Cardinality(Search(t, p)) = EffectiveLimit(p.limit)
           /\ \A row \in Search(t, p) : row[2] > s
<1> DEFINE found == Found(t, p)
           n     == EffectiveLimit(p.limit)
           new   == Newest(found, n)
           place == [i \in new |-> <<t, i>>]
<1>1. n \in Nat
  BY DataPlaneConstants DEF EffectiveLimit
<1>2. found \subseteq 1 .. Len(log[t]) /\ s \in found
  BY DEF Found
<1>3. IsFiniteSet(found) /\ found \subseteq Nat /\ \A u \in found : u <= Len(log[t])
  <2> HIDE DEF found
  <2>1. IsFiniteSet(1 .. Len(log[t]))
    BY FS_Interval
  <2>2. IsFiniteSet(found)
    BY <1>2, <2>1, FS_Subset, Zenon
  <2>3. found \subseteq Nat /\ \A u \in found : u <= Len(log[t])
    BY <1>2
  <2> QED
    BY <2>2, <2>3
<1>4. Search(t, p) = {<<t, i>> : i \in new}
  BY DEF Search
<1>5. s \notin new
  BY <1>4
<1>6. IsFiniteSet(new)
  BY <1>3, FS_Subset DEF Newest
<1>7. Cardinality(new) = n /\ \A x \in new : x > s
  <2> HIDE DEF found, n
  <2> QED
    BY <1>1, <1>2, <1>3, <1>5, NewestFull
<1>8. place \in Bijection(new, Search(t, p))
  <2> HIDE DEF new
  <2>1. place \in [new -> Search(t, p)]
    BY <1>4
  <2>2. \A i, j \in new : place[i] = place[j] => i = j
    OBVIOUS
  <2>3. \A row \in Search(t, p) : \E i \in new : place[i] = row
    BY <1>4
  <2> HIDE DEF place
  <2> QED
    BY <2>1, <2>2, <2>3 DEF Bijection, Injection, Surjection, IsInjective
<1>9. Cardinality(Search(t, p)) = Cardinality(new)
  BY <1>6, <1>8, FS_Bijection DEF ExistsBijection
<1>10. \A row \in Search(t, p) : row[2] > s
  <2> HIDE DEF new
  <2> QED
    BY <1>4, <1>7
<1> QED
  BY <1>7, <1>9, <1>10

-----------------------------------------------------------------------------
(* Reading one's own writes.                                               *)

\* What request r has found in its answer, or had crowded out of it.
ReadsOwn(r) ==
    req[r].pc = "ok" /\ req[r].params # None =>
        \A s \in req[r].acked : Matches(req[r].params, log[req[r].tenant][s]) =>
            \/ <<req[r].tenant, s>> \in req[r].answer
            \/ /\ Cardinality(req[r].answer) = EffectiveLimit(req[r].params.limit)
               /\ \A row \in req[r].answer : row[2] > s

\* A query remembers rows of its own tenant, and an ingest request has no
\* parameters.
QueryOK(r) ==
    /\ req[r].pc = "sealing" => req[r].params = None
    /\ req[r].tenant = None => req[r].acked = {}
    /\ req[r].tenant # None => req[r].acked \subseteq 1 .. Len(log[req[r].tenant])

ReadInv == \A r \in Requests : QueryOK(r) /\ ReadsOwn(r)

\* A request that does not take this step keeps what it has while logs grow.
LEMMA OtherReads ==
    ASSUME DataInv, ReadInv, NEW r \in Requests, req'[r] = req[r],
           \A t \in Tenants : /\ 1 .. Len(log[t]) \subseteq 1 .. Len(log'[t])
                              /\ \A s \in 1 .. Len(log[t]) : log'[t][s] = log[t][s]
    PROVE  QueryOK(r)' /\ ReadsOwn(r)'
<1> DEFINE t == req[r].tenant
<1>1. QueryOK(r) /\ ReadsOwn(r)
  BY DEF ReadInv
<1>2. t \in Tenants \cup {None}
  BY DEF DataInv, DataTypeOK, Request
<1>3. CASE t = None
  <2>1. req[r].acked = {} /\ req'[r].acked = {}
    BY <1>1, <1>3 DEF QueryOK
  <2> QED
    BY <1>1, <1>3, <2>1 DEF QueryOK, ReadsOwn
<1>4. CASE t # None
  <2>1. req[r].acked \subseteq 1 .. Len(log[t]) /\ t \in Tenants
    BY <1>1, <1>2, <1>4 DEF QueryOK
  <2>2. \A s \in req[r].acked : log'[t][s] = log[t][s]
    BY <2>1
  <2>3. \A s \in req[r].acked : Matches(req[r].params, log'[t][s]) = Matches(req[r].params, log[t][s])
    BY <2>2
  <2>4. QueryOK(r)'
    BY <1>1, <1>4, <2>1 DEF QueryOK
  <2>5. ReadsOwn(r)'
    BY <1>1, <2>3 DEF ReadsOwn
  <2> QED
    BY <2>4, <2>5
<1> QED
  BY <1>3, <1>4

\* A step of one handler that leaves the logs alone.
LEMMA HandlerReads ==
    ASSUME DataInv, ReadInv, UNCHANGED log, NEW r \in Requests,
           \A other \in Requests \ {r} : req'[other] = req[other],
           QueryOK(r)', ReadsOwn(r)'
    PROVE  ReadInv'
<1>1. ASSUME NEW q \in Requests, q # r PROVE QueryOK(q)' /\ ReadsOwn(q)'
  BY <1>1, OtherReads
<1> QED
  BY <1>1 DEF ReadInv

\* The start of both handlers.
LEMMA AdmitReads ==
    ASSUME DataInv, ReadInv, UNCHANGED log, NEW r \in Requests, NEW k \in Keys, NEW time,
           NEW pc \in {"sealing", "searching"}, NEW params, pc = "sealing" => params = None,
           Admit(r, k, pc, time, params)
    PROVE  ReadInv'
<1>1. req \in [Requests -> Request]
  BY DEF DataInv, DataTypeOK
<1>2. /\ req'[r].pc = IF Authenticate(k) = None THEN "refused" ELSE pc
      /\ req'[r].tenant = Authenticate(k) /\ req'[r].params = params
      /\ req'[r].acked = IF params = None \/ Authenticate(k) = None THEN {}
                         ELSE AckedSeqs(Authenticate(k))
  BY <1>1, Zenon DEF Admit, NewRequest
<1>3. \A other \in Requests \ {r} : req'[other] = req[other]
  BY <1>1 DEF Admit
<1>4. AckedSeqs(Authenticate(k)) \subseteq 1 .. Len(log'[Authenticate(k)])
  BY DEF AckedSeqs
<1>5. QueryOK(r)'
  BY <1>2, <1>4 DEF QueryOK
<1>6. ReadsOwn(r)'
  BY <1>2 DEF ReadsOwn
<1> QED
  BY <1>3, <1>5, <1>6, HandlerReads

\* The answer of GET /logs.
LEMMA AnswerReads ==
    ASSUME DataInv, ReadInv, NEW r \in Requests, AnswerQuery(r)
    PROVE  ReadInv'
<1> DEFINE t == req[r].tenant
           p == req[r].params
<1>1. req \in [Requests -> Request] /\ req[r] \in Request
  BY DEF DataInv, DataTypeOK
<1>2. /\ req'[r].pc = "ok" /\ req'[r].tenant = t /\ req'[r].params = p
      /\ req'[r].acked = req[r].acked /\ req'[r].answer = Search(t, p)
      /\ UNCHANGED log
  BY <1>1 DEF AnswerQuery, Request
<1>3. \A other \in Requests \ {r} : req'[other] = req[other]
  BY <1>1 DEF AnswerQuery
<1>4. QueryOK(r)'
  BY <1>2 DEF ReadInv, QueryOK
<1>5. t \in Tenants /\ req[r].acked \subseteq 1 .. Len(log[t])
  BY <1>1, ControlConstants DEF AnswerQuery, DataInv, RequestInv, Request, ReadInv, QueryOK
<1>6. Len(log[t]) \in Nat
  BY <1>5 DEF DataInv, DataTypeOK
<1>7. ASSUME p # None, NEW s \in req[r].acked, Matches(p, log[t][s]), <<t, s>> \notin Search(t, p)
      PROVE  /\ Cardinality(Search(t, p)) = EffectiveLimit(p.limit)
             /\ \A row \in Search(t, p) : row[2] > s
  <2>1. p \in Queries
    BY <1>1, <1>7 DEF Request
  <2>2. p.limit \in Int
    BY <2>1, DataPlaneConstants
  <2>3. s \in 1 .. Len(log[t])
    BY <1>5
  <2> HIDE DEF t, p
  <2> QED
    BY <1>6, <1>7, <2>2, <2>3, SearchComplete, Zenon
<1> HIDE DEF t, p
<1>8. ReadsOwn(r)'
  BY <1>2, <1>7 DEF ReadsOwn
<1> QED
  BY <1>2, <1>3, <1>4, <1>8, HandlerReads

\* SealBatch adds a row at the end, and answers no query.
LEMMA SealReads ==
    ASSUME DataInv, ReadInv, NEW r \in Requests, NEW rec \in Recs, SealBatch(r, rec)
    PROVE  ReadInv'
<1> DEFINE u == req[r].tenant
           row == [time |-> req[r].time, rec |-> rec, by |-> req[r].key]
<1>1. /\ req \in [Requests -> Request] /\ req[r] \in Request
      /\ log \in [Tenants -> Seq(LogRow)]
  BY DEF DataInv, DataTypeOK
<1>2. u \in Tenants /\ req[r].key \in Keys
  BY <1>1 DEF DataInv, RequestInv, SealBatch, Request
<1>3. row \in LogRow
  BY <1>1, <1>2 DEF LogRow, Request
<1>4. /\ log' = [log EXCEPT ![u] = Append(log[u], row)]
      /\ req' = [req EXCEPT ![r] = [req[r] EXCEPT !.pc = "ok"]]
  BY DEF SealBatch
<1> HIDE DEF row
<1>5. ASSUME NEW t \in Tenants
      PROVE  /\ 1 .. Len(log[t]) \subseteq 1 .. Len(log'[t])
             /\ \A s \in 1 .. Len(log[t]) : log'[t][s] = log[t][s]
  <2>1. CASE t = u
    <3>1. log[t] \in Seq(LogRow) /\ log'[t] = Append(log[t], row)
      BY <1>1, <1>4, <2>1
    <3>2. Len(log'[t]) = Len(log[t]) + 1 /\ Len(log[t]) \in Nat
      BY <1>3, <3>1, AppendKeeps
    <3>3. \A s \in 1 .. Len(log[t]) : log'[t][s] = log[t][s]
      BY <1>3, <3>1, AppendKeeps
    <3> QED
      BY <3>2, <3>3
  <2>2. CASE t # u
    BY <1>1, <1>4, <2>2
  <2> QED
    BY <2>1, <2>2
<1>6. /\ req'[r].pc = "ok" /\ req'[r].tenant = u /\ req'[r].params = req[r].params
      /\ req'[r].acked = req[r].acked
  BY <1>1, <1>4 DEF Request
<1>7. req[r].params = None
  BY DEF ReadInv, QueryOK, SealBatch
<1>8. req[r].acked \subseteq 1 .. Len(log[u])
  BY <1>2, ControlConstants DEF ReadInv, QueryOK
<1>9. QueryOK(r)' /\ ReadsOwn(r)'
  <2>1. req'[r].acked \subseteq 1 .. Len(log'[u])
    BY <1>2, <1>5, <1>6, <1>8
  <2>2. req'[r].tenant # None
    BY <1>2, <1>6, ControlConstants
  <2>3. req'[r].tenant # None => req'[r].acked \subseteq 1 .. Len(log'[req'[r].tenant])
    BY <1>6, <2>1
  <2> HIDE DEF u
  <2> QED
    BY <1>6, <1>7, <2>2, <2>3 DEF QueryOK, ReadsOwn
<1>10. \A other \in Requests \ {r} : req'[other] = req[other]
  BY <1>1, <1>4
<1>11. ASSUME NEW q \in Requests, q # r PROVE QueryOK(q)' /\ ReadsOwn(q)'
  BY <1>5, <1>10, <1>11, OtherReads
<1> QED
  BY <1>9, <1>11 DEF ReadInv

\* A request ends in an error.
LEMMA FailReads ==
    ASSUME DataInv, ReadInv, NEW r \in Requests, RequestFails(r)
    PROVE  ReadInv'
<1>1. req \in [Requests -> Request]
  BY DEF DataInv, DataTypeOK
<1>2. req'[r].pc = "failed" /\ req'[r].tenant = None /\ req'[r].acked = {} /\ UNCHANGED log
  BY <1>1 DEF RequestFails, NewRequest
<1>3. \A other \in Requests \ {r} : req'[other] = req[other]
  BY <1>1 DEF RequestFails
<1>4. QueryOK(r)' /\ ReadsOwn(r)'
  BY <1>2 DEF QueryOK, ReadsOwn
<1> QED
  BY <1>2, <1>3, <1>4, HandlerReads

\* ReadYourWrites: a query finds every matching row that was acknowledged
\* before it was sent, unless Search's limit filled its answer with newer ones,
\* for every number of rows and every limit.
THEOREM OwnWritesAreRead == DataSpec => []ReadYourWrites
<1>1. DataInit => ReadInv
  BY DEF DataInit, NewRequest, ReadInv, QueryOK, ReadsOwn
<1>2. ASSUME DataInv, ReadInv, [DataNext]_dataVars PROVE ReadInv'
  <2>1. CASE UNCHANGED <<log, req>>
    BY <1>2, <2>1 DEF ReadInv, QueryOK, ReadsOwn
  <2>2. ASSUME NEW r \in Requests, NEW k \in Keys, Ingest(r, k) PROVE ReadInv'
    BY <1>2, <2>2, AdmitReads DEF Ingest
  <2>3. ASSUME NEW r \in Requests, NEW k \in Keys, NEW p \in Queries, Query(r, k, p)
        PROVE  ReadInv'
    BY <1>2, <2>3, AdmitReads DEF Query
  <2>4. ASSUME NEW r \in Requests, NEW rec \in Recs, SealBatch(r, rec) PROVE ReadInv'
    BY <1>2, <2>4, SealReads
  <2>5. ASSUME NEW r \in Requests, AnswerQuery(r) PROVE ReadInv'
    BY <1>2, <2>5, AnswerReads
  <2>6. ASSUME NEW r \in Requests, RequestFails(r) PROVE ReadInv'
    BY <1>2, <2>6, FailReads
  <2> QED
    BY <1>2, <2>1, <2>2, <2>3, <2>4, <2>5, <2>6 DEF DataNext, dataVars
<1>3. ReadInv => ReadYourWrites
  BY Zenon DEF ReadInv, ReadsOwn, ReadYourWrites
<1> QED
  BY <1>1, <1>2, <1>3, DataInvariance, PTL DEF DataSpec
=============================================================================
