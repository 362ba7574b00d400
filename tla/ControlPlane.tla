---------------------------- MODULE ControlPlane ----------------------------
(***************************************************************************)
(* internal/control and cmd/controlplane: the tenants and API keys in      *)
(* Postgres.  IssueAPIKey draws a fresh random key, so a key stands for    *)
(* the one POST /tenants/{id}/keys request that can create it; the table   *)
(* holds its hash, which names it as well as the key does.                 *)
(***************************************************************************)
CONSTANTS
    Tenants,  \* tenant ids
    Keys,     \* API keys
    None      \* no row, no tenant, no bound

ASSUME ControlConstants == None \notin Tenants

VARIABLES
    tenants,   \* table tenants: the ids that have a row
    apiKeys,   \* table api_keys: per key its row, or None
    lookedUp,  \* per key, the tenant its pending IssueAPIKey has looked up
    issuedTo,  \* per key, the tenant it was handed out for (no one deletes this)
    dead       \* the keys that were handed out and then revoked or deleted

controlVars == <<tenants, apiKeys, lookedUp, issuedTo, dead>>

KeyRow == [tenant: Tenants, revoked: BOOLEAN]

ControlTypeOK ==
    /\ tenants \subseteq Tenants
    /\ apiKeys \in [Keys -> KeyRow \cup {None}]
    /\ lookedUp \in [Keys -> Tenants \cup {None}]
    /\ issuedTo \in [Keys -> Tenants \cup {None}]
    /\ dead \subseteq Keys

ControlInit ==
    /\ tenants = {}
    /\ apiKeys = [k \in Keys |-> None]
    /\ lookedUp = [k \in Keys |-> None]
    /\ issuedTo = [k \in Keys |-> None]
    /\ dead = {}

-----------------------------------------------------------------------------
\* The id is the primary key: a second INSERT of it is refused.
CreateTenant(t) ==
    /\ t \notin tenants
    /\ tenants' = tenants \cup {t}
    /\ UNCHANGED <<apiKeys, lookedUp, issuedTo, dead>>

\* IssueAPIKey, first statement: the tenant must have a row.
IssueLookup(k, t) ==
    /\ lookedUp[k] = None
    /\ issuedTo[k] = None
    /\ t \in tenants
    /\ lookedUp' = [lookedUp EXCEPT ![k] = t]
    /\ UNCHANGED <<tenants, apiKeys, issuedTo, dead>>

\* Mutant: a table without the foreign key.
IssueInsertUnchecked(k) ==
    /\ lookedUp[k] # None
    /\ apiKeys' = [apiKeys EXCEPT ![k] = [tenant |-> lookedUp[k], revoked |-> FALSE]]
    /\ issuedTo' = [issuedTo EXCEPT ![k] = lookedUp[k]]
    /\ lookedUp' = [lookedUp EXCEPT ![k] = None]
    /\ UNCHANGED <<tenants, dead>>

\* Mutant: the key is stored without regard to what the lookup found.
IssueInsertAnyone(k) ==
    /\ issuedTo[k] = None
    /\ apiKeys' = [apiKeys EXCEPT ![k] = [tenant |-> lookedUp[k], revoked |-> FALSE]]
    /\ issuedTo' = [issuedTo EXCEPT ![k] = lookedUp[k]]
    /\ lookedUp' = [lookedUp EXCEPT ![k] = None]
    /\ UNCHANGED <<tenants, dead>>

\* IssueAPIKey, second statement: the INSERT, which the foreign key refuses
\* when the tenant has gone since.  The key is handed out once it succeeded.
IssueInsert(k) ==
    /\ lookedUp[k] \in tenants
    /\ apiKeys' = [apiKeys EXCEPT ![k] = [tenant |-> lookedUp[k], revoked |-> FALSE]]
    /\ issuedTo' = [issuedTo EXCEPT ![k] = lookedUp[k]]
    /\ lookedUp' = [lookedUp EXCEPT ![k] = None]
    /\ UNCHANGED <<tenants, dead>>

\* The INSERT is refused or fails: the caller gets an error and no key.
IssueFails(k) ==
    /\ lookedUp[k] # None
    /\ lookedUp' = [lookedUp EXCEPT ![k] = None]
    /\ UNCHANGED <<tenants, apiKeys, issuedTo, dead>>

\* UPDATE api_keys SET revoked = true, by an operator: the column is there and
\* Authenticate reads it, but no code of the repository sets it.
RevokeKey(k) ==
    /\ apiKeys[k] # None
    /\ ~apiKeys[k].revoked
    /\ apiKeys' = [apiKeys EXCEPT ![k].revoked = TRUE]
    /\ dead' = dead \cup {k}
    /\ UNCHANGED <<tenants, lookedUp, issuedTo>>

\* DELETE FROM tenants, by an operator: ON DELETE CASCADE takes the keys along.
\* The tenant's logs, in ClickHouse, stay.
DeleteTenant(t) ==
    LET gone == {k \in Keys : apiKeys[k] # None /\ apiKeys[k].tenant = t}
    IN  /\ t \in tenants
        /\ tenants' = tenants \ {t}
        /\ apiKeys' = [k \in Keys |-> IF k \in gone THEN None ELSE apiKeys[k]]
        /\ dead' = dead \cup gone
        /\ UNCHANGED <<lookedUp, issuedTo>>

ControlNext ==
    \/ \E t \in Tenants : CreateTenant(t) \/ DeleteTenant(t)
    \/ \E k \in Keys : \/ \E t \in Tenants : IssueLookup(k, t)
                       \/ IssueInsert(k) \/ IssueFails(k) \/ RevokeKey(k)

-----------------------------------------------------------------------------
\* Mutant: the revoked column is read and not looked at.
AuthenticateRevoked(k) == IF apiKeys[k] = None THEN None ELSE apiKeys[k].tenant

\* Authenticate: the key's tenant; None stands for ErrUnauthorized.
Authenticate(k) ==
    IF apiKeys[k] = None THEN None
    ELSE IF apiKeys[k].revoked THEN None ELSE apiKeys[k].tenant

-----------------------------------------------------------------------------
\* A live key belongs to a tenant that exists, although IssueAPIKey looks the
\* tenant up and inserts the key in two statements between which the tenant
\* may be deleted, and created again.
KeyHasTenant == \A k \in Keys : apiKeys[k] # None => apiKeys[k].tenant \in tenants
=============================================================================
