----------------------------- MODULE AppendLog -----------------------------
(***************************************************************************)
(* What the sealer promises its readers, the anchorer and the verifier:    *)
(* per tenant one linear hash chain, numbered 0, 1, 2, ..., that only ever *)
(* grows at its end.                                                       *)
(***************************************************************************)
EXTENDS Canonical, SequencesExt

CONSTANT Tenants

VARIABLE log  \* per tenant, its entries in sequence order

\* The hash of the first n of a tenant's records, absorbed from its genesis.
ChainDigest(t, recs, n) ==
    [tenant |-> t, leaves |-> [i \in 1 .. n |-> EntryLeaf(t, i - 1, recs[i])]]

\* The entries an honest sealer makes of a tenant's records.
Entries(t, recs) ==
    [n \in 1 .. Len(recs) |->
        [seq  |-> n - 1, rec |-> recs[n],
         prev |-> ChainDigest(t, recs, n - 1), hash |-> ChainDigest(t, recs, n)]]

Records(entries) == [n \in 1 .. Len(entries) |-> entries[n].rec]

Init == log = [t \in Tenants |-> <<>>]

Extend(t) ==
    /\ IsStrictPrefix(log[t], log'[t])
    /\ log'[t] = Entries(t, Records(log'[t]))
    /\ \A other \in Tenants \ {t} : log'[other] = log[other]

Next == \E t \in Tenants : Extend(t)

Spec == Init /\ [][Next]_log
=============================================================================
