-------------------------------- MODULE Worm --------------------------------
(***************************************************************************)
(* What a witness.CheckpointStore promises, as MemStore keeps it: a Put    *)
(* either finds the key (tenant, seqEnd) free and fills it, in one step,   *)
(* or changes nothing (ErrImmutable).  Nothing else changes the store, so  *)
(* what Get and All have returned for a key they return for good.          *)
(***************************************************************************)
CONSTANT Tenants

VARIABLE records  \* MemStore.records: per tenant, seqEnd -> checkpoint

Init == records = [t \in Tenants |-> [e \in {} |-> e]]

Put(t) ==
    /\ \E end \in DOMAIN records'[t] \ DOMAIN records[t] :
          /\ DOMAIN records'[t] = DOMAIN records[t] \cup {end}
          /\ records'[t][end].seqEnd = end
    /\ \A end \in DOMAIN records[t] : records'[t][end] = records[t][end]
    /\ \A other \in Tenants \ {t} : records'[other] = records[other]

Next == \E t \in Tenants : Put(t)

Spec == Init /\ [][Next]_records
=============================================================================
