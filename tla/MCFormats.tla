----------------------------- MODULE MCFormats -----------------------------
(***************************************************************************)
(* The system's data formats and pure algorithms on every small input, for *)
(* TLC.  A behaviour is about one of them, chosen by `about':              *)
(*   merkle   two lists of entry hashes, grown one hash at a time          *)
(*   fields   a list of byte strings for the Encoder and the JSON codec    *)
(*   body     the lines of a request's body                                *)
(*   stamp    Stamp by the two notaries                                    *)
(***************************************************************************)
EXTENDS Formats, Notary

VARIABLE about

vars == <<about, formats, stamp>>

Init ==
    /\ about \in {"merkle", "fields", "body", "stamp"}
    /\ FormatsInit
    /\ stamp = NotStamping

FormatsStep ==
    /\ \/ about = "merkle" /\ (GrowLeft \/ GrowRight)
       \/ about = "fields" /\ AddField
       \/ about = "body" /\ AddLine
    /\ UNCHANGED <<about, stamp>>

StampStep ==
    /\ about = "stamp"
    /\ StampNext
    /\ UNCHANGED <<about, formats>>

Next == FormatsStep \/ StampStep

Spec == Init /\ [][Next]_vars

-----------------------------------------------------------------------------
(* The instance.                                                           *)

Op(tag, arg) == [tag |-> tag, arg |-> arg]
Att(tag, body) == [tag |-> tag, body |-> body]

MCIds == {<<1000>>, <<1001>>}
MCNonce == <<1, 2, 3, 4>>

\* A pending calendar, one that has reached a block, and one that attests what
\* it was sent: as pending, in a form this version does not know, and in a later
\* block, so that a proof may have two Bitcoin attestations.
MCCalendars ==
    <<[path |-> <<Op(opAppend, <<9>>), Op(opSHA256, <<>>)>>, atts |-> <<Att(tagPending, <<1, 2>>)>>],
      [path |-> <<Op(opPrepend, <<8, 9, 8, 9, 8>>), Op(opSHA1, <<>>), Op(opRIPEMD160, <<>>)>>,
       atts |-> <<Att(tagBitcoin, 20)>>],
      [path |-> <<>>, atts |-> <<Att(tagPending, <<3, 3, 3, 3>>), Att(7, <<1>>), Att(tagBitcoin, 21)>>]>>

=============================================================================
