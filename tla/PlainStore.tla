----------------------------- MODULE PlainStore -----------------------------
(***************************************************************************)
(* What the documents of a store promise: a put replaces a document, a     *)
(* patch changes a field of it, a del empties it, nothing else changes it. *)
(***************************************************************************)
CONSTANTS Key, Body

VARIABLE doc

Nothing == [body |-> "", field |-> 0]

Init == doc = [k \in Key |-> Nothing]

Put(k, b) == doc' = [doc EXCEPT ![k] = [body |-> b, field |-> 0]]
Patch(k) == doc' = [doc EXCEPT ![k].field = 1]
Del(k) == doc' = [doc EXCEPT ![k] = Nothing]

Next == \E k \in Key : Patch(k) \/ Del(k) \/ \E b \in Body : Put(k, b)

Spec == Init /\ [][Next]_doc
=============================================================================
