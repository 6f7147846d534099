----------------------------- MODULE MCReceiver -----------------------------
(***************************************************************************)
(* Model values for the parts of the decode task: the table of contacts    *)
(* (Tracker), with an aircraft that has several addresses and both names   *)
(* and one that shares an address with it, and the signature pages of one  *)
(* contact (AuthPages). They share no variable; a behaviour is of the part *)
(* `part` names, so that a run checks each of them whole.                  *)
(***************************************************************************)
EXTENDS Tracker, AuthPages

CONSTANTS craft1, craft2, m1, m2, m3, m4

HeardOn == {craft1} \X {m1, m2, m3, m4} \union {<<craft2, m3>>}
SaysWhat == {craft1} \X {"position", "serial", "registration", "pack"} \union {<<craft2, "serial">>}

\* The addresses only the first aircraft has.
Symmetry == Permutations({m1, m2, m4})

VARIABLE part

ReceiverInit == Init /\ AuthInit /\ part \in {"contacts", "pages"}

ReceiverNext ==
  /\ \/ part = "contacts" /\ Next /\ UNCHANGED authVars
     \/ part = "pages" /\ AuthNext /\ UNCHANGED vars
  /\ UNCHANGED part

ReceiverSpec == ReceiverInit /\ [][ReceiverNext]_<<vars, authVars, part>>

\* The types of both parts.
ReceiverTypeOK == TypeOK /\ AuthTypeOK
=============================================================================
