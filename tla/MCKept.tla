------------------------------- MODULE MCKept -------------------------------
(***************************************************************************)
(* Model values for what is heard and kept of it: the board's log           *)
(* (MatchLog), on a ring of two slots that three contacts wrap; the phone's *)
(* own receiver (PhoneRx), its contacts (ContactTracker) and its history   *)
(* (PhoneHistory). They share no variable; a behaviour is of the part       *)
(* `part` names, so that a run checks each of them whole.                  *)
(***************************************************************************)
EXTENDS MatchLog, PhoneRx, ContactTracker, PhoneHistory

\* ContactTracker: a drone that two sensors know by addresses of their own, one
\* that sends two IDs, and two that share an address.
SomeIds(d) == [plain |-> {"id1"}, two |-> {"id2", "id3"}, left |-> {"id4"}, right |-> {"id5"}][d]
SomeAddrs(d) == [plain |-> {"m1", "m2"}, two |-> {"m3"}, left |-> {"m4", "m5"}, right |-> {"m5"}][d]

VARIABLE part

phoneVars == <<rxVars, contactVars, histVars>>

KeptInit ==
  /\ Init /\ RxInit /\ ContactInit /\ HistInit
  /\ part \in {"log", "rx", "contacts", "history"}
  /\ part # "log" => nvs = FreshNvs /\ id = 1
  /\ part # "rx" => ~phoneRx /\ ~allowed /\ ~bluetooth

KeptNext ==
  /\ \/ part = "log" /\ Next /\ UNCHANGED phoneVars
     \/ part = "rx" /\ RxNext /\ UNCHANGED <<vars, contactVars, histVars>>
     \/ part = "contacts" /\ ContactNext /\ UNCHANGED <<vars, rxVars, histVars>>
     \/ part = "history" /\ HistNext /\ UNCHANGED <<vars, rxVars, contactVars>>
  /\ UNCHANGED part

KeptSpec == KeptInit /\ [][KeptNext]_<<vars, phoneVars, part>>

\* The types of the parts.
KeptTypeOK == TypeOK /\ RxTypeOK /\ ContactTypeOK /\ HistTypeOK
=============================================================================
