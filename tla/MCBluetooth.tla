----------------------------- MODULE MCBluetooth -----------------------------
(***************************************************************************)
(* Model values for both ends of the Bluetooth link: the board's (BleLink), *)
(* with one phone, and the phone's scan (PhoneScan). They share no variable; *)
(* a behaviour is of the part `part` names, so that a run checks each whole. *)
(***************************************************************************)
EXTENDS BleLink, PhoneScan

CONSTANTS phone1, handle1, handle2

\* The picker looks for detectors, the phone's receiver for drones.
SomeFilters == [c \in Client |-> IF c = "picker" THEN {"nus"} ELSE {"rid"}]

VARIABLE part

\* There is no order among duties.
BluetoothInit ==
  /\ BleInit /\ ScanInit /\ part \in {"link", "scan"}
  /\ duty = "low" /\ (part = "link" => ~adapter)

BluetoothNext ==
  /\ \/ part = "link" /\ BleNext /\ UNCHANGED scanVars
     \/ part = "scan" /\ ScanNext /\ UNCHANGED bleVars
  /\ UNCHANGED part

\* Each part's fairness, in the behaviours that are of the part.
LinkFair ==
  /\ WF_bleVars(part = "link" /\ LoopSteps) /\ WF_bleVars(part = "link" /\ NotifyTask)
  /\ WF_bleVars(part = "link" /\ Tick) /\ WF_bleVars(part = "link" /\ BleDisconnect /\ link.closing # "no")

ScannerFair == WF_scanVars(part = "scan" /\ Works) /\ WF_scanVars(part = "scan" /\ ScanTick)

BluetoothSpec == BluetoothInit /\ [][BluetoothNext]_<<bleVars, scanVars, part>> /\ LinkFair /\ ScannerFair

\* The types of both parts.
BluetoothTypeOK == BleTypeOK /\ ScanTypeOK
=============================================================================
