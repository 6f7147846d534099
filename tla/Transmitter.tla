----------------------------- MODULE Transmitter -----------------------------
(***************************************************************************)
(* The test transmitter's two halves, which share no variable: the          *)
(* advertising sets (TxSets) and the Wi-Fi frames (TxSlots).                *)
(***************************************************************************)
EXTENDS TxSets, TxSlots

sentVars == <<txVars, slotVars>>

\* Every path that is enabled gets its turn on the air, and none more than it:
\* the advertising sets' (SetsInTurn) and the Wi-Fi frames'.
EachInTurn == SetsInTurn /\ NotPassedOver /\ NotTooOften
=============================================================================
