----------------------------- MODULE MCNetSync -----------------------------
(***************************************************************************)
(* Model values for NetSync.                                               *)
(***************************************************************************)
EXTENDS NetSync, TLC

CONSTANTS net1, net2, psk1, ble

\* The networks have no order among them.
Symmetry == Permutations(Ssid)

\* With the clock alone to fetch, no map is asked for and no position is missed.
ClockSpec == NetInit /\ [][NetSteps]_netVars
=============================================================================
