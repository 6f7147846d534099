-------------------------------- MODULE MCLive --------------------------------
(***************************************************************************)
(* Model values for what has to go on for ever: the copy of the log to a   *)
(* phone under adverse conditions (LogSync), the radios (Radio), and the   *)
(* board's own use of Wi-Fi (NetSync). They share no variable; a behaviour *)
(* is of the part `part` names, so that a run checks each of them whole.   *)
(***************************************************************************)
EXTENDS LogSync, Radio, NetSync

CONSTANTS net1, psk1, ble

\* Contacts are numbers, in the order they end.
MCContact == 1 .. MaxTotal

\* One channel is hopped to every other time.
SomeHops == <<6, 1, 6, 11>>

VARIABLE part

LiveVars == <<vars, radioVars, netVars, part>>

LiveInit ==
  /\ Init /\ RadioInit /\ NetInit /\ part \in {"log", "radio", "net"}
  /\ part # "net" => g = InitNet("off", <<>>, FALSE) /\ home

LiveNext ==
  /\ \/ part = "log" /\ Next /\ UNCHANGED <<radioVars, netVars>>
     \/ part = "radio" /\ RadioNext /\ UNCHANGED <<vars, netVars>>
     \/ part = "net" /\ NetNext /\ UNCHANGED <<vars, radioVars>>
  /\ UNCHANGED part

\* Each part's fairness, in the behaviours that are of the part.
LogFair ==
  /\ WF_vars(part = "log" /\ AnswerLogGet) /\ WF_vars(part = "log" /\ FinishClear)
  /\ WF_vars(part = "log" /\ DeliverAnswer) /\ WF_vars(part = "log" /\ DeliverCleared)
  /\ WF_vars(part = "log" /\ (Ignore \/ HandleRecord \/ Restart \/ HandleCut \/ HandleDone \/ StoreCursor \/ FinishDone))
  /\ WF_vars(part = "log" /\ (ResetDetectorLog \/ SyncCleared))
  /\ WF_vars(part = "log" /\ Timeout)

ScannersFair ==
  /\ WF_radioVars(part = "radio" /\ TimerStep) /\ WF_radioVars(part = "radio" /\ ScanStep)
  /\ WF_radioVars(part = "radio" /\ SeeView)

NetFair ==
  /\ WF_netVars(part = "net" /\ TickWith(Quiet)) /\ WF_netVars(part = "net" /\ WorkerDone)
  /\ WF_netVars(part = "net" /\ JoinElapses) /\ WF_netVars(part = "net" /\ ScanElapses)
  /\ WF_netVars(part = "net" /\ WindowDue) /\ WF_netVars(part = "net" /\ GraceElapses)

LiveSpec == LiveInit /\ [][LiveNext]_LiveVars /\ LogFair /\ ScannersFair /\ NetFair

\* Unless somebody has the radios, every channel is listened on again and
\* again; and unless the view has them the board hears Bluetooth, after every
\* end and every view, unless its last start was refused or its flag crossed.
HearsOn ==
  /\ \A i \in DOMAIN Hops : []<>(part = "radio" => OnChannel(i))
  /\ []<>(part = "radio" => Scanned)

\* With automatic Wi-Fi on, a network saved and no phone about, there is
\* always another join, unless the link is up; and no join or fetch hangs: no
\* pause, refusal, lost link or hung worker stops the syncs for good. And who
\* asked for a scan hears its result, who asked for a join how it ended.
StillSyncs ==
  /\ Answered
  /\ []<>(part = "net" => Joining)
  /\ []<>(g.phase # "join") /\ []<>(g.phase \notin {"fetch", "drain"})
=============================================================================
