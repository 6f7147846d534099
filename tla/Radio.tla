-------------------------------- MODULE Radio --------------------------------
(***************************************************************************)
(* Who has the radios of a receiver (firmware/common/rx_core.h): the timer *)
(* task that hops through the Wi-Fi channels, NimBLE's host task that hears *)
(* when a BLE scan ends, and the loop, which hands the radios to the        *)
(* spectrum view and back (SenseCAP, T-Embed, AMOLED) or holds the hop for  *)
(* the network's radio work (T5). The hook that says the view is on is a    *)
(* plain read, so each task may act on what it read before.                 *)
(*                                                                         *)
(* Left out: dwell times, the filter's bits, the sweep of the view.         *)
(***************************************************************************)
EXTENDS Integers, Sequences

CONSTANTS
  Hops,      \* the channels of HOP
  Swept,     \* a channel of the view's sweep
  MaxTurns,  \* bound of the model: times the view or the hold changes
  MaxEnds,   \* bound of the model: scans that end by themselves
  MaxRefused \* bound of the model: scans that do not start

ASSUME RadioAssumption ==
  /\ Hops \in Seq(Int) /\ Hops # <<>> /\ Swept \notin {Hops[i] : i \in DOMAIN Hops}
  /\ {MaxTurns, MaxEnds, MaxRefused} \subseteq Nat

VARIABLES
  view,      \* the spectrum view is on: rx_hook_paused()
  held,      \* g_hop_hold
  was,       \* rx_tick's was_paused, and the filter that goes with it
  channel,   \* s_cur_chan
  hop,       \* s_hop_idx
  timer,     \* the timer task: how far hop_cb is
  task,      \* the loop and the host task: how far each is in rx_ble_scan
  flag,      \* s_ble_scanning
  scanning,  \* the controller scans
  hopsHeld,  \* history: hops since the hold or the view began
  denied,    \* history: the last start was refused
  overtaken, \* history: the view was seen on while the host task, which had read it off, started a scan
  crossed,   \* history: the scan changed between what a task knows of it and its write of the flag
  turns, ends, refused

radioVars == <<view, held, was, channel, hop, timer, task, flag, scanning,
               hopsHeld, denied, overtaken, crossed, turns, ends, refused>>

Who == {"loop", "host"}
Hopping == <<channel, hop, timer>>
Scan == <<task, flag, scanning, refused, denied, overtaken, crossed>>

RadioInit ==
  /\ view = FALSE /\ held = FALSE /\ was = FALSE
  /\ channel = Hops[1] /\ hop = 1 /\ timer = "armed"
  /\ task = [w \in Who |-> "idle"] /\ flag = TRUE /\ scanning = TRUE
  /\ denied = FALSE /\ overtaken = FALSE /\ crossed = FALSE
  /\ hopsHeld = 0 /\ turns = 0 /\ ends = 0 /\ refused = 0

-----------------------------------------------------------------------------
(* The timer task *)

\* The first of the two reads of hop_cb.
HopReads ==
  /\ timer = "armed"
  /\ timer' = IF view THEN "rearm" ELSE "ours"
  /\ UNCHANGED <<view, held, was, channel, hop, Scan, hopsHeld, turns, ends>>

MayHop == ~held

HopDecides ==
  /\ timer = "ours"
  /\ timer' = IF MayHop THEN "hop" ELSE "rearm"
  /\ UNCHANGED <<view, held, was, channel, hop, Scan, hopsHeld, turns, ends>>

HopSets ==
  /\ timer = "hop"
  /\ hop' = (hop % Len(Hops)) + 1
  /\ channel' = Hops[hop']
  /\ hopsHeld' = IF view \/ held THEN hopsHeld + 1 ELSE 0
  /\ timer' = "rearm"
  /\ UNCHANGED <<view, held, was, Scan, turns, ends>>

\* A bug to compare with: a timer that found the radios taken is not started again.
RearmedIfOurs == IF view \/ held THEN "off" ELSE "armed"

Rearmed == "armed"

HopRearms ==
  /\ timer = "rearm"
  /\ timer' = Rearmed
  /\ UNCHANGED <<view, held, was, channel, hop, Scan, hopsHeld, turns, ends>>

-----------------------------------------------------------------------------
(* rx_ble_scan, by the loop or by the host task *)

\* Task w knows how a call or a scan ended, and has not written the flag yet.
Pending(w) == task[w] \in {"complete", "started", "refused"}

Crosses(w) == scanning' # scanning /\ \E x \in Who \ {w} : Pending(x)

\* What a call does, from the flag it reads.
Called(on) == IF on /\ ~flag THEN "start" ELSE IF ~on /\ flag THEN "cancel" ELSE "idle"

\* ble_gap_ext_disc: a scan that goes on already counts as started.
StartScan(w) ==
  /\ task[w] = "start"
  /\ \E ok \in (IF scanning \/ refused = MaxRefused THEN {TRUE} ELSE BOOLEAN) :
       /\ scanning' = ok
       /\ refused' = IF ok THEN refused ELSE refused + 1
       /\ denied' = ~ok
       /\ task' = [task EXCEPT ![w] = IF ok THEN "started" ELSE "refused"]
  /\ crossed' = (crossed \/ Crosses(w))
  /\ UNCHANGED <<view, held, was, Hopping, flag, overtaken, hopsHeld, turns, ends>>

CancelScan(w) ==
  /\ task[w] = "cancel"
  /\ scanning' = FALSE
  /\ task' = [task EXCEPT ![w] = "refused"]
  /\ crossed' = (crossed \/ Crosses(w))
  /\ UNCHANGED <<view, held, was, Hopping, flag, refused, denied, overtaken, hopsHeld, turns, ends>>

NoteScan(w) ==
  /\ task[w] \in {"started", "refused"}
  /\ flag' = (task[w] = "started")
  /\ task' = [task EXCEPT ![w] = "idle"]
  /\ UNCHANGED <<view, held, was, Hopping, scanning, refused, denied, overtaken, crossed, hopsHeld, turns, ends>>

\* A scan ends though it was to go on forever; the host task will hear.
EndScan ==
  /\ scanning /\ ends < MaxEnds /\ task["host"] = "idle"
  /\ scanning' = FALSE /\ ends' = ends + 1
  /\ task' = [task EXCEPT !["host"] = "complete"]
  /\ crossed' = (crossed \/ Crosses("host"))
  /\ UNCHANGED <<view, held, was, Hopping, flag, refused, denied, overtaken, hopsHeld, turns>>

\* A bug to compare with: the scan counts as going on.
FlagKept == flag

FlagCleared == FALSE

\* DISC_COMPLETE: the flag is cleared, then the hook is read.
ScanComplete ==
  /\ task["host"] = "complete"
  /\ flag' = FlagCleared
  /\ task' = [task EXCEPT !["host"] = "hook"]
  /\ UNCHANGED <<view, held, was, Hopping, scanning, refused, denied, overtaken, crossed, hopsHeld, turns, ends>>

ScanAgain ==
  /\ task["host"] = "hook"
  /\ task' = [task EXCEPT !["host"] = IF view THEN "idle" ELSE Called(TRUE)]
  /\ UNCHANGED <<view, held, was, Hopping, flag, scanning, refused, denied, overtaken, crossed, hopsHeld, turns, ends>>

-----------------------------------------------------------------------------
(* The loop *)

\* A touch opens or closes the view, one in a pass of the loop.
TurnView ==
  /\ task["loop"] = "idle" /\ ~held /\ view = was /\ turns < MaxTurns
  /\ view' = ~view /\ turns' = turns + 1 /\ hopsHeld' = 0
  /\ UNCHANGED <<held, was, Hopping, Scan, ends>>

\* net__hold: on before the network has the radio, off when it is done.
HoldHop ==
  /\ task["loop"] = "idle" /\ ~view /\ turns < MaxTurns
  /\ held' = ~held /\ turns' = turns + 1 /\ hopsHeld' = 0
  /\ UNCHANGED <<view, was, Hopping, Scan, ends>>

HandOver == Called(~view)

\* rx_tick sees the change.
SeeView ==
  /\ task["loop"] = "idle" /\ view # was
  /\ was' = view
  /\ task' = [task EXCEPT !["loop"] = HandOver]
  /\ overtaken' = (view /\ task["host"] \in {"start", "started"})
  /\ UNCHANGED <<view, held, Hopping, flag, scanning, refused, denied, crossed, hopsHeld, turns, ends>>

SweepView ==
  /\ task["loop"] = "idle" /\ view
  /\ channel' = Swept
  /\ UNCHANGED <<view, held, was, hop, timer, Scan, hopsHeld, turns, ends>>

TimerStep == HopReads \/ HopDecides \/ HopSets \/ HopRearms
ScanStep == ScanComplete \/ ScanAgain \/ \E w \in Who : StartScan(w) \/ CancelScan(w) \/ NoteScan(w)
RadioNext == TimerStep \/ ScanStep \/ EndScan \/ TurnView \/ HoldHop \/ SeeView \/ SweepView

\* The tasks run; the loop comes round.
RadioFair == WF_radioVars(TimerStep) /\ WF_radioVars(ScanStep) /\ WF_radioVars(SeeView)
RadioSpec == RadioInit /\ [][RadioNext]_radioVars /\ RadioFair

-----------------------------------------------------------------------------
RadioTypeOK ==
  /\ {view, held, was, flag, scanning, denied, overtaken, crossed} \subseteq BOOLEAN /\ ~(view /\ held)
  /\ channel \in {Hops[i] : i \in DOMAIN Hops} \union {Swept} /\ hop \in DOMAIN Hops
  /\ timer \in {"armed", "ours", "hop", "rearm", "off"}
  /\ task["loop"] \in {"idle", "start", "cancel", "started", "refused"}
  /\ task["host"] \in {"idle", "complete", "hook", "start", "cancel", "started", "refused"}
  /\ turns \in 0 .. MaxTurns /\ ends \in 0 .. MaxEnds /\ refused \in 0 .. MaxRefused

\* No task is in rx_ble_scan, and the loop has seen the view.
Settled == view = was /\ \A w \in Who : task[w] = "idle"

\* The flag is right, whatever the loop and the host task did at the same time:
\* a board that wrongly believes it scans would never start the scan again, and
\* one that wrongly believes it does not would never stop it.
FlagRight == Settled /\ ~crossed => (flag <=> scanning)

\* With the view on nothing scans, unless the host task had read the hook
\* before the view came on and started its scan after.
ScanGiven == Settled /\ ~crossed /\ view => ~scanning \/ overtaken

\* With the view off Bluetooth is scanned, unless the last start was refused.
ScanBack == Settled /\ ~crossed /\ ~view => scanning \/ denied

\* The hop sets the channel at most once more when the view or the network has
\* it, when hop_cb had read the hook and the hold before they changed.
ChannelLeft == hopsHeld <= 1

\* Bluetooth is handed over to the view, and back, and the channel is left
\* alone but for one hop. What is excepted of the scan is a start, a stop or an
\* end that came between a task's call to NimBLE, or the end it hears of, and
\* its write of s_ble_scanning (crossed).
HandedOver == FlagRight /\ ScanGiven /\ ScanBack /\ ChannelLeft

\* Channel i is listened on, unless somebody has the radios.
OnChannel(i) == view \/ held \/ (hop = i /\ channel = Hops[i])

\* Bluetooth is heard, unless the view has the radios, the last start was
\* refused or the flag was crossed.
Scanned == view \/ denied \/ crossed \/ scanning
=============================================================================
