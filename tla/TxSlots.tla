------------------------------ MODULE TxSlots ------------------------------
(***************************************************************************)
(* The Wi-Fi half of the test transmitter (firmware/common/tx_core.h): each *)
(* pass of the radio task sends at most one frame, of the first path from   *)
(* rr on that is due (tx_step). A frame the driver refuses is tried again   *)
(* soon; one that went out keeps its path's cadence (tx_advance). The       *)
(* screen and the console change what is enabled and the rate.             *)
(*                                                                         *)
(* Left out: the payloads and the NAN sync beacon.                          *)
(***************************************************************************)
EXTENDS Integers, FiniteSets, FiniteSetsExt

CONSTANTS
  Paths,      \* how many paths, numbered from 0 as PATHS is
  Period,     \* TX_RATES: rate -> path -> pack_ms, single_ms or nan_ms
  RetryIn,    \* 20 ms
  SlotWrap,   \* millis() counts modulo this
  MaxSet,     \* bound of the model: settings that change
  MaxRefused, \* bound of the model: frames the driver refuses
  LastPass    \* bound of the model: how long it runs

Path == 0 .. Paths - 1
Speed == DOMAIN Period

ASSUME TxSlotsAssumption ==
  /\ Paths \in Nat \ {0} /\ Period \in [Speed -> [Path -> Nat \ {0}]] /\ SlotWrap \in Nat \ {0}
  /\ {RetryIn, MaxSet, MaxRefused, LastPass} \subseteq Nat
  /\ \A s \in Speed : \A p \in Path : RetryIn <= Period[s][p]

VARIABLES
  on, speed,  \* s_enabled, s_rate
  last, rr,   \* tx_step's own: path -> the slot it had last, and whose turn it is
  time,       \* millis()
  waits,      \* history: path -> passes in a row in which it was due and another was sent
  frames,     \* history: path -> frames sent since the settings changed, and when they did
  changed,    \* history: how often they did
  refused     \* history: path -> frames refused since then

slotVars == <<on, speed, last, rr, time, waits, frames, changed, refused>>

SlotInit ==
  /\ on = Path /\ speed \in Speed /\ last = [p \in Path |-> 0] /\ rr = 0 /\ time = 0
  /\ waits = [p \in Path |-> 0] /\ frames = [n |-> [p \in Path |-> 0], from |-> 0]
  /\ changed = 0 /\ refused = [p \in Path |-> 0]

-----------------------------------------------------------------------------
For(p) == (time - last[p]) % SlotWrap
Due(p) == p \in on /\ For(p) >= Period[speed][p]

\* The first from rr on.
Next1 == (rr + Min({k \in Path : Due((rr + k) % Paths)})) % Paths

\* tx_advance
Advance(p) == IF For(p) < 2 * Period[speed][p] THEN (last[p] + Period[speed][p]) % SlotWrap ELSE time
Retry(p) == (time - Period[speed][p] + RetryIn) % SlotWrap

PassOn == time < LastPass /\ time' = time + 1 /\ UNCHANGED <<on, speed, changed>>

\* tx_step: a frame that goes out or is refused, or nothing that is due.
SendFrame ==
  /\ PassOn /\ \E p \in Path : Due(p)
  /\ LET p == Next1 IN
     /\ rr' = (p + 1) % Paths
     /\ waits' = [q \in Path |-> IF q # p /\ Due(q) THEN waits[q] + 1 ELSE 0]
     /\ \/ /\ last' = [last EXCEPT ![p] = Advance(p)] /\ frames' = [frames EXCEPT !.n[p] = @ + 1]
           /\ UNCHANGED refused
        \/ /\ refused[p] < MaxRefused /\ refused' = [refused EXCEPT ![p] = @ + 1]
           /\ last' = [last EXCEPT ![p] = Retry(p)] /\ UNCHANGED frames

NothingDue ==
  /\ PassOn /\ \A p \in Path : ~Due(p)
  /\ UNCHANGED <<last, rr, waits, frames, refused>>

\* The screen, the console.
Change ==
  /\ changed < MaxSet /\ changed' = changed + 1
  /\ \/ \E p \in Path : on' = (on \ {p}) \union ({p} \ on) /\ UNCHANGED speed
     \/ speed' \in Speed \ {speed} /\ UNCHANGED on
  /\ frames' = [n |-> [p \in Path |-> 0], from |-> time]
  /\ refused' = [p \in Path |-> 0] /\ waits' = [p \in Path |-> 0]
  /\ UNCHANGED <<last, rr, time>>

SlotNext == SendFrame \/ NothingDue \/ Change
SlotSpec == SlotInit /\ [][SlotNext]_slotVars

-----------------------------------------------------------------------------
\* A path that is due is passed over for every other path at most once,
\* whatever the driver refuses.
NotPassedOver == \A p \in Path : waits[p] < Cardinality(on) \/ p \notin on

\* And none is on the air oftener than its cadence allows: however the passes
\* and the settings fell, a path has at most two frames more than periods.
NotTooOften == \A p \in Path : frames.n[p] <= (time - frames.from) \div Period[speed][p] + 2
=============================================================================
