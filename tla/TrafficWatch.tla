---------------------------- MODULE TrafficWatch ----------------------------
(***************************************************************************)
(* The conflict watch (firmware/common/traffic.h, and the T5's use of it):  *)
(* alerts about manned aircraft near the drones a board hears. The board's  *)
(* loop evaluates the installed ADS-B set against its drones many times in  *)
(* a unit of time; the alerts it holds are a table with hysteresis on the   *)
(* wall clock.                                                              *)
(*                                                                         *)
(* A report says where an aircraft is: its distance from each drone and     *)
(* from the board, and its height above or below a drone (or unknown), in   *)
(* steps of the rules' limits; the drones it closes on, and those it is     *)
(* well below; whether it is on the ground, and low enough for UAS airspace. Identifiers are numbers, in *)
(* their byte order. Left out: the trigonometry that gives these, and the   *)
(* spelling of the words.                                                   *)
(***************************************************************************)
EXTENDS Integers, FiniteSets

CONSTANTS
  Drones,       \* number of drones; their ids are 1 .. Drones
  Planes,       \* number of aircraft
  Reports,      \* what a report can say
  MaxAlerts,    \* TRAFFIC_MAX_ALERTS
  FreshAge, PresentAge, StaleAge,  \* TRAFFIC_FRESH_S, _PRESENT_S, _STALE_S
  ClearTime, LostAge,              \* TRAFFIC_CLEAR_MS, TRAFFIC_SOURCE_LOST_S
  Unknown,
  Horizon,      \* bound of the model: how long it runs
  MaxSets       \* bound of the model: sets received

Drone == 1 .. Drones
Plane == 1 .. Planes

\* 0 is within TRAFFIC_NEAR_H_M or TRAFFIC_NEAR_V_M, 1 within the limits for
\* holding an alert, 2 within TRAFFIC_LOW_R_M, 3 beyond.
Step == 0 .. 3

WatchLimits ==
  /\ Drones \in Nat /\ Planes \in Nat /\ MaxAlerts \in Nat \ {0}
  /\ {FreshAge, PresentAge, StaleAge, ClearTime, LostAge, Horizon, MaxSets} \subseteq Nat
  /\ FreshAge <= PresentAge
  /\ Unknown \notin Int
WhatIsSaid ==
  \A r \in Reports : /\ r.away \in [Drone -> Step] /\ r.apart \in [Drone -> Step \union {Unknown}]
                     /\ r.closing \subseteq Drone /\ r.below \subseteq Drone /\ r.board \in Step
                     /\ r.ground \in BOOLEAN /\ r.low \in BOOLEAN /\ r.old \in 0 .. PresentAge

ASSUME WatchAssumption == WatchLimits /\ WhatIsSaid

VARIABLES
  set,      \* g_traffic_ac: aircraft -> what was said of it and when
  have,     \* g_traffic_have
  dataAt,   \* g_traffic_data_ms
  rxAt,     \* g_traffic_rx_ms
  known,    \* drones in the board's table with a position
  live,     \* of those, the ones heard of late (TrafficDrone.live)
  located,  \* the board knows its own position
  alerts,   \* g_traffic_state
  status,   \* g_traffic_result without its alerts, when it was made, and whether the panel flashed
  heldAt,   \* history: when an alert's condition, or its hold, was last seen to be true
  sets,     \* history: sets received
  clock

watchVars == <<set, have, dataAt, rxAt, known, live, located, alerts, status, heldAt, sets, clock>>

-----------------------------------------------------------------------------
\* The rules.

Kind == {"near", "converging", "low"}
Place == [near |-> 1, converging |-> 2, low |-> 3]

Level(al) == IF al.kind = "low" \/ al.ground THEN "caution" ELSE "warning"

\* An alert's name: a pair of a drone and an aircraft, or an aircraft alone.
Key(al) == <<IF al.kind = "low" THEN 0 ELSE al.drone, al.plane, al.kind = "low">>

\* The order alerts are shown in, and kept in when there are too many.
Rank(al) == <<IF Level(al) = "warning" THEN 0 ELSE 1, Place[al.kind], al.away, al.drone, al.plane>>
Before(p, q) ==
  \E i \in 1 .. 5 : Rank(p)[i] < Rank(q)[i] /\ \A j \in 1 .. i - 1 : Rank(p)[j] = Rank(q)[j]

Within(r, d, limit) ==
  r.away[d] <= limit /\ (r.apart[d] = Unknown \/ r.apart[d] <= limit)

Age(at) == IF clock >= at THEN clock - at ELSE 0
Have == have /\ Age(rxAt) <= LostAge
IsStale == Have /\ Age(dataAt) > StaleAge
Here == {p \in DOMAIN set : Age(set[p].at) <= PresentAge}
Raisable(p) == Have /\ ~IsStale /\ Age(set[p].at) < FreshAge

\* What one pair comes to: the alert it would raise, whether it does, and
\* whether it holds one that stands.
PairCase(d, p) ==
  LET r == set[p].says
      near == Raisable(p) /\ d \in live /\ Within(r, d, 0)
      converging == Raisable(p) /\ d \in live /\ d \in r.closing /\ ~r.ground
  IN [alert |-> [drone |-> d, plane |-> p, kind |-> IF near THEN "near" ELSE "converging", ground |-> r.ground,
                 away |-> r.away[d], below |-> d \in r.below, held |-> FALSE, outAt |-> Unknown],
      raised |-> near \/ converging,
      hold |-> d \in live /\ Within(r, d, 1)]

\* The live drone nearest to an aircraft, the first of equals.
Nearest(r) == CHOOSE d \in live : \A e \in live : r.away[d] < r.away[e] \/ (r.away[d] = r.away[e] /\ d <= e)

\* An aircraft in UAS airspace: measured from the board when it is within reach
\* of it, else from the nearest live drone within reach, else from either.
ByDrone(r) == /\ live # {} /\ ~(located /\ r.board <= 2)
              /\ r.away[Nearest(r)] <= 2 \/ ~located
LowCase(p) ==
  LET r == set[p].says
      away == IF ByDrone(r) THEN r.away[Nearest(r)] ELSE r.board
      holds == ~r.ground /\ away <= 2 /\ r.low
  IN [alert |-> [drone |-> IF ByDrone(r) THEN Nearest(r) ELSE 0, plane |-> p, kind |-> "low", ground |-> r.ground,
                 away |-> away, below |-> FALSE, held |-> FALSE, outAt |-> Unknown],
      raised |-> Raisable(p) /\ holds,
      hold |-> holds]

\* The order the rules go in: every pair, drone by drone, then every aircraft.
Candidate == 1 .. (Drones + 1) * Planes
DroneAt(i) == ((i - 1) \div Planes) + 1
PlaneAt(i) == ((i - 1) % Planes) + 1
Alone(i) == DroneAt(i) > Drones

\* Those with an aircraft that is here, and a place to measure from.
Visited ==
  {i \in Candidate : PlaneAt(i) \in Here /\ IF Alone(i) THEN located \/ live # {} ELSE DroneAt(i) \in known}
Cases == [i \in Visited |-> IF Alone(i) THEN LowCase(PlaneAt(i)) ELSE PairCase(DroneAt(i), PlaneAt(i))]

-----------------------------------------------------------------------------
\* The table.

LastRanked(tab) == CHOOSE al \in tab : \A other \in tab : other = al \/ Before(other, al)

\* A bug to compare with: an alert never displaces another.
SlotOnlyFree(tab, al) == tab

\* A free slot, or that of the alert that ranks last when the new one ranks before it.
Slot(tab, al) ==
  IF Cardinality(tab) < MaxAlerts THEN tab
  ELSE IF Before(al, LastRanked(tab)) THEN tab \ {LastRanked(tab)} ELSE tab

KindKept(old, c) ==
  IF ~c.raised THEN old.kind
  ELSE IF old.kind = "near" /\ c.hold THEN "near" ELSE c.alert.kind

OutSince(old, c) == IF c.raised \/ c.hold THEN Unknown ELSE IF old.outAt # Unknown THEN old.outAt ELSE clock

\* A bug to compare with: a held alert keeps the numbers it was raised with.
RefreshedIfRaised(old, c) ==
  [(IF c.raised THEN c.alert ELSE old) EXCEPT !.kind = KindKept(old, c), !.held = ~c.raised, !.outAt = OutSince(old, c)]

Refreshed(old, c) ==
  [c.alert EXCEPT !.kind = KindKept(old, c), !.held = ~c.raised, !.outAt = OutSince(old, c)]

Apply(tab, c) ==
  LET mine == {al \in tab : Key(al) = Key(c.alert)}
      room == Slot(tab, c.alert)
  IN IF mine # {} THEN {Refreshed(al, c) : al \in mine} \union (tab \ mine)
     ELSE IF c.raised /\ Cardinality(room) < MaxAlerts THEN room \union {c.alert}
     ELSE tab

\* Alerts nothing was said about are out of hold; one that has been for long goes.
Missed(tab, cases) ==
  LET said == {Key(cases[i].alert) : i \in DOMAIN cases}
  IN {IF Key(al) \in said THEN al
      ELSE [al EXCEPT !.held = TRUE, !.outAt = IF @ = Unknown THEN clock ELSE @] : al \in tab}

Expired(al) == al.outAt # Unknown /\ Age(al.outAt) >= ClearTime

\* The table before the first case and after each: tables[i] has the first i.
Tables(tab, cases) ==
  LET after[i \in 0 .. (Drones + 1) * Planes] ==
        IF i = 0 THEN tab ELSE IF i \in DOMAIN cases THEN Apply(after[i - 1], cases[i]) ELSE after[i - 1]
  IN after
Applied(tab, cases) == Tables(tab, cases)[(Drones + 1) * Planes]

Evaluated(tab, cases) == {al \in Missed(Applied(tab, cases), cases) : ~Expired(al)}

\* A warning about an aircraft takes the place of its low alert on the screen.
Warning(al) == al.kind # "low" /\ Level(al) = "warning"
Shown(tab) == {al \in tab : al.kind = "low" => ~\E w \in tab : Warning(w) /\ w.plane = al.plane}

\* What an alert tells the drone's pilot to do: not to descend onto the aircraft.
Advice(al) ==
  IF al.kind = "low" THEN "be ready to land" ELSE IF al.ground THEN "keep clear"
  ELSE IF al.below THEN "move away, then land" ELSE "descend and land"

\* The status line.
Summary(st, tab) ==
  IF ~st.have THEN "off" ELSE IF st.stale THEN "stale" ELSE IF Shown(tab) = {} THEN "no conflicts" ELSE "conflicts"

\* The panel flashes for a warning that was not shown the last time.
Warned(tab) == {Key(al) : al \in {sh \in Shown(tab) : Level(sh) = "warning"}}
Flash(tab, next) == ~(Warned(next) \subseteq Warned(tab))

-----------------------------------------------------------------------------
WatchInit ==
  /\ set = <<>> /\ have = FALSE /\ dataAt = 0 /\ rxAt = 0
  /\ known = Drone /\ live = Drone /\ located = FALSE /\ alerts = {} /\ sets = 0 /\ clock = 0
  /\ status = [have |-> FALSE, stale |-> FALSE, at |-> 0, flash |-> FALSE]
  /\ heldAt = <<>>

\* traffic_ingest, of a set fetched some time ago, with reports older still.
Receive ==
  /\ sets < MaxSets
  /\ \E heard \in SUBSET Plane, old \in 0 .. StaleAge + 1 : \E says \in [heard -> Reports] :
       /\ \A p \in heard : says[p].old >= old
       /\ set' = [p \in heard |-> [says |-> says[p], at |-> clock - says[p].old]]
       /\ dataAt' = clock - old
  /\ have' = TRUE /\ rxAt' = clock /\ sets' = sets + 1
  /\ UNCHANGED <<known, live, located, alerts, status, heldAt, clock>>

\* A drone goes silent, leaves the table, or is heard again.
Hear ==
  /\ \E d \in Drone :
       /\ live' = IF d \in live THEN live \ {d} ELSE IF d \in known THEN live ELSE live \union {d}
       /\ known' = IF d \in live \/ d \notin known THEN known \union {d} ELSE known \ {d}
  /\ UNCHANGED <<set, have, dataAt, rxAt, located, alerts, status, heldAt, sets, clock>>

\* rx_set_home
Locate ==
  /\ ~located /\ located' = TRUE
  /\ UNCHANGED <<set, have, dataAt, rxAt, known, live, alerts, status, heldAt, sets, clock>>

\* ui_traffic_update
Evaluate ==
  LET cases == Cases
      standing == {Key(cases[i].alert) : i \in {j \in DOMAIN cases : cases[j].raised \/ cases[j].hold}}
  IN /\ UNCHANGED <<set, have, dataAt, rxAt, known, live, located, sets, clock>>
     /\ alerts' = Evaluated(alerts, cases)
     /\ status' = [have |-> Have, stale |-> IsStale, at |-> clock, flash |-> Flash(alerts, alerts')]
     /\ heldAt' = [k \in {Key(al) : al \in alerts'} |-> IF k \in standing THEN clock ELSE heldAt[k]]

\* The loop evaluates at least once in a unit of time.
WatchTick ==
  /\ clock < Horizon /\ status.at = clock
  /\ clock' = clock + 1
  /\ UNCHANGED <<set, have, dataAt, rxAt, known, live, located, alerts, status, heldAt, sets>>

WatchNext == Receive \/ Hear \/ Locate \/ Evaluate \/ WatchTick
WatchSpec == WatchInit /\ [][WatchNext]_watchVars

-----------------------------------------------------------------------------
\* The types; no two alerts have one name.
WatchTypeOK ==
  /\ known \subseteq Drone /\ live \subseteq known /\ located \in BOOLEAN
  /\ DOMAIN set \subseteq Plane /\ \A p \in DOMAIN set : set[p].says \in Reports /\ set[p].at <= clock
  /\ Cardinality(alerts) <= MaxAlerts
  /\ \A al, other \in alerts : Key(al) = Key(other) => al = other
  /\ \A al \in alerts : al.drone \in 0 .. Drones /\ al.plane \in Plane /\ al.kind \in Kind /\ al.away \in Step
  /\ clock \in 0 .. Horizon /\ dataAt <= clock /\ rxAt \in 0 .. clock

Keys(tab) == {Key(al) : al \in tab}

\* The hysteresis is of the wall clock, never of evaluations: an alert goes only
\* when its condition and its hold have been false for the clearing time, at
\* every evaluation there was, or when the table is full and another takes its
\* slot; and by then it does go.
GoesByTheClock ==
  /\ \A al \in alerts : Key(al) \notin Keys(alerts') =>
       \/ clock - heldAt[Key(al)] >= ClearTime
       \/ \E new \in alerts' : Key(new) \notin Keys(alerts)
  /\ Evaluate => \A k \in DOMAIN heldAt' : clock - heldAt'[k] <= ClearTime
KeptByTheClock == [][GoesByTheClock]_watchVars

\* A full table keeps the most urgent: once the numbers are those of the present,
\* an alert that is raised and not in the table ranks before none that is.
MostUrgentKept ==
  LET cases == Cases
      settled == Evaluated(Evaluated(alerts, cases), cases)
  IN \A i \in DOMAIN cases :
       cases[i].raised /\ Key(cases[i].alert) \notin Keys(settled) =>
         Cardinality(settled) = MaxAlerts /\ \A al \in settled : ~Before(cases[i].alert, al)

\* What the screen says: "no ADS-B conflicts" only when no condition holds, with
\* data that is not stale (when the table was full, a condition may have to wait
\* for the next evaluation); the numbers and the advice are those of the last report; and
\* the panel flashes for what was no alert before, or was one about an aircraft on
\* the ground that has left it, never for a warning that only was kept.
SaysTheTruth ==
  LET cases == Cases
  IN /\ status'.flash =>
          \E al \in alerts' : /\ Warning(al) /\ (al.held => Key(al) \in Keys(alerts))
                              /\ \A old \in alerts : Key(old) = Key(al) => old.ground
     /\ Summary(status', alerts') = "no conflicts" /\ Cardinality(alerts) < MaxAlerts =>
          \A i \in DOMAIN cases : ~cases[i].raised
     /\ \A al \in alerts', i \in DOMAIN cases :
          Key(al) = Key(cases[i].alert) =>
            al.away = cases[i].alert.away /\ (Advice(al) = "descend and land" => ~cases[i].alert.below)
TellsTheTruth == [][Evaluate => SaysTheTruth]_watchVars

\* Both: what is shown of the alerts is true, and for as long as the clock says.
AlertsTrue == KeptByTheClock /\ TellsTheTruth
=============================================================================
