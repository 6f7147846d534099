-------------------------------- MODULE MCAir --------------------------------
(***************************************************************************)
(* Model values for what a receiver makes of what is in the air: the pieces *)
(* of advertisements (Fragments), contacts in flight restrictions           *)
(* (Airspace), the observer's position (HomePosition), sets of aircraft     *)
(* (TrafficFeed) and the alerts about them (TrafficWatch); and for what the *)
(* test transmitter puts there (Transmitter). They share no variable; a     *)
(* behaviour is of the part `part` names, so that a run checks each whole.  *)
(***************************************************************************)
EXTENDS Fragments, Airspace, HomePosition, TrafficFeed, TrafficWatch, Transmitter, TLC

\* Fragments: three advertisers for two slots.
SomePieces == <<2, 2, 2>>

\* Airspace: two restrictions around one of two spots. Bound: authentication sets are
\* heard only where no table is.
SomeZones == <<{"a"}, {"a"}>>
AnyOfThem == SUBSET {1, 2}

\* HomePosition: along a road.
SomeRoad == {<<0, 0>>, <<1, 1>>, <<2, 2>>, <<3, 3>>}

\* TrafficFeed: a report of an aircraft, its distance and age.
Report(plane, away, old) == [plane |-> plane, away |-> away, old |-> old]
SomeSets == {
  <<Report(1, 0, 0), Report(2, 1, 1)>>,
  <<Report(2, 1, 0), Report(3, 2, 1), Report(1, 3, 0)>>,
  <<Report(3, 1, 1), Report(3, 0, 0), Report(1, 1, 0)>>,
  <<Report(2, 0, 0)>>,
  <<>>}

\* TrafficWatch: an aircraft over the first drone that closes on the second and
\* is below it, one on the ground beside the board, and one in the air that is only
\* near enough to the first to hold an alert.
SomeReports == {
  [away |-> <<0, 2>>, apart |-> <<Unknown, 3>>, closing |-> {2}, below |-> {2}, board |-> 3, ground |-> FALSE, low |-> TRUE, old |-> 0],
  [away |-> <<0, 3>>, apart |-> <<Unknown, 0>>, closing |-> {}, below |-> {1}, board |-> 0, ground |-> TRUE, low |-> TRUE, old |-> 1],
  [away |-> <<1, 3>>, apart |-> <<0, 0>>, closing |-> {}, below |-> {}, board |-> 1, ground |-> FALSE, low |-> FALSE, old |-> 0]}

\* TxSets, TxSlots: the paths' cadences at the two rates.
SomeTurns == [spec |-> 2, slow |-> 4]
SomeEvery == [spec |-> [p \in BlePath |-> 1], slow |-> [p \in BlePath |-> 3]]
SomePeriods == [spec |-> 0 :> 2 @@ 1 :> 3 @@ 2 :> 3, slow |-> [p \in Path |-> 5]]

VARIABLE part

MCAirVars == <<fragVars, airVars, homeVars, feedVars, watchVars, sentVars, part>>

MCAirInit ==
  /\ FragInit /\ AirInit /\ HomeInit /\ FeedInit /\ WatchInit /\ TxInit /\ SlotInit
  /\ part \in {"pieces", "airspace", "home", "feed", "watch", "sets", "slots"}
  /\ part # "airspace" => spot = "a"
  /\ part # "sets" => rate = "spec" /\ nsets = 2
  /\ part # "slots" => speed = "spec"

MCAirNext ==
  /\ \/ part = "pieces" /\ FragNext /\ UNCHANGED <<airVars, homeVars, feedVars, watchVars, sentVars>>
     \/ part = "airspace" /\ AirNext /\ (track'.set = Nil \/ tables' = 0) /\ UNCHANGED <<fragVars, homeVars, feedVars, watchVars, sentVars>>
     \/ part = "home" /\ HomeNext /\ UNCHANGED <<fragVars, airVars, feedVars, watchVars, sentVars>>
     \/ part = "feed" /\ FeedNext /\ UNCHANGED <<fragVars, airVars, homeVars, watchVars, sentVars>>
     \/ part = "watch" /\ WatchNext /\ UNCHANGED <<fragVars, airVars, homeVars, feedVars, sentVars>>
     \/ part = "sets" /\ TxNext /\ UNCHANGED <<fragVars, airVars, homeVars, feedVars, watchVars, slotVars>>
     \/ part = "slots" /\ SlotNext /\ UNCHANGED <<fragVars, airVars, homeVars, feedVars, watchVars, txVars>>
  /\ UNCHANGED part

MCAirSpec == MCAirInit /\ [][MCAirNext]_MCAirVars

\* The types of all parts.
ReceivedTypeOK == FragTypeOK /\ AirTypeOK /\ HomeTypeOK /\ WatchTypeOK /\ TxTypeOK
=============================================================================
