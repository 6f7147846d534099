---------------------------- MODULE TrafficFeed ----------------------------
(***************************************************************************)
(* How a set of aircraft reaches a board (traffic_host_line and            *)
(* traffic_ingest in firmware/common/traffic.h): several hosts, a Mac on    *)
(* USB and a phone over BLE, each push their set as `traffic` lines and a   *)
(* `traffic_done`; the board gathers the lines of one set and installs what *)
(* it has when a `done` comes. Lines of two hosts interleave, a line may be *)
(* lost, and a board with Wi-Fi installs sets of its own.                   *)
(*                                                                         *)
(* A host sends its lines in order, those of a push that is not through    *)
(* before those of the next; a phone whose next push overtakes one (it     *)
(* waits after each line) counts as two hosts. A push carries the second   *)
(* its host's clock shows: clocks differ and are set, and a host may push  *)
(* twice in a second.                                                      *)
(*                                                                         *)
(* A report is an aircraft, its distance from the board and when the        *)
(* position was made. Left out: what else a report says (TrafficWatch), the *)
(* reading of JSON.                                                         *)
(***************************************************************************)
EXTENDS Integers, Sequences, FiniteSets, SequencesExt

CONSTANTS
  Hosts,
  Seconds,     \* the seconds their clocks may show
  Sets,        \* the sets a host or the board may have: sequences of reports, nearest first
  LineRoom,    \* aircraft in a line (6)
  SetRoom,     \* TRAFFIC_MAX_AIRCRAFT
  KeepRange,   \* TRAFFIC_KEEP_R_M
  KeepAge,     \* TRAFFIC_PRESENT_S
  MaxPushes,   \* bound of the model
  MaxLost,     \* bound of the model
  FeedEnd      \* bound of the model

ASSUME FeedAssumption ==
  /\ {LineRoom, SetRoom} \subseteq Nat \ {0}
  /\ {KeepRange, KeepAge, MaxPushes, MaxLost, FeedEnd} \subseteq Nat
  /\ \A s \in Sets : s \in Seq(ToSet(s)) /\ \A i \in DOMAIN s : s[i].away \in Nat /\ s[i].old \in Nat
  /\ Seconds \subseteq Nat

VARIABLES
  todo,     \* per host: the lines of its pushes still to go
  stage,    \* g_traffic_stage*: the set being received
  feed,     \* g_traffic_ac
  partial,  \* g_traffic_partial
  placed,   \* the board knows where it is (g_traffic_observer)
  given,    \* history: what traffic_ingest was last given, and where the board was
  pushes,   \* history
  lost,     \* history
  feedTime

feedVars == <<todo, stage, feed, partial, placed, given, pushes, lost, feedTime>>

Closed == [open |-> FALSE, t |-> 0, got |-> <<>>, rx |-> 0]

\* A push: who made it, the second it carries, and which it is (history).
Made(by, t) == [by |-> by, t |-> t, no |-> pushes + 1]

\* The set s, as push p gives it.
Reported(s, p) ==
  [i \in DOMAIN s |-> [plane |-> s[i].plane, away |-> s[i].away, at |-> feedTime - s[i].old, push |-> p]]

\* The lines of a push: its aircraft, so many to a line, then the done line,
\* which does not carry the second.
Chunk(s, i) == SubSeq(s, (i - 1) * LineRoom + 1, IF i * LineRoom < Len(s) THEN i * LineRoom ELSE Len(s))
Lines(s, p) ==
  LET n == (Len(s) + LineRoom - 1) \div LineRoom
  IN [i \in 1 .. n |-> [done |-> FALSE, push |-> p, ac |-> Chunk(s, i), n |-> 0]]
     \o <<[done |-> TRUE, push |-> p, ac |-> <<>>, n |-> Len(s)]>>

-----------------------------------------------------------------------------
\* The elements of s at the places in S, at most n: the least by w first, of equals the first given.
NotAfter(w, i, j) == w[i] < w[j] \/ (w[i] = w[j] /\ i <= j)
PlaceIn(S, w, i) == Cardinality({j \in S : NotAfter(w, j, i)})
InOrder(s, S, w, n) ==
  [k \in 1 .. (IF Cardinality(S) < n THEN Cardinality(S) ELSE n) |-> s[CHOOSE i \in S : PlaceIn(S, w, i) = k]]

\* traffic_ingest: the nearest; each aircraft once, by its nearest report.
Usable(s) == {i \in DOMAIN s : feedTime - s[i].at <= KeepAge /\ (placed => s[i].away <= KeepRange)}
Away(s) == [i \in DOMAIN s |-> IF placed THEN s[i].away ELSE 0]
NearestOnly(s) ==
  {i \in Usable(s) : \A j \in Usable(s) : s[j].plane = s[i].plane => NotAfter(Away(s), i, j)}
Chosen(s) == InOrder(s, NearestOnly(s), Away(s), SetRoom)

Install(s) == feed' = Chosen(s) /\ given' = [set |-> s, placed |-> placed]

-----------------------------------------------------------------------------
FeedInit ==
  /\ todo = [h \in Hosts |-> <<>>] /\ stage = Closed /\ feed = <<>> /\ partial = FALSE /\ placed = FALSE
  /\ given = [set |-> <<>>, placed |-> FALSE] /\ pushes = 0 /\ lost = 0 /\ feedTime = 0

\* A host pushes its set: when it has a new one, and every 10 s.
Push(h) ==
  /\ pushes < MaxPushes /\ pushes' = pushes + 1
  /\ \E s \in Sets, t \in Seconds : todo' = [todo EXCEPT ![h] = @ \o Lines(Reported(s, Made(h, t)), Made(h, t))]
  /\ UNCHANGED <<stage, feed, partial, placed, given, lost, feedTime>>

\* A bug to compare with: the second of a line is not looked at.
GatheredAnyhow(line) ==
  LET room == SetRoom - Len(stage.got)
  IN [stage EXCEPT !.open = TRUE, !.t = line.push.t, !.rx = @ + Len(line.ac),
                   !.got = @ \o SubSeq(line.ac, 1, IF Len(line.ac) < room THEN Len(line.ac) ELSE room)]

\* A `traffic` line: it opens a set, or adds to the one of the same second. Every
\* object is counted; one that is too old, or beyond the room, is not kept.
Gathered(line) ==
  LET st == IF stage.open /\ stage.t = line.push.t THEN stage ELSE [Closed EXCEPT !.open = TRUE, !.t = line.push.t]
      young == {i \in DOMAIN line.ac : feedTime - line.ac[i].at <= KeepAge}
      anyOrder == [i \in DOMAIN line.ac |-> 0]
  IN [st EXCEPT !.rx = @ + Len(line.ac), !.got = @ \o InOrder(line.ac, young, anyOrder, SetRoom - Len(st.got))]

TrafficLine(h) ==
  /\ todo[h] # <<>> /\ ~Head(todo[h]).done
  /\ stage' = Gathered(Head(todo[h]))
  /\ todo' = [todo EXCEPT ![h] = Tail(@)]
  /\ UNCHANGED <<feed, partial, placed, given, pushes, lost, feedTime>>

\* A `traffic_done` line: it names no second, only how many it sent.
TrafficDone(h) ==
  /\ todo[h] # <<>> /\ Head(todo[h]).done
  /\ partial' = (Head(todo[h]).n # stage.rx)
  /\ Install(stage.got)
  /\ stage' = Closed
  /\ todo' = [todo EXCEPT ![h] = Tail(@)]
  /\ UNCHANGED <<placed, pushes, lost, feedTime>>

\* A line never becomes whole at the board (host_link.h drops it).
LoseLine(h) ==
  /\ todo[h] # <<>> /\ lost < MaxLost
  /\ lost' = lost + 1 /\ todo' = [todo EXCEPT ![h] = Tail(@)]
  /\ UNCHANGED <<stage, feed, partial, placed, given, pushes, feedTime>>

\* net_fetch_poll: a set the board fetched itself.
OwnSet ==
  /\ pushes < MaxPushes /\ pushes' = pushes + 1
  /\ \E s \in Sets : Install(Reported(s, Made("board", 0)))
  /\ UNCHANGED <<todo, stage, partial, placed, lost, feedTime>>

\* rx_set_home
Relocate ==
  /\ ~placed /\ placed' = TRUE
  /\ UNCHANGED <<todo, stage, feed, partial, given, pushes, lost, feedTime>>

FeedTick ==
  /\ feedTime < FeedEnd /\ feedTime' = feedTime + 1
  /\ UNCHANGED <<todo, stage, feed, partial, placed, given, pushes, lost>>

FeedNext ==
  \/ \E h \in Hosts : Push(h) \/ TrafficLine(h) \/ TrafficDone(h) \/ LoseLine(h)
  \/ OwnSet \/ Relocate \/ FeedTick
FeedSpec == FeedInit /\ [][FeedNext]_feedVars

-----------------------------------------------------------------------------
\* Reports that may be in one set: of one push; or of two that carry one second,
\* if two hosts made them or a line was lost.
Together(a, b) == a.push = b.push \/ (a.push.t = b.push.t /\ (a.push.by # b.push.by \/ lost > 0))

\* What traffic_ingest makes of what it is given, and who gives it: an installed
\* set is of one push, or of pushes of one second, which the lines do not tell
\* apart: of several hosts, or of one where the `done` between them may have been
\* lost; and no aircraft is in it twice. One that is left out is too old or too
\* far, or a nearer report of it is in, or the set is full of aircraft at least
\* as near.
SetOfOnePush ==
  /\ \A i, j \in DOMAIN feed : Together(feed[i], feed[j]) /\ (feed[i].plane = feed[j].plane => i = j)
  /\ Len(feed) <= SetRoom /\ Len(stage.got) <= SetRoom
  /\ given.placed => \A i \in DOMAIN given.set :
       LET r == given.set[i]
       IN \/ r.away > KeepRange
          \/ \E k \in DOMAIN feed : feed[k].plane = r.plane /\ feed[k].away <= r.away
          \/ feedTime - r.at > KeepAge
          \/ Len(feed) = SetRoom /\ \A k \in DOMAIN feed : feed[k].away <= r.away
=============================================================================
