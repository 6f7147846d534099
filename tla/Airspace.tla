------------------------------ MODULE Airspace ------------------------------
(***************************************************************************)
(* Flight restrictions and the contacts inside them (firmware/common):      *)
(* the table of restrictions, filled line by line by a host (tfr_clear,     *)
(* tfr_add) and at once by the board's own fetch (net_fetch_poll), the      *)
(* decode task that looks a contact's position up in it (tracker_ingest)    *)
(* and tells the board and the host (rx_note_track, rx_process). Each takes *)
(* the lock for one line, one table or one frame.                           *)
(*                                                                         *)
(* A line says of the contact more than the frame does: the restriction it *)
(* is in, once it has a position and there is a table, and the first page   *)
(* of the authentication set held of it (AuthPages). The hash that tells a  *)
(* repeat has the frame and the restriction, but not that the line has a    *)
(* word of it at all, and not the set.                                      *)
(*                                                                         *)
(* Left out: the polygons' arithmetic; the rest of what a frame says; the   *)
(* verdicts, which the hash has: they stay as they are here.                *)
(***************************************************************************)
EXTENDS Integers, Sequences, FiniteSets, SequencesExt

CONSTANTS
  Zones,     \* restriction -> the spots inside it
  InForce,   \* the sets of restrictions that may be in force
  Spots,     \* where the drone may be
  Signed,    \* authentication sets, by their first page
  Via,       \* ways a frame is heard: Wi-Fi beacon, NAN, BLE
  TfrMax,    \* TFR_MAX
  OneSecond, \* how long a line told counts
  Nil,
  MaxTables, \* bound of the model: tables pushed or fetched
  LastMoment \* bound of the model: how long it runs

ASSUME AirspaceAssumption ==
  /\ IsFiniteSet(DOMAIN Zones) /\ \A z \in DOMAIN Zones : Zones[z] \subseteq Spots
  /\ InForce \subseteq SUBSET DOMAIN Zones
  /\ {TfrMax, OneSecond} \subseteq Nat \ {0} /\ {MaxTables, LastMoment} \subseteq Nat
  /\ Nil \notin Spots /\ Nil \notin DOMAIN Zones /\ Nil \notin Signed

VARIABLES
  tfrs,     \* s_tfrs up to g_tfr_n
  loaded,   \* g_tfr_loaded
  pushing,  \* lines the host has still to send; Nil is tfr_clear
  spot,     \* where the drone is
  track,    \* the contact: its position, in_tfr, tfr_id, tfr_ever; auth_asm's first page
  told,     \* way -> emit_hash and emit_ms of the line told last
  lineNow,  \* history: what the line of the last frame says, told or not, and when
  lineTold, \* history: what the last line told says, by whatever way, and when
  wordAt,   \* history: when the contact's restriction changed last, and before that
  setAt,    \* history: the same of its authentication set
  tables, moment

airVars == <<tfrs, loaded, pushing, spot, track, told, lineNow, lineTold, wordAt, setAt, tables, moment>>

Zone == DOMAIN Zones

\* What a line says of the restriction, if it has a word of it.
ZoneIn(t) == IF t.in THEN t.zone ELSE Nil
NoWord == [said |-> FALSE, in |-> FALSE, zone |-> Nil]
Word(t) == [said |-> t.at # Nil /\ (loaded \/ t.in), in |-> t.in, zone |-> ZoneIn(t)]

AirInit ==
  /\ tfrs = <<>> /\ loaded = FALSE /\ pushing = <<>> /\ spot \in Spots
  /\ track = [at |-> Nil, in |-> FALSE, zone |-> Nil, ever |-> FALSE, set |-> Nil]
  /\ told = [v \in Via |-> [says |-> <<>>, at |-> 0]]
  /\ lineNow = [word |-> NoWord, set |-> Nil, at |-> 0] /\ lineTold = lineNow
  /\ wordAt = <<-OneSecond, -OneSecond - OneSecond>> /\ setAt = wordAt
  /\ tables = 0 /\ moment = 0

-----------------------------------------------------------------------------
(* The table of restrictions *)

\* pushDeviceContext: a clear, then the restrictions, nearest first.
PushZones ==
  /\ pushing = <<>> /\ tables < MaxTables
  /\ \E zs \in InForce : \E order \in SetToSeqs(zs) : pushing' = <<Nil>> \o order
  /\ tables' = tables + 1
  /\ UNCHANGED <<tfrs, loaded, spot, track, told, lineNow, lineTold, wordAt, setAt, moment>>

\* handle_host_line: tfr_clear, tfr_add.
HandleZone ==
  /\ pushing # <<>>
  /\ tfrs' = IF Head(pushing) = Nil THEN <<>>
             ELSE IF Len(tfrs) < TfrMax THEN Append(tfrs, Head(pushing)) ELSE tfrs
  /\ loaded' = (loaded \/ Head(pushing) = Nil \/ Len(tfrs) < TfrMax)
  /\ pushing' = Tail(pushing)
  /\ UNCHANGED <<spot, track, told, lineNow, lineTold, wordAt, setAt, tables, moment>>

\* net_fetch_poll
InstallZones ==
  /\ tables < MaxTables
  /\ \E zs \in InForce : Cardinality(zs) <= TfrMax /\ tfrs' \in SetToSeqs(zs)
  /\ loaded' = TRUE
  /\ tables' = tables + 1
  /\ UNCHANGED <<pushing, spot, track, told, lineNow, lineTold, wordAt, setAt, moment>>

-----------------------------------------------------------------------------
(* A frame *)

\* tfr_lookup: the restrictions the position is in, of which it takes the first.
Around(p) == {i \in DOMAIN tfrs : p \in Zones[tfrs[i]]}

\* tracker_ingest: where it is, and the restriction it is in or was in last.
LookedUp(t, p) ==
  IF p = Nil THEN t
  ELSE [t EXCEPT !.at = p, !.in = Around(p) # {}, !.zone = IF Around(p) # {} THEN tfrs[Min(Around(p))] ELSE @,
                 !.ever = @ \/ Around(p) # {}]

\* A frame with its position, with none it could use (the one before counts), with
\* the first page of a set, or of another kind.
Frame == {<<kind, Nil>> : kind \in {"unplaced", "other"}}
           \union {<<"position", p>> : p \in Spots} \union {<<"page", e>> : e \in Signed}
PositionIn(frame) ==
  CASE frame[1] = "position" -> frame[2] [] frame[1] = "unplaced" -> track.at [] OTHER -> Nil
Ingested(frame) ==
  IF frame[1] = "page" THEN [track EXCEPT !.set = frame[2]] ELSE LookedUp(track, PositionIn(frame))

\* A bug to compare with: the hash of the frame alone.
SaysFrame(frame, t) == <<frame, FALSE, Nil>>

\* What the hash tells lines apart by.
Says(frame, t) == <<frame, t.in, ZoneIn(t)>>

Repeats(v, says) == told[v].says = says /\ moment - told[v].at < OneSecond

Changed(ts, is) == IF is THEN <<moment, ts[1]>> ELSE ts

\* rx_process
HearFrame(v, frame) ==
  LET t == Ingested(frame)
      says == Says(frame, t)
      now == [word |-> Word(t), set |-> t.set, at |-> moment]
  IN /\ frame[1] = "position" => frame[2] = spot
     /\ track' = t
     /\ told' = IF Repeats(v, says) THEN told ELSE [told EXCEPT ![v] = [says |-> says, at |-> moment]]
     /\ lineNow' = now
     /\ lineTold' = IF Repeats(v, says) THEN lineTold ELSE now
     /\ wordAt' = Changed(wordAt, t.in # track.in \/ ZoneIn(t) # ZoneIn(track))
     /\ setAt' = Changed(setAt, t.set # track.set)
     /\ UNCHANGED <<tfrs, loaded, pushing, spot, tables, moment>>

Fly ==
  /\ \E p \in Spots \ {spot} : spot' = p
  /\ UNCHANGED <<tfrs, loaded, pushing, track, told, lineNow, lineTold, wordAt, setAt, tables, moment>>

AirTick ==
  /\ moment < LastMoment /\ moment' = moment + 1
  /\ UNCHANGED <<tfrs, loaded, pushing, spot, track, told, lineNow, lineTold, wordAt, setAt, tables>>

AirNext ==
  \/ PushZones \/ HandleZone \/ InstallZones \/ Fly \/ AirTick
  \/ \E v \in Via, frame \in Frame : HearFrame(v, frame)
AirSpec == AirInit /\ [][AirNext]_airVars

-----------------------------------------------------------------------------
AirTypeOK ==
  /\ tfrs \in Seq(Zone) /\ Len(tfrs) <= TfrMax /\ (tfrs # <<>> => loaded)
  /\ track.at \in Spots \union {Nil} /\ (track.ever <=> track.zone # Nil) /\ (track.in => track.ever)
  /\ track.set \in Signed \union {Nil} /\ lineNow.set = track.set
  /\ \A v \in Via : told[v].at <= lineTold.at /\ lineTold.at <= lineNow.at /\ lineNow.at <= moment
  /\ tables \in 0 .. MaxTables /\ moment \in 0 .. LastMoment

\* It changed, and had changed less than a second before.
Flapped(ts) == ts[1] - ts[2] < OneSecond

\* A repeat is not told, so the last line told may say of the contact what the line
\* of the last frame would not: for less than a second, and, of the restriction and
\* of the authentication set, only if that changed twice within a second, back to
\* what a line had said. A contact newly known to be in no restriction may be without
\* that word as long. No other change is kept from the host, by whatever way the
\* frames come and whoever changes the table.
ChangesTold ==
  /\ lineTold.word # lineNow.word \/ lineTold.set # lineNow.set => lineNow.at - lineTold.at < OneSecond
  /\ lineTold.word # lineNow.word => Flapped(wordAt) \/ (lineTold.word = NoWord /\ lineNow.word = [NoWord EXCEPT !.said = TRUE])
  /\ lineTold.set # lineNow.set => Flapped(setAt)
=============================================================================
