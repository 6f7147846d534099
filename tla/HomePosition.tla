---------------------------- MODULE HomePosition ----------------------------
(***************************************************************************)
(* The observer's position (firmware/common/rx_core.h, rx_set_home): a fix  *)
(* from a host or from the board's GPS task is kept in RAM, and in flash so *)
(* that the board has a centre after a restart ("Saved on the first fix and *)
(* after a move of more than 500 m, at most every 10 minutes"). The loop    *)
(* alone does so: the GPS task parks its fix for periph_tick. The power may  *)
(* go at any point, between the two keys of a save too.                     *)
(*                                                                         *)
(* A place is a latitude and a longitude, in units of less than 500 m. Left *)
(* out: a flash that does not open.                                         *)
(***************************************************************************)
EXTENDS Integers

CONSTANTS
  Road,      \* the places the board can be at
  MoveOf,    \* HOME_SAVE_MOVE_M
  SaveEvery, \* HOME_SAVE_EVERY_MS
  Wrap,      \* millis() counts modulo this
  Unset,
  MaxCuts,   \* bound of the model: power cuts
  LastHour   \* bound of the model: how long it runs

ASSUME HomeAssumption ==
  /\ Road \subseteq Int \X Int /\ Unset \notin Int \X Int /\ Unset \notin Int
  /\ {MoveOf, MaxCuts, LastHour} \subseteq Nat /\ {SaveEvery, Wrap} \subseteq Nat \ {0}

VARIABLES
  home,     \* g_home: the position in RAM
  saved,    \* s_home_saved: what the check takes for the stored position
  savedAt,  \* s_home_saved_ms, or Unset while s_home_saved_recent is false
  stored,   \* the position in flash
  setting,  \* the fix rx_set_home is at, when it came, and how far it is
  lastFix,  \* history: the fix of the rx_set_home that ended last, and when
  writtenAt, \* history: when flash was last written
  hour, cuts

homeVars == <<home, saved, savedAt, stored, setting, lastFix, writtenAt, hour, cuts>>

Resting == [fix |-> Unset, at |-> 0, pc |-> "none"]

HomeInit ==
  /\ home = Unset /\ saved = Unset /\ savedAt = Unset /\ stored = Unset
  /\ setting = Resting
  /\ lastFix = [fix |-> Unset, at |-> 0] /\ writtenAt = Unset /\ hour = 0 /\ cuts = 0

Between(a, b) == IF a < b THEN b - a ELSE a - b
Near(p, q, reach) == Between(p[1], q[1]) < reach /\ Between(p[2], q[2]) < reach

\* The int32_t difference of two readings of millis().
Elapsed(from) == LET d == (hour - from) % Wrap IN IF 2 * d < Wrap THEN d ELSE d - Wrap

-----------------------------------------------------------------------------
\* A bug to compare with: each fix is compared with the one before it.
MustSaveStep ==
  saved = Unset \/ (lastFix.fix # Unset /\ ~Near(setting.fix, lastFix.fix, MoveOf))

\* home_save_maybe
MustSave ==
  LET p == setting.fix IN
  \/ saved = Unset
  \/ ~Near(p, saved, MoveOf) /\ (savedAt = Unset \/ Elapsed(savedAt) >= SaveEvery)

\* rx_set_home: a fix, kept in RAM.
SetHome ==
  /\ setting.pc = "none"
  /\ \E p \in Road : home' = p /\ setting' = [fix |-> p, at |-> hour, pc |-> "check"]
  /\ UNCHANGED <<saved, savedAt, stored, lastFix, writtenAt, hour, cuts>>

Done ==
  /\ setting' = Resting
  /\ lastFix' = [fix |-> setting.fix, at |-> setting.at]

CheckHome ==
  /\ setting.pc = "check"
  /\ IF MustSave THEN setting' = [setting EXCEPT !.pc = "put"] /\ UNCHANGED lastFix ELSE Done
  /\ UNCHANGED <<home, saved, savedAt, stored, writtenAt, hour, cuts>>

\* The latitude, then the longitude: home_load takes no position until it has both.
PutHome ==
  /\ setting.pc \in {"put", "putLon"}
  /\ IF setting.pc = "put"
     THEN /\ stored' = IF stored = Unset THEN Unset ELSE <<setting.fix[1], stored[2]>>
          /\ setting' = [setting EXCEPT !.pc = "putLon"] /\ UNCHANGED writtenAt
     ELSE /\ stored' = <<IF stored = Unset THEN setting.fix[1] ELSE stored[1], setting.fix[2]>>
          /\ setting' = [setting EXCEPT !.pc = "note"] /\ writtenAt' = hour
  /\ UNCHANGED <<home, saved, savedAt, lastFix, hour, cuts>>

NoteHome ==
  /\ setting.pc = "note"
  /\ saved' = setting.fix /\ savedAt' = setting.at
  /\ Done
  /\ UNCHANGED <<home, stored, writtenAt, hour, cuts>>

\* The power goes; home_load at the start.
CutHome ==
  /\ cuts < MaxCuts /\ cuts' = cuts + 1
  /\ home' = stored /\ saved' = stored /\ savedAt' = Unset
  /\ setting' = Resting
  /\ lastFix' = [fix |-> Unset, at |-> 0]
  /\ UNCHANGED <<stored, writtenAt, hour>>

\* rx_set_home takes far less than a unit of time.
HomeTick ==
  /\ hour < LastHour /\ hour' = hour + 1
  /\ setting.pc = "none"
  /\ UNCHANGED <<home, saved, savedAt, stored, setting, lastFix, writtenAt, cuts>>

HomeNext ==
  SetHome \/ CheckHome \/ PutHome \/ NoteHome \/ CutHome \/ HomeTick
HomeSpec == HomeInit /\ [][HomeNext]_homeVars

-----------------------------------------------------------------------------
HomeTypeOK ==
  /\ {home, saved, stored} \subseteq (Int \X Int) \union {Unset} /\ (stored = Unset <=> writtenAt = Unset)
  /\ setting.pc \in {"none", "check", "put", "putLon", "note"} /\ setting.fix \in Road \union {Unset}
  /\ hour \in 0 .. LastHour /\ cuts \in 0 .. MaxCuts

\* A board that loses its power has a centre near where it was, unless it is
\* between the two keys of a save: the stored position is within the distance of
\* the last fix, however slowly the board moved, or was written less than the
\* interval before it; or so long before that the interval reads as not yet begun
\* (half the range of millis(), 24.8 days).
HomeStored ==
  lastFix.fix # Unset /\ setting.pc # "putLon" =>
    /\ stored # Unset
    /\ \/ Near(lastFix.fix, stored, MoveOf)
       \/ lastFix.at - writtenAt < SaveEvery
       \/ 2 * (lastFix.at - writtenAt) >= Wrap
=============================================================================
