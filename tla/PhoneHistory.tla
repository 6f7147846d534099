---------------------------- MODULE PhoneHistory ----------------------------
(***************************************************************************)
(* What the phone's own receiver heard, kept in History                    *)
(* (mobile/lib/core/live/phone_history.dart): one record for each spell of  *)
(* hearing a contact, live while it is heard, ended a minute after its last *)
(* frame, and written every few seconds by a flush that awaits the         *)
(* database; frames may be noted meanwhile.                                *)
(*                                                                         *)
(* The database answers before the next flush is due. Left out: what a     *)
(* record says of the contact besides its frames, and the row of the       *)
(* detector "This phone".                                                  *)
(***************************************************************************)
EXTENDS Integers, FiniteSets, Functions

CONSTANTS
  HeardKey,   \* keys of contacts the phone may hear
  EndAfter,   \* 60 s
  FlushEvery, \* 5 s
  MayDie,     \* the app may be killed
  MaxNotes,   \* bound of the model: frames
  MaxBroken,  \* bound of the model: writes that fail
  LastTime    \* bound of the model: how long it runs

ASSUME PhoneHistoryAssumption ==
  {EndAfter, MaxNotes, MaxBroken, LastTime} \subseteq Nat /\ FlushEvery \in Nat \ {0} /\ MayDie \in BOOLEAN

VARIABLES
  spells,   \* _spells: key -> first, last, msgs
  unsaved,  \* _dirty
  flush,    \* the flush under way: the rows it writes, the keys it ends
  lastFlush, \* _lastPhoneFlushMs
  rows,     \* the database: key and first -> active, msgs
  clock,    \* now
  noted,    \* history: key and first -> frames
  dropped,  \* history: spells that were gone before a flush had ended them
  broken    \* history: writes that failed, and whether the last did

histVars == <<spells, unsaved, flush, lastFlush, rows, clock, noted, dropped, broken>>

NoFlush == <<>> \* none is under way

HistInit ==
  /\ spells = <<>> /\ unsaved = FALSE /\ flush = NoFlush /\ lastFlush = 0 /\ rows = <<>> /\ clock = 0
  /\ noted = <<>> /\ dropped = {} /\ broken = [n |-> 0, last |-> FALSE]

-----------------------------------------------------------------------------
RowOf(k) == <<k, spells[k].first>>

\* f with what g says instead, where it says anything.
Updated(f, g) == [x \in DOMAIN f \union DOMAIN g |-> IF x \in DOMAIN g THEN g[x] ELSE f[x]]

IsOver(k) == clock - spells[k].last > EndAfter

\* Counted for the bound.
Frames(f) == FoldFunction(+, 0, f)

\* note
Note ==
  /\ \E k \in HeardKey :
       LET fresh == k \notin DOMAIN spells \/ IsOver(k)
           s == IF fresh THEN [first |-> clock, last |-> clock, msgs |-> 1]
                ELSE [spells[k] EXCEPT !.last = clock, !.msgs = @ + 1]
           r == <<k, s.first>>
       IN /\ spells' = Updated(spells, [x \in {k} |-> s])
          /\ noted' = Updated(noted, [x \in {r} |-> IF r \in DOMAIN noted THEN noted[r] + 1 ELSE 1])
          /\ dropped' = IF fresh /\ k \in DOMAIN spells THEN dropped \union {RowOf(k)} ELSE dropped
          /\ MaxNotes >= Frames(noted')
  /\ unsaved' = TRUE
  /\ UNCHANGED <<flush, lastFlush, rows, clock, broken>>

\* tick, flush: what there is to write, and to end.
BeginFlush ==
  /\ clock - lastFlush >= FlushEvery /\ lastFlush' = clock /\ flush = NoFlush
  /\ LET ending == {k \in DOMAIN spells : IsOver(k)} IN
     IF ~unsaved /\ ending = {} THEN UNCHANGED <<unsaved, flush>>
     ELSE /\ unsaved' = FALSE
          /\ flush' = [ending |-> ending,
                       rows |-> [r \in {RowOf(k) : k \in DOMAIN spells} |-> [active |-> ~IsOver(r[1]), msgs |-> spells[r[1]].msgs]]]
  /\ UNCHANGED <<spells, rows, clock, noted, dropped, broken>>

\* A bug to compare with: what was noted meanwhile counts as written.
EndFlushClean ==
  /\ flush # NoFlush /\ flush' = NoFlush /\ unsaved' = FALSE
  /\ rows' = Updated(rows, flush.rows)
  /\ spells' = Restrict(spells, DOMAIN spells \ flush.ending)
  /\ dropped' = dropped \union {RowOf(k) : k \in {x \in DOMAIN spells \cap flush.ending : RowOf(x) \notin DOMAIN flush.rows}}
  /\ broken' = [broken EXCEPT !.last = FALSE]
  /\ UNCHANGED <<lastFlush, clock, noted>>

\* The rows are written; the spells of the keys it ends are removed.
EndFlush ==
  /\ flush # NoFlush /\ flush' = NoFlush
  /\ rows' = Updated(rows, flush.rows)
  /\ spells' = Restrict(spells, DOMAIN spells \ flush.ending)
  /\ dropped' = dropped \union {RowOf(k) : k \in {x \in DOMAIN spells \cap flush.ending : RowOf(x) \notin DOMAIN flush.rows}}
  /\ broken' = [broken EXCEPT !.last = FALSE]
  /\ UNCHANGED <<unsaved, lastFlush, clock, noted>>

FlushBreaks ==
  /\ flush # NoFlush /\ flush' = NoFlush /\ broken.n < MaxBroken /\ broken' = [n |-> broken.n + 1, last |-> TRUE]
  /\ UNCHANGED <<spells, unsaved, lastFlush, rows, clock, noted, dropped>>

\* clearPhoneHistory; the database deletes after what a flush already asked it to write.
ClearHistory ==
  /\ noted # <<>> /\ spells' = <<>> /\ unsaved' = FALSE /\ rows' = <<>> /\ noted' = <<>> /\ dropped' = {}
  /\ flush' = (IF flush = NoFlush THEN NoFlush ELSE [flush EXCEPT !.rows = <<>>])
  /\ UNCHANGED <<lastFlush, clock, broken>>

\* The app is killed, and begun again.
Killed ==
  /\ MayDie /\ spells # <<>> /\ spells' = <<>> /\ unsaved' = FALSE /\ flush' = NoFlush /\ lastFlush' = clock
  /\ rows' \in {rows, IF flush = NoFlush THEN rows ELSE Updated(rows, flush.rows)}
  /\ dropped' = dropped \union {RowOf(k) : k \in DOMAIN spells} /\ broken' = [broken EXCEPT !.last = FALSE]
  /\ UNCHANGED <<clock, noted>>

Second ==
  /\ clock < LastTime /\ clock' = clock + 1 /\ clock - lastFlush < FlushEvery
  /\ UNCHANGED <<spells, unsaved, flush, lastFlush, rows, noted, dropped, broken>>

HistNext == Note \/ BeginFlush \/ EndFlush \/ FlushBreaks \/ ClearHistory \/ Killed \/ Second
HistSpec == HistInit /\ [][HistNext]_histVars

-----------------------------------------------------------------------------
HistTypeOK ==
  /\ DOMAIN spells \subseteq HeardKey /\ clock \in 0 .. LastTime /\ dropped \subseteq DOMAIN noted
  /\ \A k \in DOMAIN spells : spells[k].first <= spells[k].last /\ spells[k].last <= clock
  /\ (flush # NoFlush => flush.ending \subseteq HeardKey)

Settled == flush = NoFlush /\ ~unsaved /\ ~broken.last
IsOpen(r) == r[1] \in DOMAIN spells /\ RowOf(r[1]) = r

\* Once written a record has every frame of its spell, and is live if and only
\* if the spell goes on; except of a spell that another took the place of
\* before a flush had ended it, of that other when the flush removes it by its
\* key, having begun to end the one before, or of one the app was killed in.
HistoryTrue ==
  Settled => \A r \in DOMAIN noted \ dropped :
               r \in DOMAIN rows /\ rows[r].msgs = noted[r] /\ (rows[r].active <=> IsOpen(r))

\* A record is live only while its spell goes on.
LiveWhileHeard == Settled => \A r \in DOMAIN rows : rows[r].active => IsOpen(r)
=============================================================================
