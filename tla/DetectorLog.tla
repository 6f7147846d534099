---------------------------- MODULE DetectorLog ----------------------------
(***************************************************************************)
(* What the receiver's match log promises to the programs that read it     *)
(* (rx_core.h, the "Sync protocol" of emit_log): a history of contacts     *)
(* that have ended, numbered 0, 1, 2, ... within one log identity, of      *)
(* which the newest LogMax are held; a saved copy that a restart comes     *)
(* back to; a clear that starts a log with another identity.               *)
(*                                                                         *)
(* MatchLog implements this module; LogSync builds the phone's history     *)
(* sync on top of it.                                                      *)
(***************************************************************************)
EXTENDS Integers

CONSTANTS
  Contact,    \* the contacts that can end: what tells one record from another
  LogMax,     \* LOG_MAX, the records held
  IdSpace,    \* log identities are 1 .. IdSpace - 1 (uint32_t, 0 = none yet)
  MaxTotal    \* bound of the model: contacts that end within one log

ASSUME LogMaxAssumption   == LogMax \in Nat \ {0}
ASSUME IdSpaceAssumption  == IdSpace \in Nat /\ IdSpace > 1
ASSUME MaxTotalAssumption == MaxTotal \in Nat

VARIABLES
  id,      \* s_log_id: which log this is
  total,   \* s_log_total: the seq the next ended contact gets
  oldest,  \* the lowest seq held; = total when none is
  rec,     \* rec[seq], for seq in oldest .. total - 1: the contact so numbered
  saved    \* the copy in flash: what a restart comes back to

logVars == <<id, total, oldest, rec, saved>>

LogId == 1 .. IdSpace - 1

Image(i, t, o, r) == [id |-> i, total |-> t, oldest |-> o, rec |-> r]

NoRecords == [s \in 0 .. -1 |-> s]

\* Flash that holds no log: no identity (0), no records.
Unsaved == Image(0, 0, 0, NoRecords)

\* s_log_id + 1 in 32 bits, skipping 0.
NextId(i) == IF (i + 1) % IdSpace = 0 THEN 1 ELSE (i + 1) % IdSpace

\* What flash may hold when the story starts: nothing, or the records of an
\* older firmware, which gave its log no identity.
InitImage(image) ==
  /\ image.id = 0
  /\ image.total \in 0 .. MaxTotal
  /\ image.oldest \in 0 .. image.total
  /\ image.total - image.oldest <= LogMax
  /\ image.rec \in [image.oldest .. image.total - 1 -> Contact]

InitLog ==
  /\ InitImage(saved)
  /\ id \in LogId
  /\ total = saved.total
  /\ oldest = saved.oldest
  /\ rec = saved.rec

\* trk_on_end: the contact gets the next number; a full log drops its oldest.
End(c) ==
  /\ total < MaxTotal
  /\ total' = total + 1
  /\ oldest' = IF total - oldest = LogMax THEN oldest + 1 ELSE oldest
  /\ rec' = [s \in oldest' .. total |-> IF s = total THEN c ELSE rec[s]]
  /\ UNCHANGED <<id, saved>>

\* A save: flash holds the log as it is now.
Save ==
  /\ saved' = Image(id, total, oldest, rec)
  /\ UNCHANGED <<id, total, oldest, rec>>

\* log_clear: another log, with nothing in it (rx_log_clear_all saves it
\* next, before it tells the clients).
Clear ==
  /\ id' = NextId(id)
  /\ total' = 0
  /\ oldest' = 0
  /\ rec' = NoRecords
  /\ UNCHANGED saved

\* A power cut or a crash: the log comes back as it was last saved; one that
\* was saved without an identity, or never, gets a new one.
PowerCut ==
  /\ id' \in (IF saved.id = 0 THEN LogId ELSE {saved.id})
  /\ total' = saved.total
  /\ oldest' = saved.oldest
  /\ rec' = saved.rec
  /\ UNCHANGED saved

LogNext == (\E c \in Contact : End(c)) \/ Save \/ Clear \/ PowerCut

LogSpec == InitLog /\ [][LogNext]_logVars
=============================================================================
