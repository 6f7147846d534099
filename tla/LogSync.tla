------------------------------ MODULE LogSync ------------------------------
(***************************************************************************)
(* History sync: a phone copies a receiver's match log over BLE.           *)
(*                                                                         *)
(* Board: the log of DetectorLog, log_get, and a clear from its screen or  *)
(* from a command (firmware/common/rx_core.h). Phone: SyncEngine           *)
(* (mobile/lib/core/sync/sync_engine.dart), what AppController does when   *)
(* the link changes or the log is cleared, and the database rows they      *)
(* write. A Dart program is one thread: an action here is what runs        *)
(* between two awaits that something else can come between.                *)
(*                                                                         *)
(* Left out: live contacts (sent with every reply, numbered by none), the  *)
(* after_utc filter (the app syncs without one), firmware that sends no    *)
(* log_id, and an event between the read of the stored cursor and the      *)
(* question that follows it (one quick database read).                     *)
(***************************************************************************)
EXTENDS DetectorLog, SequencesExt

CONSTANTS
  MaxRetries,    \* maxRetries
  MaxEpoch,      \* bound of the model: no sync starts from a later epoch
  Overlap,       \* may the log be cleared while a sync asks or a clear is being told,
                 \* or a sync ask before the phone has heard of the clear?
  Outlives,      \* may a log_get outlive its connection in the board's ring?
  LossyCut,      \* may the power go when flash does not have the newest records?
  GivesUp,       \* may the board give up a record's line on the air?
  Impatient,     \* may the watchdog go while an answer is on its way?
  Forgets,       \* may the person forget the detector?
  StoreMayFail   \* may the phone's database refuse a batch?

ASSUME RetriesAssumption == MaxRetries \in Nat /\ MaxEpoch \in Nat
ASSUME ContactAssumption == Contact \subseteq Nat /\ MaxTotal >= 0
ASSUME FlagAssumption ==
  {Overlap, Outlives, LossyCut, GivesUp, Impatient, Forgets, StoreMayFail} \subseteq BOOLEAN

VARIABLES
  ended,     \* contacts that have ended so far: the next one is ended + 1
  clearing,  \* rx_log_clear_all is between log_clear and its broadcast
  linked,    \* the phone is connected, subscribed and paired
  down,      \* log_get lines on their way to the board or in its ring: their `since`
  up,        \* lines on their way to the phone
  queue,     \* messages the engine has not handled yet (_queue)
  done,      \* a log_done whose writes are under way, or NoDone
  cleared,   \* an _onLogCleared under way, or NoClear
  eng,       \* SyncEngine's fields
  pending,   \* SyncEngine._ended: received, not yet written
  db,        \* the detector's row
  rows       \* the ended detections stored: <<epoch, seq>> -> contact

boardVars == <<logVars, ended, clearing>>
phoneVars == <<queue, done, cleared, eng, pending, db, rows>>
vars == <<boardVars, linked, down, up, phoneVars>>

\* null is 0 for an identity and -1 for a sequence number.
NoId == 0
NoSeq == -1

NoDone  == [at |-> "none"]
NoClear == [at |-> "none"]
NoRows  == [k \in {} |-> 0]

Record(s)  == [type |-> "log", seq |-> s, who |-> rec[s]]
LogCleared == [type |-> "log_cleared", id |-> id]
LogDone(since, cut) ==
  [type |-> "log_done", total |-> total, next |-> IF cut THEN since ELSE total,
   oldest |-> oldest, id |-> id, cut |-> cut]

IsAnswer(m) == m.type # "log_cleared"

Init ==
  /\ saved = Unsaved /\ id = 1 /\ total = 0 /\ oldest = 0 /\ rec = NoRecords
  /\ ended = 0 /\ clearing = FALSE
  /\ linked = FALSE /\ down = <<>> /\ up = <<>>
  /\ queue = <<>> /\ done = NoDone /\ cleared = NoClear
  /\ eng = [syncing |-> FALSE, cursor |-> 0, epoch |-> 0, logId |-> NoId, knownOldest |-> NoSeq,
            restarted |-> FALSE, gap |-> FALSE, failed |-> FALSE, retries |-> 0]
  /\ pending = NoRows
  /\ db = [cursor |-> 0, epoch |-> 0, logId |-> NoId, oldest |-> NoSeq, gap |-> FALSE]
  /\ rows = NoRows

(***************************************************************************)
(* The board.                                                              *)
(***************************************************************************)

ContactEnds ==
  /\ ended + 1 \in Contact
  /\ End(ended + 1)
  /\ ended' = ended + 1
  /\ UNCHANGED <<clearing, linked, down, up, phoneVars>>

TimedSave ==
  /\ saved # Image(id, total, oldest, rec)
  /\ Save
  /\ UNCHANGED <<ended, clearing, linked, down, up, phoneVars>>

\* rx_log_clear_all, up to its flush. Identities do not come round again
\* within the model.
StartClear ==
  /\ ~clearing
  /\ id + 1 < IdSpace
  /\ Overlap \/ (~eng.syncing /\ down = <<>> /\ up = <<>> /\ cleared = NoClear)
  /\ Clear
  /\ clearing' = TRUE
  /\ UNCHANGED <<ended, linked, down, up, phoneVars>>

\* The flush, and the broadcast: lost when nobody listens, or when the
\* ring to the phone has no room for it.
FinishClear ==
  /\ clearing
  /\ Save
  /\ clearing' = FALSE
  /\ up' \in {up} \cup (IF linked THEN {Append(up, LogCleared)} ELSE {})
  /\ UNCHANGED <<ended, linked, down, phoneVars>>

\* emit_log. The ring to the phone may refuse a line, a record's or (after
\* them) a live contact's: the reply ends there, and its log_done says so,
\* unless the ring refuses that as well.
AnswerLogGet ==
  /\ ~clearing
  /\ down # <<>>
  /\ LET since  == Head(down)
         from   == IF since > oldest THEN since ELSE oldest
         wanted == IF from < total THEN total - from ELSE 0
     IN  \E sent \in 0 .. wanted, cut \in BOOLEAN, last \in BOOLEAN :
           /\ sent < wanted => cut
           /\ up' = IF linked
                    THEN up \o [i \in 1 .. sent |-> Record(from + i - 1)]
                            \o (IF last THEN <<LogDone(since, cut)>> ELSE <<>>)
                    ELSE up
  /\ down' = Tail(down)
  /\ UNCHANGED <<boardVars, linked, phoneVars>>

\* ble_send_line: sixty refused notifications, and a line is given up.
GiveUp ==
  /\ GivesUp
  /\ \E i \in DOMAIN up : up[i].type = "log" /\ up' = RemoveAt(up, i)
  /\ UNCHANGED <<boardVars, linked, down, phoneVars>>

(***************************************************************************)
(* The phone: SyncEngine.                                                  *)
(***************************************************************************)

\* _finish
Finished(e) == [e EXCEPT !.syncing = FALSE]

\* A clear does not drop the identity (broken on purpose).
OtherLogByNumbers(e, m) ==
  \/ e.cursor > m.total
  \/ e.knownOldest # NoSeq /\ m.oldest < e.knownOldest

\* _otherLog
OtherLog(e, m) ==
  \/ e.logId # NoId /\ m.id # e.logId
  \/ e.cursor > m.total
  \/ e.knownOldest # NoSeq /\ m.oldest < e.knownOldest

\* What is written replaces what was there.
Over(new, old) == [k \in DOMAIN new \union DOMAIN old |-> IF k \in DOMAIN new THEN new[k] ELSE old[k]]

\* _flush: the pending records are written, or they are counted failed.
Flush(e) ==
  /\ pending' = NoRows
  /\ \/ rows' = Over(pending, rows) /\ eng' = e
     \/ /\ StoreMayFail /\ pending # NoRows
        /\ rows' = rows /\ eng' = [e EXCEPT !.failed = TRUE]

\* _ask
Ask(cursor) == down' = Append(down, cursor)

\* Bounds of the model: no sync starts behind the questions of two others,
\* or behind a whole reply to one, or from a late epoch.
Room == Len(down) + Len(up) <= LogMax + 1 /\ db.epoch <= MaxEpoch

\* startSync, from the stored cursor.
StartSync ==
  /\ Room
  /\ eng' = [syncing |-> TRUE, cursor |-> db.cursor, epoch |-> db.epoch, logId |-> db.logId,
             knownOldest |-> db.oldest, restarted |-> FALSE, gap |-> FALSE, failed |-> FALSE,
             retries |-> 0]
  /\ pending' = NoRows
  /\ Ask(db.cursor)

\* A sync is not told that the link is gone (broken on purpose).
AbortForgotten == UNCHANGED <<eng, pending>>

\* abort
Abort ==
  /\ eng' = Finished(eng)
  /\ pending' = IF eng.syncing THEN NoRows ELSE pending

\* _askAgain
AskAgain ==
  /\ Flush([eng EXCEPT !.retries = @ + 1])
  /\ Ask(eng.cursor)

\* An event of the phone's loop comes after the microtasks before it: a
\* message waits in _queue only behind one whose writes are under way.
Event == queue = <<>> \/ done # NoDone

\* The next message, for the engine: nothing else is being handled.
Next1(type) ==
  /\ done = NoDone
  /\ queue # <<>>
  /\ Head(queue).type = type
  /\ queue' = Tail(queue)

\* Not syncing: the message is nobody's.
Ignore ==
  /\ ~eng.syncing
  /\ \E type \in {"log", "log_done"} : Next1(type)
  /\ UNCHANGED <<boardVars, linked, down, up, done, cleared, eng, pending, db, rows>>

\* A reply has at most LOG_MAX (48) records and batchSize is 64: the batch
\* does not fill, and is written when the reply ends.
HandleRecord ==
  /\ eng.syncing
  /\ Next1("log")
  /\ LET m == Head(queue)
     IN  pending' = Over([k \in {<<eng.epoch, m.seq>>} |-> m.who], pending)
  /\ UNCHANGED <<boardVars, linked, down, up, done, cleared, eng, db, rows>>

\* _done, the log is another one: ask again from its oldest, in a new epoch.
Restart ==
  /\ eng.syncing
  /\ Next1("log_done")
  /\ LET m == Head(queue)
     IN  /\ ~eng.restarted /\ OtherLog(eng, m)
         /\ eng' = [eng EXCEPT !.restarted = TRUE, !.epoch = @ + 1, !.cursor = m.oldest,
                               !.logId = m.id, !.knownOldest = NoSeq]
         /\ Ask(m.oldest)
  /\ pending' = NoRows
  /\ UNCHANGED <<boardVars, linked, up, done, cleared, db, rows>>

\* A cut reply is always asked again, and is not counted (broken on purpose).
HandleCutForEver ==
  /\ eng.syncing
  /\ Next1("log_done")
  /\ Head(queue).cut /\ (eng.restarted \/ ~OtherLog(eng, Head(queue)))
  /\ Flush(eng)
  /\ Ask(eng.cursor)
  /\ UNCHANGED <<boardVars, linked, up, done, cleared, db>>

\* _done, the reply was cut.
HandleCut ==
  /\ eng.syncing
  /\ Next1("log_done")
  /\ Head(queue).cut /\ (eng.restarted \/ ~OtherLog(eng, Head(queue)))
  /\ IF eng.retries < MaxRetries
     THEN AskAgain
     ELSE Flush(Finished(eng)) /\ UNCHANGED down
  /\ UNCHANGED <<boardVars, linked, up, done, cleared, db>>

\* Records rotated out before this phone saw them.
Gap(e, m) == e.gap \/ m.oldest > e.cursor

\* _done, a whole reply, up to its flush. The live contacts are written
\* next, and the stored cursor after them.
HandleDone ==
  /\ eng.syncing
  /\ Next1("log_done")
  /\ LET m == Head(queue)
     IN  /\ ~m.cut /\ (eng.restarted \/ ~OtherLog(eng, m))
         /\ Flush([eng EXCEPT !.gap = Gap(eng, m)])
         /\ done' = [at |-> "store", msg |-> m]
  /\ UNCHANGED <<boardVars, linked, down, up, cleared, db>>

\* The live contacts are written: the cursor moves, unless a record was not
\* stored. The engine's fields are those of now, whatever came in between.
StoreCursor ==
  /\ done.at = "store"
  /\ LET m == done.msg
     IN  IF eng.failed
         THEN /\ eng' = Finished(eng) /\ pending' = NoRows
              /\ done' = NoDone
              /\ UNCHANGED db
         ELSE /\ db' = [cursor |-> m.next, epoch |-> eng.epoch, logId |-> m.id,
                        oldest |-> m.oldest, gap |-> db.gap \/ eng.gap]
              /\ done' = [done EXCEPT !.at = "finish"]
              /\ UNCHANGED <<eng, pending>>
  /\ UNCHANGED <<boardVars, linked, down, up, queue, cleared, rows>>

FinishDone ==
  /\ done.at = "finish"
  /\ eng' = Finished([eng EXCEPT !.cursor = done.msg.next])
  /\ pending' = NoRows
  /\ done' = NoDone
  /\ UNCHANGED <<boardVars, linked, down, up, queue, cleared, db, rows>>

\* Nothing of the question asked is on its way any more.
Unanswered ==
  /\ down = <<>> /\ done = NoDone
  /\ \A i \in DOMAIN up : ~IsAnswer(up[i])
  /\ queue = <<>>

\* The watchdog of _kick.
Timeout ==
  /\ Event
  /\ eng.syncing
  /\ Impatient \/ Unanswered
  /\ IF eng.retries < MaxRetries
     THEN AskAgain
     ELSE eng' = Finished(eng) /\ pending' = NoRows /\ UNCHANGED <<down, rows>>
  /\ UNCHANGED <<boardVars, linked, up, queue, done, cleared, db>>

(***************************************************************************)
(* The phone: AppController, and the link.                                 *)
(***************************************************************************)

\* _onLinkReady, a person's pull to refresh: syncNow.
SyncNow ==
  /\ Event
  /\ linked /\ ~eng.syncing
  /\ Overlap \/ (~clearing /\ cleared = NoClear /\ \A i \in DOMAIN up : IsAnswer(up[i]))
  /\ StartSync
  /\ UNCHANGED <<boardVars, linked, up, queue, done, cleared, db, rows>>

\* Reconnecting, pairing and subscribing take longer than a write of the
\* phone's database.
Connect ==
  /\ ~linked
  /\ done = NoDone
  /\ linked' = TRUE
  /\ UNCHANGED <<boardVars, down, up, phoneVars>>

\* The link is gone, and what was in the air with it; command lines already
\* in the board's ring stay there.
LinkLost ==
  /\ Event
  /\ linked' = FALSE
  /\ up' = <<>>
  /\ down' \in {<<>>} \cup (IF Outlives THEN {down} ELSE {})
  /\ Abort
  /\ UNCHANGED <<queue, done, cleared, db, rows>>

Disconnect ==
  /\ linked
  /\ LinkLost
  /\ UNCHANGED boardVars

\* The board restarts, with the log it last saved. A board that is switched
\* off saves first (rx_log_flush).
Restarts ==
  /\ LossyCut \/ (saved = Image(id, total, oldest, rec) /\ ~clearing)
  /\ id + 1 < IdSpace \/ saved.id # NoId
  /\ PowerCut
  /\ clearing' = FALSE
  /\ LinkLost
  /\ down' = <<>>
  /\ UNCHANGED ended

\* A line arrives: _onMessage.
DeliverAnswer ==
  /\ Event
  /\ up # <<>> /\ IsAnswer(Head(up))
  /\ queue' = Append(queue, Head(up))
  /\ up' = Tail(up)
  /\ UNCHANGED <<boardVars, linked, down, done, cleared, eng, pending, db, rows>>

\* _onLogCleared, up to its first await: it runs at once, before the
\* messages the engine has not handled yet.
DeliverCleared ==
  /\ Event
  /\ up # <<>> /\ ~IsAnswer(Head(up))
  /\ cleared = NoClear
  /\ cleared' = [at |-> "reset", id |-> Head(up).id]
  /\ up' = Tail(up)
  /\ Abort
  /\ UNCHANGED <<boardVars, linked, down, queue, done, db, rows>>

\* A reset that stays in the epoch (broken on purpose).
ResetSameEpoch ==
  /\ Event
  /\ cleared.at = "reset"
  /\ db' = [cursor |-> 0, epoch |-> db.epoch, logId |-> cleared.id, oldest |-> NoSeq, gap |-> FALSE]
  /\ cleared' = [at |-> "sync"]
  /\ UNCHANGED <<boardVars, linked, down, up, queue, done, eng, pending, rows>>

\* resetDetectorLog
ResetDetectorLog ==
  /\ Event
  /\ cleared.at = "reset"
  /\ db' = [cursor |-> 0, epoch |-> db.epoch + 1, logId |-> cleared.id, oldest |-> NoSeq, gap |-> FALSE]
  /\ cleared' = [at |-> "sync"]
  /\ UNCHANGED <<boardVars, linked, down, up, queue, done, eng, pending, rows>>

\* _onLogCleared ends with a syncNow.
SyncCleared ==
  /\ Event
  /\ cleared.at = "sync"
  /\ cleared' = NoClear
  /\ IF linked /\ ~eng.syncing THEN StartSync ELSE UNCHANGED <<down, eng, pending>>
  /\ UNCHANGED <<boardVars, linked, up, queue, done, db, rows>>

\* forgetDetector; a person is slower than a write, too.
Forget ==
  /\ Event
  /\ Forgets /\ ~linked /\ done = NoDone
  /\ db' = [db EXCEPT !.cursor = 0, !.oldest = NoSeq, !.logId = NoId]
  /\ UNCHANGED <<boardVars, linked, down, up, queue, done, cleared, eng, pending, rows>>

Board == TimedSave \/ StartClear \/ FinishClear \/ AnswerLogGet
Link  == Connect \/ Disconnect \/ GiveUp \/ DeliverAnswer \/ DeliverCleared
Sync  == \/ SyncNow \/ Ignore \/ HandleRecord \/ Restart \/ HandleCut \/ HandleDone
         \/ StoreCursor \/ FinishDone \/ Timeout
App   == ResetDetectorLog \/ SyncCleared \/ Forget

Next == ContactEnds \/ Board \/ Restarts \/ Link \/ Sync \/ App

\* The board's loop and the phone's event loop run; lines that are on their
\* way arrive. Nobody has to clear a log, to disconnect or to ask for a sync.
Fairness ==
  /\ WF_vars(AnswerLogGet) /\ WF_vars(FinishClear)
  /\ WF_vars(DeliverAnswer) /\ WF_vars(DeliverCleared)
  /\ WF_vars(Ignore \/ HandleRecord \/ Restart \/ HandleCut \/ HandleDone \/ StoreCursor \/ FinishDone)
  /\ WF_vars(ResetDetectorLog \/ SyncCleared)
  /\ WF_vars(Timeout)

Spec == Init /\ [][Next]_vars
FairSpec == Spec /\ Fairness

-----------------------------------------------------------------------------
(***************************************************************************)
(* Properties.                                                             *)
(***************************************************************************)

\* Types; what is on its way and what is stored is of the log's making.
TypeOK ==
  /\ id \in LogId /\ total \in 0 .. MaxTotal /\ oldest \in 0 .. total
  /\ total - oldest <= LogMax /\ rec \in [oldest .. total - 1 -> Contact]
  /\ clearing \in BOOLEAN /\ linked \in BOOLEAN
  /\ \A i \in DOMAIN down : down[i] \in 0 .. MaxTotal
  /\ ~linked => up = <<>> /\ ~eng.syncing
  /\ done.at \in {"none", "store", "finish"} /\ cleared.at \in {"none", "reset", "sync"}
  /\ eng.retries \in 0 .. MaxRetries
  /\ \A k \in DOMAIN rows : rows[k] \in Contact
  /\ \A k \in DOMAIN pending : pending[k] \in Contact

\* The stored cursor skips nothing: a record the board holds below the
\* cursor, in the log the cursor belongs to, is stored, and as it is ("An
\* ended contact's record has a sequence number ... and is final", emit_log;
\* "unless a record failed to store (then it stays ...)", SyncEngine).
NoSkip ==
  db.logId = id =>
    \A s \in DOMAIN rec :
      s < db.cursor => <<db.epoch, s>> \in DOMAIN rows /\ rows[<<db.epoch, s>>] = rec[s]

Kept(k) == k \in DOMAIN rows' /\ rows'[k] = rows[k]
Confirmed(k) == k[1] < db.epoch \/ (k[1] = db.epoch /\ k[2] < db.cursor)

\* A sync that moves the cursor has stored every record it moves over, or
\* remembers that it could not: "`oldest` above the cursor: records rotated
\* out before this phone saw them (a gap, remembered on the detector)"
\* (SyncEngine). A log new to the phone starts at its oldest record. And "the
\* log epoch is bumped (so the new seqs never overwrite older history)": while
\* the phone knows which log its cursor belongs to, a record of an earlier
\* epoch, or below the cursor, stays as it is; the cursor goes back only into
\* a new epoch (or with the detector forgotten).
CursorMove ==
  LET from == IF db'.epoch = db.epoch THEN db.cursor ELSE db'.oldest
  IN /\ \A s \in 0 .. db'.cursor - 1 :
          s >= from => \/ <<db'.epoch, s>> \in DOMAIN rows'
                       \/ s < db'.oldest /\ db'.gap
     /\ db.logId # NoId => \A k \in DOMAIN rows : Confirmed(k) => Kept(k)
     /\ db'.cursor < db.cursor => db'.epoch > db.epoch \/ db'.logId = NoId

CursorRight == [][CursorMove]_vars

\* A sync ends, with everything or with an error: the watchdog and the
\* bounded retries see to it.
SyncEnds == []<>~eng.syncing
=============================================================================
