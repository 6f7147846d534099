------------------------------ MODULE MatchLog ------------------------------
(***************************************************************************)
(* firmware/common/match_log.h: the ring of ended contacts in RAM, the     *)
(* six NVS keys it is saved under, the debounced save, and the reload      *)
(* after a power cut.                                                      *)
(*                                                                         *)
(* Two tasks: the decode task ends contacts (log_add, under the core's     *)
(* lock); the loop task does everything else, and its writes of the NVS    *)
(* keys run outside the lock, so a contact may end between any two of      *)
(* them, and the power may go there too.                                   *)
(***************************************************************************)
EXTENDS Integers

CONSTANTS
  Contact,         \* contacts that can end
  None,            \* what a zeroed record holds
  LogMax,          \* LOG_MAX
  IdSpace,         \* identities are 1 .. IdSpace - 1 (uint32_t, 0 = none yet)
  MaxTotal,        \* bound of the model: contacts that end within one log
  FromV1,          \* may the board have run version 1 of the log before?
  Clock,           \* millis() counts modulo Clock (2^32), a unit being a loop pass
  LogSave,         \* LOG_SAVE_MS in that unit
  CutDuringWrite,  \* may the power go between two puts of one save?
  PutMayFail       \* may NVS refuse a put (no free page)?

ASSUME NoneAssumption    == None \notin Contact
ASSUME LogMaxAssumption  == LogMax \in Nat \ {0}
ASSUME IdSpaceAssumption == IdSpace \in Nat /\ IdSpace > 1
ASSUME MaxTotalAssumption == MaxTotal \in Nat
ASSUME ClockAssumption   == /\ Clock \in Nat /\ LogSave \in Nat
                            /\ 0 < LogSave /\ 2 * LogSave + 4 <= Clock
ASSUME EnvAssumption     == {FromV1, CutDuringWrite, PutMayFail} \subseteq BOOLEAN

VARIABLES
  ring,      \* s_log: LogMax slots of [seq, who]
  head,      \* s_log_head: the next slot to write
  n,         \* s_log_n: records held
  total,     \* s_log_total
  id,        \* s_log_id
  dirty,     \* s_log_dirty
  dirtyMs,   \* s_log_dirty_ms; 0 = due now
  now,       \* the loop's millis()
  nvs,       \* the "orlog" namespace, key by key
  img,       \* the LogImage being written
  pc,        \* the loop task: "idle", "flush" (cleared, save next) or the next key to put
  sinceSave, \* history: passes since the last timed save, at most LogSave
  waiting    \* history: passes since flash last had the log as RAM has it and
             \* no save was under way, at most LogSave + 3

ram  == <<ring, head, n, total, id>>
vars == <<ring, head, n, total, id, dirty, dirtyMs, now, nvs, img, pc, sinceSave, waiting>>

Slot  == 0 .. LogMax - 1
LogId == 1 .. IdSpace - 1
Rec   == [seq : Nat, who : Contact \cup {None}]
Keys  == {"ver", "recs", "head", "n", "total", "id"}

ZeroRing == [i \in Slot |-> [seq |-> 0, who |-> None]]

\* LogImage, and the namespace's keys: ver 0 and id 0 stand for an absent
\* key. Of the "recs" blob the length tells the layout: 1 or 3, 0 when absent.
Blob(layout, r) == [layout |-> layout, slots |-> r]
ImageOf(v, b, h, k, t, i) ==
  [ver |-> v, recs |-> b, head |-> h, n |-> k, total |-> t, id |-> i]

\* A clear that may draw 0, "no identity" (broken on purpose).
NextIdUnguarded(i) == (i + 1) % IdSpace

\* A clear that keeps the identity (broken on purpose).
NextIdKept(i) == i

\* s_log_id + 1 in 32 bits, skipping 0.
NextId(i) == IF (i + 1) % IdSpace = 0 THEN 1 ELSE (i + 1) % IdSpace

\* The unsigned difference (broken on purpose).
Unsigned(a, b) == (a - b) % Clock

\* (int32_t)(a - b)
Signed(a, b) == ((a - b + Clock \div 2) % Clock) - Clock \div 2

\* The slot of the i-th held record, oldest first (log_at).
At(h, k, i) == (((h + LogMax - k) % LogMax) + i) % LogMax

(***************************************************************************)
(* log_load.                                                               *)
(***************************************************************************)

\* The blob is used when it has the layout its version says. A version 1
\* record had no seq (and its log perhaps no total): the i-th held record is
\* given total - n + i. (A version 2 record differs from a version 3 one only
\* in fields the model does not have.)
Usable(k) == k.ver \in {1, 3} /\ k.recs.layout = k.ver

LoadedTotalAsSaved(k) == k.total   \* broken on purpose

LoadedTotal(k) == IF k.ver = 1 /\ k.total < k.n THEN k.n ELSE k.total

Numbered(k, s) ==
  LET held == {i \in 0 .. k.n - 1 : At(k.head, k.n, i) = s}
      r    == k.recs.slots[s]
  IN  IF held = {} THEN r
      ELSE [r EXCEPT !.seq = LoadedTotal(k) - k.n + CHOOSE i \in held : TRUE]

LoadedRing(k) ==
  IF k.ver = 1 THEN [s \in Slot |-> Numbered(k, s)] ELSE k.recs.slots

\* What the loader leaves in RAM; newId is the identity it draws when the
\* namespace has none (to be saved by the next log_due).
LoadedImage(k, newId) ==
  LET i == IF k.id = 0 THEN newId ELSE k.id
  IN  IF Usable(k)
      THEN ImageOf(3, Blob(3, LoadedRing(k)), k.head % LogMax,
                   IF k.n > LogMax THEN LogMax ELSE k.n, LoadedTotal(k), i)
      ELSE ImageOf(3, Blob(3, ZeroRing), 0, 0, 0, i)

(***************************************************************************)
(* Initial flash: a board fresh from the factory, or one that ran version  *)
(* 1 of the firmware, whose records have no seq and no identity.           *)
(***************************************************************************)
FreshNvs == ImageOf(0, Blob(0, ZeroRing), 0, 0, 0, 0)

V1Nvs ==
  {ImageOf(1, Blob(1, r), h, k, t, 0) :
     r \in [Slot -> [seq : {0}, who : Contact \cup {None}]],
     h \in Slot, k \in 0 .. LogMax, t \in 0 .. MaxTotal}

\* The ring a version 1 board leaves: it fills from slot 0, then wraps; the
\* oldest of them kept no total.
V1Image(k) ==
  /\ k.n <= MaxTotal
  /\ k.n < LogMax => k.head = k.n
  /\ k.total = 0 \/ (k.n = LogMax /\ k.total >= k.n) \/ k.total = k.n
  /\ \A s \in Slot :
       (k.recs.slots[s].who # None) <=> \E i \in 0 .. k.n - 1 : At(k.head, k.n, i) = s

Init ==
  /\ nvs = FreshNvs \/ (FromV1 /\ nvs \in {k \in V1Nvs : V1Image(k)})
  /\ \E i \in LogId :
       LET k == LoadedImage(nvs, i)
       IN  /\ ring = k.recs.slots /\ head = k.head /\ n = k.n
           /\ total = k.total /\ id = k.id
  /\ dirty = TRUE    \* no image of either kind has an identity
  /\ dirtyMs = 0
  /\ now = 0
  /\ img = FreshNvs
  /\ pc = "idle"
  /\ sinceSave = 0
  /\ waiting = 0

(***************************************************************************)
(* The decode task.                                                        *)
(***************************************************************************)

\* log_add, stamped with a millis() the loop's `now` may not have reached,
\* even the one it compares with next: that was read at the pass's start.
ContactEnds(c, stamp) ==
  /\ total < MaxTotal
  /\ ring'  = [ring EXCEPT ![head] = [seq |-> total, who |-> c]]
  /\ head'  = (head + 1) % LogMax
  /\ n'     = IF n < LogMax THEN n + 1 ELSE n
  /\ total' = total + 1
  /\ dirtyMs' = IF dirty THEN dirtyMs ELSE IF stamp = 0 THEN 1 ELSE stamp
  /\ dirty' = TRUE
  /\ UNCHANGED <<id, now, nvs, img, pc, sinceSave, waiting>>

(***************************************************************************)
(* The loop task.                                                          *)
(***************************************************************************)

\* log_due
Due(t) == dirty /\ (dirtyMs = 0 \/ Signed(t, dirtyMs) >= LogSave)

\* Flash holds the log as RAM has it.
FlashCurrent == nvs = ImageOf(3, Blob(3, ring), head, n, total, id)

UpTo(limit, x) == IF x < limit THEN x + 1 ELSE limit

\* log_snapshot, taken under the lock; the write follows, outside it.
Snapshot ==
  /\ img' = ImageOf(3, Blob(3, ring), head, n, total, id)
  /\ dirty' = FALSE
  /\ pc' = "ver"
  /\ waiting' = 0
  /\ UNCHANGED <<ring, head, n, total, id, dirtyMs, nvs>>

\* One pass of rx_tick: the timed save, when it is due.
RxTick ==
  /\ pc = "idle"
  /\ now' = (now + 1) % Clock
  /\ IF Due(now')
     THEN Snapshot /\ sinceSave' = 0
     ELSE /\ sinceSave' = UpTo(LogSave, sinceSave)
          /\ waiting' = IF FlashCurrent THEN 0 ELSE UpTo(LogSave + 3, waiting)
          /\ UNCHANGED <<ram, dirty, dirtyMs, nvs, img, pc>>

\* rx_log_flush: power-off, mode switch, and the second half of a clear.
RxLogFlush ==
  /\ pc \in {"idle", "flush"}
  /\ IF dirty
     THEN Snapshot
     ELSE pc' = "idle" /\ UNCHANGED <<ram, dirty, dirtyMs, nvs, img, waiting>>
  /\ UNCHANGED <<now, sinceSave>>

\* rx_log_clear_all, up to its flush: log_clear.
ClearAll ==
  /\ pc = "idle"
  /\ ring' = ZeroRing /\ head' = 0 /\ n' = 0 /\ total' = 0
  /\ id' = NextId(id)
  /\ dirty' = TRUE /\ dirtyMs' = 0
  /\ pc' = "flush"
  /\ UNCHANGED <<now, nvs, img, sinceSave, waiting>>

\* log_write: one put after the other, each of them atomic in NVS; a put
\* that fails is not noticed.
Put(key, next) ==
  /\ pc = key
  /\ nvs' \in {[nvs EXCEPT ![key] = img[key]]} \cup (IF PutMayFail THEN {nvs} ELSE {})
  /\ pc' = next
  /\ UNCHANGED <<ram, dirty, dirtyMs, now, img, sinceSave, waiting>>

LogWrite ==
  \/ Put("ver", "recs")
  \/ Put("recs", "head")
  \/ Put("head", "n")
  \/ Put("n", "total")
  \/ Put("total", "id")
  \/ Put("id", "idle")

\* The power goes; the board boots and log_load reads what flash has.
PowerCut ==
  /\ CutDuringWrite \/ pc \in {"idle", "flush"}
  /\ UNCHANGED nvs
  /\ \E i \in LogId :
       LET k == LoadedImage(nvs, i)
       IN  /\ ring' = k.recs.slots /\ head' = k.head /\ n' = k.n
           /\ total' = k.total /\ id' = k.id
  /\ dirty' = (nvs.id = 0)
  /\ dirtyMs' = 0
  /\ now' = 0
  /\ pc' = "idle"
  /\ img' = FreshNvs
  /\ sinceSave' = 0
  /\ waiting' = 0

DecodeTask == \E c \in Contact : \E ahead \in 0 .. 2 : ContactEnds(c, (now + ahead) % Clock)
LoopTask   == RxTick \/ RxLogFlush \/ ClearAll \/ LogWrite

Next == DecodeTask \/ LoopTask \/ PowerCut

Spec == Init /\ [][Next]_vars

-----------------------------------------------------------------------------
(***************************************************************************)
(* Properties.                                                             *)
(***************************************************************************)

\* Types of the RAM side, the flash side and the loop's place.
Image == [ver : {0, 1, 3}, recs : [layout : {0, 1, 3}, slots : [Slot -> Rec]],
          head : Slot, n : 0 .. LogMax, total : Nat, id : 0 .. IdSpace - 1]

TypeOK ==
  /\ ring \in [Slot -> Rec]
  /\ head \in Slot
  /\ n \in 0 .. LogMax
  /\ total \in Nat
  /\ id \in LogId
  /\ dirty \in BOOLEAN
  /\ dirtyMs \in 0 .. Clock - 1
  /\ now \in 0 .. Clock - 1
  /\ nvs \in Image
  /\ img \in Image
  /\ pc \in Keys \cup {"idle", "flush"}
  /\ sinceSave \in 0 .. LogSave
  /\ waiting \in 0 .. LogSave + 3

\* "A record's sequence number is its place in the history, not its ring
\* slot: the k-th held record, oldest first, is number total - n + k"
\* (log_load), whatever was added, cleared, saved, migrated or reloaded.
InOrder(r, h, k, t) ==
  /\ k <= t
  /\ \A i \in 0 .. k - 1 : /\ r[At(h, k, i)].seq = t - k + i
                          /\ r[At(h, k, i)].who \in Contact

RingNumbered == InOrder(ring, head, n, total)

\* A record the flash does not have is saved before long: the loop passes at
\* most LOG_SAVE_MS, and the moments its stamp was ahead by (two units here,
\* one of them that of the stamp that may not be 0), before it takes the save
\* up ("A power cut or crash can lose the records of contacts that ended in
\* the last 10 minutes", the head of match_log.h).
SavedSoon == waiting <= LogSave + 2

\* "Saves are rare -- at most one every LOG_SAVE_MS": the loop's timed save
\* comes LogSave passes after the last one at the earliest, unless the log
\* was given a new identity (a clear, a board with no log), which is saved at
\* once.
TimedSave == pc = "idle" /\ now' # now /\ pc' # "idle"

\* Both: saves come soon and are rare, though the stamp of a contact may be
\* newer than the loop's now, and millis() wraps.
SavedInTime == [][SavedSoon' /\ (TimedSave => dirtyMs = 0 \/ sinceSave >= LogSave - 1)]_vars

(***************************************************************************)
(* The ring, its keys and its reload implement the log of DetectorLog. A   *)
(* save counts from the snapshot on: a contact that ends during the write  *)
(* is not in it.                                                           *)
(***************************************************************************)
RecOf(r, h, k, t) == [s \in t - k .. t - 1 |-> r[At(h, k, s - (t - k))].who]

SavedOf(k) ==
  LET f == LoadedImage(k, 0)
  IN  [id |-> f.id, total |-> f.total, oldest |-> f.total - f.n,
       rec |-> RecOf(f.recs.slots, f.head, f.n, f.total)]

DL == INSTANCE DetectorLog WITH
        oldest <- total - n,
        rec    <- RecOf(ring, head, n, total),
        saved  <- SavedOf(IF pc \in Keys THEN img ELSE nvs)

Refinement == DL!LogSpec
=============================================================================
