---------------------------- MODULE LogSyncProofs ----------------------------
(***************************************************************************)
(* What is proved of the history sync (LogSync).                            *)
(*                                                                         *)
(* That the stored cursor skips nothing (NoSkip), and that a step that      *)
(* moves it has stored what it moves over (CursorRight), for every length   *)
(* of the log, every number of contacts, logs and retries, with a database  *)
(* that refuses batches, a link that comes and goes, replies that are cut   *)
(* or lose their end and a detector that is forgotten; as long as the log   *)
(* and the link are Orderly. Without Overlap's part of it NoSkip is false.  *)
(*                                                                         *)
(* The argument: while a sync runs the log only grows and drops its oldest, *)
(* and there is one question or one reply under way (Syncing). Of a whole   *)
(* reply every record the board still holds, from the cursor up, is on its  *)
(* way or received (InReply), and what is below the cursor is stored        *)
(* (EngOK). When none runs nothing of one is left but a cursor whose        *)
(* records are stored, or one of a log that is gone (DoneOK).               *)
(*                                                                         *)
(* CursorRight needs to know besides where a sync began: it asks from the   *)
(* stored cursor, or, when it has begun again with a log it does not know,  *)
(* from the oldest record of it; a whole reply then covers all the cursor   *)
(* moves over, and between the flush of the rows and the store of the       *)
(* cursor neither changes.                                                  *)
(*                                                                         *)
(* The types (TypeOK) are kept in every adversity; they are in the last part. *)
(***************************************************************************)
EXTENDS LogSync, SequenceTheorems, WellFoundedInduction, TLAPS

Orderly == ~Overlap /\ ~Outlives /\ ~LossyCut /\ ~GivesUp /\ ~Impatient

LogMsg == [type : {"log"}, seq : Nat, who : Contact]
DoneMsg == [type : {"log_done"}, total : Nat, next : Nat, oldest : Nat, id : Nat, cut : BOOLEAN]
ClearedMsg == [type : {"log_cleared"}, id : Nat]
Msg == LogMsg \union DoneMsg \union ClearedMsg

LogOK ==
  /\ {id, total, oldest, ended} \subseteq Nat /\ id # NoId /\ id < IdSpace /\ oldest <= total
  /\ DOMAIN rec = oldest .. total - 1 /\ \A s \in DOMAIN rec : rec[s] \in Contact

LinesOK == up \in Seq(Msg) /\ queue \in Seq(Msg)

\* Of the records in L, those below c are in the rows R, in the epoch e.
Holds(R, L, e, c) == \A s \in DOMAIN L : s < c => <<e, s>> \in DOMAIN R /\ R[<<e, s>>] = L[s]

\* Of the records in L, those in P are as they are in L.
Agree(P, L) == \A k \in DOMAIN P : k[2] \in DOMAIN L => P[k] = L[k[2]]

\* A cursor c of the log i, in the epoch e.
CursorOK(i, e, c) ==
  /\ i \in Nat /\ i <= id /\ c \in Nat
  /\ i = NoId => c = 0
  /\ i = id => c <= total /\ Holds(rows, rec, e, c)

DbOK == DOMAIN db = {"cursor", "epoch", "logId", "oldest", "gap"} /\ CursorOK(db.logId, db.epoch, db.cursor)

EngFields == DOMAIN eng = {"syncing", "cursor", "epoch", "logId", "knownOldest", "restarted", "gap", "failed", "retries"}

EngOK ==
  /\ CursorOK(eng.logId, eng.epoch, eng.cursor)
  /\ eng.restarted => eng.logId = id /\ eng.cursor <= oldest

\* What is received is what the log has.
PendingOK == Agree(pending, rec) /\ \A k \in DOMAIN pending : k[2] \in Nat /\ k[2] < total

DoneOK ==
  /\ done.at \in {"none", "store", "finish"} /\ (done.at = "none" => done = NoDone)
  /\ done.at # "none" => DOMAIN done = {"at", "msg"}
  /\ done.at = "store" =>
       /\ {done.msg.id, done.msg.next} \subseteq Nat /\ done.msg.id # NoId /\ done.msg.id <= id
       /\ done.msg.id = id => done.msg.next <= total /\ (~eng.failed => Holds(rows, rec, eng.epoch, done.msg.next))

ClearOK ==
  /\ clearing => cleared = NoClear
  /\ cleared.at = "reset" => cleared.id \in Nat /\ cleared.id <= id /\ cleared.id # NoId

-----------------------------------------------------------------------------
(* A reply under way *)

GoodRecord(m) ==
  /\ m.type = "log" /\ m.seq \in Nat /\ eng.cursor <= m.seq /\ m.seq < total
  /\ m.seq \in DOMAIN rec => m.who = rec[m.seq]

GoodDone(m) ==
  /\ m.type = "log_done" /\ m.id = id /\ {m.next, m.oldest} \subseteq Nat /\ m.oldest <= oldest
  /\ ~m.cut => m.next = m.total /\ m.next <= total
  /\ eng.restarted => eng.cursor <= m.oldest

\* The record s is received, or is in r.
Comes(s, r) == <<eng.epoch, s>> \in DOMAIN pending \/ \E j \in DOMAIN r : r[j].type = "log" /\ r[j].seq = s

InReply(r) ==
  /\ \A i \in DOMAIN r : GoodRecord(r[i]) \/ (GoodDone(r[i]) /\ i = Len(r))
  /\ \A i \in DOMAIN r : r[i].type = "log_done" /\ ~r[i].cut =>
       \A s \in Nat : eng.cursor <= s /\ r[i].oldest <= s /\ s < r[i].next => Comes(s, r)

Asked == down = <<eng.cursor>> /\ queue = <<>> /\ up = <<>> /\ done = NoDone
Replied == down = <<>> /\ done = NoDone /\ InReply(queue \o up)
Ending == down = <<>> /\ queue = <<>> /\ up = <<>> /\ done.at \in {"store", "finish"}

Syncing == linked /\ ~clearing /\ cleared = NoClear /\ EngOK /\ PendingOK /\ (Asked \/ Replied \/ Ending)

\* Nothing is on its way but the word of a clear.
NoSync == up # <<>> => Len(up) = 1 /\ ~IsAnswer(up[1]) /\ ~clearing /\ cleared = NoClear
                      /\ up[1].id <= id /\ up[1].id # NoId

Idle ==
  /\ pending = NoRows /\ down = <<>>
  /\ linked => done = NoDone /\ NoSync
  /\ ~linked => up = <<>>

IInv ==
  /\ LogOK /\ LinesOK /\ DbOK /\ EngFields /\ DoneOK /\ ClearOK
  /\ eng.syncing \in BOOLEAN /\ (eng.syncing => Syncing) /\ (~eng.syncing => Idle)

-----------------------------------------------------------------------------
LEMMA HoldsFlushed ==
  ASSUME NEW R, NEW L, NEW P, NEW e, NEW c, Holds(R, L, e, c), Agree(P, L)
  PROVE  Holds(Over(P, R), L, e, c)
BY DEF Holds, Agree, Over

LEMMA RecordLine == LogOK => \A s \in DOMAIN rec : Record(s) \in Msg
BY DEF LogOK, Record, Msg, LogMsg

LEMMA DoneLine == LogOK => \A since \in Nat, cut \in BOOLEAN : LogDone(since, cut) \in Msg
BY DEF LogOK, LogDone, Msg, DoneMsg

LEMMA ClearedLine == LogOK => LogCleared \in Msg
BY DEF LogOK, LogCleared, Msg, ClearedMsg

LEMMA NextIdentity ==
  ASSUME LogOK, id + 1 < IdSpace
  PROVE  NextId(id) = id + 1
<1>1. id + 1 \in 0 .. IdSpace - 1 /\ IdSpace \in Nat /\ id + 1 # 0
  BY IdSpaceAssumption DEF LogOK
<1>2. \A x \in 0 .. IdSpace - 1 : x % IdSpace = x
  BY IdSpaceAssumption
<1> QED
  BY <1>1, <1>2 DEF NextId

LEMMA InitIndInv == Init => IInv
<1> SUFFICES ASSUME Init
             PROVE  IInv
  OBVIOUS
<1>1. rec = [s \in {} |-> s] /\ DOMAIN rec = {} /\ 0 .. -1 = {}
  BY DEF Init, NoRecords
<1>2. LogOK
  BY <1>1, IdSpaceAssumption DEF Init, LogOK, NoId
<1>3. DbOK
  BY <1>1 DEF Init, DbOK, CursorOK, Holds, NoId
<1>4. EngFields /\ eng.syncing = FALSE
  BY DEF Init, EngFields
<1>5. LinesOK
  BY DEF Init, LinesOK
<1>6. DoneOK /\ ClearOK
  BY DEF Init, DoneOK, ClearOK, NoDone, NoClear
<1>7. Idle
  BY DEF Init, Idle
<1> QED
  BY <1>2, <1>3, <1>4, <1>5, <1>6, <1>7 DEF IInv

-----------------------------------------------------------------------------
(* The board *)

LEMMA EndPreserves == IInv /\ ContactEnds => IInv'
<1> SUFFICES ASSUME IInv, ContactEnds
             PROVE  IInv'
  OBVIOUS
<1>1. /\ total' = total + 1 /\ oldest' = (IF total - oldest = LogMax THEN oldest + 1 ELSE oldest)
      /\ rec' = [s \in oldest' .. total |-> IF s = total THEN ended + 1 ELSE rec[s]]
      /\ ended' = ended + 1 /\ ended + 1 \in Contact
      /\ UNCHANGED <<id, clearing, linked, down, up, queue, done, cleared, eng, pending, db, rows>>
  BY DEF ContactEnds, End, phoneVars
<1>2. LogOK
  BY DEF IInv
<1>3. LogOK' /\ oldest <= oldest'
  <2>1. oldest' \in Nat /\ oldest' <= total' /\ oldest <= oldest'
    BY <1>1, <1>2, LogMaxAssumption DEF LogOK
  <2>2. total' \in Nat /\ total' - 1 = total /\ ended' \in Nat
    BY <1>1, <1>2 DEF LogOK
  <2>3. DOMAIN rec' = oldest' .. total' - 1
    BY <1>1, <2>2
  <2>4. \A s \in DOMAIN rec' : rec'[s] \in Contact
    <3> TAKE s \in DOMAIN rec'
    <3>1. CASE s = total
      BY <1>1, <3>1
    <3>2. CASE s # total
      <4>1. s \in DOMAIN rec
        BY <1>1, <1>2, <2>1, <3>2 DEF LogOK
      <4> QED
        BY <1>1, <1>2, <3>2, <4>1 DEF LogOK
    <3> QED
      BY <3>1, <3>2
  <2> QED
    BY <1>1, <1>2, <2>1, <2>2, <2>3, <2>4 DEF LogOK
<1>4. \A s \in DOMAIN rec' : s < total => s \in DOMAIN rec /\ rec'[s] = rec[s]
  <2>1. oldest \in Nat /\ total \in Nat /\ oldest' \in Nat /\ oldest <= oldest' /\ DOMAIN rec = oldest .. total - 1
    BY <1>2, <1>3 DEF LogOK
  <2>2. DOMAIN rec' = oldest' .. total /\ \A s \in oldest' .. total : s # total => rec'[s] = rec[s]
    BY <1>1
  <2> QED
    BY <2>1, <2>2
<1>5. \A e : \A c \in Nat : c <= total /\ Holds(rows, rec, e, c) => Holds(rows, rec', e, c) /\ c <= total'
  <2> SUFFICES ASSUME NEW e, NEW c \in Nat, c <= total, Holds(rows, rec, e, c)
               PROVE  Holds(rows, rec', e, c) /\ c <= total'
    OBVIOUS
  <2>1. \A s \in DOMAIN rec' : s < c => s < total
    BY <1>2, <1>3 DEF LogOK
  <2>2. c <= total'
    BY <1>1, <1>2 DEF LogOK
  <2> QED
    BY <1>4, <2>1, <2>2 DEF Holds
<1>6. LinesOK' /\ EngFields' /\ ClearOK'
  BY <1>1 DEF IInv, LinesOK, EngFields, ClearOK
<1>7. DbOK'
  BY <1>1, <1>5 DEF IInv, DbOK, CursorOK
<1>8. DoneOK'
  <2>1. DoneOK
    BY DEF IInv
  <2>2. done.at = "store" /\ done.msg.id = id =>
          done.msg.next <= total' /\ (~eng.failed => Holds(rows, rec', eng.epoch, done.msg.next))
    <3> SUFFICES ASSUME done.at = "store", done.msg.id = id
                 PROVE  done.msg.next <= total' /\ (~eng.failed => Holds(rows, rec', eng.epoch, done.msg.next))
      OBVIOUS
    <3>1. done.msg.next \in Nat /\ done.msg.next <= total /\ (~eng.failed => Holds(rows, rec, eng.epoch, done.msg.next))
      BY <2>1 DEF DoneOK
    <3>2. done.msg.next <= total'
      BY <1>1, <1>2, <3>1 DEF LogOK
    <3> QED
      BY <1>5, <3>1, <3>2
  <2> QED
    BY <1>1, <2>1, <2>2 DEF DoneOK
<1>9. ASSUME eng.syncing
      PROVE  Syncing'
  <2>1. Syncing
    BY <1>9 DEF IInv
  <2>2. EngOK'
    <3>1. eng.restarted => eng.cursor <= oldest'
      <4>1. eng.restarted => eng.cursor \in Nat /\ eng.cursor <= oldest
        BY <2>1 DEF Syncing, EngOK, CursorOK
      <4> QED
        BY <1>2, <1>3, <4>1 DEF LogOK
    <3> QED
      BY <1>1, <1>5, <2>1, <3>1 DEF Syncing, EngOK, CursorOK
  <2>3. PendingOK'
    <3>1. \A k \in DOMAIN pending : k[2] \in Nat /\ k[2] < total
      BY <2>1 DEF Syncing, PendingOK
    <3>2. \A k \in DOMAIN pending : k[2] < total'
      BY <1>1, <1>2, <3>1 DEF LogOK
    <3> QED
      BY <1>1, <1>4, <2>1, <3>1, <3>2 DEF Syncing, PendingOK, Agree
  <2>4. Replied => Replied'
    <3> SUFFICES ASSUME Replied
                 PROVE  Replied'
      OBVIOUS
    <3> DEFINE r == queue \o up
    <3>1. r' = r
      BY <1>1
    <3>2. InReply(r)
      BY DEF Replied
    <3> HIDE DEF r
    <3>3. ASSUME NEW m, GoodRecord(m)
          PROVE  GoodRecord(m)'
      <4>1. m.seq \in Nat /\ eng.cursor <= m.seq /\ m.seq < total /\ m.type = "log"
        BY <3>3 DEF GoodRecord
      <4>2. m.seq < total'
        BY <1>1, <1>2, <4>1 DEF LogOK
      <4>3. m.seq \in DOMAIN rec' => m.who = rec'[m.seq]
        BY <1>4, <3>3, <4>1 DEF GoodRecord
      <4> QED
        BY <1>1, <4>1, <4>2, <4>3 DEF GoodRecord
    <3>4. ASSUME NEW m, GoodDone(m)
          PROVE  GoodDone(m)'
      <4>1. {oldest, total, oldest'} \subseteq Nat /\ oldest <= oldest' /\ total' = total + 1 /\ id' = id
        BY <1>1, <1>2, <1>3 DEF LogOK
      <4>2. m.id = id /\ m.oldest \in Nat /\ m.next \in Nat /\ m.oldest <= oldest
        BY <3>4 DEF GoodDone
      <4>3. m.oldest <= oldest'
        BY <4>1, <4>2
      <4>4. ~m.cut => m.next = m.total /\ m.next <= total'
        BY <3>4, <4>1, <4>2 DEF GoodDone
      <4> QED
        BY <1>1, <3>4, <4>1, <4>2, <4>3, <4>4 DEF GoodDone
    <3>5. InReply(r)'
      BY <1>1, <3>1, <3>2, <3>3, <3>4 DEF InReply, Comes
    <3> QED
      BY <1>1, <3>5 DEF Replied, r
  <2> QED
    BY <1>1, <2>1, <2>2, <2>3, <2>4 DEF Syncing, Asked, Ending
<1>10. ~eng.syncing => Idle'
  BY <1>1 DEF IInv, Idle, NoSync, IsAnswer
<1> QED
  BY <1>1, <1>3, <1>6, <1>7, <1>8, <1>9, <1>10 DEF IInv

LEMMA StartClearPreserves == ASSUME Orderly PROVE IInv /\ StartClear => IInv'
<1> SUFFICES ASSUME IInv, StartClear
             PROVE  IInv'
  OBVIOUS
<1>1. /\ id' = id + 1 /\ id + 1 < IdSpace /\ total' = 0 /\ oldest' = 0 /\ rec' = NoRecords /\ clearing' = TRUE
      /\ ~eng.syncing /\ down = <<>> /\ up = <<>> /\ cleared = NoClear
      /\ UNCHANGED <<ended, linked, down, up, queue, done, cleared, eng, pending, db, rows>>
  BY NextIdentity DEF StartClear, Clear, phoneVars, Orderly, IInv
<1>2. DOMAIN rec' = {} /\ 0 .. -1 = {}
  BY <1>1 DEF NoRecords
<1>3. id \in Nat /\ ended \in Nat
  BY DEF IInv, LogOK
<1>4. LogOK'
  BY <1>1, <1>2, <1>3 DEF LogOK, NoId
<1>5. DbOK'
  <2>1. db.logId \in Nat /\ db.logId <= id
    BY DEF IInv, DbOK, CursorOK
  <2>2. db.logId <= id' /\ db.logId # id'
    BY <1>1, <1>3, <2>1
  <2> QED
    BY <1>1, <2>2 DEF IInv, DbOK, CursorOK
<1>6. DoneOK'
  <2>1. done.at = "store" => done.msg.id \in Nat /\ done.msg.id <= id
    BY DEF IInv, DoneOK
  <2>2. done.at = "store" => done.msg.id <= id' /\ done.msg.id # id'
    BY <1>1, <1>3, <2>1
  <2> QED
    BY <1>1, <2>2 DEF IInv, DoneOK
<1>7. LinesOK' /\ EngFields' /\ ClearOK'
  BY <1>1 DEF IInv, LinesOK, EngFields, ClearOK, NoClear
<1>8. Idle'
  BY <1>1 DEF IInv, Idle, NoSync
<1> QED
  BY <1>1, <1>4, <1>5, <1>6, <1>7, <1>8 DEF IInv

\* A step that leaves the log and what the phone stores alone.
SameLog == UNCHANGED <<id, total, oldest, rec, ended>>
SameStore == UNCHANGED <<db, rows>>

LEMMA SameLogOK == LogOK /\ SameLog => LogOK'
BY DEF LogOK, SameLog

LEMMA SameDbOK == DbOK /\ SameLog /\ SameStore => DbOK'
BY DEF DbOK, CursorOK, SameLog, SameStore

\* The engine's epoch and failure are what a cursor on its way to the database
\* is about.
LEMMA SameDoneOK ==
  DoneOK /\ SameLog /\ rows' = rows /\ done' = done /\ eng'.epoch = eng.epoch /\ eng'.failed = eng.failed => DoneOK'
BY DEF DoneOK, SameLog

LEMMA SameReply ==
  ASSUME SameLog, eng' = eng, pending' = pending, NEW r, InReply(r)
  PROVE  InReply(r)'
BY DEF SameLog, InReply, Comes, GoodRecord, GoodDone

LEMMA SameSyncing ==
  ASSUME SameLog, rows' = rows, UNCHANGED <<linked, clearing, cleared, eng, pending, down, up, queue, done>>, Syncing
  PROVE  Syncing'
<1>1. EngOK' /\ PendingOK'
  BY DEF Syncing, EngOK, CursorOK, PendingOK, SameLog
<1>2. Replied => Replied'
  <2> SUFFICES ASSUME Replied
               PROVE  Replied'
    OBVIOUS
  <2>1. InReply(queue \o up)'
    BY SameReply DEF Replied
  <2> QED
    BY <2>1 DEF Replied
<1>3. Asked \/ Ending => Asked' \/ Ending'
  BY DEF Asked, Ending
<1> QED
  BY <1>1, <1>2, <1>3 DEF Syncing

LEMMA SavePreserves == IInv /\ TimedSave => IInv'
<1> SUFFICES ASSUME IInv, TimedSave
             PROVE  IInv'
  OBVIOUS
<1>1. SameLog /\ SameStore /\ UNCHANGED <<linked, clearing, cleared, eng, pending, down, up, queue, done>>
  BY DEF TimedSave, Save, phoneVars, SameLog, SameStore
<1>2. LogOK' /\ DbOK' /\ DoneOK'
  BY <1>1, SameLogOK, SameDbOK, SameDoneOK DEF IInv, SameStore
<1>3. eng.syncing => Syncing'
  BY <1>1, SameSyncing DEF IInv, SameStore
<1>4. LinesOK' /\ EngFields' /\ ClearOK' /\ (~eng.syncing => Idle')
  BY <1>1 DEF IInv, LinesOK, EngFields, ClearOK, Idle, NoSync, SameLog
<1> QED
  BY <1>1, <1>2, <1>3, <1>4 DEF IInv

LEMMA FinishClearPreserves == IInv /\ FinishClear => IInv'
<1> SUFFICES ASSUME IInv, FinishClear
             PROVE  IInv'
  OBVIOUS
<1>1. /\ SameLog /\ SameStore /\ UNCHANGED <<linked, cleared, eng, pending, down, queue, done>>
      /\ clearing /\ clearing' = FALSE /\ (up' = up \/ (linked /\ up' = Append(up, LogCleared)))
  BY DEF FinishClear, Save, phoneVars, SameLog, SameStore
<1>2. ~eng.syncing /\ cleared = NoClear /\ up = <<>>
  BY <1>1 DEF IInv, Syncing, Idle, NoSync, ClearOK
<1>3. up' = <<>> \/ (linked /\ up' = <<LogCleared>>)
  BY <1>1, <1>2
<1>4. LogOK' /\ DbOK' /\ DoneOK'
  BY <1>1, SameLogOK, SameDbOK, SameDoneOK DEF IInv, SameStore
<1>5. LinesOK'
  <2>1. LogCleared \in Msg
    BY ClearedLine DEF IInv
  <2> QED
    BY <1>1, <1>3, <2>1 DEF IInv, LinesOK
<1>6. Idle'
  <2>1. NoSync'
    BY <1>1, <1>2, <1>3 DEF IInv, NoSync, IsAnswer, LogCleared, LogOK, SameLog
  <2> QED
    BY <1>1, <1>2, <1>3, <2>1 DEF IInv, Idle
<1>7. EngFields' /\ ClearOK'
  BY <1>1, <1>2 DEF IInv, EngFields, ClearOK, SameLog
<1> QED
  BY <1>1, <1>2, <1>4, <1>5, <1>6, <1>7 DEF IInv

\* The lines S, with at most one line behind them.
LEMMA Joined ==
  ASSUME NEW T, NEW S \in Seq(T), NEW E \in Seq(T), Len(E) <= 1
  PROVE  /\ S \o E \in Seq(T)
         /\ \A i \in DOMAIN S : i \in DOMAIN (S \o E) /\ (S \o E)[i] = S[i]
         /\ \A i \in DOMAIN (S \o E) :
              \/ i \in DOMAIN S
              \/ Len(E) = 1 /\ i = Len(S \o E) /\ (S \o E)[i] = E[1]
<1> DEFINE a == S \o E
<1>1. /\ a \in Seq(T) /\ Len(a) = Len(S) + Len(E)
      /\ \A i \in 1 .. Len(S) + Len(E) : a[i] = IF i <= Len(S) THEN S[i] ELSE E[i - Len(S)]
  BY ConcatProperties
<1> HIDE DEF a
<1>2. /\ DOMAIN a = 1 .. Len(a) /\ DOMAIN S = 1 .. Len(S) /\ Len(S) \in Nat
      /\ Len(E) \in Nat /\ (Len(E) = 0 \/ Len(E) = 1)
  <2>1. Len(S) \in Nat /\ DOMAIN S = 1 .. Len(S)
    OBVIOUS
  <2>2. Len(E) \in Nat /\ (Len(E) = 0 \/ Len(E) = 1)
    <3>1. Len(E) \in Nat /\ Len(E) <= 1
      OBVIOUS
    <3>2. \A n \in Nat : n <= 1 => n = 0 \/ n = 1
      OBVIOUS
    <3> QED
      BY <3>1, <3>2
  <2>3. DOMAIN a = 1 .. Len(a)
    BY <1>1
  <2> QED
    BY <2>1, <2>2, <2>3
<1>3. \A i \in DOMAIN S : i \in DOMAIN a /\ a[i] = S[i]
  BY <1>1, <1>2
<1>4. ASSUME NEW i \in DOMAIN a, i \notin DOMAIN S
      PROVE  Len(E) = 1 /\ i = Len(a) /\ a[i] = E[1]
  <2>1. i \in Nat /\ i <= Len(S) + Len(E) /\ ~(i <= Len(S))
    BY <1>1, <1>2, <1>4
  <2>2. Len(E) = 1 /\ i = Len(S) + 1 /\ i - Len(S) = 1
    BY <1>2, <2>1
  <2> QED
    BY <1>1, <1>2, <1>4, <2>1, <2>2
<1> QED
  BY <1>1, <1>3, <1>4 DEF a

LEMMA AnswerPreserves == IInv /\ AnswerLogGet => IInv'
<1> SUFFICES ASSUME IInv, AnswerLogGet
             PROVE  IInv'
  OBVIOUS
<1>1. /\ SameLog /\ SameStore /\ UNCHANGED <<linked, clearing, cleared, eng, pending, queue, done>>
      /\ down # <<>> /\ down' = Tail(down)
  BY DEF AnswerLogGet, boardVars, logVars, phoneVars, SameLog, SameStore
<1>2. eng.syncing /\ Syncing /\ Asked
  BY <1>1 DEF IInv, Idle, Syncing, Replied, Ending
<1> DEFINE since == eng.cursor
           from == IF since > oldest THEN since ELSE oldest
           wanted == IF from < total THEN total - from ELSE 0
<1>3. down = <<since>> /\ queue = <<>> /\ up = <<>> /\ linked /\ done = NoDone /\ since \in Nat
  BY <1>2 DEF Asked, Syncing, EngOK, CursorOK
<1>4. LogOK /\ total \in Nat /\ oldest \in Nat /\ DOMAIN rec = oldest .. total - 1 /\ id \in Nat
  BY DEF IInv, LogOK
<1>5. PICK sent \in 0 .. wanted, cut \in BOOLEAN, last \in BOOLEAN :
        /\ sent < wanted => cut
        /\ up' = up \o [i \in 1 .. sent |-> Record(from + i - 1)] \o (IF last THEN <<LogDone(since, cut)>> ELSE <<>>)
  <2>1. Head(down) = since
    BY <1>3
  <2> QED
    BY <1>3, <2>1 DEF AnswerLogGet
<1>6. from \in Nat /\ oldest <= from /\ since <= from /\ (since <= oldest => from = oldest) /\ (since > oldest => from = since)
  BY <1>3, <1>4
<1>7. wanted \in Nat /\ (from < total => wanted = total - from) /\ (~(from < total) => wanted = 0)
  BY <1>4, <1>6
<1> HIDE DEF from, wanted
<1>8. sent \in Nat /\ sent <= wanted
  BY <1>7
<1>9. \A i \in 1 .. sent : /\ from + i - 1 \in Nat /\ from + i - 1 < total
                           /\ from + i - 1 \in DOMAIN rec
  <2> TAKE i \in 1 .. sent
  <2>1. i \in Nat /\ 1 <= i /\ i <= wanted /\ wanted > 0
    BY <1>7, <1>8
  <2>2. from < total /\ from + i - 1 < total /\ from + i - 1 \in Nat /\ oldest <= from + i - 1
    BY <1>4, <1>6, <1>7, <2>1
  <2> QED
    BY <1>4, <2>2
<1> DEFINE S == [i \in 1 .. sent |-> Record(from + i - 1)]
           E == IF last THEN <<LogDone(since, cut)>> ELSE <<>>
<1>10. S \in Seq(Msg) /\ DOMAIN S = 1 .. sent /\ \A i \in 1 .. sent : S[i] = Record(from + i - 1)
  <2>1. \A i \in 1 .. sent : Record(from + i - 1) \in Msg
    BY <1>4, <1>9, RecordLine
  <2> QED
    BY <1>8, <2>1
<1>11. E \in Seq(Msg) /\ Len(E) <= 1 /\ (Len(E) = 1 => E[1] = LogDone(since, cut))
  BY <1>3, <1>4, DoneLine
<1>12. up' = S \o E
  <2>1. up' = (<<>> \o S) \o E
    BY <1>3, <1>5
  <2>2. <<>> \o S = S
    <3> HIDE DEF S
    <3> QED
      BY <1>10, ConcatEmptySeq
  <2> QED
    BY <2>1, <2>2
<1> HIDE DEF S, E
<1>13. PICK ans : ans = up'
  OBVIOUS
<1>14. /\ ans \in Seq(Msg)
       /\ \A i \in 1 .. sent : i \in DOMAIN ans /\ ans[i] = Record(from + i - 1)
       /\ \A i \in DOMAIN ans : \/ i \in 1 .. sent /\ ans[i] = Record(from + i - 1)
                                \/ i = Len(ans) /\ ans[i] = LogDone(since, cut)
  <2>1. ans = S \o E
    BY <1>12, <1>13
  <2>2. /\ ans \in Seq(Msg)
        /\ \A i \in DOMAIN S : i \in DOMAIN ans /\ ans[i] = S[i]
        /\ \A i \in DOMAIN ans : i \in DOMAIN S \/ (Len(E) = 1 /\ i = Len(ans) /\ ans[i] = E[1])
    BY <1>10, <1>11, <2>1, Joined
  <2> QED
    BY <1>10, <1>11, <2>2
<1>15. \A i \in 1 .. sent : GoodRecord(Record(from + i - 1))
  <2> TAKE i \in 1 .. sent
  <2>1. from + i - 1 \in Nat /\ since <= from + i - 1
    BY <1>3, <1>6, <1>8
  <2> QED
    BY <1>9, <2>1 DEF GoodRecord, Record
<1>16. GoodDone(LogDone(since, cut))
  BY <1>2, <1>3, <1>4 DEF GoodDone, LogDone, Syncing, EngOK
<1>17. ASSUME NEW i \in DOMAIN ans, ans[i].type = "log_done", ~ans[i].cut,
              NEW s \in Nat, eng.cursor <= s, ans[i].oldest <= s, s < ans[i].next
       PROVE  Comes(s, ans)
  <2>1. ans[i] = LogDone(since, cut)
    BY <1>14, <1>17 DEF Record
  <2>2. ~cut /\ sent = wanted
    BY <1>5, <1>7, <1>8, <1>17, <2>1 DEF LogDone
  <2>3. s \in Nat /\ s < total /\ oldest <= s
    BY <1>17, <2>1, <2>2 DEF LogDone
  <2>4. from <= s
    <3>1. eng.cursor <= s /\ oldest <= s /\ (from = oldest \/ from = eng.cursor)
      BY <1>3, <1>4, <1>6, <1>17, <2>3
    <3> QED
      BY <3>1
  <2>5. sent = total - from
    BY <1>4, <1>6, <1>7, <2>2, <2>3, <2>4
  <2>6. s - from + 1 \in 1 .. sent /\ from + (s - from + 1) - 1 = s
    BY <1>4, <1>6, <2>3, <2>4, <2>5
  <2>7. s - from + 1 \in DOMAIN ans /\ ans[s - from + 1] = Record(s)
    BY <1>14, <2>6
  <2> QED
    BY <2>7 DEF Comes, Record
<1>18. InReply(ans)
  BY <1>14, <1>15, <1>16, <1>17 DEF InReply
<1>19. Replied'
  <2>1. queue' = <<>> /\ down' = <<>> /\ done' = NoDone
    BY <1>1, <1>3
  <2>2. queue' \o up' = ans
    BY <1>13, <1>14, <2>1, ConcatEmptySeq
  <2>3. InReply(ans)'
    BY <1>1, <1>18 DEF SameLog, InReply, Comes, GoodRecord, GoodDone
  <2> QED
    BY <2>1, <2>2, <2>3 DEF Replied
<1>20. Syncing'
  <2>1. EngOK' /\ PendingOK'
    BY <1>1, <1>2 DEF Syncing, EngOK, CursorOK, PendingOK, SameLog, SameStore
  <2> QED
    BY <1>1, <1>2, <1>19, <2>1 DEF Syncing
<1>21. LogOK' /\ DbOK' /\ DoneOK'
  BY <1>1, SameLogOK, SameDbOK, SameDoneOK DEF IInv, SameStore
<1>22. LinesOK' /\ EngFields' /\ ClearOK'
  BY <1>1, <1>13, <1>14 DEF IInv, LinesOK, EngFields, ClearOK, SameLog
<1> QED
  BY <1>1, <1>2, <1>20, <1>21, <1>22 DEF IInv

-----------------------------------------------------------------------------
(* The phone *)

\* A line is lost only where a line may be given up.
LEMMA GiveUpPreserves == ASSUME Orderly PROVE GiveUp => FALSE
BY DEF Orderly, GiveUp

\* A sync starts when nothing of another, and no word of a clear, is left.
LEMMA StartPreserves ==
  ASSUME IInv, StartSync, linked, ~eng.syncing, ~clearing, cleared' = NoClear, up = <<>>, queue = <<>>,
         SameLog, SameStore, UNCHANGED <<linked, clearing, up, queue, done>>
  PROVE  IInv'
<1>1. down = <<>> /\ done = NoDone
  BY DEF IInv, Idle
<1>2. /\ eng' = [syncing |-> TRUE, cursor |-> db.cursor, epoch |-> db.epoch, logId |-> db.logId,
                 knownOldest |-> db.oldest, restarted |-> FALSE, gap |-> FALSE, failed |-> FALSE,
                 retries |-> 0]
      /\ pending' = NoRows /\ down' = <<db.cursor>>
  BY <1>1 DEF StartSync, Ask
<1>3. LogOK' /\ DbOK'
  BY SameLogOK, SameDbOK DEF IInv
<1>4. eng'.syncing /\ EngFields' /\ EngOK'
  BY <1>2 DEF IInv, DbOK, EngFields, EngOK, CursorOK, SameLog, SameStore
<1>5. PendingOK'
  BY <1>2 DEF PendingOK, Agree, NoRows
<1>6. Asked'
  BY <1>1, <1>2 DEF Asked
<1>7. DoneOK' /\ LinesOK' /\ ClearOK'
  BY <1>1 DEF IInv, DoneOK, NoDone, LinesOK, ClearOK, NoClear
<1> QED
  BY <1>3, <1>4, <1>5, <1>6, <1>7 DEF IInv, Syncing

LEMMA SyncNowPreserves == ASSUME Orderly PROVE IInv /\ SyncNow => IInv'
<1> SUFFICES ASSUME IInv, SyncNow
             PROVE  IInv'
  OBVIOUS
<1>1. /\ StartSync /\ linked /\ ~eng.syncing /\ ~clearing /\ cleared = NoClear
      /\ SameLog /\ SameStore /\ UNCHANGED <<linked, clearing, cleared, up, queue, done>>
      /\ (queue = <<>> \/ done # NoDone) /\ \A i \in DOMAIN up : IsAnswer(up[i])
  BY DEF SyncNow, Event, Orderly, boardVars, logVars, SameLog, SameStore
<1>2. Idle
  BY <1>1 DEF IInv
<1>3. queue = <<>>
  BY <1>1, <1>2 DEF Idle
<1>4. up = <<>>
  <2> SUFFICES ASSUME up # <<>>
               PROVE  FALSE
    OBVIOUS
  <2>1. ~IsAnswer(up[1])
    BY <1>1, <1>2 DEF Idle, NoSync
  <2>2. 1 \in DOMAIN up
    BY DEF IInv, LinesOK
  <2> QED
    BY <1>1, <2>1, <2>2
<1> QED
  BY <1>1, <1>3, <1>4, StartPreserves

LEMMA SyncClearedPreserves == IInv /\ SyncCleared => IInv'
<1> SUFFICES ASSUME IInv, SyncCleared
             PROVE  IInv'
  OBVIOUS
<1>1. /\ SameLog /\ SameStore /\ UNCHANGED <<linked, clearing, up, queue, done>>
      /\ cleared # NoClear /\ cleared' = NoClear /\ (queue = <<>> \/ done # NoDone)
  BY DEF SyncCleared, Event, boardVars, logVars, SameLog, SameStore, NoClear
<1>2. ~clearing /\ ~eng.syncing /\ Idle
  BY <1>1 DEF IInv, ClearOK, Syncing
<1>3. CASE linked
  <2>1. up = <<>> /\ queue = <<>> /\ StartSync
    BY <1>1, <1>2, <1>3 DEF Idle, NoSync, SyncCleared
  <2> QED
    BY <1>1, <1>2, <1>3, <2>1, StartPreserves
<1>4. CASE ~linked
  <2>1. UNCHANGED <<down, eng, pending>>
    BY <1>4 DEF SyncCleared
  <2>2. LogOK' /\ DbOK' /\ DoneOK'
    BY <1>1, <2>1, SameLogOK, SameDbOK, SameDoneOK DEF IInv, SameStore
  <2>3. Idle'
    BY <1>1, <1>2, <1>4, <2>1 DEF Idle
  <2> QED
    BY <1>1, <1>2, <2>1, <2>2, <2>3 DEF IInv, LinesOK, EngFields, ClearOK, NoClear
<1> QED
  BY <1>3, <1>4

LEMMA IgnorePreserves == IInv /\ Ignore => IInv'
<1> SUFFICES ASSUME IInv, Ignore
             PROVE  IInv'
  OBVIOUS
<1>1. /\ SameLog /\ SameStore /\ UNCHANGED <<linked, clearing, cleared, eng, pending, down, up, done>>
      /\ ~eng.syncing /\ queue # <<>> /\ queue' = Tail(queue)
  BY DEF Ignore, Next1, boardVars, logVars, SameLog, SameStore
<1>2. LogOK' /\ DbOK' /\ DoneOK'
  BY <1>1, SameLogOK, SameDbOK, SameDoneOK DEF IInv, SameStore
<1>3. LinesOK'
  BY <1>1, HeadTailProperties DEF IInv, LinesOK
<1>4. EngFields' /\ ClearOK' /\ Idle'
  BY <1>1 DEF IInv, EngFields, ClearOK, Idle, NoSync, SameLog
<1> QED
  BY <1>1, <1>2, <1>3, <1>4 DEF IInv

\* What a sync had received is written, or it is not: a cursor that skips
\* nothing still does not.
LEMMA StillOK ==
  ASSUME NEW i, NEW e, NEW c, CursorOK(i, e, c), PendingOK, SameLog, rows' = rows \/ rows' = Over(pending, rows)
  PROVE  CursorOK(i, e, c)'
<1>1. Holds(rows, rec, e, c) => Holds(rows', rec, e, c)
  BY HoldsFlushed DEF PendingOK
<1> QED
  BY <1>1 DEF CursorOK, SameLog

\* Where the last line of a reply is taken up, there is nothing behind it.
LEMMA LastLine ==
  ASSUME IInv, eng.syncing, Next1("log_done"), NEW m, m = Head(queue)
  PROVE  /\ Syncing /\ done = NoDone /\ down = <<>> /\ up = <<>> /\ queue' = <<>>
         /\ GoodDone(m)
         /\ ~m.cut => \A s \in Nat : eng.cursor <= s /\ m.oldest <= s /\ s < m.next => <<eng.epoch, s>> \in DOMAIN pending
<1>1. queue # <<>> /\ queue \in Seq(Msg) /\ up \in Seq(Msg) /\ m.type = "log_done" /\ queue' = Tail(queue)
  BY DEF Next1, IInv, LinesOK
<1>2. Syncing /\ Replied
  BY <1>1 DEF IInv, Syncing, Asked, Ending
<1> DEFINE r == queue \o up
<1>3. r \in Seq(Msg) /\ Len(r) = Len(queue) + Len(up) /\ 1 \in DOMAIN r /\ r[1] = m /\ DOMAIN r = 1 .. Len(r)
  <2>1. r \in Seq(Msg) /\ Len(r) = Len(queue) + Len(up) /\ r[1] = queue[1]
    BY <1>1, ConcatProperties
  <2>2. Len(queue) \in Nat /\ Len(queue) > 0 /\ Len(up) \in Nat /\ queue[1] = m
    BY <1>1
  <2> HIDE DEF r
  <2>3. DOMAIN r = 1 .. Len(r)
    BY <2>1
  <2> QED
    BY <2>1, <2>2, <2>3
<1>4. InReply(r)
  BY <1>2 DEF Replied
<1> HIDE DEF r
<1>5. GoodDone(m) /\ Len(r) = 1
  BY <1>1, <1>3, <1>4 DEF InReply, GoodRecord
<1>6. Len(queue) = 1 /\ Len(up) = 0
  <2>1. Len(queue) \in Nat /\ Len(up) \in Nat /\ Len(queue) # 0
    BY <1>1
  <2>2. \A a, b \in Nat : a + b = 1 /\ a # 0 => a = 1 /\ b = 0
    OBVIOUS
  <2>3. Len(queue) + Len(up) = 1
    BY <1>3, <1>5
  <2> QED
    BY <2>1, <2>2, <2>3
<1>7. up = <<>> /\ queue' = <<>>
  BY <1>1, <1>6, HeadTailProperties, EmptySeq
<1>8. \A s : ~Comes(s, r) \/ <<eng.epoch, s>> \in DOMAIN pending
  BY <1>1, <1>3, <1>5 DEF Comes
<1>9. ~m.cut => \A s \in Nat : eng.cursor <= s /\ m.oldest <= s /\ s < m.next => <<eng.epoch, s>> \in DOMAIN pending
  BY <1>1, <1>3, <1>4, <1>8 DEF InReply
<1> QED
  BY <1>2, <1>5, <1>7, <1>9 DEF Replied

\* A round of a sync is over, and nothing of it is on its way: it is asked
\* again from the same cursor, or the sync ends.
LEMMA RoundPreserves ==
  ASSUME IInv, Syncing, done = NoDone, down = <<>>, up = <<>>, queue' = <<>>,
         SameLog, UNCHANGED <<linked, clearing, cleared, up, done, db>>,
         pending' = NoRows, rows' = rows \/ rows' = Over(pending, rows),
         DOMAIN eng' = DOMAIN eng, UNCHANGED <<eng.cursor, eng.epoch, eng.logId, eng.restarted>>,
         \/ eng'.syncing = TRUE /\ down' = <<eng.cursor>>
         \/ eng'.syncing = FALSE /\ down' = <<>>
  PROVE  IInv'
<1>1. LogOK'
  BY SameLogOK DEF IInv
<1>2. DbOK'
  BY StillOK DEF IInv, DbOK, Syncing
<1>3. EngOK'
  BY StillOK DEF Syncing, EngOK, SameLog
<1>4. PendingOK'
  BY DEF PendingOK, Agree, NoRows
<1>5. DoneOK' /\ ClearOK' /\ LinesOK' /\ EngFields'
  BY DEF IInv, DoneOK, NoDone, ClearOK, LinesOK, EngFields, SameLog
<1>6. eng'.syncing => Asked'
  BY DEF Asked
<1>7. ~eng'.syncing => Idle'
  BY DEF Idle, NoSync, Syncing
<1> QED
  BY <1>1, <1>2, <1>3, <1>4, <1>5, <1>6, <1>7 DEF IInv, Syncing

LEMMA FlushedRound ==
  ASSUME NEW e, Flush(e)
  PROVE  /\ pending' = NoRows /\ (rows' = rows \/ rows' = Over(pending, rows))
         /\ DOMAIN eng' = DOMAIN e
         /\ eng'.cursor = e.cursor /\ eng'.epoch = e.epoch /\ eng'.logId = e.logId
         /\ eng'.restarted = e.restarted /\ eng'.syncing = e.syncing /\ eng'.gap = e.gap
         /\ "failed" \in DOMAIN e /\ ~eng'.failed => rows' = Over(pending, rows)
<1>1. CASE rows' = Over(pending, rows) /\ eng' = e
  BY <1>1 DEF Flush
<1>2. CASE rows' = rows /\ eng' = [e EXCEPT !.failed = TRUE]
  BY <1>2 DEF Flush
<1> QED
  BY <1>1, <1>2 DEF Flush

LEMMA AgainPreserves ==
  ASSUME IInv, Syncing, eng.syncing, done = NoDone, down = <<>>, up = <<>>, queue' = <<>>,
         SameLog, UNCHANGED <<linked, clearing, cleared, up, done, db>>,
         \/ AskAgain
         \/ Flush(Finished(eng)) /\ UNCHANGED down
         \/ eng' = Finished(eng) /\ pending' = NoRows /\ UNCHANGED <<down, rows>>
  PROVE  IInv'
<1>1. DOMAIN eng = {"syncing", "cursor", "epoch", "logId", "knownOldest", "restarted", "gap", "failed", "retries"}
      /\ eng.syncing = TRUE
  BY DEF IInv, EngFields
<1>2. CASE AskAgain
  <2> DEFINE e == [eng EXCEPT !.retries = @ + 1]
  <2>1. Flush(e) /\ down' = <<eng.cursor>>
    BY <1>2 DEF AskAgain, Ask
  <2>2. /\ DOMAIN e = DOMAIN eng /\ e.syncing = TRUE /\ e.cursor = eng.cursor /\ e.epoch = eng.epoch
        /\ e.logId = eng.logId /\ e.restarted = eng.restarted
    BY <1>1
  <2> HIDE DEF e
  <2> QED
    BY <2>1, <2>2, FlushedRound, RoundPreserves
<1> DEFINE f == Finished(eng)
<1>3. /\ DOMAIN f = DOMAIN eng /\ f.syncing = FALSE /\ f.cursor = eng.cursor /\ f.epoch = eng.epoch
      /\ f.logId = eng.logId /\ f.restarted = eng.restarted
  BY <1>1 DEF Finished
<1> HIDE DEF f
<1>4. CASE Flush(f) /\ UNCHANGED down
  BY <1>3, <1>4, FlushedRound, RoundPreserves
<1>5. CASE eng' = f /\ pending' = NoRows /\ UNCHANGED <<down, rows>>
  BY <1>3, <1>5, RoundPreserves
<1> QED
  BY <1>2, <1>4, <1>5 DEF f

LEMMA CutPreserves == IInv /\ HandleCut => IInv'
<1> SUFFICES ASSUME IInv, HandleCut
             PROVE  IInv'
  OBVIOUS
<1>1. /\ SameLog /\ UNCHANGED <<linked, clearing, cleared, up, done, db>>
      /\ eng.syncing /\ Next1("log_done")
      /\ (AskAgain \/ (Flush(Finished(eng)) /\ UNCHANGED down))
  BY DEF HandleCut, boardVars, logVars, SameLog
<1>2. Syncing /\ done = NoDone /\ down = <<>> /\ up = <<>> /\ queue' = <<>>
  BY <1>1, LastLine
<1> QED
  BY <1>1, <1>2, AgainPreserves

LEMMA TimeoutPreserves == ASSUME Orderly PROVE IInv /\ Timeout => IInv'
<1> SUFFICES ASSUME IInv, Timeout
             PROVE  IInv'
  OBVIOUS
<1>1. /\ SameLog /\ UNCHANGED <<linked, clearing, cleared, up, queue, done, db>>
      /\ eng.syncing /\ Unanswered
      /\ (AskAgain \/ (eng' = Finished(eng) /\ pending' = NoRows /\ UNCHANGED <<down, rows>>))
  BY DEF Timeout, boardVars, logVars, SameLog, Orderly
<1>2. /\ Syncing /\ done = NoDone /\ down = <<>> /\ queue = <<>> /\ up \in Seq(Msg)
      /\ \A i \in DOMAIN up : up[i].type = "log_cleared"
  BY <1>1 DEF IInv, LinesOK, Unanswered, IsAnswer
<1>3. Replied
  BY <1>2 DEF Syncing, Asked, Ending, NoDone
<1>4. InReply(up)
  <2>1. <<>> \o up = up
    BY <1>2, ConcatEmptySeq
  <2> QED
    BY <1>2, <1>3, <2>1 DEF Replied
<1>5. up = <<>>
  <2> SUFFICES ASSUME up # <<>>
               PROVE  FALSE
    OBVIOUS
  <2>1. 1 \in DOMAIN up
    BY <1>2
  <2> QED
    BY <1>2, <1>4, <2>1 DEF InReply, GoodRecord, GoodDone
<1> QED
  BY <1>1, <1>2, <1>5, AgainPreserves

LEMMA RestartPreserves == IInv /\ Restart => IInv'
<1> SUFFICES ASSUME IInv, Restart
             PROVE  IInv'
  OBVIOUS
<1>1. PICK m : m = Head(queue)
  OBVIOUS
<1>2. /\ SameLog /\ SameStore /\ UNCHANGED <<linked, clearing, cleared, up, done>>
      /\ eng.syncing /\ Next1("log_done")
      /\ eng' = [eng EXCEPT !.restarted = TRUE, !.epoch = @ + 1, !.cursor = m.oldest,
                            !.logId = m.id, !.knownOldest = NoSeq]
      /\ down' = Append(down, m.oldest) /\ pending' = NoRows
  BY <1>1 DEF Restart, Ask, boardVars, logVars, SameLog, SameStore
<1>3. Syncing /\ done = NoDone /\ down = <<>> /\ up = <<>> /\ queue' = <<>> /\ GoodDone(m)
  BY <1>1, <1>2, LastLine
<1>4. /\ DOMAIN eng' = DOMAIN eng /\ eng'.syncing /\ eng'.syncing \in BOOLEAN
      /\ eng'.logId = id /\ eng'.cursor = m.oldest
  BY <1>2, <1>3 DEF IInv, EngFields, GoodDone
<1>5. LogOK' /\ DbOK'
  BY <1>2, SameLogOK, SameDbOK DEF IInv
<1>6. EngOK'
  <2>1. {id, total, oldest} \subseteq Nat /\ oldest <= total /\ id # NoId /\ DOMAIN rec = oldest .. total - 1
    BY DEF IInv, LogOK
  <2>2. m.oldest \in Nat /\ m.oldest <= oldest
    BY <1>3 DEF GoodDone
  <2>3. m.oldest <= total /\ \A s \in DOMAIN rec : ~(s < m.oldest)
    BY <2>1, <2>2
  <2> QED
    BY <1>2, <1>4, <2>1, <2>2, <2>3 DEF EngOK, CursorOK, Holds, SameLog
<1>7. PendingOK'
  BY <1>2 DEF PendingOK, Agree, NoRows
<1>8. Asked'
  BY <1>2, <1>3, <1>4 DEF Asked
<1>9. DoneOK' /\ ClearOK' /\ LinesOK' /\ EngFields'
  BY <1>2, <1>3, <1>4 DEF IInv, DoneOK, NoDone, ClearOK, LinesOK, EngFields, SameLog
<1> QED
  BY <1>2, <1>3, <1>4, <1>5, <1>6, <1>7, <1>8, <1>9 DEF IInv, Syncing

\* What the cursor will skip is stored: what was below it when the reply was
\* asked for, and what came in the reply.
LEMMA DonePreserves == IInv /\ HandleDone => IInv'
<1> SUFFICES ASSUME IInv, HandleDone
             PROVE  IInv'
  OBVIOUS
<1>1. PICK m : m = Head(queue)
  OBVIOUS
<1> DEFINE e == [eng EXCEPT !.gap = Gap(eng, m)]
<1>2. /\ SameLog /\ UNCHANGED <<linked, clearing, cleared, down, up, db>>
      /\ eng.syncing /\ Next1("log_done") /\ ~m.cut /\ (eng.restarted \/ ~OtherLog(eng, m))
      /\ Flush(e) /\ done' = [at |-> "store", msg |-> m]
  BY <1>1 DEF HandleDone, boardVars, logVars, SameLog
<1>3. /\ Syncing /\ done = NoDone /\ down = <<>> /\ up = <<>> /\ queue' = <<>> /\ GoodDone(m)
      /\ \A s \in Nat : eng.cursor <= s /\ m.oldest <= s /\ s < m.next => <<eng.epoch, s>> \in DOMAIN pending
  BY <1>1, <1>2, LastLine
<1>4. /\ DOMAIN e = DOMAIN eng /\ e.syncing = eng.syncing /\ e.cursor = eng.cursor /\ e.epoch = eng.epoch
      /\ e.logId = eng.logId /\ e.restarted = eng.restarted
  BY DEF IInv, EngFields
<1> HIDE DEF e
<1>5. /\ pending' = NoRows /\ (rows' = rows \/ rows' = Over(pending, rows)) /\ DOMAIN eng' = DOMAIN eng
      /\ UNCHANGED <<eng.syncing, eng.cursor, eng.epoch, eng.logId, eng.restarted>>
      /\ ~eng'.failed => rows' = Over(pending, rows)
  BY <1>2, <1>4, FlushedRound DEF IInv, EngFields
<1>6. EngOK /\ PendingOK /\ LogOK /\ DbOK
  BY <1>3 DEF Syncing, IInv
<1>7. {id, total, oldest} \subseteq Nat /\ DOMAIN rec = oldest .. total - 1 /\ id # NoId
      /\ m.id = id /\ m.next \in Nat /\ m.next <= total /\ eng.cursor \in Nat
  BY <1>2, <1>3, <1>6 DEF LogOK, GoodDone, EngOK, CursorOK
<1>8. Holds(rows, rec, eng.epoch, eng.cursor)
  <2>1. CASE eng.logId = id
    BY <1>6, <2>1 DEF EngOK, CursorOK
  <2>2. CASE eng.logId # id
    <3>1. eng.logId = NoId
      BY <1>2, <1>6, <1>7, <2>2 DEF EngOK, OtherLog
    <3>2. eng.cursor = 0
      BY <1>6, <3>1 DEF EngOK, CursorOK
    <3> QED
      BY <1>7, <3>2 DEF Holds
  <2> QED
    BY <2>1, <2>2
<1>9. Holds(Over(pending, rows), rec, eng.epoch, m.next)
  <2>1. Agree(pending, rec)
    BY <1>6 DEF PendingOK
  <2>2. Holds(Over(pending, rows), rec, eng.epoch, eng.cursor)
    BY <1>8, <2>1, HoldsFlushed
  <2>3. ASSUME NEW s \in DOMAIN rec, s < m.next, ~(s < eng.cursor)
        PROVE  /\ <<eng.epoch, s>> \in DOMAIN Over(pending, rows)
               /\ Over(pending, rows)[<<eng.epoch, s>>] = rec[s]
    <3>1. s \in Nat /\ eng.cursor <= s /\ m.oldest <= s
      BY <1>3, <1>7, <2>3 DEF GoodDone
    <3>2. <<eng.epoch, s>> \in DOMAIN pending
      BY <1>3, <2>3, <3>1
    <3>3. pending[<<eng.epoch, s>>] = rec[s]
      BY <2>1, <2>3, <3>2 DEF Agree
    <3> QED
      BY <3>2, <3>3 DEF Over
  <2> QED
    BY <2>2, <2>3 DEF Holds
<1>10. DoneOK'
  <2>1. done'.at = "store" /\ done'.msg = m /\ DOMAIN done' = {"at", "msg"}
    BY <1>2
  <2>2. ~eng'.failed => Holds(rows', rec', eng'.epoch, m.next)
    BY <1>2, <1>5, <1>9 DEF SameLog
  <2> QED
    BY <1>2, <1>7, <2>1, <2>2 DEF DoneOK, SameLog
<1>11. LogOK' /\ DbOK' /\ EngOK'
  <2>1. LogOK'
    BY <1>2, <1>6, SameLogOK
  <2>2. DbOK'
    BY <1>2, <1>5, <1>6, StillOK DEF DbOK
  <2>3. EngOK'
    BY <1>2, <1>5, <1>6, StillOK DEF EngOK, SameLog
  <2> QED
    BY <2>1, <2>2, <2>3
<1>12. PendingOK'
  BY <1>5 DEF PendingOK, Agree, NoRows
<1>13. Ending'
  BY <1>2, <1>3 DEF Ending
<1>14. ClearOK' /\ LinesOK' /\ EngFields'
  BY <1>2, <1>3, <1>5 DEF IInv, ClearOK, LinesOK, EngFields, SameLog
<1> QED
  BY <1>2, <1>3, <1>5, <1>10, <1>11, <1>12, <1>13, <1>14 DEF IInv, Syncing

LEMMA StorePreserves == IInv /\ StoreCursor => IInv'
<1> SUFFICES ASSUME IInv, StoreCursor
             PROVE  IInv'
  OBVIOUS
<1>1. SameLog /\ UNCHANGED <<linked, clearing, cleared, down, up, queue, rows>> /\ done.at = "store"
  BY DEF StoreCursor, boardVars, logVars, SameLog
<1>2. DOMAIN done = {"at", "msg"} /\ done # NoDone
  BY <1>1 DEF IInv, DoneOK, NoDone
<1>3. LogOK' /\ LinesOK' /\ ClearOK'
  BY <1>1, SameLogOK DEF IInv, LinesOK, ClearOK, SameLog
<1>4. CASE eng.failed
  <2>1. eng' = Finished(eng) /\ pending' = NoRows /\ done' = NoDone /\ db' = db
    BY <1>4 DEF StoreCursor
  <2>2. EngFields' /\ eng'.syncing = FALSE
    BY <2>1 DEF IInv, EngFields, Finished
  <2>3. DbOK'
    BY <1>1, <2>1, SameDbOK DEF IInv, SameStore
  <2>4. DoneOK'
    BY <2>1 DEF DoneOK, NoDone
  <2>5. Idle'
    BY <1>1, <1>2, <2>1 DEF IInv, Syncing, Asked, Replied, Ending, Idle, NoSync
  <2> QED
    BY <1>3, <2>2, <2>3, <2>4, <2>5 DEF IInv
<1>5. CASE ~eng.failed
  <2>1. /\ db' = [cursor |-> done.msg.next, epoch |-> eng.epoch, logId |-> done.msg.id,
                  oldest |-> done.msg.oldest, gap |-> db.gap \/ eng.gap]
        /\ done' = [done EXCEPT !.at = "finish"] /\ eng' = eng /\ pending' = pending
    BY <1>5 DEF StoreCursor
  <2>2. done'.at = "finish" /\ DOMAIN done' = {"at", "msg"} /\ done' # NoDone
    BY <1>2, <2>1 DEF NoDone
  <2>3. DbOK'
    BY <1>1, <1>5, <2>1 DEF IInv, DoneOK, DbOK, CursorOK, SameLog
  <2>4. DoneOK' /\ EngFields'
    BY <2>1, <2>2 DEF IInv, DoneOK, EngFields
  <2>5. eng.syncing => Syncing'
    <3> SUFFICES ASSUME eng.syncing
                 PROVE  Syncing'
      OBVIOUS
    <3>1. Syncing /\ Ending
      BY <1>1, <1>2 DEF IInv, Syncing, Asked, Replied
    <3>2. EngOK' /\ PendingOK'
      BY <1>1, <2>1, <3>1 DEF Syncing, EngOK, CursorOK, PendingOK, SameLog
    <3>3. Ending'
      BY <1>1, <2>2, <3>1 DEF Ending
    <3> QED
      BY <1>1, <3>1, <3>2, <3>3 DEF Syncing
  <2>6. ~eng.syncing => Idle'
    BY <1>1, <1>2, <2>1 DEF IInv, Idle
  <2> QED
    BY <1>3, <2>1, <2>3, <2>4, <2>5, <2>6 DEF IInv
<1> QED
  BY <1>4, <1>5

LEMMA FinishPreserves == IInv /\ FinishDone => IInv'
<1> SUFFICES ASSUME IInv, FinishDone
             PROVE  IInv'
  OBVIOUS
<1>1. /\ SameLog /\ SameStore /\ UNCHANGED <<linked, clearing, cleared, down, up, queue>>
      /\ done.at = "finish" /\ done # NoDone /\ done' = NoDone /\ pending' = NoRows
      /\ eng' = Finished([eng EXCEPT !.cursor = done.msg.next])
  BY DEF FinishDone, boardVars, logVars, SameLog, SameStore, NoDone
<1>2. EngFields' /\ eng'.syncing = FALSE
  BY <1>1 DEF IInv, EngFields, Finished
<1>3. LogOK' /\ DbOK'
  BY <1>1, SameLogOK, SameDbOK DEF IInv
<1>4. DoneOK' /\ LinesOK' /\ ClearOK'
  BY <1>1 DEF IInv, DoneOK, NoDone, LinesOK, ClearOK, SameLog
<1>5. Idle'
  BY <1>1 DEF IInv, Syncing, Asked, Replied, Ending, Idle, NoSync
<1> QED
  BY <1>2, <1>3, <1>4, <1>5 DEF IInv

LEMMA TailJoined ==
  ASSUME NEW T, NEW q \in Seq(T), NEW u \in Seq(T), q # <<>>
  PROVE  /\ q \o u \in Seq(T) /\ q \o u # <<>> /\ (q \o u)[1] = Head(q)
         /\ Tail(q) \in Seq(T) /\ Tail(q) \o u = Tail(q \o u)
BY ConcatSimplifications, ConcatProperties, HeadTailProperties

LEMMA MovedOver ==
  ASSUME NEW T, NEW q \in Seq(T), NEW u \in Seq(T), u # <<>>
  PROVE  /\ Append(q, Head(u)) \in Seq(T) /\ Tail(u) \in Seq(T)
         /\ Append(q, Head(u)) \o Tail(u) = q \o u
BY ConcatSimplifications, HeadTailProperties, AppendProperties

\* A record that was on its way is received.
LEMMA RecordPreserves == IInv /\ HandleRecord => IInv'
<1> SUFFICES ASSUME IInv, HandleRecord
             PROVE  IInv'
  OBVIOUS
<1>1. PICK m : m = Head(queue)
  OBVIOUS
<1> DEFINE new == [k \in {<<eng.epoch, m.seq>>} |-> m.who]
<1>2. /\ SameLog /\ SameStore /\ UNCHANGED <<linked, clearing, cleared, down, up, done, eng>>
      /\ eng.syncing /\ queue # <<>> /\ queue' = Tail(queue) /\ m.type = "log"
      /\ pending' = Over(new, pending)
  BY <1>1 DEF HandleRecord, Next1, boardVars, logVars, SameLog, SameStore
<1>3. Syncing /\ Replied
  BY <1>2 DEF IInv, Syncing, Asked, Ending
<1>4. PICK r : r = queue \o up
  OBVIOUS
<1>5. /\ r \in Seq(Msg) /\ r # <<>> /\ r[1] = m /\ Tail(queue) \in Seq(Msg) /\ Tail(queue) \o up = Tail(r)
      /\ InReply(r)
  BY <1>1, <1>2, <1>3, <1>4, TailJoined, SMTT(30) DEF IInv, LinesOK, Replied
<1>6. PICK t : t = Tail(r)
  OBVIOUS
<1>7. /\ Len(r) \in Nat /\ DOMAIN r = 1 .. Len(r) /\ Len(r) > 0 /\ 1 \in DOMAIN r
      /\ DOMAIN t = 1 .. Len(t) /\ Len(t) = Len(r) - 1
      /\ \A i \in DOMAIN t : i + 1 \in DOMAIN r /\ t[i] = r[i + 1]
  BY <1>5, <1>6
<1>8. GoodRecord(m)
  BY <1>2, <1>5, <1>7 DEF InReply, GoodDone
<1>9. DOMAIN pending' = {<<eng.epoch, m.seq>>} \union DOMAIN pending
  BY <1>2 DEF Over
<1>10. PendingOK'
  <2>1. \A k \in DOMAIN pending' : IF k = <<eng.epoch, m.seq>> THEN pending'[k] = m.who ELSE pending'[k] = pending[k]
    BY <1>2 DEF Over
  <2>2. PendingOK
    BY <1>3 DEF Syncing
  <2>3. <<eng.epoch, m.seq>>[2] = m.seq
    OBVIOUS
  <2> QED
    BY <1>2, <1>8, <1>9, <2>1, <2>2, <2>3 DEF PendingOK, Agree, GoodRecord, SameLog
<1>11. InReply(t)'
  <2>1. \A i \in DOMAIN t : GoodRecord(t[i]) \/ (GoodDone(t[i]) /\ i = Len(t))
    <3> TAKE i \in DOMAIN t
    <3>1. i + 1 \in DOMAIN r /\ t[i] = r[i + 1] /\ (i + 1 = Len(r) => i = Len(t))
      BY <1>7
    <3> QED
      BY <1>5, <3>1 DEF InReply
  <2>2. \A s : Comes(s, r) => Comes(s, t)'
    <3> SUFFICES ASSUME NEW s, Comes(s, r)
                 PROVE  Comes(s, t)'
      OBVIOUS
    <3>1. CASE <<eng.epoch, s>> \in DOMAIN pending
      BY <1>2, <1>9, <3>1 DEF Comes
    <3>2. CASE \E j \in DOMAIN r : r[j].type = "log" /\ r[j].seq = s
      <4>1. PICK j \in DOMAIN r : r[j].type = "log" /\ r[j].seq = s
        BY <3>2
      <4>2. CASE j = 1
        BY <1>2, <1>5, <1>9, <4>1, <4>2 DEF Comes
      <4>3. CASE j # 1
        <5>1. j - 1 \in DOMAIN t /\ t[j - 1] = r[j]
          BY <1>7, <4>1, <4>3
        <5> QED
          BY <4>1, <5>1 DEF Comes
      <4> QED
        BY <4>2, <4>3
    <3> QED
      BY <3>1, <3>2 DEF Comes
  <2>3. ASSUME NEW i \in DOMAIN t, t[i].type = "log_done", ~t[i].cut,
               NEW s \in Nat, eng.cursor <= s, t[i].oldest <= s, s < t[i].next
        PROVE  Comes(s, t)'
    BY <1>5, <1>7, <2>2, <2>3 DEF InReply
  <2> QED
    BY <1>2, <2>1, <2>3 DEF InReply, GoodRecord, GoodDone, SameLog
<1>12. Syncing'
  <2>1. queue' \o up' = t
    BY <1>2, <1>5, <1>6
  <2>2. Replied'
    BY <1>2, <1>3, <1>11, <2>1 DEF Replied
  <2>3. EngOK'
    BY <1>2, <1>3 DEF Syncing, EngOK, CursorOK, SameLog, SameStore
  <2> QED
    BY <1>2, <1>3, <1>10, <2>2, <2>3 DEF Syncing
<1>13. LogOK' /\ DbOK' /\ DoneOK'
  BY <1>2, SameLogOK, SameDbOK, SameDoneOK DEF IInv, SameStore
<1>14. LinesOK' /\ EngFields' /\ ClearOK'
  BY <1>2, <1>5 DEF IInv, LinesOK, EngFields, ClearOK, SameLog
<1> QED
  BY <1>2, <1>12, <1>13, <1>14 DEF IInv

LEMMA AnswerArrives == IInv /\ DeliverAnswer => IInv'
<1> SUFFICES ASSUME IInv, DeliverAnswer
             PROVE  IInv'
  OBVIOUS
<1>1. /\ SameLog /\ SameStore /\ UNCHANGED <<linked, clearing, cleared, down, done, eng, pending>>
      /\ up # <<>> /\ IsAnswer(Head(up)) /\ queue' = Append(queue, Head(up)) /\ up' = Tail(up)
  BY DEF DeliverAnswer, boardVars, logVars, SameLog, SameStore
<1>2. eng.syncing
  <2>1. Head(up) = up[1]
    BY DEF IInv, LinesOK
  <2> QED
    BY <1>1, <2>1 DEF IInv, Idle, NoSync
<1>3. Syncing /\ Replied
  BY <1>1, <1>2 DEF IInv, Syncing, Asked, Ending
<1>4. queue' \in Seq(Msg) /\ up' \in Seq(Msg) /\ queue' \o up' = queue \o up
  BY <1>1, MovedOver DEF IInv, LinesOK
<1>5. Replied'
  <2>1. InReply(queue \o up)'
    <3>1. PICK r : r = queue \o up
      OBVIOUS
    <3>2. InReply(r)
      BY <1>3, <3>1 DEF Replied
    <3>3. InReply(r)'
      BY <1>1, <3>2, SameReply
    <3> QED
      BY <1>4, <3>1, <3>3
  <2> QED
    BY <1>1, <1>3, <2>1 DEF Replied
<1>6. Syncing'
  <2>1. EngOK' /\ PendingOK'
    BY <1>1, <1>3 DEF Syncing, EngOK, CursorOK, PendingOK, SameLog, SameStore
  <2> QED
    BY <1>1, <1>3, <1>5, <2>1 DEF Syncing
<1>7. LogOK' /\ DbOK' /\ DoneOK'
  BY <1>1, SameLogOK, SameDbOK, SameDoneOK DEF IInv, SameStore
<1>8. LinesOK' /\ EngFields' /\ ClearOK'
  BY <1>1, <1>4 DEF IInv, LinesOK, EngFields, ClearOK, SameLog
<1> QED
  BY <1>1, <1>2, <1>6, <1>7, <1>8 DEF IInv

-----------------------------------------------------------------------------
(* The link and the app *)

LEMMA ConnectPreserves == IInv /\ Connect => IInv'
<1> SUFFICES ASSUME IInv, Connect
             PROVE  IInv'
  OBVIOUS
<1>1. /\ SameLog /\ SameStore /\ UNCHANGED <<clearing, cleared, down, up, queue, done, eng, pending>>
      /\ ~linked /\ done = NoDone
  BY DEF Connect, boardVars, logVars, phoneVars, SameLog, SameStore
<1>2. ~eng.syncing /\ Idle
  BY <1>1 DEF IInv, Syncing
<1>3. LogOK' /\ DbOK' /\ DoneOK'
  BY <1>1, SameLogOK, SameDbOK, SameDoneOK DEF IInv, SameStore
<1>4. LinesOK' /\ EngFields' /\ ClearOK' /\ Idle'
  BY <1>1, <1>2 DEF IInv, LinesOK, EngFields, ClearOK, Idle, NoSync, SameLog
<1> QED
  BY <1>1, <1>2, <1>3, <1>4 DEF IInv

LEMMA Aborted ==
  ASSUME IInv, Abort
  PROVE  EngFields' /\ eng'.syncing = FALSE /\ pending' = NoRows /\ UNCHANGED <<eng.epoch, eng.failed>>
BY DEF IInv, Idle, Abort, Finished, EngFields

LEMMA LinkLostPreserves ==
  ASSUME Orderly, IInv, LinkLost, SameLog, clearing' = clearing \/ clearing' = FALSE
  PROVE  IInv'
<1>1. SameStore /\ UNCHANGED <<queue, done, cleared>> /\ linked' = FALSE /\ up' = <<>> /\ down' = <<>>
  BY DEF LinkLost, Orderly, SameStore
<1>2. EngFields' /\ eng'.syncing = FALSE /\ pending' = NoRows /\ UNCHANGED <<eng.epoch, eng.failed>>
  BY Aborted DEF LinkLost
<1>3. LogOK' /\ DbOK' /\ DoneOK'
  BY <1>1, <1>2, SameLogOK, SameDbOK, SameDoneOK DEF IInv, SameStore
<1>4. LinesOK' /\ ClearOK' /\ Idle'
  BY <1>1, <1>2 DEF IInv, LinesOK, ClearOK, Idle, SameLog
<1> QED
  BY <1>2, <1>3, <1>4 DEF IInv

LEMMA DisconnectPreserves == ASSUME Orderly PROVE IInv /\ Disconnect => IInv'
<1> SUFFICES ASSUME IInv, Disconnect
             PROVE  IInv'
  OBVIOUS
<1>1. LinkLost /\ SameLog /\ clearing' = clearing
  BY DEF Disconnect, boardVars, logVars, SameLog
<1> QED
  BY <1>1, LinkLostPreserves

\* The board comes back with the log it had.
LEMMA RestartsPreserves == ASSUME Orderly PROVE IInv /\ Restarts => IInv'
<1> SUFFICES ASSUME IInv, Restarts
             PROVE  IInv'
  OBVIOUS
<1>1. LinkLost /\ PowerCut /\ clearing' = FALSE /\ ended' = ended /\ saved = Image(id, total, oldest, rec)
  BY DEF Restarts, Orderly
<1>2. id # 0
  BY DEF IInv, LogOK, NoId
<1>3. SameLog
  BY <1>1, <1>2 DEF PowerCut, Image, SameLog
<1> QED
  BY <1>1, <1>3, LinkLostPreserves

LEMMA ClearedArrives == IInv /\ DeliverCleared => IInv'
<1> SUFFICES ASSUME IInv, DeliverCleared
             PROVE  IInv'
  OBVIOUS
<1>1. /\ SameLog /\ SameStore /\ UNCHANGED <<linked, clearing, down, queue, done>>
      /\ up # <<>> /\ ~IsAnswer(Head(up)) /\ cleared' = [at |-> "reset", id |-> Head(up).id]
      /\ up' = Tail(up)
  BY DEF DeliverCleared, boardVars, logVars, SameLog, SameStore
<1>2. up \in Seq(Msg) /\ queue \in Seq(Msg) /\ Head(up) = up[1] /\ 1 \in DOMAIN up /\ Tail(up) \in Seq(Msg)
  BY <1>1 DEF IInv, LinesOK
<1>3. ~eng.syncing
  <2> SUFFICES ASSUME eng.syncing
               PROVE  FALSE
    OBVIOUS
  <2>1. Replied
    BY <1>1 DEF IInv, Syncing, Asked, Ending
  <2>2. PICK r : r = queue \o up
    OBVIOUS
  <2>3. InReply(r)
    BY <2>1, <2>2 DEF Replied
  <2>4. Len(queue) \in Nat /\ Len(up) \in Nat /\ Len(up) > 0
    BY <1>1, <1>2
  <2>5. r \in Seq(Msg) /\ Len(r) = Len(queue) + Len(up) /\ r[Len(queue) + 1] = up[1]
    <3>1. /\ r \in Seq(Msg) /\ Len(r) = Len(queue) + Len(up)
          /\ \A i \in 1 .. Len(queue) + Len(up) : r[i] = IF i <= Len(queue) THEN queue[i] ELSE up[i - Len(queue)]
      BY <1>2, <2>2, ConcatProperties
    <3>2. Len(queue) + 1 \in 1 .. Len(queue) + Len(up) /\ ~(Len(queue) + 1 <= Len(queue))
          /\ Len(queue) + 1 - Len(queue) = 1
      BY <2>4
    <3> QED
      BY <3>1, <3>2
  <2>6. Len(queue) + 1 \in DOMAIN r
    BY <2>4, <2>5
  <2> QED
    BY <1>1, <1>2, <2>3, <2>5, <2>6 DEF InReply, GoodRecord, GoodDone, IsAnswer
<1>4. Idle /\ linked /\ NoSync
  BY <1>1, <1>3 DEF IInv, Idle
<1>5. up' = <<>> /\ ~clearing /\ up[1].id <= id /\ up[1].id # NoId
  BY <1>1, <1>2, <1>4, HeadTailProperties, EmptySeq DEF NoSync
<1>6. up[1].id \in Nat
  BY <1>1, <1>2 DEF IsAnswer, Msg, LogMsg, DoneMsg, ClearedMsg
<1>7. EngFields' /\ eng'.syncing = FALSE /\ pending' = NoRows /\ UNCHANGED <<eng.epoch, eng.failed>>
  BY Aborted DEF DeliverCleared
<1>8. LogOK' /\ DbOK' /\ DoneOK'
  BY <1>1, <1>7, SameLogOK, SameDbOK, SameDoneOK DEF IInv, SameStore
<1>9. ClearOK'
  BY <1>1, <1>2, <1>5, <1>6 DEF ClearOK, SameLog
<1>10. LinesOK' /\ Idle'
  BY <1>1, <1>2, <1>4, <1>5, <1>7 DEF LinesOK, Idle, NoSync
<1> QED
  BY <1>7, <1>8, <1>9, <1>10 DEF IInv

LEMMA ResetPreserves == IInv /\ ResetDetectorLog => IInv'
<1> SUFFICES ASSUME IInv, ResetDetectorLog
             PROVE  IInv'
  OBVIOUS
<1>1. /\ SameLog /\ UNCHANGED <<linked, clearing, down, up, queue, done, eng, pending, rows>>
      /\ cleared.at = "reset" /\ cleared # NoClear /\ cleared' = [at |-> "sync"]
      /\ db' = [cursor |-> 0, epoch |-> db.epoch + 1, logId |-> cleared.id, oldest |-> NoSeq, gap |-> FALSE]
  BY DEF ResetDetectorLog, boardVars, logVars, SameLog, NoClear
<1>2. ~clearing /\ ~eng.syncing /\ Idle
  BY <1>1 DEF IInv, ClearOK, Syncing
<1>3. DbOK'
  <2>1. cleared.id \in Nat /\ cleared.id <= id /\ cleared.id # NoId
    BY <1>1 DEF IInv, ClearOK
  <2>2. {total, oldest} \subseteq Nat /\ DOMAIN rec = oldest .. total - 1
    BY DEF IInv, LogOK
  <2>3. 0 <= total /\ \A s \in DOMAIN rec : ~(s < 0)
    BY <2>2
  <2> QED
    BY <1>1, <2>1, <2>2, <2>3 DEF DbOK, CursorOK, Holds, SameLog
<1>4. LogOK' /\ DoneOK'
  BY <1>1, SameLogOK, SameDoneOK DEF IInv
<1>5. LinesOK' /\ EngFields' /\ ClearOK'
  BY <1>1, <1>2 DEF IInv, LinesOK, EngFields, ClearOK, SameLog
<1>6. Idle'
  BY <1>1, <1>2 DEF Idle, NoSync
<1> QED
  BY <1>1, <1>2, <1>3, <1>4, <1>5, <1>6 DEF IInv

LEMMA ForgetPreserves == IInv /\ Forget => IInv'
<1> SUFFICES ASSUME IInv, Forget
             PROVE  IInv'
  OBVIOUS
<1>1. /\ SameLog /\ UNCHANGED <<linked, clearing, cleared, down, up, queue, done, eng, pending, rows>>
      /\ ~linked /\ db' = [db EXCEPT !.cursor = 0, !.oldest = NoSeq, !.logId = NoId]
  BY DEF Forget, boardVars, logVars, SameLog
<1>2. ~eng.syncing /\ Idle
  BY <1>1 DEF IInv, Syncing
<1>3. DbOK'
  <2>1. DOMAIN db' = DOMAIN db /\ db'.cursor = 0 /\ db'.logId = NoId
    BY <1>1 DEF IInv, DbOK
  <2>2. id \in Nat /\ id # NoId /\ NoId \in Nat /\ NoId <= id
    BY DEF IInv, LogOK, NoId
  <2> QED
    BY <1>1, <2>1, <2>2 DEF IInv, DbOK, CursorOK, SameLog
<1>4. LogOK' /\ DoneOK'
  BY <1>1, SameLogOK, SameDoneOK DEF IInv
<1>5. LinesOK' /\ EngFields' /\ ClearOK' /\ Idle'
  BY <1>1, <1>2 DEF IInv, LinesOK, EngFields, ClearOK, Idle, SameLog
<1> QED
  BY <1>1, <1>2, <1>3, <1>4, <1>5 DEF IInv

-----------------------------------------------------------------------------
LEMMA StutterPreserves == IInv /\ UNCHANGED vars => IInv'
<1> SUFFICES ASSUME IInv, UNCHANGED vars
             PROVE  IInv'
  OBVIOUS
<1>1. /\ SameLog /\ SameStore
      /\ UNCHANGED <<linked, clearing, cleared, down, up, queue, done, eng, pending>>
  BY DEF vars, boardVars, logVars, phoneVars, SameLog, SameStore
<1>2. LogOK' /\ DbOK' /\ DoneOK'
  BY <1>1, SameLogOK, SameDbOK, SameDoneOK DEF IInv, SameStore
<1>3. eng.syncing => Syncing'
  BY <1>1, SameSyncing DEF IInv, SameStore
<1> QED
  BY <1>1, <1>2, <1>3 DEF IInv, LinesOK, EngFields, ClearOK, Idle, NoSync, SameLog

LEMMA StepPreserves == ASSUME Orderly PROVE IInv /\ [Next]_vars => IInv'
<1> SUFFICES ASSUME IInv, [Next]_vars
             PROVE  IInv'
  OBVIOUS
<1>1. CASE ContactEnds
  BY <1>1, EndPreserves
<1>2. CASE Board
  BY <1>2, SavePreserves, StartClearPreserves, FinishClearPreserves, AnswerPreserves DEF Board
<1>3. CASE Restarts
  BY <1>3, RestartsPreserves
<1>4. CASE Link
  BY <1>4, ConnectPreserves, DisconnectPreserves, GiveUpPreserves, AnswerArrives, ClearedArrives DEF Link
<1>5. CASE Sync
  BY <1>5, SyncNowPreserves, IgnorePreserves, RecordPreserves, RestartPreserves, CutPreserves,
     DonePreserves, StorePreserves, FinishPreserves, TimeoutPreserves DEF Sync
<1>6. CASE App
  BY <1>6, ResetPreserves, SyncClearedPreserves, ForgetPreserves DEF App
<1>7. CASE UNCHANGED vars
  BY <1>7, StutterPreserves
<1> QED
  BY <1>1, <1>2, <1>3, <1>4, <1>5, <1>6, <1>7 DEF Next

\* A phone that says it is up to date is: no record a receiver still holds is
\* below the cursor and missing (SyncEngine, emit_log).
THEOREM NothingSkipped ==
  ASSUME Orderly
  PROVE  Spec => []NoSkip
<1>1. Init => IInv
  BY InitIndInv
<1>2. IInv /\ [Next]_vars => IInv'
  BY StepPreserves
<1>3. IInv => NoSkip
  BY DEF IInv, DbOK, CursorOK, Holds, NoSkip
<1> QED
  BY <1>1, <1>2, <1>3, PTL DEF Spec
-----------------------------------------------------------------------------
(* Where the cursor goes *)

\* What a sync asks from: the stored cursor, or, in a new epoch, the oldest
\* record of a log that is another one. It receives nothing below that.
From ==
  /\ eng.restarted => eng.epoch > db.epoch
  /\ ~eng.restarted => eng.epoch = db.epoch /\ eng.cursor = db.cursor
  /\ \A k \in DOMAIN pending : k[1] = eng.epoch /\ eng.cursor <= k[2]

\* The records from a up to b are stored, but for those that rotated out of
\* the log of a reply m.
Covered(a, b, m) ==
  \A s \in Nat : a <= s /\ s < b => <<eng.epoch, s>> \in DOMAIN rows \/ (s < m.oldest /\ eng.gap)

\* What the cursor of a reply m is about to move over.
CursorMoves(m) ==
  /\ {m.oldest, m.next} \subseteq Nat /\ eng.epoch >= db.epoch
  /\ eng.epoch = db.epoch => db.cursor <= m.next /\ Covered(db.cursor, m.next, m)
  /\ eng.epoch > db.epoch => Covered(m.oldest, m.next, m)

Moves ==
  /\ {db.epoch, eng.epoch} \subseteq Nat
  /\ eng.syncing /\ done = NoDone => From
  /\ done # NoDone => cleared = NoClear
  /\ done.at = "store" /\ ~eng.failed => CursorMoves(done.msg)

LEMMA SameMoves ==
  Moves /\ SameStore /\ UNCHANGED <<done, cleared, eng, pending>> => Moves'
BY DEF Moves, From, CursorMoves, Covered, SameStore

\* A sync that is over moves no cursor.
LEMMA OverMoves ==
  ASSUME Moves, db'.epoch = db.epoch, eng'.epoch = eng.epoch, eng'.syncing = FALSE, done' = NoDone
  PROVE  Moves'
BY DEF Moves, NoDone

\* A cursor on its way to the database does not need the sync any more.
LEMMA AbortMoves ==
  ASSUME IInv, Moves, Abort, SameStore, done' = done, cleared' = cleared \/ done = NoDone
  PROVE  Moves'
<1>1. eng'.syncing = FALSE /\ UNCHANGED <<eng.epoch, eng.failed, eng.gap>>
  BY DEF IInv, Abort, Finished, EngFields
<1> QED
  BY <1>1 DEF Moves, CursorMoves, Covered, SameStore, NoDone

LEMMA StartMoves ==
  ASSUME IInv, Moves, StartSync, ~eng.syncing, linked, SameStore, done' = done
  PROVE  Moves'
<1>1. done = NoDone
  BY DEF IInv, Idle
<1>2. /\ eng'.epoch = db.epoch /\ eng'.cursor = db.cursor /\ eng'.restarted = FALSE
      /\ pending' = NoRows
  BY DEF StartSync
<1> QED
  BY <1>1, <1>2 DEF Moves, From, SameStore, NoRows, NoDone

\* The records of a reply are from its cursor up.
LEMMA FirstRecord ==
  ASSUME IInv, HandleRecord, NEW m, m = Head(queue)
  PROVE  GoodRecord(m)
<1>1. eng.syncing /\ queue # <<>> /\ m.type = "log"
  BY DEF HandleRecord, Next1
<1>2. Replied
  BY <1>1 DEF IInv, Syncing, Asked, Ending
<1>3. PICK r : r = queue \o up
  OBVIOUS
<1>4. r \in Seq(Msg) /\ r # <<>> /\ r[1] = m /\ InReply(r)
  BY <1>1, <1>2, <1>3, TailJoined DEF IInv, LinesOK, Replied
<1>5. 1 \in DOMAIN r
  BY <1>4
<1> QED
  BY <1>1, <1>4, <1>5 DEF InReply, GoodDone

LEMMA RecordMoves == IInv /\ Moves /\ HandleRecord => Moves'
<1> SUFFICES ASSUME IInv, Moves, HandleRecord
             PROVE  Moves'
  OBVIOUS
<1>1. PICK m : m = Head(queue)
  OBVIOUS
<1>2. GoodRecord(m)
  BY <1>1, FirstRecord
<1>3. /\ SameStore /\ UNCHANGED <<done, cleared, eng>> /\ eng.syncing /\ done = NoDone
      /\ pending' = Over([k \in {<<eng.epoch, m.seq>>} |-> m.who], pending)
  BY <1>1 DEF HandleRecord, Next1, SameStore
<1>4. DOMAIN pending' = {<<eng.epoch, m.seq>>} \union DOMAIN pending
  BY <1>3 DEF Over
<1>5. \A k \in DOMAIN pending' : k[1] = eng.epoch /\ eng.cursor <= k[2]
  BY <1>2, <1>3, <1>4 DEF Moves, From, GoodRecord
<1>6. From'
  BY <1>3, <1>5 DEF Moves, From, SameStore
<1> QED
  BY <1>3, <1>6 DEF Moves, SameStore, NoDone

LEMMA RestartMoves == IInv /\ Moves /\ Restart => Moves'
<1> SUFFICES ASSUME IInv, Moves, Restart
             PROVE  Moves'
  OBVIOUS
<1>1. /\ SameStore /\ UNCHANGED <<done, cleared>> /\ eng.syncing /\ done = NoDone /\ ~eng.restarted
      /\ eng'.restarted = TRUE /\ eng'.epoch = eng.epoch + 1 /\ pending' = NoRows
  BY DEF Restart, Next1, SameStore, IInv, EngFields
<1>2. eng.epoch = db.epoch /\ {eng.epoch, db.epoch} \subseteq Nat
  BY <1>1 DEF Moves, From
<1>3. eng'.epoch > db.epoch /\ eng'.epoch \in Nat
  BY <1>1, <1>2
<1> QED
  BY <1>1, <1>2, <1>3 DEF Moves, From, SameStore, NoRows, NoDone

\* What is asked again is asked from where it was.
LEMMA AgainMoves ==
  ASSUME IInv, Moves, eng.syncing, done = NoDone, UNCHANGED <<done, cleared, db>>,
         \/ AskAgain
         \/ Flush(Finished(eng))
         \/ eng' = Finished(eng)
  PROVE  Moves'
<1>1. CASE AskAgain
  <2> DEFINE e == [eng EXCEPT !.retries = @ + 1]
  <2>1. Flush(e)
    BY <1>1 DEF AskAgain
  <2>2. e.cursor = eng.cursor /\ e.epoch = eng.epoch /\ e.restarted = eng.restarted
    BY DEF IInv, EngFields
  <2> HIDE DEF e
  <2>3. UNCHANGED <<eng.cursor, eng.epoch, eng.restarted>> /\ pending' = NoRows
    BY <2>1, <2>2, FlushedRound
  <2> QED
    BY <2>3 DEF Moves, From, NoRows, NoDone
<1> DEFINE f == Finished(eng)
<1>2. f.syncing = FALSE /\ f.epoch = eng.epoch
  BY DEF IInv, EngFields, Finished
<1> HIDE DEF f
<1>3. CASE Flush(f) \/ eng' = f
  <2>1. eng'.syncing = FALSE /\ eng'.epoch = eng.epoch
    BY <1>2, <1>3, FlushedRound
  <2> QED
    BY <2>1, OverMoves
<1> QED
  BY <1>1, <1>3 DEF f

\* A whole reply, all of it stored, covers what its cursor moves over.
LEMMA DoneMoves == IInv /\ Moves /\ HandleDone => Moves'
<1> SUFFICES ASSUME IInv, Moves, HandleDone
             PROVE  Moves'
  OBVIOUS
<1>1. PICK m : m = Head(queue)
  OBVIOUS
<1> DEFINE e == [eng EXCEPT !.gap = Gap(eng, m)]
<1>2. /\ cleared' = cleared /\ db' = db /\ eng.syncing /\ Next1("log_done") /\ ~m.cut
      /\ eng.restarted \/ ~OtherLog(eng, m)
      /\ Flush(e) /\ done' = [at |-> "store", msg |-> m]
  BY <1>1 DEF HandleDone
<1>3. /\ Syncing /\ done = NoDone /\ GoodDone(m) /\ From
      /\ \A s \in Nat : eng.cursor <= s /\ m.oldest <= s /\ s < m.next => <<eng.epoch, s>> \in DOMAIN pending
  BY <1>1, <1>2, LastLine DEF Moves
<1>4. e.epoch = eng.epoch /\ e.gap = Gap(eng, m) /\ DOMAIN e = DOMAIN eng
  BY DEF IInv, EngFields
<1> HIDE DEF e
<1>5. eng'.epoch = eng.epoch /\ eng'.gap = Gap(eng, m) /\ (~eng'.failed => rows' = Over(pending, rows))
  BY <1>2, <1>4, FlushedRound DEF IInv, EngFields
<1>6. {m.oldest, m.next, eng.cursor, db.cursor, db.epoch, eng.epoch} \subseteq Nat /\ m.next = m.total
  BY <1>2, <1>3 DEF GoodDone, Syncing, EngOK, CursorOK, IInv, DbOK, Moves
<1>7. ASSUME ~eng'.failed, NEW s \in Nat, eng.cursor <= s, s < m.next
      PROVE  <<eng.epoch, s>> \in DOMAIN rows' \/ (s < m.oldest /\ eng'.gap)
  <2>1. CASE m.oldest <= s
    BY <1>3, <1>5, <1>7, <2>1 DEF Over
  <2>2. CASE ~(m.oldest <= s)
    <3>1. s < m.oldest /\ m.oldest > eng.cursor
      BY <1>6, <1>7, <2>2
    <3> QED
      BY <1>5, <3>1 DEF Gap
  <2> QED
    BY <2>1, <2>2
<1>8. CASE ~eng.restarted
  <2>1. eng.epoch = db.epoch /\ eng.cursor = db.cursor /\ ~(eng.cursor > m.total)
    BY <1>2, <1>3, <1>8 DEF From, OtherLog
  <2>2. db.cursor <= m.next
    BY <1>6, <2>1
  <2>3. ~eng'.failed => CursorMoves(m)'
    BY <1>2, <1>5, <1>6, <1>7, <2>1, <2>2 DEF CursorMoves, Covered
  <2> QED
    BY <1>2, <1>3, <1>5, <1>6, <2>3 DEF Moves, Syncing, NoDone
<1>9. CASE eng.restarted
  <2>1. eng.epoch > db.epoch /\ eng.cursor <= m.oldest
    BY <1>3, <1>9 DEF From, GoodDone
  <2>2. \A s \in Nat : m.oldest <= s => eng.cursor <= s
    BY <1>6, <2>1
  <2>3. eng.epoch # db.epoch /\ eng.epoch >= db.epoch
    BY <1>6, <2>1
  <2>4. ~eng'.failed => CursorMoves(m)'
    BY <1>2, <1>5, <1>6, <1>7, <2>1, <2>2, <2>3 DEF CursorMoves, Covered
  <2> QED
    BY <1>2, <1>3, <1>5, <1>6, <2>4 DEF Moves, Syncing, NoDone
<1> QED
  BY <1>8, <1>9

LEMMA StoreMoves == IInv /\ Moves /\ StoreCursor => Moves'
<1> SUFFICES ASSUME IInv, Moves, StoreCursor
             PROVE  Moves'
  OBVIOUS
<1>1. done.at = "store" /\ done # NoDone /\ DOMAIN done = {"at", "msg"} /\ cleared' = cleared
  BY DEF StoreCursor, IInv, DoneOK, NoDone
<1>2. CASE eng.failed
  <2>1. eng'.syncing = FALSE /\ eng'.epoch = eng.epoch /\ done' = NoDone /\ db' = db
    BY <1>2 DEF StoreCursor, Finished, IInv, EngFields
  <2> QED
    BY <2>1, OverMoves
<1>3. CASE ~eng.failed
  <2>1. db'.epoch = eng.epoch /\ eng' = eng /\ done'.at = "finish" /\ done' # NoDone
    BY <1>1, <1>3 DEF StoreCursor, NoDone
  <2> QED
    BY <1>1, <2>1 DEF Moves
<1> QED
  BY <1>2, <1>3

LEMMA AppMoves == IInv /\ Moves /\ App => Moves'
<1> SUFFICES ASSUME IInv, Moves, App
             PROVE  Moves'
  OBVIOUS
<1>1. CASE ResetDetectorLog
  <2>1. cleared # NoClear /\ db'.epoch = db.epoch + 1 /\ eng' = eng /\ done' = done
    BY <1>1 DEF ResetDetectorLog, NoClear
  <2>2. done = NoDone /\ ~eng.syncing
    BY <2>1 DEF Moves, IInv, Syncing
  <2> QED
    BY <2>1, <2>2 DEF Moves, NoDone
<1>2. CASE SyncCleared
  <2>1. SameStore /\ done' = done /\ cleared # NoClear /\ cleared' = NoClear
    BY <1>2 DEF SyncCleared, SameStore, NoClear
  <2>2. CASE linked /\ ~eng.syncing
    BY <1>2, <2>1, <2>2, StartMoves DEF SyncCleared
  <2>3. CASE ~(linked /\ ~eng.syncing)
    <3>1. UNCHANGED <<eng, pending>>
      BY <1>2, <2>3 DEF SyncCleared
    <3> QED
      BY <2>1, <3>1 DEF Moves, From, CursorMoves, Covered, SameStore
  <2> QED
    BY <2>2, <2>3
<1>3. CASE Forget
  <2>1. db'.epoch = db.epoch /\ eng' = eng /\ done' = done /\ done = NoDone /\ ~linked
    BY <1>3 DEF Forget, IInv, DbOK
  <2>2. ~eng.syncing
    BY <2>1 DEF IInv, Syncing
  <2> QED
    BY <2>1, <2>2 DEF Moves, NoDone
<1> QED
  BY <1>1, <1>2, <1>3 DEF App

LEMMA LinkMoves == IInv /\ Moves /\ (Disconnect \/ Restarts \/ DeliverCleared) => Moves'
<1> SUFFICES ASSUME IInv, Moves, Disconnect \/ Restarts \/ DeliverCleared
             PROVE  Moves'
  OBVIOUS
<1>1. CASE Disconnect \/ Restarts
  <2>1. Abort /\ SameStore /\ UNCHANGED <<done, cleared>>
    BY <1>1 DEF Disconnect, Restarts, LinkLost, SameStore
  <2> QED
    BY <2>1, AbortMoves
<1>2. CASE DeliverCleared
  <2>1. Abort /\ SameStore /\ done' = done /\ up # <<>> /\ ~IsAnswer(Head(up))
    BY <1>2 DEF DeliverCleared, SameStore
  <2>2. done = NoDone
    BY <2>1 DEF IInv, Syncing, Asked, Replied, Ending, Idle
  <2> QED
    BY <2>1, <2>2, AbortMoves
<1> QED
  BY <1>1, <1>2

LEMMA MovesPreserved == ASSUME Orderly PROVE IInv /\ Moves /\ [Next]_vars => Moves'
<1> SUFFICES ASSUME IInv, Moves, [Next]_vars
             PROVE  Moves'
  OBVIOUS
<1>1. CASE ContactEnds \/ Board \/ Ignore \/ Connect \/ DeliverAnswer \/ UNCHANGED vars
  <2>1. SameStore /\ UNCHANGED <<done, cleared, eng, pending>>
    BY <1>1 DEF ContactEnds, Board, TimedSave, StartClear, FinishClear, AnswerLogGet, Ignore, Connect,
                DeliverAnswer, vars, phoneVars, SameStore
  <2> QED
    BY <2>1, SameMoves
<1>2. CASE Restarts \/ Disconnect \/ DeliverCleared
  BY <1>2, LinkMoves
<1>3. CASE GiveUp
  BY <1>3, GiveUpPreserves
<1>4. CASE SyncNow
  BY <1>4, StartMoves DEF SyncNow, SameStore
<1>5. CASE HandleCut
  BY <1>5, AgainMoves DEF HandleCut, Next1
<1>6. CASE Timeout
  BY <1>6, AgainMoves DEF Timeout, Unanswered, Orderly
<1>7. CASE FinishDone
  <2>1. eng'.syncing = FALSE /\ eng'.epoch = eng.epoch /\ done' = NoDone /\ db' = db
    BY <1>7 DEF FinishDone, Finished, IInv, EngFields
  <2> QED
    BY <2>1, OverMoves
<1>8. CASE HandleRecord \/ Restart \/ HandleDone \/ StoreCursor \/ App
  BY <1>8, RecordMoves, RestartMoves, DoneMoves, StoreMoves, AppMoves
<1> QED
  BY <1>1, <1>2, <1>3, <1>4, <1>5, <1>6, <1>7, <1>8 DEF Next, Link, Sync

-----------------------------------------------------------------------------
\* Only a flush writes records, and it is of a sync.
LEMMA Writes ==
  ASSUME Orderly, IInv, [Next]_vars
  PROVE  \/ StoreCursor \/ ResetDetectorLog \/ Forget
         \/ SameStore
         \/ db' = db /\ rows' = Over(pending, rows) /\ eng.syncing /\ done = NoDone
<1>1. CASE ContactEnds \/ Board \/ Restarts \/ Link \/ UNCHANGED vars
  <2>1. SameStore
    BY <1>1 DEF ContactEnds, Board, TimedSave, StartClear, FinishClear, AnswerLogGet, Restarts, Link,
                Connect, Disconnect, LinkLost, GiveUp, DeliverAnswer, DeliverCleared, vars, phoneVars, SameStore
  <2> QED
    BY <2>1
<1>2. CASE SyncNow \/ Ignore \/ HandleRecord \/ Restart \/ FinishDone \/ SyncCleared
  <2>1. SameStore
    BY <1>2 DEF SyncNow, Ignore, HandleRecord, Restart, FinishDone, SyncCleared, SameStore
  <2> QED
    BY <2>1
<1>3. CASE HandleCut \/ HandleDone
  <2>1. db' = db /\ (rows' = rows \/ rows' = Over(pending, rows)) /\ eng.syncing /\ done = NoDone
    BY <1>3 DEF HandleCut, HandleDone, AskAgain, Flush, Next1
  <2> QED
    BY <2>1 DEF SameStore
<1>4. CASE Timeout
  <2>1. db' = db /\ (rows' = rows \/ rows' = Over(pending, rows)) /\ eng.syncing /\ done = NoDone
    BY <1>4 DEF Timeout, AskAgain, Flush, Unanswered, Orderly
  <2> QED
    BY <2>1 DEF SameStore
<1> QED
  BY <1>1, <1>2, <1>3, <1>4 DEF Next, Sync, App

LEMMA MovesRight == ASSUME Orderly PROVE IInv /\ Moves /\ [Next]_vars => CursorMove
<1> SUFFICES ASSUME IInv, Moves, [Next]_vars
             PROVE  CursorMove
  OBVIOUS
<1>1. {db.cursor, db.epoch, eng.epoch} \subseteq Nat
  BY DEF IInv, DbOK, CursorOK, Moves
<1>2. ASSUME db' = db
      PROVE  /\ ~(db'.cursor < db.cursor) /\ db'.epoch = db.epoch
             /\ \A s \in 0 .. db'.cursor - 1 : ~(s >= db.cursor)
  BY <1>1, <1>2
<1>3. CASE SameStore
  BY <1>2, <1>3 DEF SameStore, CursorMove, Kept
<1>4. CASE db' = db /\ rows' = Over(pending, rows) /\ eng.syncing /\ done = NoDone
  <2>1. From /\ PendingOK /\ Syncing
    BY <1>4 DEF Moves, IInv, Syncing
  <2>2. \A k \in DOMAIN pending : ~Confirmed(k)
    <3> TAKE k \in DOMAIN pending
    <3>1. k[1] = eng.epoch /\ eng.cursor <= k[2] /\ k[2] \in Nat /\ eng.cursor \in Nat
      BY <2>1 DEF From, PendingOK, Syncing, EngOK, CursorOK
    <3>2. CASE eng.restarted
      <4>1. eng.epoch > db.epoch
        BY <2>1, <3>2 DEF From
      <4> QED
        BY <1>1, <3>1, <4>1 DEF Confirmed
    <3>3. CASE ~eng.restarted
      <4>1. eng.epoch = db.epoch /\ eng.cursor = db.cursor
        BY <2>1, <3>3 DEF From
      <4> QED
        BY <1>1, <3>1, <4>1 DEF Confirmed
    <3> QED
      BY <3>2, <3>3
  <2>3. \A k \in DOMAIN rows : Confirmed(k) => Kept(k)
    BY <1>4, <2>2 DEF Kept, Over
  <2> QED
    BY <1>2, <1>4, <2>3 DEF CursorMove
<1>5. CASE StoreCursor
  <2>1. done.at = "store" /\ rows' = rows
    BY <1>5 DEF StoreCursor
  <2>2. CASE eng.failed
    BY <1>2, <1>5, <2>1, <2>2 DEF StoreCursor, CursorMove, Kept
  <2>3. CASE ~eng.failed
    <3>1. PICK m : m = done.msg
      OBVIOUS
    <3>2. /\ db'.cursor = m.next /\ db'.epoch = eng.epoch /\ db'.oldest = m.oldest
          /\ eng.gap => db'.gap
      <4>1. db' = [cursor |-> m.next, epoch |-> eng.epoch, logId |-> m.id, oldest |-> m.oldest,
                   gap |-> db.gap \/ eng.gap]
        BY <1>5, <2>3, <3>1 DEF StoreCursor
      <4>2. db'.gap = (db.gap \/ eng.gap)
        BY <4>1
      <4>3. eng.gap => db'.gap
        BY <4>2, Zenon
      <4> QED
        BY <4>1, <4>3
    <3>3. CursorMoves(m)
      BY <2>1, <2>3, <3>1 DEF Moves
    <3>4. \A s \in 0 .. db'.cursor - 1 : s \in Nat /\ s < m.next
      BY <3>2, <3>3 DEF CursorMoves
    <3>5. \A k \in DOMAIN rows : Kept(k)
      BY <2>1 DEF Kept
    <3>6. CASE eng.epoch = db.epoch
      <4>1. db.cursor <= m.next /\ Covered(db.cursor, m.next, m) /\ m.next \in Nat
        BY <3>3, <3>6 DEF CursorMoves
      <4>2. ~(db'.cursor < db.cursor)
        BY <1>1, <3>2, <4>1
      <4>3. \A s \in 0 .. db'.cursor - 1 : s >= db.cursor => db.cursor <= s
        BY <1>1
      <4> QED
        BY <2>1, <3>2, <3>4, <3>5, <3>6, <4>1, <4>2, <4>3 DEF CursorMove, Covered
    <3>7. CASE eng.epoch # db.epoch
      <4>1. eng.epoch > db.epoch /\ Covered(m.oldest, m.next, m) /\ m.oldest \in Nat
        BY <1>1, <3>3, <3>7 DEF CursorMoves
      <4>2. \A s \in 0 .. db'.cursor - 1 : s >= m.oldest => m.oldest <= s
        BY <4>1
      <4> QED
        BY <2>1, <3>2, <3>4, <3>5, <3>7, <4>1, <4>2 DEF CursorMove, Covered
    <3> QED
      BY <3>6, <3>7
  <2> QED
    BY <2>2, <2>3
<1>6. CASE ResetDetectorLog \/ Forget
  <2>1. db'.cursor = 0 /\ rows' = rows /\ (db'.epoch = db.epoch + 1 \/ db'.logId = NoId)
    <3>1. CASE ResetDetectorLog
      BY <3>1 DEF ResetDetectorLog
    <3>2. CASE Forget
      <4>1. rows' = rows /\ db' = [db EXCEPT !.cursor = 0, !.oldest = NoSeq, !.logId = NoId]
        BY <3>2 DEF Forget
      <4> QED
        BY <4>1 DEF IInv, DbOK
    <3> QED
      BY <1>6, <3>1, <3>2
  <2>2. 0 .. db'.cursor - 1 = {} /\ (db'.epoch = db.epoch + 1 => db'.epoch > db.epoch)
    BY <1>1, <2>1
  <2> QED
    BY <2>1, <2>2 DEF CursorMove, Kept
<1> QED
  BY <1>3, <1>4, <1>5, <1>6, Writes

\* A cursor moves over nothing but what is stored or remembered as a gap; what
\* it has confirmed stays as it is; and it goes back only into a new epoch
\* (SyncEngine, AppController._onLogCleared, forgetDetector).
THEOREM CursorMovesRight ==
  ASSUME Orderly
  PROVE  Spec => CursorRight
<1>1. Init => IInv /\ Moves
  <2>1. Init => Moves
    BY DEF Init, Moves, NoDone
  <2> QED
    BY <2>1, InitIndInv
<1>2. IInv /\ Moves /\ [Next]_vars => IInv' /\ Moves'
  BY StepPreserves, MovesPreserved
<1>3. IInv /\ Moves /\ [Next]_vars => CursorMove
  BY MovesRight
<1> QED
  BY <1>1, <1>2, <1>3, PTL DEF Spec, CursorRight

-----------------------------------------------------------------------------
(* What everything is of (TypeOK), in disorder too *)

Cursors == 0 .. MaxTotal
LogHeld(t, o, r) == t \in 0 .. MaxTotal /\ o \in 0 .. t /\ t - o <= LogMax /\ r \in [o .. t - 1 -> Contact]

RecordLines == [type : {"log"}, seq : Cursors, who : Contact]
DoneLines == [type : {"log_done"}, total : Cursors, next : Cursors, oldest : Cursors, id : LogId, cut : BOOLEAN]
ClearedLines == [type : {"log_cleared"}, id : LogId]
Lines == RecordLines \union DoneLines \union ClearedLines

Engine(e) ==
  /\ DOMAIN e = {"syncing", "cursor", "epoch", "logId", "knownOldest", "restarted", "gap", "failed", "retries"}
  /\ e.cursor \in Cursors /\ e.retries \in 0 .. MaxRetries

LogTyped == id \in LogId /\ LogHeld(total, oldest, rec) /\ saved.id \in LogId \union {NoId} /\ LogHeld(saved.total, saved.oldest, saved.rec)
SerialTyped == up \in Seq(Lines) /\ queue \in Seq(Lines) /\ down \in Seq(Cursors)
AppTyped ==
  /\ Engine(eng) /\ DOMAIN db = {"cursor", "epoch", "logId", "oldest", "gap"} /\ db.cursor \in Cursors
  /\ done.at \in {"none", "store", "finish"} /\ (done.at # "none" => DOMAIN done = {"at", "msg"} /\ done.msg.next \in Cursors)
  /\ cleared.at \in {"none", "reset", "sync"}
StoredTyped == (\A k \in DOMAIN rows : rows[k] \in Contact) /\ (\A k \in DOMAIN pending : pending[k] \in Contact)
LinkTyped == linked \in BOOLEAN /\ clearing \in BOOLEAN /\ (~linked => up = <<>> /\ ~eng.syncing)

SyncTypes == LogTyped /\ SerialTyped /\ AppTyped /\ StoredTyped /\ LinkTyped

LEMMA SyncTypesStart == Init => SyncTypes
<1> SUFFICES ASSUME Init PROVE SyncTypes
  OBVIOUS
<1>1. LogHeld(0, 0, NoRecords)
  BY LogMaxAssumption, MaxTotalAssumption DEF LogHeld, NoRecords
<1>2. LogTyped
  BY <1>1, IdSpaceAssumption DEF Init, LogTyped, LogId, Unsaved, Image, NoId
<1>3. SerialTyped /\ LinkTyped
  <2>1. up = <<>> /\ queue = <<>> /\ down = <<>> /\ linked = FALSE /\ clearing = FALSE /\ eng.syncing = FALSE
    BY DEF Init
  <2>2. <<>> \in Seq(Lines) /\ <<>> \in Seq(Cursors)
    OBVIOUS
  <2>3. SerialTyped
    BY <2>1, <2>2 DEF SerialTyped
  <2> QED
    BY <2>1, <2>3 DEF LinkTyped
<1>4. AppTyped
  BY MaxTotalAssumption, RetriesAssumption DEF Init, AppTyped, Engine, Cursors, NoDone, NoClear
<1>5. StoredTyped
  BY DEF Init, StoredTyped, NoRows
<1> QED
  BY <1>2, <1>3, <1>4, <1>5 DEF SyncTypes

-----------------------------------------------------------------------------
(* The log *)

LEMMA OneMoreEnded == ASSUME NEW c \in Contact, LogHeld(total, oldest, rec), End(c) PROVE LogHeld(total', oldest', rec')
<1>1. total \in Nat /\ oldest \in Nat /\ oldest <= total /\ total + 1 <= MaxTotal /\ total - oldest <= LogMax /\ DOMAIN rec = oldest .. total - 1
  BY MaxTotalAssumption DEF LogHeld, End
<1>2. \A s \in oldest .. total - 1 : rec[s] \in Contact
  BY DEF LogHeld
<1>3. total' = total + 1 /\ oldest' \in {oldest, oldest + 1} /\ (total - oldest = LogMax => oldest' = oldest + 1)
      /\ (total - oldest # LogMax => oldest' = oldest)
  BY DEF End
<1>4. total' \in 0 .. MaxTotal /\ oldest' \in 0 .. total' /\ total' - oldest' <= LogMax
  <2>0. LogMax \in Nat /\ LogMax >= 1 /\ MaxTotal \in Nat
    BY LogMaxAssumption, MaxTotalAssumption
  <2>1. CASE total - oldest = LogMax
    BY <2>0, <2>1, <1>1, <1>3
  <2>2. CASE total - oldest # LogMax
    BY <2>0, <2>2, <1>1, <1>3
  <2> QED
    BY <2>1, <2>2
<1>5. rec' \in [oldest' .. total' - 1 -> Contact]
  <2>1. total' - 1 = total /\ oldest' .. total' - 1 = oldest' .. total
    BY <1>1, <1>3
  <2>2. \A s \in oldest' .. total : s # total => s \in oldest .. total - 1
    BY <1>1, <1>3
  <2>3. rec' = [s \in oldest' .. total |-> IF s = total THEN c ELSE rec[s]]
    BY DEF End
  <2> HIDE <1>1, <1>3
  <2> QED
    BY <2>1, <2>2, <2>3, <1>2
<1> QED
  BY <1>4, <1>5 DEF LogHeld

LEMMA LogTypedStep == LogTyped /\ [Next]_vars => LogTyped'
<1> SUFFICES ASSUME LogTyped, [Next]_vars PROVE LogTyped'
  OBVIOUS
<1>1. CASE UNCHANGED logVars
  BY <1>1 DEF logVars, LogTyped
<1>2. CASE ContactEnds
  <2>1. ended + 1 \in Contact /\ End(ended + 1)
    BY <1>2 DEF ContactEnds
  <2>2. LogHeld(total', oldest', rec')
    BY <2>1, OneMoreEnded DEF LogTyped
  <2> QED
    BY <2>1, <2>2 DEF LogTyped, End
<1>3. CASE TimedSave \/ FinishClear
  BY <1>3 DEF TimedSave, FinishClear, Save, Image, LogTyped
<1>4. CASE StartClear
  <2>1. id' = NextId(id) /\ id + 1 < IdSpace /\ id \in Nat /\ id # 0 /\ IdSpace \in Nat
    BY <1>4, IdSpaceAssumption DEF StartClear, Clear, LogTyped, LogId
  <2>2. (id + 1) % IdSpace = id + 1
    BY <2>1
  <2>3. id' \in LogId
    BY <2>1, <2>2 DEF NextId, LogId
  <2>4. LogHeld(0, 0, NoRecords)
    BY LogMaxAssumption, MaxTotalAssumption DEF LogHeld, NoRecords
  <2> QED
    BY <1>4, <2>3, <2>4 DEF StartClear, Clear, LogTyped
<1>5. CASE Restarts
  BY <1>5 DEF Restarts, PowerCut, LogTyped, NoId
<1> QED
  <2>1. AnswerLogGet \/ Link \/ Sync \/ App \/ UNCHANGED vars => UNCHANGED logVars
    BY DEF AnswerLogGet, Link, Sync, App, vars, boardVars, Connect, Disconnect, GiveUp, DeliverAnswer, DeliverCleared,
           SyncNow, Ignore, HandleRecord, Restart, HandleCut, HandleDone, StoreCursor, FinishDone, Timeout,
           ResetDetectorLog, SyncCleared, Forget
  <2> QED
    BY <2>1, <1>1, <1>2, <1>3, <1>4, <1>5 DEF Next, Board

-----------------------------------------------------------------------------
(* The lines *)

LEMMA EmptyOf == ASSUME NEW S PROVE <<>> \in Seq(S)
OBVIOUS

LEMMA OneMoreOf == ASSUME NEW S, NEW q \in Seq(S), NEW x \in S PROVE Append(q, x) \in Seq(S)
OBVIOUS

LEMMA IsOf == ASSUME NEW S, NEW q \in Seq(S) PROVE \A i \in DOMAIN q : q[i] \in S
OBVIOUS

LEMMA RestOf == ASSUME NEW S, NEW q \in Seq(S), q # <<>> PROVE Tail(q) \in Seq(S) /\ Head(q) \in S
OBVIOUS

LEMMA WithoutOne == ASSUME NEW S, NEW q \in Seq(S), NEW i \in DOMAIN q PROVE RemoveAt(q, i) \in Seq(S)
<1>1. i \in 1 .. Len(q) /\ Len(q) \in Nat
  OBVIOUS
<1>2. SubSeq(q, 1, i - 1) \in Seq(S) /\ SubSeq(q, i + 1, Len(q)) \in Seq(S)
  <2>1. \A k \in 1 .. i - 1 : q[k] \in S
    BY <1>1
  <2>2. \A k \in i + 1 .. Len(q) : q[k] \in S
    BY <1>1
  <2>3. i - 1 \in Int /\ i + 1 \in Int /\ 1 \in Int /\ Len(q) \in Int
    BY <1>1
  <2> QED
    BY <1>1, <2>1, <2>2, <2>3, SubSeqProperties
<1> QED
  BY <1>2 DEF RemoveAt

LEMMA AnswerTyped ==
  ASSUME LogTyped, NEW since \in Cursors, NEW from \in Nat, from >= oldest,
         NEW sent \in 0 .. (IF from < total THEN total - from ELSE 0), NEW cut \in BOOLEAN, NEW last \in BOOLEAN
  PROVE  [i \in 1 .. sent |-> Record(from + i - 1)] \in Seq(Lines) /\ (IF last THEN <<LogDone(since, cut)>> ELSE <<>>) \in Seq(Lines)
<1> DEFINE recs == [i \in 1 .. sent |-> Record(from + i - 1)]
           end == IF last THEN <<LogDone(since, cut)>> ELSE <<>>
<1>0. total \in Nat /\ oldest \in Nat /\ total <= MaxTotal /\ oldest <= total /\ sent \in Nat /\ rec \in [oldest .. total - 1 -> Contact]
  BY MaxTotalAssumption DEF LogTyped, LogHeld
<1>1. \A i \in 1 .. sent : from + i - 1 \in oldest .. total - 1
  BY <1>0
<1>2. \A s \in oldest .. total - 1 : Record(s) \in Lines
  <2>1. \A s \in oldest .. total - 1 : s \in Cursors /\ rec[s] \in Contact
    BY <1>0, MaxTotalAssumption DEF Cursors
  <2> QED
    BY <2>1 DEF Record, Lines, RecordLines
<1>3. recs \in Seq(Lines)
  BY <1>0, <1>1, <1>2
<1>4. LogDone(since, cut) \in Lines
  <2>1. total \in Cursors /\ oldest \in Cursors /\ id \in LogId
    BY <1>0, MaxTotalAssumption DEF Cursors, LogTyped
  <2> QED
    BY <2>1 DEF LogDone, Lines, DoneLines
<1>5. end \in Seq(Lines)
  BY <1>4
<1> QED
  BY <1>3, <1>5

LEMMA SerialTypedStep == SyncTypes /\ [Next]_vars => SerialTyped'
<1> SUFFICES ASSUME SyncTypes, [Next]_vars PROVE SerialTyped'
  OBVIOUS
<1> USE DEF SyncTypes, SerialTyped
<1>0. Engine(eng) /\ db.cursor \in Cursors
  BY DEF AppTyped
<1>1. CASE UNCHANGED <<up, queue, down>>
  BY <1>1
<1>2. CASE FinishClear
  <2>1. LogCleared \in Lines
    BY DEF LogTyped, LogCleared, Lines, ClearedLines
  <2>2. Append(up, LogCleared) \in Seq(Lines)
    BY <2>1
  <2> QED
    BY <1>2, <2>2 DEF FinishClear, phoneVars
<1>3. CASE AnswerLogGet
  <2> DEFINE since == Head(down)
             from == IF since > oldest THEN since ELSE oldest
             wanted == IF from < total THEN total - from ELSE 0
  <2>1. since \in Cursors /\ Tail(down) \in Seq(Cursors)
    BY <1>3, RestOf DEF AnswerLogGet
  <2>2. from \in Nat /\ from >= oldest
    <3>1. since \in Nat /\ oldest \in Nat
      BY <2>1, MaxTotalAssumption DEF Cursors, LogTyped, LogHeld
    <3> HIDE DEF since
    <3> QED
      BY <3>1
  <2>4. PICK sent \in 0 .. wanted, cut \in BOOLEAN, last \in BOOLEAN :
          up' = IF linked THEN up \o [i \in 1 .. sent |-> Record(from + i - 1)] \o (IF last THEN <<LogDone(since, cut)>> ELSE <<>>) ELSE up
    BY <1>3 DEF AnswerLogGet
  <2> DEFINE first == [i \in 1 .. sent |-> Record(from + i - 1)]
             end == IF last THEN <<LogDone(since, cut)>> ELSE <<>>
  <2>5. up' = up \/ up' = up \o first \o end
    BY <2>4
  <2>7. first \in Seq(Lines) /\ end \in Seq(Lines)
    <3> HIDE DEF from
    <3> QED
      BY <2>1, <2>2, AnswerTyped
  <2> HIDE DEF first, end
  <2>8. up \o first \in Seq(Lines)
    BY <2>7, ConcatProperties
  <2>9. up \o first \o end \in Seq(Lines)
    BY <2>7, <2>8, ConcatProperties
  <2> QED
    BY <2>1, <2>5, <2>9, <1>3 DEF AnswerLogGet, phoneVars
<1>4. CASE GiveUp
  BY <1>4, WithoutOne DEF GiveUp, phoneVars
<1>5. ASSUME NEW c \in Cursors, Ask(c) PROVE down' \in Seq(Cursors)
  BY <1>5 DEF Ask
<1>6. ASSUME NEW type, Next1(type) PROVE queue' \in Seq(Lines) /\ Head(queue) \in Lines
  BY <1>6, RestOf DEF Next1
<1>7. CASE Ignore \/ HandleRecord \/ HandleDone
  <2>1. queue' \in Seq(Lines)
    BY <1>6, <1>7 DEF Ignore, HandleRecord, HandleDone
  <2> QED
    BY <2>1, <1>7 DEF Ignore, HandleRecord, HandleDone
<1>8. CASE Restart
  <2>1. queue' \in Seq(Lines) /\ Head(queue) \in Lines /\ Head(queue).type = "log_done"
    BY <1>6, <1>8 DEF Restart, Next1
  <2>2. Head(queue).oldest \in Cursors
    BY <2>1 DEF Lines, RecordLines, DoneLines, ClearedLines
  <2> QED
    BY <2>1, <2>2, <1>5, <1>8 DEF Restart
<1>9. ASSUME AskAgain PROVE down' \in Seq(Cursors)
  BY <1>9, <1>0, <1>5 DEF AskAgain, Engine
<1>10. CASE HandleCut
  <2>1. queue' \in Seq(Lines)
    BY <1>6, <1>10 DEF HandleCut
  <2> QED
    BY <2>1, <1>9, <1>10 DEF HandleCut
<1>11. CASE Timeout
  BY <1>9, <1>11 DEF Timeout
<1>12. CASE SyncNow \/ SyncCleared
  BY <1>0, <1>5, <1>12 DEF SyncNow, SyncCleared, StartSync
<1>13. ASSUME LinkLost PROVE up' = <<>> /\ down' \in Seq(Cursors)
  <2>1. up' = <<>> /\ (down' = <<>> \/ down' = down)
    BY <1>13 DEF LinkLost
  <2>2. <<>> \in Seq(Cursors)
    BY EmptyOf
  <2> QED
    BY <2>1, <2>2
<1>14. CASE Disconnect \/ Restarts
  <2>1. queue' = queue /\ up' = <<>> /\ down' \in Seq(Cursors)
    BY <1>13, <1>14 DEF Disconnect, Restarts, LinkLost
  <2> QED
    BY <2>1
<1>15. CASE DeliverAnswer \/ DeliverCleared
  <2>1. Head(up) \in Lines /\ Tail(up) \in Seq(Lines)
    BY <1>15, RestOf DEF DeliverAnswer, DeliverCleared
  <2> QED
    <3>1. up' = Tail(up) /\ down' = down /\ (queue' = queue \/ queue' = Append(queue, Head(up)))
      BY <1>15 DEF DeliverAnswer, DeliverCleared
    <3>2. Append(queue, Head(up)) \in Seq(Lines)
      BY <2>1, OneMoreOf
    <3> QED
      BY <2>1, <3>1, <3>2
<1> QED
  <2>1. ContactEnds \/ TimedSave \/ StartClear \/ Connect \/ StoreCursor \/ FinishDone \/ ResetDetectorLog \/ Forget \/ UNCHANGED vars
        => UNCHANGED <<up, queue, down>>
    BY DEF ContactEnds, TimedSave, StartClear, Connect, StoreCursor, FinishDone, ResetDetectorLog, Forget, vars, phoneVars
  <2> QED
    BY <2>1, <1>1, <1>2, <1>3, <1>4, <1>7, <1>8, <1>10, <1>11, <1>12, <1>14, <1>15 DEF Next, Board, Link, Sync, App

-----------------------------------------------------------------------------
(* The phone *)

LEMMA Flushed ==
  ASSUME StoredTyped, NEW e, Engine(e), Flush(e)
  PROVE  Engine(eng') /\ eng'.syncing = e.syncing /\ StoredTyped'
<1>1. Engine([e EXCEPT !.failed = TRUE]) /\ [e EXCEPT !.failed = TRUE].syncing = e.syncing
  BY DEF Engine
<1>2. Engine(eng') /\ eng'.syncing = e.syncing
  BY <1>1 DEF Flush
<1>3. \A k \in DOMAIN Over(pending, rows) : Over(pending, rows)[k] \in Contact
  BY DEF Over, StoredTyped
<1>4. StoredTyped'
  BY <1>3 DEF Flush, StoredTyped, NoRows
<1> QED
  BY <1>2, <1>4

LEMMA Changed ==
  ASSUME Engine(eng)
  PROVE  /\ Engine(Finished(eng)) /\ Finished(eng).syncing = FALSE
         /\ \A c \in Cursors : Engine(Finished([eng EXCEPT !.cursor = c])) /\ Finished([eng EXCEPT !.cursor = c]).syncing = FALSE
         /\ \A g : Engine([eng EXCEPT !.gap = g]) /\ [eng EXCEPT !.gap = g].syncing = eng.syncing
         /\ eng.retries < MaxRetries => Engine([eng EXCEPT !.retries = @ + 1]) /\ [eng EXCEPT !.retries = @ + 1].syncing = eng.syncing
<1>1. MaxRetries \in Nat
  BY RetriesAssumption
<1> QED
  BY <1>1 DEF Engine, Finished

\* What a step may do to the phone.
LEMMA PhoneTypedStep == SyncTypes /\ [Next]_vars => AppTyped' /\ StoredTyped'
<1> SUFFICES ASSUME SyncTypes, [Next]_vars PROVE AppTyped' /\ StoredTyped'
  OBVIOUS
<1> USE DEF SyncTypes
<1>0. Engine(eng) /\ db.cursor \in Cursors
  BY DEF AppTyped
<1>1. CASE UNCHANGED <<done, cleared, eng, pending, db, rows>>
  BY <1>1 DEF AppTyped, StoredTyped
<1>2. ASSUME NEW type, Next1(type) PROVE Head(queue) \in Lines /\ Head(queue).type = type
  BY <1>2, RestOf DEF Next1, SerialTyped
<1>3. CASE HandleRecord
  <2>1. Head(queue) \in Lines /\ Head(queue).type = "log"
    BY <1>2, <1>3 DEF HandleRecord
  <2>2. Head(queue).who \in Contact
    BY <2>1 DEF Lines, RecordLines, DoneLines, ClearedLines
  <2>3. \A k \in DOMAIN pending' : pending'[k] \in Contact
    BY <1>3, <2>2 DEF HandleRecord, Over, StoredTyped
  <2> QED
    BY <2>3, <1>3 DEF HandleRecord, AppTyped, StoredTyped
<1>4. CASE Restart
  <2>1. Head(queue) \in Lines /\ Head(queue).type = "log_done"
    BY <1>2, <1>4 DEF Restart
  <2>2. Head(queue).oldest \in Cursors
    BY <2>1 DEF Lines, RecordLines, DoneLines, ClearedLines
  <2>3. Engine(eng')
    BY <1>0, <1>4, <2>2 DEF Restart, Engine
  <2> QED
    BY <2>3, <1>4 DEF Restart, AppTyped, StoredTyped, NoRows
<1>5. ASSUME AskAgain, eng.retries < MaxRetries PROVE Engine(eng') /\ StoredTyped'
  BY <1>0, <1>5, Changed, Flushed DEF AskAgain
<1>6. CASE HandleCut
  <2>1. Engine(eng') /\ StoredTyped'
    BY <1>0, <1>5, <1>6, Changed, Flushed DEF HandleCut
  <2> QED
    BY <2>1, <1>6 DEF HandleCut, AppTyped
<1>7. CASE HandleDone
  <2>1. Head(queue) \in Lines /\ Head(queue).type = "log_done"
    BY <1>2, <1>7 DEF HandleDone
  <2>2. Head(queue).next \in Cursors
    BY <2>1 DEF Lines, RecordLines, DoneLines, ClearedLines
  <2>3. Engine(eng') /\ StoredTyped'
    BY <1>0, <1>7, Changed, Flushed DEF HandleDone
  <2>4. done' = [at |-> "store", msg |-> Head(queue)] /\ UNCHANGED <<cleared, db>>
    BY <1>7 DEF HandleDone
  <2> QED
    BY <2>2, <2>3, <2>4 DEF AppTyped
<1>8. CASE StoreCursor
  <2>1. done.msg.next \in Cursors /\ done.at = "store" /\ DOMAIN done = {"at", "msg"}
    BY <1>8 DEF StoreCursor, AppTyped
  <2>2. CASE eng.failed
    <3>1. Engine(eng') /\ done' = NoDone /\ pending' = NoRows /\ UNCHANGED <<cleared, db, rows>>
      BY <1>0, <1>8, <2>2, Changed DEF StoreCursor
    <3> QED
      BY <3>1 DEF AppTyped, StoredTyped, NoRows, NoDone
  <2>3. CASE ~eng.failed
    <3>1. db' = [cursor |-> done.msg.next, epoch |-> eng.epoch, logId |-> done.msg.id, oldest |-> done.msg.oldest, gap |-> db.gap \/ eng.gap]
          /\ done' = [done EXCEPT !.at = "finish"] /\ UNCHANGED <<cleared, eng, pending, rows>>
      BY <1>8, <2>3 DEF StoreCursor
    <3> QED
      BY <2>1, <3>1 DEF AppTyped, StoredTyped
  <2> QED
    BY <2>2, <2>3
<1>9. CASE FinishDone
  <2>1. done.msg.next \in Cursors
    BY <1>9 DEF FinishDone, AppTyped
  <2>2. Engine(eng')
    BY <1>0, <1>9, <2>1, Changed DEF FinishDone
  <2> QED
    BY <2>2, <1>9 DEF FinishDone, AppTyped, StoredTyped, NoRows, NoDone
<1>10. CASE Timeout
  <2>1. Engine(eng') /\ StoredTyped'
    <3>1. CASE eng.retries < MaxRetries
      BY <1>5, <1>10, <3>1 DEF Timeout
    <3>2. CASE ~(eng.retries < MaxRetries)
      BY <1>0, <1>10, <3>2, Changed DEF Timeout, StoredTyped, NoRows
    <3> QED
      BY <3>1, <3>2
  <2> QED
    BY <2>1, <1>10 DEF Timeout, AppTyped
<1>11. ASSUME StartSync PROVE Engine(eng') /\ pending' = NoRows
  <2>1. 0 \in 0 .. MaxRetries
    BY RetriesAssumption
  <2> QED
    BY <1>0, <1>11, <2>1 DEF StartSync, Engine
<1>12. CASE SyncNow
  BY <1>11, <1>12 DEF SyncNow, AppTyped, StoredTyped, NoRows
<1>13. CASE SyncCleared
  <2>1. Engine(eng') /\ pending' \in {pending, NoRows}
    BY <1>0, <1>11, <1>13 DEF SyncCleared
  <2> QED
    BY <2>1, <1>13 DEF SyncCleared, AppTyped, StoredTyped, NoRows, NoClear
<1>14. ASSUME Abort PROVE Engine(eng') /\ pending' \in {pending, NoRows}
  BY <1>0, <1>14, Changed DEF Abort
<1>15. CASE Disconnect \/ Restarts
  <2>1. LinkLost
    BY <1>15 DEF Disconnect, Restarts
  <2>2. Engine(eng') /\ pending' \in {pending, NoRows} /\ UNCHANGED <<done, cleared, db, rows>>
    BY <1>14, <2>1 DEF LinkLost
  <2> QED
    BY <2>2 DEF AppTyped, StoredTyped, NoRows
<1>16. CASE DeliverCleared
  <2>1. Engine(eng') /\ pending' \in {pending, NoRows} /\ UNCHANGED <<done, db, rows>> /\ cleared'.at = "reset"
    BY <1>14, <1>16 DEF DeliverCleared
  <2> QED
    BY <2>1 DEF AppTyped, StoredTyped, NoRows
<1>17. CASE ResetDetectorLog
  BY <1>17, MaxTotalAssumption DEF ResetDetectorLog, AppTyped, StoredTyped, Cursors
<1>18. CASE Forget
  <2>1. DOMAIN db' = DOMAIN db /\ db'.cursor = 0
    BY <1>18 DEF Forget, AppTyped
  <2> QED
    BY <1>18, <2>1, MaxTotalAssumption DEF Forget, AppTyped, StoredTyped, Cursors
<1> QED
  <2>1. ContactEnds \/ Board \/ Connect \/ GiveUp \/ DeliverAnswer \/ Ignore \/ UNCHANGED vars => UNCHANGED <<done, cleared, eng, pending, db, rows>>
    BY DEF ContactEnds, Board, TimedSave, StartClear, FinishClear, AnswerLogGet, Connect, GiveUp, DeliverAnswer, Ignore, vars, phoneVars
  <2> QED
    BY <2>1, <1>1, <1>3, <1>4, <1>6, <1>7, <1>8, <1>9, <1>10, <1>12, <1>13, <1>15, <1>16, <1>17, <1>18 DEF Next, Link, Sync, App

\* Without a link nothing is on its way and no sync runs.
LEMMA LinkTypedStep == SyncTypes /\ [Next]_vars => LinkTyped'
<1> SUFFICES ASSUME SyncTypes, [Next]_vars PROVE LinkTyped'
  OBVIOUS
<1> USE DEF SyncTypes, LinkTyped
<1>0. Engine(eng) /\ StoredTyped
  BY DEF AppTyped
<1>1. CASE UNCHANGED <<linked, up, eng>> /\ clearing' \in BOOLEAN
  BY <1>1
<1>2. CASE FinishClear \/ AnswerLogGet
  BY <1>2 DEF FinishClear, AnswerLogGet, phoneVars, boardVars
<1>3. CASE Connect
  BY <1>3 DEF Connect, boardVars
<1>4. CASE GiveUp
  <2>1. linked
    BY <1>4 DEF GiveUp
  <2> QED
    BY <1>4, <2>1 DEF GiveUp, boardVars
<1>5. CASE DeliverAnswer
  BY <1>5 DEF DeliverAnswer, boardVars
<1>6. ASSUME Abort PROVE eng'.syncing = FALSE
  BY <1>0, <1>6, Changed DEF Abort
<1>7. CASE Disconnect \/ Restarts
  <2>1. LinkLost /\ clearing' \in BOOLEAN
    BY <1>7 DEF Disconnect, Restarts, boardVars
  <2> QED
    BY <1>6, <2>1 DEF LinkLost
<1>8. CASE DeliverCleared
  <2>1. linked /\ linked' = linked /\ clearing' = clearing
    BY <1>8 DEF DeliverCleared, boardVars
  <2> QED
    BY <2>1
<1>9. CASE Restart \/ HandleCut \/ HandleDone \/ HandleRecord \/ Timeout \/ SyncNow
  <2>1. linked /\ linked' = linked /\ clearing' = clearing
    BY <1>9 DEF Restart, HandleCut, HandleDone, HandleRecord, Timeout, SyncNow, boardVars
  <2> QED
    BY <2>1
<1>10. CASE StoreCursor
  <2>1. UNCHANGED <<linked, clearing, up>> /\ (eng' = eng \/ eng' = Finished(eng))
    BY <1>10 DEF StoreCursor, boardVars
  <2> QED
    BY <1>0, <2>1, Changed
<1>11. CASE FinishDone
  <2>1. done.msg.next \in Cursors
    BY <1>11 DEF FinishDone, AppTyped
  <2>2. UNCHANGED <<linked, clearing, up>> /\ eng'.syncing = FALSE
    BY <1>0, <1>11, <2>1, Changed DEF FinishDone, boardVars
  <2> QED
    BY <2>2
<1>12. CASE SyncCleared
  <2>1. UNCHANGED <<linked, clearing, up>> /\ (linked \/ eng' = eng)
    BY <1>12 DEF SyncCleared, boardVars
  <2> QED
    BY <2>1
<1> QED
  <2>1. ContactEnds \/ TimedSave \/ StartClear \/ Ignore \/ ResetDetectorLog \/ Forget \/ UNCHANGED vars
        => UNCHANGED <<linked, up, eng>> /\ clearing' \in BOOLEAN
    BY DEF ContactEnds, TimedSave, StartClear, Ignore, ResetDetectorLog, Forget, vars, boardVars, phoneVars
  <2> QED
    BY <2>1, <1>1, <1>2, <1>3, <1>4, <1>5, <1>7, <1>8, <1>9, <1>10, <1>11, <1>12 DEF Next, Board, Link, Sync, App

LEMMA SyncTypesStep == SyncTypes /\ [Next]_vars => SyncTypes'
<1>1. SyncTypes /\ [Next]_vars => LogTyped' /\ SerialTyped' /\ AppTyped' /\ StoredTyped' /\ LinkTyped'
  BY LogTypedStep, SerialTypedStep, PhoneTypedStep, LinkTypedStep DEF SyncTypes
<1> QED
  BY <1>1 DEF SyncTypes

LEMMA TypesOfSync == SyncTypes => TypeOK
<1> SUFFICES ASSUME SyncTypes PROVE TypeOK
  OBVIOUS
<1> USE DEF SyncTypes
<1>1. id \in LogId /\ total \in 0 .. MaxTotal /\ oldest \in 0 .. total /\ total - oldest <= LogMax /\ rec \in [oldest .. total - 1 -> Contact]
  BY DEF LogTyped, LogHeld
<1>2. \A i \in DOMAIN down : down[i] \in 0 .. MaxTotal
  <2>1. down \in Seq(0 .. MaxTotal)
    BY DEF SerialTyped, Cursors
  <2> QED
    BY <2>1, IsOf
<1>3. done.at \in {"none", "store", "finish"} /\ cleared.at \in {"none", "reset", "sync"} /\ eng.retries \in 0 .. MaxRetries
  BY DEF AppTyped, Engine
<1> QED
  BY <1>1, <1>2, <1>3 DEF StoredTyped, LinkTyped, TypeOK

\* Of whatever is connected, cleared, cut and lost in whatever order: the log, the
\* lines and the phone's rows are of their types (TypeOK).
THEOREM SyncTyped == Spec => []TypeOK
<1> QED BY SyncTypesStart, SyncTypesStep, TypesOfSync, PTL DEF Spec
=============================================================================
