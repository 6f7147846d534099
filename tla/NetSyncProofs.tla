--------------------------- MODULE NetSyncProofs ---------------------------
(***************************************************************************)
(* Proofs about NetSync: for every set of networks, passwords, transports  *)
(* and jobs and every length of the saved list, its types (NetTypeOK), that *)
(* each wifi_join is answered once (JoinsOwed), that nothing is saved,      *)
(* joined or fetched that is not wanted (AsAsked), and that the hop, the    *)
(* worker and the report of a job that was cut short are as the phase says  *)
(* (PhaseRight).                                                           *)
(*                                                                         *)
(* The argument: a tick is a chain of functions of one record. What is     *)
(* proved of the record (Good) is kept by every one of them but those in    *)
(* whose midst the phase and the worker differ (Noted, Proved, Begun): they *)
(* keep Sound, and what calls them keeps Good again. The last of the chain, *)
(* FreeHop, makes the hold exact. A request, the worker's end and a timer   *)
(* change a few fields each.                                               *)
(***************************************************************************)
EXTENDS NetSync, FiniteSetTheorems, TLAPS

\* The fields of NetSm.
Fields == {"phase", "state", "mode", "saved", "station", "cred", "isNew", "reply", "joinLate",
  "rqJoin", "rqCred", "rqNew", "rqReply", "rqScan", "scanReply", "rqSync", "rqTiles", "rqLeave",
  "force", "scanning", "pick", "scanLate", "failing", "due", "hold", "job", "sour", "noPos",
  "fetch", "cancel", "fetchLate", "worker", "res", "resNoPos", "paused", "grace", "manual",
  "owed", "proved", "forgotten", "forced"}

\* Types of its fields; that each network is saved once is one (SavedLists).
Flags(n) ==
  /\ n.station \in BOOLEAN /\ n.isNew \in BOOLEAN /\ n.joinLate \in BOOLEAN /\ n.rqJoin \in BOOLEAN
  /\ n.rqNew \in BOOLEAN /\ n.rqScan \in BOOLEAN /\ n.rqSync \in BOOLEAN /\ n.rqTiles \in BOOLEAN
  /\ n.rqLeave \in BOOLEAN /\ n.force \in BOOLEAN /\ n.scanning \in BOOLEAN /\ n.pick \in BOOLEAN
  /\ n.scanLate \in BOOLEAN /\ n.failing \in BOOLEAN /\ n.due \in BOOLEAN /\ n.hold \in BOOLEAN
  /\ n.noPos \in BOOLEAN /\ n.cancel \in BOOLEAN /\ n.fetchLate \in BOOLEAN /\ n.resNoPos \in BOOLEAN
  /\ n.paused \in BOOLEAN /\ n.manual \in BOOLEAN /\ n.forced \in BOOLEAN

Values(n) ==
  /\ n.phase \in {"idle", "join", "fetch", "online", "drain"}
  /\ n.state \in {"disconnected", "connecting", "connected", "failed"}
  /\ n.mode \in {"off", "sync", "stay"} /\ n.grace \in {"no", "wait", "over"}
  /\ n.saved \in SavedLists
  /\ n.cred \in Cred \cup {NoCred} /\ n.rqCred \in Cred \cup {NoCred}
  /\ n.reply \subseteq Src /\ n.rqReply \subseteq Src /\ n.scanReply \subseteq Src
  /\ n.job \in [Jobs -> JobState] /\ n.sour \subseteq Jobs /\ n.fetch \subseteq Jobs
  /\ n.worker \in {"none", "running", "done"} /\ DOMAIN n.res \subseteq Jobs

\* Who is owed what: what began is a join, and of a person; what was asked for
\* and has not begun is a request.
Owing(n) ==
  /\ n.owed = [s \in Src |-> IF s \in n.reply THEN IF s \in n.rqReply THEN 2 ELSE 1
                              ELSE IF s \in n.rqReply THEN 1 ELSE 0]
  /\ n.reply # {} => n.phase = "join" /\ n.manual
  /\ n.rqReply # {} => n.rqJoin

\* What is saved and what may be: the network of a join under way is wanted,
\* unless the window is being left; one that is asked for is.
Saving(n) ==
  /\ \A c \in Range(n.saved) : c \in n.proved /\ c.ssid \notin n.forgotten
  /\ n.phase = "join" => n.cred \in Cred /\ (n.rqLeave \/ n.cred.ssid \notin n.forgotten)
  /\ n.rqJoin => n.rqCred \in Cred /\ n.rqCred.ssid \notin n.forgotten

\* The hop is held while it must be, in the middle of a tick too; a pick's scan
\* is of an idle radio, and no scan runs while a join does.
Holding(n) ==
  /\ n.phase \in {"join", "fetch", "online"} \/ n.scanning => n.hold
  /\ n.pick => n.scanning /\ n.phase = "idle"
  /\ n.phase = "join" => ~n.scanning

\* OnlyAsked, and what keeps it so while a pick's scan is under way.
Asking(n) ==
  /\ n.paused => n.phase # "online" /\ (n.phase \in {"join", "fetch"} => n.manual)
  /\ n.mode = "off" /\ (n.phase \in {"join", "fetch", "online"} \/ n.pick) => n.manual \/ n.rqLeave

\* The worker and the phase; why a fetch that goes on was cancelled.
Working(n) ==
  /\ n.worker # "none" <=> n.phase \in {"fetch", "drain"}
  /\ n.worker = "done" => n.res \in [n.fetch -> Outcome]
  /\ n.worker # "done" => n.res = NoResult
  /\ n.phase = "fetch" /\ n.cancel => n.rqJoin \/ n.rqLeave \/ n.fetchLate

\* No worker, and no report.
Free(n) == n.worker = "none" /\ n.res = NoResult

\* What holds at each point of a tick, and what holds between its parts.
Sound(n) == DOMAIN n = Fields /\ Flags(n) /\ Values(n) /\ Owing(n) /\ Saving(n) /\ Holding(n)

Good(n) == Sound(n) /\ Asking(n) /\ Working(n)

-----------------------------------------------------------------------------
\* Each part of a tick keeps the record good: leaving, joining, windows, jobs.
LEMMA LeavesWell ==
  ASSUME NEW n, Sound(n), n.phase \in {"fetch", "online"}, Free(n)
  PROVE  Good(Leave(n))
BY DEF Good, Sound, Flags, Values, Owing, Saving, Holding, Asking, Working, Free, Fields, Leave

LEMMA FailsWell ==
  ASSUME NEW n, Good(n), n.phase = "join"
  PROVE  Good(JoinFail(n))
<1>1. Sound(JoinFail(n))
  <2>1. DOMAIN (JoinFail(n)) = Fields BY DEF Sound, Good, JoinFail, Leave, Answer
  <2>2. Flags(JoinFail(n)) BY DEF Sound, Good, Flags, Fields, JoinFail, Leave, Answer
  <2>3. Values(JoinFail(n)) BY DEF Sound, Good, Values, Fields, JoinFail, Leave, Answer
  <2>4. Owing(JoinFail(n)) BY DEF Sound, Good, Owing, Fields, JoinFail, Leave, Answer
  <2>5. Saving(JoinFail(n)) BY DEF Sound, Good, Saving, Fields, JoinFail, Leave, Answer
  <2>6. Holding(JoinFail(n)) BY DEF Sound, Good, Holding, Fields, JoinFail, Leave, Answer
  <2> QED BY <2>1, <2>2, <2>3, <2>4, <2>5, <2>6 DEF Sound
<1>2. Asking(JoinFail(n)) BY DEF Sound, Good, Asking, Holding, Fields, Flags, JoinFail, Leave,
    Answer
<1>3. Working(JoinFail(n)) BY DEF Sound, Good, Working, Free, Fields, Flags, JoinFail, Leave, Answer
<1> QED BY <1>1, <1>2, <1>3 DEF Good

LEMMA SupersededWell ==
  ASSUME NEW n, Good(n), n.phase = "join"
  PROVE  Good(Superseded(n))
<1>1. Sound(Superseded(n))
  <2>1. DOMAIN (Superseded(n)) = Fields BY DEF Sound, Good, Superseded, Leave, Answer
  <2>2. Flags(Superseded(n)) BY DEF Sound, Good, Flags, Fields, Superseded, Leave, Answer
  <2>3. Values(Superseded(n)) BY DEF Sound, Good, Values, Fields, Superseded, Leave, Answer
  <2>4. Owing(Superseded(n)) BY DEF Sound, Good, Owing, Fields, Superseded, Leave, Answer
  <2>5. Saving(Superseded(n)) BY DEF Sound, Good, Saving, Fields, Superseded, Leave, Answer
  <2>6. Holding(Superseded(n)) BY DEF Sound, Good, Holding, Fields, Superseded, Leave, Answer
  <2> QED BY <2>1, <2>2, <2>3, <2>4, <2>5, <2>6 DEF Sound
<1>2. Asking(Superseded(n)) BY DEF Sound, Good, Asking, Holding, Fields, Flags, Superseded, Leave,
    Answer
<1>3. Working(Superseded(n)) BY DEF Sound, Good, Working, Free, Fields, Flags, Superseded, Leave,
    Answer
<1> QED BY <1>1, <1>2, <1>3 DEF Good

LEMMA BeginsWell ==
  ASSUME NEW n, Good(n),
    NEW c \in Cred, NEW b \in BOOLEAN, n.phase = "idle", ~n.scanning, c.ssid \notin n.forgotten,
    n.paused => n.manual, n.mode = "off" => n.manual \/ n.rqLeave
  PROVE  Good(JoinBegin(n, c, b, {}))
BY DEF Good, Sound, Flags, Values, Owing, Saving, Holding, Asking, Working, Free, Fields, JoinBegin

LEMMA StaysOn ==
  ASSUME NEW n, Sound(n), n.phase # "join", Free(n), ~n.paused, n.mode = "stay", n.hold, ~n.pick
  PROVE  Good([n EXCEPT !.phase = "online", !.manual = FALSE])
<1>1. Sound([n EXCEPT !.phase = "online", !.manual = FALSE])
  <2>1. DOMAIN ([n EXCEPT !.phase = "online", !.manual = FALSE]) = Fields BY DEF Sound, Leave
  <2>2. Flags([n EXCEPT !.phase = "online", !.manual = FALSE]) BY ZenonT(40) DEF Sound, Flags, Fields, Leave
  <2>3. Values([n EXCEPT !.phase = "online", !.manual = FALSE]) BY DEF Sound, Values, Fields, Leave
  <2>4. Owing([n EXCEPT !.phase = "online", !.manual = FALSE]) BY DEF Sound, Owing, Fields, Leave
  <2>5. Saving([n EXCEPT !.phase = "online", !.manual = FALSE]) BY DEF Sound, Saving, Fields, Leave
  <2>6. Holding([n EXCEPT !.phase = "online", !.manual = FALSE])
    BY DEF Sound, Holding, Fields, Leave
  <2> QED BY <2>1, <2>2, <2>3, <2>4, <2>5, <2>6 DEF Sound
<1>2. Asking([n EXCEPT !.phase = "online", !.manual = FALSE])
  BY DEF Sound, Asking, Holding, Fields, Flags, Leave
<1>3. Working([n EXCEPT !.phase = "online", !.manual = FALSE])
  BY DEF Sound, Working, Free, Fields, Flags, Leave
<1> QED BY <1>1, <1>2, <1>3 DEF Good

LEMMA WindowOver ==
  ASSUME NEW n, Sound(n), n.phase \in {"fetch", "online"}, Free(n)
  PROVE  Good(AfterWindow(n))
<1>1. CASE n.mode = "stay" /\ ~n.rqLeave /\ ~n.paused
  <2>1. n.hold /\ ~n.pick BY DEF Sound, Holding
  <2> QED BY <1>1, <2>1, StaysOn DEF AfterWindow
<1>2. CASE ~(n.mode = "stay" /\ ~n.rqLeave /\ ~n.paused)
  BY <1>2, LeavesWell DEF AfterWindow
<1> QED BY <1>1, <1>2

LEMMA NotedWell ==
  ASSUME NEW n, Sound(n), n.phase \in {"fetch", "drain"},
    NEW r \in [n.fetch -> Outcome], NEW noPos \in BOOLEAN
  PROVE  Sound(Noted(n, r, noPos))
<1>0. Noted(n, r, noPos).job \in [Jobs -> JobState]
  <2>1. ASSUME NEW k \in Jobs, NEW o \in Outcome PROVE JobAfter(n, k, o) \in JobState
    BY <2>1 DEF JobAfter, Outcome, JobState, Sound, Values
  <2>2. \A k \in DOMAIN r : (IF r[k] = "cut" /\ CutIsFailure(n) THEN "failed" ELSE r[k]) \in Outcome
    BY DEF Outcome
  <2>3. n.job \in [Jobs -> JobState] /\ DOMAIN n = Fields BY DEF Sound, Values
  <2> QED BY <2>1, <2>2, <2>3 DEF Noted, Fields
<1>1. Sound(Noted(n, r, noPos))
  <2>1. DOMAIN (Noted(n, r, noPos)) = Fields BY DEF Sound, Noted, Leave
  <2>2. Flags(Noted(n, r, noPos)) BY DEF Sound, Flags, Fields, Noted, Leave
  <2>3. Values(Noted(n, r, noPos)) BY <1>0 DEF Sound, Values, Fields, Noted, Leave
  <2>4. Owing(Noted(n, r, noPos)) BY DEF Sound, Owing, Fields, Noted, Leave
  <2>5. Saving(Noted(n, r, noPos)) BY DEF Sound, Saving, Fields, Noted, Leave
  <2>6. Holding(Noted(n, r, noPos)) BY DEF Sound, Holding, Fields, Noted, Leave
  <2> QED BY <2>1, <2>2, <2>3, <2>4, <2>5, <2>6 DEF Sound
<1> QED BY <1>1

LEMMA FetchEndsWell ==
  ASSUME NEW n, Sound(n), n.phase \in {"fetch", "drain"}, Free(n),
         NEW r \in [n.fetch -> Outcome], NEW noPos \in BOOLEAN
  PROVE  Good(FetchDone(n, r, noPos))
<1> DEFINE m == Noted(n, r, noPos)
<1>1. Sound(m) BY NotedWell
<1>2. Free(m) /\ m.phase = n.phase /\ m.hold = n.hold BY DEF Noted, Sound, Free, Fields
<1>3. CASE n.phase = "drain"
  <2> DEFINE d == [m EXCEPT !.phase = "idle"]
  <2>1. Sound(d)
    <3>1. DOMAIN d = Fields BY <1>1 DEF Sound
    <3>2. Flags(d) BY <1>1 DEF Sound, Flags, Fields
    <3>3. Values(d) BY <1>1 DEF Sound, Values, Fields
    <3>4. Owing(d) BY <1>1, <1>2, <1>3 DEF Sound, Owing, Fields
    <3>5. Saving(d) BY <1>1 DEF Sound, Saving, Fields
    <3>6. Holding(d) BY <1>1, <1>2, <1>3 DEF Sound, Holding, Fields
    <3> QED BY <3>1, <3>2, <3>3, <3>4, <3>5, <3>6 DEF Sound
  <2>2. Asking(d) BY <1>1, <1>2, <1>3 DEF Sound, Asking, Holding, Fields, Flags
  <2>3. Working(d) BY <1>1, <1>2 DEF Sound, Working, Free, Fields
  <2> QED BY <1>3, <2>1, <2>2, <2>3 DEF Good, FetchDone
<1>4. CASE n.phase = "fetch"
  BY <1>1, <1>2, <1>4, LeavesWell, WindowOver DEF FetchDone
<1> QED BY <1>3, <1>4

LEMMA BegunWell ==
  ASSUME NEW n, Sound(n), n.phase = "online", NEW jobs \in SUBSET Jobs
  PROVE  Sound(Begun(n, jobs))
BY DEF Good, Sound, Flags, Values, Owing, Saving, Holding, Asking, Working, Free, Fields, Begun,
    JobState

LEMMA FetchBeginsWell ==
  ASSUME NEW n, Sound(n), n.phase = "online", Free(n), NEW jobs \in SUBSET Jobs, NEW starts \in BOOLEAN,
         home \in BOOLEAN, n.paused => n.manual, n.mode = "off" => n.manual \/ n.rqLeave
  PROVE  Good(FetchBegin(n, jobs, starts))
<1> DEFINE m == Begun(n, jobs)
<1>1. Sound(m) BY BegunWell
<1>2. /\ Free(m) /\ m.phase = "fetch" /\ m.fetch = jobs /\ m.hold = n.hold /\ m.cancel = FALSE
      /\ m.paused = n.paused /\ m.manual = n.manual /\ m.mode = n.mode /\ m.rqLeave = n.rqLeave
  BY DEF Begun, Sound, Free, Fields
<1>3. CASE starts
  <2> DEFINE noPos == ~home /\ jobs # {"time"}
  <2>1. noPos \in BOOLEAN OBVIOUS
  <2> HIDE DEF m, noPos
  <2> DEFINE d == [m EXCEPT !.worker = "running", !.resNoPos = noPos]
  <2>2. Sound(d)
    <3>1. DOMAIN d = Fields BY <1>1 DEF Sound
    <3>2. Flags(d) BY <1>1, <2>1 DEF Sound, Flags, Fields
    <3>3. Values(d) BY <1>1 DEF Sound, Values, Fields
    <3>4. Owing(d) BY <1>1 DEF Sound, Owing, Fields
    <3>5. Saving(d) BY <1>1 DEF Sound, Saving, Fields
    <3>6. Holding(d) BY <1>1 DEF Sound, Holding, Fields
    <3> QED BY <3>1, <3>2, <3>3, <3>4, <3>5, <3>6 DEF Sound
  <2>3. Asking(d) BY <1>1, <1>2 DEF Sound, Asking, Holding, Fields
  <2>4. Working(d) BY <1>1, <1>2 DEF Sound, Working, Free, Fields
  <2>5. FetchBegin(n, jobs, starts) = d BY <1>3 DEF FetchBegin, Free, m, noPos
  <2> QED BY <2>2, <2>3, <2>4, <2>5 DEF Good
<1>4. CASE ~starts
  <2> DEFINE r == [k \in jobs |-> "failed"]
  <2>1. r \in [m.fetch -> Outcome] BY <1>2 DEF Outcome
  <2>2. FetchBegin(n, jobs, starts) = FetchDone(m, r, FALSE) BY <1>4 DEF FetchBegin
  <2> HIDE DEF m, r
  <2> QED BY <1>1, <1>2, <2>1, <2>2, FetchEndsWell
<1> QED BY <1>3, <1>4

LEMMA CollectedWell ==
  ASSUME NEW n, Sound(n)
  PROVE  Sound([n EXCEPT !.worker = "none", !.res = NoResult, !.resNoPos = FALSE])
BY DEF Good, Sound, Flags, Values, Owing, Saving, Holding, Asking, Working, Free, Fields, NoResult

LEMMA FetchPollsWell ==
  ASSUME NEW n, Good(n), n.phase \in {"fetch", "drain"}
  PROVE  Good(FetchPoll(n))
<1> DEFINE stop == n.rqJoin \/ n.rqLeave \/ ("tiles" \notin n.fetch /\ n.fetchLate)
           c == n.cancel \/ stop
           m == [n EXCEPT !.cancel = c]
           d == [m EXCEPT !.worker = "none", !.res = NoResult, !.resNoPos = FALSE]
<1>1. FetchPoll(n) = IF m.worker = "done" THEN FetchDone(d, m.res, m.resNoPos) ELSE m
  <2>1. m = [n EXCEPT !.cancel = @ \/ stop] OBVIOUS
  <2> QED BY <2>1, Zenon DEF FetchPoll
<1>2. c \in BOOLEAN OBVIOUS
<1>3. c => n.cancel \/ stop OBVIOUS
<1> HIDE DEF c
<1>4. Sound(m)
  <2>1. DOMAIN m = Fields BY DEF Sound, Good
  <2>2. Flags(m) BY <1>2 DEF Sound, Good, Flags, Fields
  <2>3. Values(m) BY DEF Sound, Good, Values, Fields
  <2>4. Owing(m) BY DEF Sound, Good, Owing, Fields
  <2>5. Saving(m) BY DEF Sound, Good, Saving, Fields
  <2>6. Holding(m) BY DEF Sound, Good, Holding, Fields
  <2> QED BY <2>1, <2>2, <2>3, <2>4, <2>5, <2>6 DEF Sound
<1>5. /\ m.phase = n.phase /\ m.worker = n.worker /\ m.res = n.res /\ m.fetch = n.fetch /\ m.resNoPos = n.resNoPos
      /\ m.cancel = c /\ m.rqJoin = n.rqJoin /\ m.rqLeave = n.rqLeave /\ m.fetchLate = n.fetchLate
      /\ m.paused = n.paused /\ m.manual = n.manual /\ m.mode = n.mode /\ m.pick = n.pick
  BY DEF Good, Sound, Fields
<1>6. CASE n.worker = "done"
  <2>1. Sound(d) BY <1>4, CollectedWell
  <2>2. Free(d) /\ d.phase = m.phase /\ d.fetch = m.fetch BY <1>4 DEF Sound, Fields, Free
  <2>3. m.resNoPos \in BOOLEAN /\ m.res \in [d.fetch -> Outcome]
    BY <1>4, <1>5, <1>6, <2>2 DEF Sound, Flags, Good, Working
  <2>4. FetchPoll(n) = FetchDone(d, m.res, m.resNoPos) BY <1>1, <1>5, <1>6
  <2> HIDE DEF d, m
  <2> QED BY <2>1, <2>2, <2>3, <2>4, <1>5, <1>6, FetchEndsWell
<1>7. CASE n.worker # "done"
  <2>1. Asking(m) BY <1>5 DEF Asking, Good
  <2>2. Working(m) BY <1>3, <1>5, <1>7 DEF Working, Good
  <2> QED BY <1>1, <1>4, <1>5, <1>7, <2>1, <2>2 DEF Good
<1> QED BY <1>6, <1>7

-----------------------------------------------------------------------------
\* The saved list (net__save_front, net_forget): it stays a list in which each
\* network is once, and nothing else comes in or goes.
LEMMA SavedSequence ==
  ASSUME NEW s
  PROVE  s \in SavedLists <=> /\ s \in Seq(Cred) /\ Len(s) <= MaxSaved
                              /\ \A i, j \in 1 .. Len(s) : s[i].ssid = s[j].ssid => i = j
<1>1. ASSUME s \in SavedLists
      PROVE  /\ s \in Seq(Cred) /\ Len(s) <= MaxSaved
             /\ \A i, j \in 1 .. Len(s) : s[i].ssid = s[j].ssid => i = j
  <2>1. PICK k \in 0 .. MaxSaved : s \in [1 .. k -> Cred] BY <1>1 DEF SavedLists
  <2>2. MaxSaved \in Nat BY SavedAssumption
  <2>3. s \in Seq(Cred) /\ Len(s) = k /\ DOMAIN s = 1 .. Len(s) BY <2>1, <2>2
  <2> QED BY <1>1, <2>2, <2>3 DEF SavedLists
<1>2. ASSUME s \in Seq(Cred), Len(s) <= MaxSaved,
             \A i, j \in 1 .. Len(s) : s[i].ssid = s[j].ssid => i = j
      PROVE  s \in SavedLists
  <2>1. Len(s) \in 0 .. MaxSaved /\ s \in [1 .. Len(s) -> Cred] /\ DOMAIN s = 1 .. Len(s) BY <1>2, SavedAssumption
  <2> QED BY <1>2, <2>1 DEF SavedLists
<1> QED BY <1>1, <1>2

LEMMA IndexIs ==
  ASSUME NEW s \in SavedLists, NEW i \in 1 .. Len(s)
  PROVE  SavedIndex(s, s[i].ssid) = i
<1>1. s \in Seq(Cred) /\ DOMAIN s = 1 .. Len(s) BY SavedSequence
<1>2. \A j \in DOMAIN s : s[j].ssid = s[i].ssid => j = i BY SavedSequence
<1> QED BY <1>1, <1>2 DEF SavedIndex

LEMMA FrontIs ==
  ASSUME NEW s \in SavedLists, NEW c \in Cred
  PROVE  SaveFront(s, c) \in SavedLists /\ Range(SaveFront(s, c)) \subseteq Range(s) \cup {c}
<1>1. PICK len \in Nat : len = Len(s) BY SavedSequence
<1>2. /\ s \in Seq(Cred) /\ len <= MaxSaved /\ DOMAIN s = 1 .. len /\ MaxSaved \in Nat \ {0}
      /\ \A i, j \in 1 .. len : s[i].ssid = s[j].ssid => i = j
      /\ \A i \in 1 .. len : s[i] \in Cred
  BY <1>1, SavedSequence, SavedAssumption
<1> DEFINE f == SaveFront(s, c)
           Front(n, from) == [k \in 1 .. n |-> IF k = 1 THEN c ELSE IF k <= from THEN s[k - 1] ELSE s[k]]
<1>3. PICK n \in Nat, from \in Nat :
        /\ f = Front(n, from) /\ n <= MaxSaved /\ from <= n /\ n <= len + 1
        /\ \A k \in 1 .. len : s[k].ssid = c.ssid => k = from
        /\ from < n => n = len
  <2>1. CASE \E i \in DOMAIN s : s[i].ssid = c.ssid
    <3>1. PICK i \in 1 .. len : s[i].ssid = c.ssid BY <2>1, <1>2
    <3>2. SavedIndex(s, c.ssid) = i BY <1>1, <3>1, IndexIs
    <3>3. f = Front(len, i) BY <1>1, <2>1, <3>2 DEF SaveFront
    <3>4. i \in Nat /\ i <= len /\ \A k \in 1 .. len : s[k].ssid = c.ssid => k = i BY <1>2, <3>1
    <3> HIDE DEF f, Front
    <3> QED BY <1>2, <3>3, <3>4
  <2>2. CASE ~\E i \in DOMAIN s : s[i].ssid = c.ssid
    <3>1. CASE len = MaxSaved
      <4>1. f = Front(len, len) BY <1>1, <2>2, <3>1 DEF SaveFront
      <4> HIDE DEF f, Front
      <4> QED BY <1>2, <2>2, <4>1
    <3>2. CASE len # MaxSaved
      <4>1. f = Front(len + 1, len + 1) BY <1>1, <2>2, <3>2 DEF SaveFront
      <4>2. len + 1 \in Nat /\ len + 1 <= MaxSaved BY <1>2, <3>2
      <4> HIDE DEF f, Front
      <4> QED BY <1>2, <2>2, <4>1, <4>2
    <3> QED BY <3>1, <3>2
  <2> QED BY <2>1, <2>2
<1> HIDE DEF f
<1>4. f \in Seq(Cred) /\ Len(f) = n /\ DOMAIN f = 1 .. n
  <2>1. \A k \in 1 .. n : Front(n, from)[k] \in Cred
    <3> SUFFICES ASSUME NEW k \in 1 .. n PROVE Front(n, from)[k] \in Cred OBVIOUS
    <3>1. CASE k = 1 BY <3>1
    <3>2. CASE k # 1 /\ k <= from
      <4>1. k - 1 \in 1 .. len BY <1>3, <3>2
      <4> QED BY <1>2, <3>2, <4>1
    <3>3. CASE k # 1 /\ ~(k <= from)
      <4>1. k \in 1 .. len BY <1>3, <3>3
      <4> QED BY <1>2, <3>3, <4>1
    <3> QED BY <3>1, <3>2, <3>3
  <2>2. f \in [1 .. n -> Cred] BY <1>3, <2>1
  <2> QED BY <2>2
<1>5. \A k \in 1 .. n :
        \/ k = 1 /\ f[k] = c
        \/ k # 1 /\ k <= from /\ k - 1 \in 1 .. len /\ f[k] = s[k - 1]
        \/ k # 1 /\ from < k /\ k \in 1 .. len /\ f[k] = s[k]
  <2> TAKE k \in 1 .. n
  <2>1. CASE k = 1 BY <1>3, <2>1
  <2>2. CASE k # 1 /\ k <= from
    <3>1. k - 1 \in 1 .. len BY <1>3, <2>2
    <3>2. f[k] = s[k - 1] BY <1>3, <2>2
    <3> QED BY <2>2, <3>1, <3>2
  <2>3. CASE k # 1 /\ ~(k <= from)
    <3>1. k \in 1 .. len /\ from < k BY <1>3, <2>3
    <3>2. f[k] = s[k] BY <1>3, <2>3
    <3> QED BY <2>3, <3>1, <3>2
  <2> QED BY <2>1, <2>2, <2>3
<1> HIDE DEF Front
<1>6. Range(f) \subseteq Range(s) \cup {c}
  <2> SUFFICES ASSUME NEW k \in 1 .. n PROVE f[k] \in Range(s) \cup {c} BY <1>4, Zenon DEF Range
  <2>1. f[k] = c \/ \E i \in 1 .. len : f[k] = s[i] BY <1>5
  <2> QED BY <1>2, <2>1, Zenon DEF Range
<1>7. \A k \in 1 .. n : k # 1 => f[k].ssid # c.ssid BY <1>2, <1>3, <1>5
<1>8. \A i, j \in 1 .. n : f[i].ssid = f[j].ssid => i = j
  <2> SUFFICES ASSUME NEW i \in 1 .. n, NEW j \in 1 .. n, f[i].ssid = f[j].ssid PROVE i = j OBVIOUS
  <2>1. CASE i = 1 \/ j = 1 BY <2>1, <1>5, <1>7
  <2>2. CASE i # 1 /\ j # 1
    <3>1. CASE i <= from /\ j <= from BY <1>2, <1>5, <2>2, <3>1
    <3>2. CASE from < i /\ from < j BY <1>2, <1>5, <2>2, <3>2
    <3>3. CASE i <= from /\ from < j BY <1>2, <1>5, <2>2, <3>3
    <3>4. CASE from < i /\ j <= from BY <1>2, <1>5, <2>2, <3>4
    <3> QED BY <1>3, <3>1, <3>2, <3>3, <3>4
  <2> QED BY <2>1, <2>2
<1>9. f \in SavedLists BY <1>3, <1>4, <1>8, SavedSequence
<1> QED BY <1>6, <1>9 DEF f

LEMMA WithoutIs ==
  ASSUME NEW s \in SavedLists, NEW ssid, \E i \in DOMAIN s : s[i].ssid = ssid
  PROVE  /\ Without(s, ssid) \in SavedLists
         /\ Range(Without(s, ssid)) \subseteq {c \in Range(s) : c.ssid # ssid}
<1>1. s \in Seq(Cred) /\ Len(s) \in Nat /\ Len(s) <= MaxSaved /\ DOMAIN s = 1 .. Len(s) /\ MaxSaved \in Nat \ {0}
      /\ \A i, j \in 1 .. Len(s) : s[i].ssid = s[j].ssid => i = j
  BY SavedSequence, SavedAssumption
<1>2. PICK i \in 1 .. Len(s) : s[i].ssid = ssid BY <1>1
<1>3. \A a \in Nat : \A b \in 1 .. a : a - 1 \in Nat OBVIOUS
<1>14. PICK n \in Nat : n = Len(s) - 1 BY <1>1, <1>2, <1>3
<1> DEFINE f == Without(s, ssid)
<1>4. f = [k \in 1 .. n |-> IF k < i THEN s[k] ELSE s[k + 1]] BY <1>2, <1>14, IndexIs DEF Without
<1> HIDE DEF f
<1>5. \A k \in 1 .. n : k < i => k \in 1 .. Len(s) /\ f[k] = s[k] BY <1>1, <1>14, <1>4
<1>6. \A k \in 1 .. n : ~(k < i) => k + 1 \in 1 .. Len(s) /\ f[k] = s[k + 1] BY <1>1, <1>14, <1>4
<1>7. f \in Seq(Cred) /\ Len(f) = n /\ DOMAIN f = 1 .. n
  <2>1. f \in [1 .. n -> Cred] BY <1>1, <1>4, <1>5, <1>6
  <2> QED BY <2>1
<1>8. \A k \in 1 .. n : f[k].ssid # ssid BY <1>1, <1>2, <1>5, <1>6
<1>9. Range(f) \subseteq {c \in Range(s) : c.ssid # ssid} 
  <2> SUFFICES ASSUME NEW k \in 1 .. n PROVE f[k] \in Range(s) /\ f[k].ssid # ssid
    BY <1>7, Zenon DEF Range
  <2>1. CASE k < i BY <1>1, <1>5, <1>8, <2>1 DEF Range
  <2>2. CASE ~(k < i) BY <1>1, <1>6, <1>8, <2>2 DEF Range
  <2> QED BY <2>1, <2>2
<1>10. \A a, b \in 1 .. n : f[a].ssid = f[b].ssid => a = b
  <2> SUFFICES ASSUME NEW a \in 1 .. n, NEW b \in 1 .. n, f[a].ssid = f[b].ssid PROVE a = b OBVIOUS
  <2>1. CASE a < i /\ b < i BY <1>1, <1>5, <2>1
  <2>2. CASE ~(a < i) /\ ~(b < i) BY <1>1, <1>6, <2>2
  <2>3. CASE a < i /\ ~(b < i) BY <1>1, <1>5, <1>6, <2>3
  <2>4. CASE ~(a < i) /\ b < i BY <1>1, <1>5, <1>6, <2>4
  <2> QED BY <2>1, <2>2, <2>3, <2>4
<1>11. f \in SavedLists
  <2>1. Len(f) <= MaxSaved BY <1>1, <1>14, <1>7
  <2>2. \A a, b \in 1 .. Len(f) : f[a].ssid = f[b].ssid => a = b BY <1>7, <1>10
  <2> QED BY <1>7, <2>1, <2>2, SavedSequence
<1> QED BY <1>9, <1>11 DEF f

-----------------------------------------------------------------------------
\* Joins, scans, picks, windows, and the phone.
LEMMA ProvedWell ==
  ASSUME NEW n, Sound(n), Good(n), n.phase = "join", ~n.rqJoin, ~n.rqLeave
  PROVE  Sound(Proved(n))
<1>0. /\ n.cred \in Cred /\ n.cred.ssid \notin n.forgotten /\ SaveFront(n.saved, n.cred) \in SavedLists
      /\ Range(SaveFront(n.saved, n.cred)) \subseteq Range(n.saved) \cup {n.cred}
  <2>1. n.cred \in Cred /\ n.cred.ssid \notin n.forgotten BY DEF Good, Sound, Saving
  <2>2. n.saved \in SavedLists BY DEF Good, Sound, Values
  <2> QED BY <2>1, <2>2, FrontIs
<1>1. Sound(Proved(n))
  <2>1. DOMAIN (Proved(n)) = Fields BY DEF Sound, Proved, Answer
  <2>2. Flags(Proved(n)) BY DEF Sound, Flags, Fields, Proved, Answer
  <2>3. Values(Proved(n)) BY <1>0 DEF Sound, Values, Fields, Proved, Answer
  <2>4. Owing(Proved(n)) BY DEF Sound, Owing, Fields, Proved, Answer
  <2>5. Saving(Proved(n)) BY <1>0 DEF Sound, Saving, Fields, Proved, Answer
  <2>6. Holding(Proved(n)) BY DEF Sound, Holding, Fields, Proved, Answer
  <2> QED BY <2>1, <2>2, <2>3, <2>4, <2>5, <2>6 DEF Sound
<1> QED BY <1>1

LEMMA JoinedWell ==
  ASSUME NEW n, Good(n), n.phase = "join", ~n.rqJoin, ~n.rqLeave, NEW in, in.starts \in BOOLEAN, home \in BOOLEAN
  PROVE  Good(Joined(n, in))
<1> DEFINE m == Proved(n)
<1>1. Sound(m) BY ProvedWell DEF Good
<1>2. /\ Free(m) /\ m.phase = "online" /\ m.paused = n.paused /\ m.manual = n.manual
      /\ m.mode = "off" => n.mode = "off"
  BY DEF Proved, Answer, Good, Sound, Working, Free, Fields
<1>3. m.paused => m.manual BY <1>2 DEF Good, Asking
<1>4. m.mode = "off" => m.manual BY <1>2 DEF Good, Asking
<1>5. Joined(n, in) = IF Due(m) # {} THEN FetchBegin(m, Due(m), in.starts) ELSE AfterWindow(m)
  BY DEF Joined
<1>6. Due(m) \in SUBSET Jobs BY DEF Due
<1> HIDE DEF m
<1> QED BY <1>1, <1>2, <1>3, <1>4, <1>5, <1>6, FetchBeginsWell, WindowOver

LEMMA JoinPollsWell ==
  ASSUME NEW n, Good(n), n.phase = "join", NEW in, in.starts \in BOOLEAN, home \in BOOLEAN
  PROVE  Good(JoinPoll(n, in))
BY SupersededWell, JoinedWell, FailsWell DEF JoinPoll

LEMMA ScanOverWell ==
  ASSUME NEW n, Good(n)
  PROVE  Good(ScanOver(n))
BY DEF Good, Sound, Flags, Values, Owing, Saving, Holding, Asking, Working, Free, Fields, ScanOver

LEMMA ScanEndsWell ==
  ASSUME NEW n, Good(n), NEW in, in.seen \in Nat \ {0}
  PROVE  Good(ScanDone(n, in))
<1> DEFINE m == ScanOver(n)
           wanted == /\ n.pick /\ n.saved # <<>> /\ n.phase = "idle" /\ ~n.rqJoin /\ ~n.rqLeave
                     /\ ~(n.paused /\ ~n.manual)
           c == n.saved[IF in.seen > Len(n.saved) THEN 1 ELSE in.seen]
<1>1. Good(m) BY ScanOverWell
<1>2. ScanDone(n, in) = IF wanted THEN JoinBegin(m, c, FALSE, {}) ELSE m BY DEF ScanDone
<1>3. CASE wanted
  <2>1. c \in Cred /\ c.ssid \notin n.forgotten
    <3>1. n.saved \in Seq(Cred) /\ n.saved # <<>> BY <1>3, SavedSequence DEF Good, Sound, Values
    <3>2. c \in Range(n.saved) BY <3>1 DEF Range
    <3> QED BY <3>1, <3>2 DEF Good, Sound, Saving, Range
  <2>2. /\ m.phase = n.phase /\ m.scanning = FALSE /\ m.forgotten = n.forgotten /\ m.paused = n.paused
        /\ m.manual = n.manual /\ m.mode = n.mode /\ m.rqLeave = n.rqLeave
    BY DEF ScanOver, Good, Sound, Fields
  <2>3. m.mode = "off" => m.manual \/ m.rqLeave BY <1>3, <2>2 DEF Good, Asking
  <2>4. m.paused => m.manual BY <1>3, <2>2 DEF Good, Sound, Flags
  <2> HIDE DEF m, c
  <2>5. Good(JoinBegin(m, c, FALSE, {})) BY <1>1, <1>3, <2>1, <2>2, <2>3, <2>4, BeginsWell
  <2> QED BY <1>2, <1>3, <2>5
<1>4. CASE ~wanted BY <1>1, <1>2, <1>4
<1> QED BY <1>3, <1>4

LEMMA ScanningWell ==
  ASSUME NEW n, Good(n), n.phase # "join",
    NEW pick \in BOOLEAN, NEW b \in BOOLEAN,
    pick => n.phase = "idle" /\ (n.mode = "off" => n.manual \/ n.rqLeave)
  PROVE  Good([n EXCEPT !.scanning = TRUE, !.pick = pick, !.scanLate = FALSE, !.hold = TRUE, !.rqScan = b])
BY DEF Good, Sound, Flags, Values, Owing, Saving, Holding, Asking, Working, Free, Fields

LEMMA ScanBeginsWell ==
  ASSUME NEW n, Good(n), n.phase # "join", NEW pick \in BOOLEAN,
         pick => n.phase = "idle" /\ (n.mode = "off" => n.manual \/ n.rqLeave),
         NEW in, in.seen \in Nat \ {0}
  PROVE  Good(ScanBegin(n, pick, in))
<1> DEFINE b == n.rqScan /\ pick
           m == [n EXCEPT !.scanning = TRUE, !.pick = pick, !.scanLate = FALSE, !.hold = TRUE, !.rqScan = b]
<1>1. b \in BOOLEAN OBVIOUS
<1>2. Good(m)
  <2> HIDE DEF b
  <2> QED BY <1>1, ScanningWell
<1>3. ScanBegin(n, pick, in) = IF n.station /\ in.scan # "failed" THEN m ELSE ScanDone(m, in)
  BY Zenon DEF ScanBegin
<1> HIDE DEF m
<1> QED BY <1>2, <1>3, ScanEndsWell

LEMMA ScanPollsWell ==
  ASSUME NEW n, Good(n), NEW in, in.seen \in Nat \ {0}
  PROVE  Good(ScanPart(n, in))
BY ScanEndsWell DEF ScanPart, ScanPoll

LEMMA JoinedAgain ==
  ASSUME NEW n, Good(n), n.phase = "online"
  PROVE  Good([Leave(n) EXCEPT !.due = TRUE])
BY DEF Good, Sound, Flags, Values, Owing, Saving, Holding, Asking, Working, Free, Fields, Leave

LEMMA OnlinePollsWell ==
  ASSUME NEW n, Good(n), n.phase = "online", NEW in, in.starts \in BOOLEAN, home \in BOOLEAN
  PROVE  Good(OnlinePoll(n, in))
<1>1. Sound(n) /\ Free(n) BY DEF Good, Working, Free
<1>2. n.mode = "off" => n.manual \/ n.rqLeave BY DEF Good, Asking
<1>3. Due(n) \in SUBSET Jobs BY DEF Due
<1> QED BY <1>1, <1>2, <1>3, LeavesWell, JoinedAgain, FetchBeginsWell DEF OnlinePoll

LEMMA NoLeaveWell ==
  ASSUME NEW n, Good(n), n.phase = "idle", ~n.scanning
  PROVE  Good([n EXCEPT !.rqLeave = FALSE])
BY DEF Good, Sound, Flags, Values, Owing, Saving, Holding, Asking, Working, Free, Fields

LEMMA NoSyncWell ==
  ASSUME NEW n, Good(n)
  PROVE  Good([n EXCEPT !.rqSync = FALSE, !.rqTiles = FALSE])
BY DEF Good, Sound, Flags, Values, Owing, Saving, Holding, Asking, Working, Free, Fields

LEMMA GracedWell ==
  ASSUME NEW n, Good(n)
  PROVE  Good(Graced(n))
BY DEF Good, Sound, Flags, Values, Owing, Saving, Holding, Asking, Working, Free, Fields, Graced

LEMMA GoesWell ==
  ASSUME NEW n, Good(n), n.phase = "idle", ~n.scanning, NEW b \in BOOLEAN
  PROVE  Good([n EXCEPT !.manual = b, !.rqSync = FALSE])
BY DEF Good, Sound, Flags, Values, Owing, Saving, Holding, Asking, Working, Free, Fields

LEMMA BeaconWell ==
  ASSUME NEW n, Good(n), n.phase = "idle", ~n.scanning
  PROVE  Good([Answer(n, n.rqReply) EXCEPT
                          !.rqJoin = FALSE, !.rqReply = {}, !.rqCred = NoCred, !.rqNew = FALSE,
                          !.state = IF n.rqJoin THEN "failed" ELSE @,
                          !.rqSync = FALSE, !.rqTiles = FALSE])
BY DEF Good, Sound, Flags, Values, Owing, Saving, Holding, Asking, Working, Free, Fields, Answer

LEMMA AskedWell ==
  ASSUME NEW n, Good(n), n.phase = "idle", ~n.scanning, n.rqJoin
  PROVE  Good(JoinBegin([n EXCEPT !.rqJoin = FALSE, !.rqReply = {}, !.rqCred = NoCred, !.rqNew = FALSE,
                                 !.manual = TRUE],
                       n.rqCred, n.rqNew, n.rqReply))
<1>1. Sound(JoinBegin([n EXCEPT !.rqJoin = FALSE, !.rqReply = {}, !.rqCred = NoCred, !.rqNew = FALSE,
                                 !.manual = TRUE],
                       n.rqCred, n.rqNew, n.rqReply))
  <2>1. DOMAIN (JoinBegin([n EXCEPT !.rqJoin = FALSE, !.rqReply = {}, !.rqCred = NoCred, !.rqNew = FALSE,
                                 !.manual = TRUE],
                       n.rqCred, n.rqNew, n.rqReply)) = Fields BY DEF Sound, Good, JoinBegin
  <2>2. Flags(JoinBegin([n EXCEPT !.rqJoin = FALSE, !.rqReply = {}, !.rqCred = NoCred, !.rqNew = FALSE,
                                 !.manual = TRUE],
                       n.rqCred, n.rqNew, n.rqReply)) BY DEF Sound, Good, Flags, Fields, JoinBegin
  <2>3. Values(JoinBegin([n EXCEPT !.rqJoin = FALSE, !.rqReply = {}, !.rqCred = NoCred, !.rqNew = FALSE,
                                 !.manual = TRUE],
                       n.rqCred, n.rqNew, n.rqReply)) BY DEF Sound, Good, Values, Fields, JoinBegin
  <2>4. Owing(JoinBegin([n EXCEPT !.rqJoin = FALSE, !.rqReply = {}, !.rqCred = NoCred, !.rqNew = FALSE,
                                 !.manual = TRUE],
                       n.rqCred, n.rqNew, n.rqReply)) BY DEF Sound, Good, Owing, Fields, JoinBegin
  <2>5. Saving(JoinBegin([n EXCEPT !.rqJoin = FALSE, !.rqReply = {}, !.rqCred = NoCred, !.rqNew = FALSE,
                                 !.manual = TRUE],
                       n.rqCred, n.rqNew, n.rqReply)) BY DEF Sound, Good, Saving, Fields, JoinBegin
  <2>6. Holding(JoinBegin([n EXCEPT !.rqJoin = FALSE, !.rqReply = {}, !.rqCred = NoCred, !.rqNew = FALSE,
                                 !.manual = TRUE],
                       n.rqCred, n.rqNew, n.rqReply)) BY DEF Sound, Good, Holding, Fields, JoinBegin
  <2> QED BY <2>1, <2>2, <2>3, <2>4, <2>5, <2>6 DEF Sound
<1>2. Asking(JoinBegin([n EXCEPT !.rqJoin = FALSE, !.rqReply = {}, !.rqCred = NoCred, !.rqNew = FALSE,
                                 !.manual = TRUE],
                       n.rqCred, n.rqNew, n.rqReply))
                         BY DEF Sound, Good, Asking, Holding, Fields, Flags, JoinBegin
<1>3. Working(JoinBegin([n EXCEPT !.rqJoin = FALSE, !.rqReply = {}, !.rqCred = NoCred, !.rqNew = FALSE,
                                 !.manual = TRUE],
                       n.rqCred, n.rqNew, n.rqReply))
                         BY DEF Sound, Good, Working, Free, Fields, Flags, JoinBegin
<1> QED BY <1>1, <1>2, <1>3 DEF Good

LEMMA IdlesWell ==
  ASSUME NEW n, Good(n), n.phase = "idle", ~n.scanning, NEW in, in.seen \in Nat \ {0}
  PROVE  Good(Idle(n, in))
<1> DEFINE m == [n EXCEPT !.rqLeave = FALSE]
           graced == Graced(m)
           due == /\ m.mode # "off" /\ ~m.paused /\ graced.grace = "no"
                  /\ (m.mode = "stay" /\ ~m.failing) \/ m.due
           go == [graced EXCEPT !.manual = m.rqSync, !.rqSync = FALSE]
           beacon == [Answer(m, m.rqReply) EXCEPT
                          !.rqJoin = FALSE, !.rqReply = {}, !.rqCred = NoCred, !.rqNew = FALSE,
                          !.state = IF m.rqJoin THEN "failed" ELSE @,
                          !.rqSync = FALSE, !.rqTiles = FALSE]
           asked == JoinBegin([m EXCEPT !.rqJoin = FALSE, !.rqReply = {}, !.rqCred = NoCred, !.rqNew = FALSE,
                                 !.manual = TRUE],
                       m.rqCred, m.rqNew, m.rqReply)
           unsaved == [m EXCEPT !.rqSync = FALSE, !.rqTiles = FALSE]
<1>1. Idle(n, in) =
        CASE ~m.station -> IF m.rqScan THEN ScanBegin(beacon, FALSE, in) ELSE beacon
          [] m.station /\ m.rqJoin -> asked
          [] m.station /\ ~m.rqJoin /\ m.rqScan -> ScanBegin(m, FALSE, in)
          [] m.station /\ ~m.rqJoin /\ ~m.rqScan ->
               IF m.saved = <<>> THEN unsaved
               ELSE IF ~due /\ ~m.rqSync THEN graced
               ELSE IF Len(m.saved) >= 2 THEN ScanBegin(go, TRUE, in)
               ELSE JoinBegin(go, m.saved[1], FALSE, {})
  BY Zenon DEF Idle
<1>2. Good(m) /\ m.phase = "idle" /\ ~m.scanning
  <2>1. Good(m) BY NoLeaveWell
  <2>2. m.phase = "idle" /\ ~m.scanning BY DEF Good, Sound, Fields
  <2> QED BY <2>1, <2>2
<1> HIDE DEF m
<1>3. m.station \in BOOLEAN /\ m.rqJoin \in BOOLEAN /\ m.rqScan \in BOOLEAN /\ m.rqSync \in BOOLEAN
  BY <1>2 DEF Good, Sound, Flags
<1>4. Good(beacon) /\ beacon.phase = "idle"
  <2>1. Good(beacon) BY <1>2, BeaconWell
  <2>2. beacon.phase = "idle" BY <1>2 DEF Good, Sound, Fields, Answer
  <2> QED BY <2>1, <2>2
<1>5. m.rqJoin => Good(asked) BY <1>2, AskedWell
<1>6. Good(unsaved) BY <1>2, NoSyncWell
<1>7. /\ Good(graced) /\ graced.phase = "idle" /\ ~graced.scanning /\ graced.paused = m.paused /\ graced.mode = m.mode
      /\ graced.saved = m.saved /\ graced.forgotten = m.forgotten
  <2>1. Good(graced) BY <1>2, GracedWell
  <2>2. /\ graced.phase = "idle" /\ ~graced.scanning /\ graced.paused = m.paused /\ graced.mode = m.mode
        /\ graced.saved = m.saved /\ graced.forgotten = m.forgotten
    BY <1>2 DEF Graced, Good, Sound, Fields
  <2> QED BY <2>1, <2>2
<1> HIDE DEF graced
<1>8. /\ Good(go) /\ go.phase = "idle" /\ ~go.scanning /\ go.paused = m.paused /\ go.mode = m.mode /\ go.manual = m.rqSync
      /\ go.saved = m.saved /\ go.forgotten = m.forgotten
  <2>1. Good(go) BY <1>3, <1>7, GoesWell
  <2>2. /\ go.phase = "idle" /\ ~go.scanning /\ go.paused = m.paused /\ go.mode = m.mode /\ go.manual = m.rqSync
        /\ go.saved = m.saved /\ go.forgotten = m.forgotten
    BY <1>7 DEF Good, Sound, Fields
  <2> QED BY <2>1, <2>2
<1>9. CASE m.station /\ ~m.rqJoin /\ ~m.rqScan /\ m.saved # <<>> /\ (due \/ m.rqSync)
  <2>1. go.paused => go.manual BY <1>8, <1>9
  <2>2. go.mode = "off" => go.manual BY <1>8, <1>9
  <2>3. m.saved[1] \in Cred /\ m.saved[1].ssid \notin m.forgotten
    <3>1. m.saved \in Seq(Cred) /\ m.saved # <<>>
      BY <1>2, <1>9, SavedSequence DEF Good, Sound, Values
    <3>2. m.saved[1] \in Range(m.saved) BY <3>1 DEF Range
    <3> QED BY <1>2, <3>1, <3>2 DEF Good, Sound, Saving
  <2> HIDE DEF go, due, beacon, asked, unsaved
  <2>4. Good(JoinBegin(go, m.saved[1], FALSE, {})) BY <1>8, <2>1, <2>2, <2>3, BeginsWell
  <2>5. Good(ScanBegin(go, TRUE, in)) BY <1>8, <2>1, <2>2, ScanBeginsWell
  <2> QED BY <1>1, <1>9, <2>4, <2>5
<1>10. CASE ~(m.station /\ ~m.rqJoin /\ ~m.rqScan /\ m.saved # <<>> /\ (due \/ m.rqSync))
  <2> HIDE DEF go, due, beacon, asked, unsaved
  <2>1. Good(ScanBegin(beacon, FALSE, in)) BY <1>4, ScanBeginsWell
  <2>2. Good(ScanBegin(m, FALSE, in)) BY <1>2, ScanBeginsWell
  <2> QED BY <1>1, <1>2, <1>3, <1>4, <1>5, <1>6, <1>7, <1>10, <2>1, <2>2
<1> QED BY <1>9, <1>10

LEMMA IdlePartWell ==
  ASSUME NEW n, Good(n), NEW in, in.seen \in Nat \ {0}
  PROVE  Good(IdlePart(n, in))
BY IdlesWell, ScanBeginsWell DEF IdlePart

LEMMA PausedWell ==
  ASSUME NEW n, Good(n)
  PROVE  Good(PausedBy([n EXCEPT !.paused = TRUE, !.grace = "no"]))
<1>1. Sound(PausedBy([n EXCEPT !.paused = TRUE, !.grace = "no"]))
  <2>1. DOMAIN (PausedBy([n EXCEPT !.paused = TRUE, !.grace = "no"])) = Fields
    BY DEF Sound, Good, PausedBy, Leave
  <2>2. Flags(PausedBy([n EXCEPT !.paused = TRUE, !.grace = "no"]))
    <3> DEFINE m == [n EXCEPT !.paused = TRUE, !.grace = "no"]
    <3>1. Flags(m) /\ DOMAIN m = Fields BY DEF Sound, Good, Flags, Fields
    <3> HIDE DEF m
    <3> DEFINE d == Leave(m)
    <3>2. Flags(d) /\ DOMAIN d = Fields BY <3>1 DEF Leave, Flags, Fields
    <3> HIDE DEF d
    <3>3. Flags([d EXCEPT !.state = "disconnected"]) BY <3>2 DEF Flags, Fields
    <3>4. Flags([d EXCEPT !.phase = "drain", !.cancel = TRUE, !.cred = m.cred])
      BY <3>2 DEF Flags, Fields
    <3>5. Flags(PausedBy(m)) BY <3>1, <3>2, <3>3, <3>4, Zenon DEF PausedBy, d
    <3> QED BY <3>5 DEF m
  <2>3. Values(PausedBy([n EXCEPT !.paused = TRUE, !.grace = "no"]))
    BY DEF Sound, Good, Values, Fields, PausedBy, Leave
  <2>4. Owing(PausedBy([n EXCEPT !.paused = TRUE, !.grace = "no"]))
    BY DEF Sound, Good, Owing, Fields, PausedBy, Leave
  <2>5. Saving(PausedBy([n EXCEPT !.paused = TRUE, !.grace = "no"]))
    BY DEF Sound, Good, Saving, Fields, PausedBy, Leave
  <2>6. Holding(PausedBy([n EXCEPT !.paused = TRUE, !.grace = "no"]))
    BY DEF Sound, Good, Holding, Fields, PausedBy, Leave
  <2> QED BY <2>1, <2>2, <2>3, <2>4, <2>5, <2>6 DEF Sound
<1>2. Asking(PausedBy([n EXCEPT !.paused = TRUE, !.grace = "no"]))
  BY DEF Sound, Good, Asking, Holding, Fields, Flags, PausedBy, Leave
<1>3. Working(PausedBy([n EXCEPT !.paused = TRUE, !.grace = "no"]))
  BY DEF Sound, Good, Working, Free, Fields, Flags, PausedBy, Leave
<1> QED BY <1>1, <1>2, <1>3 DEF Good

LEMMA ResumedWell ==
  ASSUME NEW n, Good(n)
  PROVE  Good([n EXCEPT !.paused = FALSE, !.grace = "wait"])
BY DEF Good, Sound, Flags, Values, Owing, Saving, Holding, Asking, Working, Free, Fields

LEMMA PhoneWell ==
  ASSUME NEW n, Good(n)
  PROVE  Good(Phone(n))
BY PausedWell, ResumedWell DEF Phone

LEMMA PlacedWell ==
  ASSUME NEW n, Good(n), NEW b \in BOOLEAN, NEW j \in [Jobs -> JobState]
  PROVE  Good([n EXCEPT !.noPos = FALSE, !.due = b, !.job = j])
BY DEF Good, Sound, Flags, Values, Owing, Saving, Holding, Asking, Working, Free, Fields

LEMMA PositionedWell ==
  ASSUME NEW n, Good(n)
  PROVE  Good(Positioned(n))
<1> DEFINE b == n.due \/ n.mode # "off"
           j == [k \in Jobs |-> IF k # "time" /\ k \notin n.sour /\ n.job[k] = "skipped" THEN "due" ELSE n.job[k]]
<1>1. b \in BOOLEAN OBVIOUS
<1>2. j \in [Jobs -> JobState]
  <2>1. n.job \in [Jobs -> JobState] BY DEF Good, Sound, Values
  <2> QED BY <2>1 DEF JobState
<1>3. Positioned(n) = IF n.noPos /\ home THEN [n EXCEPT !.noPos = FALSE, !.due = b, !.job = j] ELSE n
  BY Zenon DEF Positioned
<1> HIDE DEF b, j
<1>4. Good([n EXCEPT !.noPos = FALSE, !.due = b, !.job = j]) BY <1>1, <1>2, PlacedWell
<1> QED BY <1>3, <1>4

LEMMA PhasePollWell ==
  ASSUME NEW n, Good(n), NEW in, in.starts \in BOOLEAN, home \in BOOLEAN
  PROVE  Good(PhasePoll(n, in))
<1>1. n.phase \in {"idle", "join", "fetch", "online", "drain"} BY DEF Good, Sound, Values
<1> QED BY <1>1, JoinPollsWell, FetchPollsWell, OnlinePollsWell DEF PhasePoll

\* net_tick's last line makes the hold exact.
LEMMA FreeHopWell ==
  ASSUME NEW n, Good(n)
  PROVE  /\ Good(FreeHop(n))
         /\ FreeHop(n).hold <=> FreeHop(n).phase \in {"join", "fetch", "online"} \/ FreeHop(n).scanning
<1> DEFINE m == [n EXCEPT !.hold = FALSE]
<1>1. CASE n.phase \in {"idle", "drain"} /\ ~n.scanning
  <2>1. Sound(m)
    <3>1. DOMAIN m = Fields BY DEF Sound, Good
    <3>2. Flags(m) BY DEF Sound, Good, Flags, Fields
    <3>3. Values(m) BY DEF Sound, Good, Values, Fields
    <3>4. Owing(m) BY DEF Sound, Good, Owing, Fields
    <3>5. Saving(m) BY DEF Sound, Good, Saving, Fields
    <3>6. Holding(m) BY <1>1 DEF Sound, Good, Holding, Fields
    <3> QED BY <3>1, <3>2, <3>3, <3>4, <3>5, <3>6 DEF Sound
  <2>2. Asking(m) BY DEF Sound, Good, Asking, Fields
  <2>3. Working(m) BY DEF Sound, Good, Working, Fields
  <2>4. m.hold = FALSE /\ m.phase = n.phase /\ m.scanning = n.scanning BY DEF Sound, Good, Fields
  <2>5. FreeHop(n) = m BY <1>1 DEF FreeHop
  <2> HIDE DEF m
  <2> QED BY <1>1, <2>1, <2>2, <2>3, <2>4, <2>5 DEF Good
<1>2. CASE ~(n.phase \in {"idle", "drain"} /\ ~n.scanning)
  <2>1. FreeHop(n) = n BY <1>2 DEF FreeHop
  <2>2. n.hold BY <1>2 DEF Good, Sound, Values, Holding
  <2>3. n.phase \in {"join", "fetch", "online"} \/ n.scanning BY <1>2 DEF Good, Sound, Values
  <2> QED BY <2>1, <2>2, <2>3
<1> QED BY <1>1, <1>2

-----------------------------------------------------------------------------
\* What a person asks for, the worker and time: each keeps the record good, and
\* leaves the phase, the scan and the hold alone.
Requested(n, drops, again, from, cred, b) ==
  [Answer(n, drops) EXCEPT !.rqJoin = TRUE, !.rqCred = cred, !.rqNew = b, !.rqReply = from,
             !.owed = [s \in Src |-> IF s \in from /\ ~again THEN @[s] + 1 ELSE @[s]],
             !.forgotten = @ \ {cred.ssid}]

LEMMA RequestedWell ==
  ASSUME NEW n, Good(n),
         NEW from \in SUBSET Src, NEW cred \in Cred, NEW b \in BOOLEAN, NEW drops, NEW again \in BOOLEAN,
         again <=> n.rqJoin /\ n.rqReply = from, drops = IF n.rqJoin /\ n.rqReply # from THEN n.rqReply ELSE {}
  PROVE  LET m == Requested(n, drops, again, from, cred, b) IN
         Good(m) /\ m.hold = n.hold /\ m.phase = n.phase /\ m.scanning = n.scanning
BY DEF Good, Sound, Flags, Values, Owing, Saving, Holding, Asking, Working, Free, Fields, Answer,
    Requested

LEMMA RefusedWell ==
  ASSUME NEW n, Good(n)
  PROVE  LET m == [n EXCEPT !.state = "failed"] IN
         Good(m) /\ m.hold = n.hold /\ m.phase = n.phase /\ m.scanning = n.scanning
BY DEF Good, Sound, Flags, Values, Owing, Saving, Holding, Asking, Working, Free, Fields

LEMMA ScanAskedWell ==
  ASSUME NEW n, Good(n), NEW from \in SUBSET Src, NEW b \in BOOLEAN
  PROVE  LET m == [n EXCEPT !.scanReply = @ \cup from, !.rqScan = b] IN
         Good(m) /\ m.hold = n.hold /\ m.phase = n.phase /\ m.scanning = n.scanning
BY DEF Good, Sound, Flags, Values, Owing, Saving, Holding, Asking, Working, Free, Fields

ForgottenNow(n, s, b, f, e) == [n EXCEPT !.saved = s, !.rqLeave = b, !.forgotten = f, !.state = e]

LEMMA ForgottenWell ==
  ASSUME NEW n, Good(n), NEW ssid,
         NEW s \in SavedLists, NEW b \in BOOLEAN, NEW f,
         NEW e \in {"disconnected", "connecting", "connected", "failed"},
         \A c \in Range(s) : c \in Range(n.saved) /\ c.ssid # ssid,
         n.rqLeave \/ (n.phase = "join" /\ n.cred.ssid = ssid) => b = TRUE,
         f \subseteq n.forgotten \cup {ssid}, n.rqJoin /\ n.rqCred.ssid = ssid => f = n.forgotten
  PROVE  Good(ForgottenNow(n, s, b, f, e))
BY DEF Good, Sound, Flags, Values, Owing, Saving, Holding, Asking, Working, Free, Fields,
    ForgottenNow

ModeSet(n, mode, b, d, e, f) == [n EXCEPT !.mode = mode, !.rqLeave = b, !.due = d, !.failing = e, !.rqSync = f]

LEMMA ModeWell ==
  ASSUME NEW n, Good(n), NEW mode \in {"off", "sync", "stay"},
         NEW b \in BOOLEAN, NEW d \in BOOLEAN, NEW e \in BOOLEAN, NEW f \in BOOLEAN,
         n.rqLeave => b = TRUE, mode = "off" /\ (n.phase # "idle" \/ n.scanning) => b = TRUE
  PROVE  Good(ModeSet(n, mode, b, d, e, f))
BY DEF Good, Sound, Flags, Values, Owing, Saving, Holding, Asking, Working, Free, Fields, ModeSet

LEMMA SyncAskedWell ==
  ASSUME NEW n, Good(n)
  PROVE  LET m == [n EXCEPT !.rqSync = TRUE, !.force = TRUE] IN
         Good(m) /\ m.hold = n.hold /\ m.phase = n.phase /\ m.scanning = n.scanning
BY DEF Good, Sound, Flags, Values, Owing, Saving, Holding, Asking, Working, Free, Fields

LEMMA MapAskedWell ==
  ASSUME NEW n, Good(n), NEW now \in {"due", "fresh"}
  PROVE  LET m == [n EXCEPT !.rqTiles = TRUE, !.rqSync = TRUE, !.job["tiles"] = now] IN
         Good(m) /\ m.hold = n.hold /\ m.phase = n.phase /\ m.scanning = n.scanning
<1>1. Sound([n EXCEPT !.rqTiles = TRUE, !.rqSync = TRUE, !.job["tiles"] = now])
  <2>1. DOMAIN ([n EXCEPT !.rqTiles = TRUE, !.rqSync = TRUE, !.job["tiles"] = now]) = Fields
    BY DEF Sound, Good, JobState
  <2>2. Flags([n EXCEPT !.rqTiles = TRUE, !.rqSync = TRUE, !.job["tiles"] = now])
    BY DEF Sound, Good, Flags, Fields, JobState
  <2>3. Values([n EXCEPT !.rqTiles = TRUE, !.rqSync = TRUE, !.job["tiles"] = now])
    BY DEF Sound, Good, Values, Fields, JobState
  <2>4. Owing([n EXCEPT !.rqTiles = TRUE, !.rqSync = TRUE, !.job["tiles"] = now])
    BY DEF Sound, Good, Owing, Fields, JobState
  <2>5. Saving([n EXCEPT !.rqTiles = TRUE, !.rqSync = TRUE, !.job["tiles"] = now])
    BY DEF Sound, Good, Saving, Fields, JobState
  <2>6. Holding([n EXCEPT !.rqTiles = TRUE, !.rqSync = TRUE, !.job["tiles"] = now])
    BY DEF Sound, Good, Holding, Fields, JobState
  <2> QED BY <2>1, <2>2, <2>3, <2>4, <2>5, <2>6 DEF Sound
<1>2. Asking([n EXCEPT !.rqTiles = TRUE, !.rqSync = TRUE, !.job["tiles"] = now])
  BY DEF Sound, Good, Asking, Holding, Fields, Flags, JobState
<1>3. Working([n EXCEPT !.rqTiles = TRUE, !.rqSync = TRUE, !.job["tiles"] = now])
  BY DEF Sound, Good, Working, Free, Fields, Flags, JobState
<1>4. LET m == [n EXCEPT !.rqTiles = TRUE, !.rqSync = TRUE, !.job["tiles"] = now]
      IN  m.hold = n.hold /\ m.phase = n.phase /\ m.scanning = n.scanning
  BY DEF Good, Sound, Fields, JobState
<1> QED BY <1>1, <1>2, <1>3, <1>4 DEF Good

LEMMA WorkerEndsWell ==
  ASSUME NEW n, Good(n), n.worker = "running", NEW r \in [n.fetch -> Outcome]
  PROVE  LET m == [n EXCEPT !.worker = "done", !.res = r] IN
         Good(m) /\ m.hold = n.hold /\ m.phase = n.phase /\ m.scanning = n.scanning
BY DEF Good, Sound, Flags, Values, Owing, Saving, Holding, Asking, Working, Free, Fields

LEMMA JoinLateWell ==
  ASSUME NEW n, Good(n)
  PROVE  LET m == [n EXCEPT !.joinLate = TRUE] IN
         Good(m) /\ m.hold = n.hold /\ m.phase = n.phase /\ m.scanning = n.scanning
BY DEF Good, Sound, Flags, Values, Owing, Saving, Holding, Asking, Working, Free, Fields

LEMMA ScanLateWell ==
  ASSUME NEW n, Good(n)
  PROVE  LET m == [n EXCEPT !.scanLate = TRUE] IN
         Good(m) /\ m.hold = n.hold /\ m.phase = n.phase /\ m.scanning = n.scanning
BY DEF Good, Sound, Flags, Values, Owing, Saving, Holding, Asking, Working, Free, Fields

LEMMA FetchLateWell ==
  ASSUME NEW n, Good(n)
  PROVE  LET m == [n EXCEPT !.fetchLate = TRUE] IN
         Good(m) /\ m.hold = n.hold /\ m.phase = n.phase /\ m.scanning = n.scanning
BY DEF Good, Sound, Flags, Values, Owing, Saving, Holding, Asking, Working, Free, Fields

LEMMA DueWell ==
  ASSUME NEW n, Good(n)
  PROVE  LET m == [n EXCEPT !.due = TRUE] IN
         Good(m) /\ m.hold = n.hold /\ m.phase = n.phase /\ m.scanning = n.scanning
BY DEF Good, Sound, Flags, Values, Owing, Saving, Holding, Asking, Working, Free, Fields

LEMMA GraceOverWell ==
  ASSUME NEW n, Good(n)
  PROVE  LET m == [n EXCEPT !.grace = "over"] IN
         Good(m) /\ m.hold = n.hold /\ m.phase = n.phase /\ m.scanning = n.scanning
BY DEF Good, Sound, Flags, Values, Owing, Saving, Holding, Asking, Working, Free, Fields

LEMMA JobDueWell ==
  ASSUME NEW n, Good(n), NEW k \in Jobs, NEW now \in {"due", "fresh"}
  PROVE  LET m == [n EXCEPT !.job[k] = now] IN
         Good(m) /\ m.hold = n.hold /\ m.phase = n.phase /\ m.scanning = n.scanning
BY DEF Good, Sound, Flags, Values, Owing, Saving, Holding, Asking, Working, Free, Fields, JobState

-----------------------------------------------------------------------------
\* The invariant, and that each step of the specification keeps it.
LEMMA InitWell ==
  ASSUME NEW mode \in {"off", "sync", "stay"}, NEW saved \in SavedLists, NEW station \in BOOLEAN
  PROVE  LET m == InitNet(mode, saved, station) IN
         Good(m) /\ ~m.hold /\ m.phase = "idle" /\ ~m.scanning
<1>1. Range(saved) \subseteq Cred BY SavedSequence DEF Range
<1> DEFINE m == InitNet(mode, saved, station)
<1>2. DOMAIN m = Fields BY DEF InitNet, Fields
<1>3. Flags(m) BY DEF InitNet, Flags
<1>4. Values(m) BY DEF InitNet, Values, NoResult, JobState
<1>5. Owing(m) BY DEF InitNet, Owing
<1>6. Saving(m) BY DEF InitNet, Saving
<1>7. Holding(m) BY DEF InitNet, Holding
<1>8. Asking(m) BY DEF InitNet, Asking
<1>9. Working(m) BY DEF InitNet, Working
<1>10. ~m.hold /\ m.phase = "idle" /\ ~m.scanning BY DEF InitNet
<1> QED BY <1>2, <1>3, <1>4, <1>5, <1>6, <1>7, <1>8, <1>9, <1>10 DEF Good, Sound

HopAsHeld(n) == n.hold <=> n.phase \in {"join", "fetch", "online"} \/ n.scanning

NetInv ==
  /\ Good(g) /\ HopAsHeld(g)
  /\ phone \in BOOLEAN /\ home \in BOOLEAN /\ asks \in 0 .. MaxAsks

LEMMA NetInitially == NetInit => NetInv
<1> SUFFICES ASSUME NetInit PROVE NetInv OBVIOUS
<1>1. PICK mode \in {"off", "sync", "stay"}, saved \in SavedLists, station \in BOOLEAN :
        g = InitNet(mode, saved, station)
  BY DEF NetInit
<1>2. Good(g) /\ ~g.hold /\ g.phase = "idle" /\ ~g.scanning BY <1>1, InitWell
<1>3. HopAsHeld(g) BY <1>2 DEF HopAsHeld
<1>4. phone \in BOOLEAN /\ home \in BOOLEAN BY Zenon DEF NetInit
<1>5. asks \in 0 .. MaxAsks BY AsksAssumption DEF NetInit
<1> QED BY <1>2, <1>3, <1>4, <1>5 DEF NetInv

LEMMA InputOK == ASSUME NEW in \in Input PROVE in.starts \in BOOLEAN /\ in.seen \in Nat \ {0}
<1>1. in.starts \in IF g.phase \in {"join", "online"} \/ g.pick THEN BOOLEAN ELSE {TRUE}
  BY Zenon DEF Input
<1>2. in.seen \in IF g.pick THEN 1 .. MaxSaved ELSE {1} BY Zenon DEF Input
<1>3. in.starts \in BOOLEAN BY <1>1, Zenon
<1>4. in.seen \in Nat \ {0} BY <1>2, SavedAssumption
<1> QED BY <1>3, <1>4

LEMMA TickWell ==
  ASSUME NetInv, NEW in \in Input, TickWith(in)
  PROVE  NetInv'
<1>1. in.starts \in BOOLEAN /\ in.seen \in Nat \ {0} BY InputOK
<1> DEFINE placed == Positioned(Phone(g))
           polled == PhasePoll(ScanPart(placed, in), in)
<1>2. g' = FreeHop(IdlePart(polled, in)) /\ UNCHANGED <<phone, home, asks>> BY DEF TickWith
<1>3. Good(g) /\ home \in BOOLEAN BY DEF NetInv
<1>4. Good(placed) BY <1>3, PhoneWell, PositionedWell
<1>5. Good(polled) BY <1>1, <1>3, <1>4, ScanPollsWell, PhasePollWell
<1> HIDE DEF placed, polled
<1>6. Good(IdlePart(polled, in)) BY <1>1, <1>5, IdlePartWell
<1>7. Good(g') /\ HopAsHeld(g') BY <1>2, <1>6, FreeHopWell DEF HopAsHeld
<1> QED BY <1>2, <1>7 DEF NetInv

LEMMA AsksWell ==
  ASSUME NetInv, NEW n, Asked(n), Good(n), n.hold = g.hold, n.phase = g.phase, n.scanning = g.scanning
  PROVE  NetInv'
<1>1. Good(g') /\ HopAsHeld(g') BY DEF Asked, NetInv, HopAsHeld
<1>2. asks' \in 0 .. MaxAsks BY AsksAssumption DEF Asked, NetInv
<1> QED BY <1>1, <1>2 DEF Asked, NetInv

LEMMA BecomesWell ==
  ASSUME NetInv, NEW n, Becomes(n), Good(n), n.hold = g.hold, n.phase = g.phase, n.scanning = g.scanning
  PROVE  NetInv'
BY DEF Becomes, NetInv, HopAsHeld

LEMMA RequestJoinWell ==
  ASSUME NetInv, NEW from \in {{}} \cup {{s} : s \in Src}, NEW cred \in Cred, NEW given \in BOOLEAN,
         RequestJoin(from, cred, given)
  PROVE  NetInv'
<1> DEFINE known == ~given /\ IsSaved(g, cred.ssid)
           b == ~known
           drops == IF g.rqJoin /\ g.rqReply # from THEN g.rqReply ELSE {}
           again == g.rqJoin /\ g.rqReply = from
           n == Requested(g, drops, again, from, cred, b)
<1>1. Asked(n) BY Zenon DEF RequestJoin, Requested
<1>2. Good(g) BY DEF NetInv
<1>3. from \in SUBSET Src OBVIOUS
<1>4. b \in BOOLEAN /\ again \in BOOLEAN /\ (again <=> g.rqJoin /\ g.rqReply = from) BY DEF IsSaved
<1> HIDE DEF b, again
<1>5. Good(n) /\ n.hold = g.hold /\ n.phase = g.phase /\ n.scanning = g.scanning
  BY <1>2, <1>3, <1>4, RequestedWell
<1> HIDE DEF n
<1> QED BY <1>1, <1>5, AsksWell

LEMMA ScanRequestWell ==
  ASSUME NetInv, NEW from \in {{}} \cup {{s} : s \in Src}, ScanRequest(from)
  PROVE  NetInv'
<1> DEFINE b == g.rqScan \/ ~g.scanning
           n == [g EXCEPT !.scanReply = @ \cup from, !.rqScan = b]
<1>1. Asked(n) BY Zenon DEF ScanRequest
<1>2. b \in BOOLEAN /\ from \in SUBSET Src /\ Good(g) BY DEF NetInv
<1> HIDE DEF b
<1>3. Good(n) /\ n.hold = g.hold /\ n.phase = g.phase /\ n.scanning = g.scanning BY <1>2, ScanAskedWell
<1> HIDE DEF n
<1> QED BY <1>1, <1>3, AsksWell

LEMMA NetForgetWell ==
  ASSUME NetInv, NEW ssid \in Ssid, NetForget(ssid)
  PROVE  NetInv'
<1>1. Good(g) BY DEF NetInv
<1> DEFINE s == Without(g.saved, ssid)
           f == IF g.rqJoin /\ g.rqCred.ssid = ssid THEN g.forgotten ELSE g.forgotten \cup {ssid}
<1>2. PICK b \in BOOLEAN, e \in {"disconnected", "connecting", "connected", "failed"} :
        /\ Asked(ForgottenNow(g, s, b, f, e))
        /\ b = (g.rqLeave \/ (g.phase # "idle" /\ g.cred # NoCred /\ g.cred.ssid = ssid))
  <2> DEFINE b == g.rqLeave \/ (g.phase # "idle" /\ g.cred # NoCred /\ g.cred.ssid = ssid)
             m == [g EXCEPT !.saved = s, !.rqLeave = b, !.forgotten = f]
             e == IF m.state = "failed" /\ m.saved = <<>> THEN "disconnected" ELSE m.state
  <2>1. Asked([m EXCEPT !.state = e]) BY Zenon DEF NetForget
  <2>2. b \in BOOLEAN OBVIOUS
  <2> HIDE DEF s, b, f
  <2>3. e \in {"disconnected", "connecting", "connected", "failed"}
    BY <1>1 DEF Good, Sound, Values, Fields
  <2> HIDE DEF e
  <2>4. [m EXCEPT !.state = e] = ForgottenNow(g, s, b, f, e) BY DEF ForgottenNow
  <2>5. Asked(ForgottenNow(g, s, b, f, e)) BY <2>1, <2>4
  <2>6. b = (g.rqLeave \/ (g.phase # "idle" /\ g.cred # NoCred /\ g.cred.ssid = ssid))
    BY Zenon DEF b
  <2> QED BY <2>2, <2>3, <2>5, <2>6, Zenon
<1>3. g.saved \in SavedLists /\ IsSaved(g, ssid) BY <1>1, Zenon DEF Good, Sound, Values, NetForget
<1>4. s \in SavedLists /\ \A c \in Range(s) : c \in Range(g.saved) /\ c.ssid # ssid
  BY <1>3, WithoutIs DEF IsSaved
<1>5. g.rqLeave \/ (g.phase = "join" /\ g.cred.ssid = ssid) => b = TRUE
  <2>1. g.phase = "join" => g.cred \in Cred BY <1>1 DEF Good, Sound, Saving
  <2>2. g.phase = "join" => g.cred # NoCred BY <2>1, CredAssumption DEF Cred
  <2>3. g.rqLeave \in BOOLEAN BY <1>1 DEF Good, Sound, Flags
  <2> QED BY <1>2, <2>2, <2>3, Zenon
<1>6. f \subseteq g.forgotten \cup {ssid} /\ (g.rqJoin /\ g.rqCred.ssid = ssid => f = g.forgotten) OBVIOUS
<1> HIDE DEF s, f
<1> DEFINE n == ForgottenNow(g, s, b, f, e)
<1>7. Good(n) BY <1>1, <1>4, <1>5, <1>6, ForgottenWell, Zenon
<1>8. n.hold = g.hold /\ n.phase = g.phase /\ n.scanning = g.scanning
  BY <1>1 DEF ForgottenNow, Good, Sound, Fields
<1> HIDE DEF n
<1> QED BY <1>2, <1>7, <1>8, AsksWell DEF n

LEMMA SetModeWell ==
  ASSUME NetInv, NEW mode \in {"off", "sync", "stay"}, SetMode(mode)
  PROVE  NetInv'
<1>1. Good(g) BY DEF NetInv
<1>2. PICK b \in BOOLEAN, d \in BOOLEAN, e \in BOOLEAN, f \in BOOLEAN :
        /\ Asked(ModeSet(g, mode, b, d, e, f))
        /\ g.rqLeave => b = TRUE
        /\ mode = "off" /\ (g.phase # "idle" \/ g.scanning) => b = TRUE
  <2> DEFINE goes == mode # g.mode /\ (g.mode = "off" \/ mode = "stay")
             b == g.rqLeave \/ (mode = "off" /\ (g.phase # "idle" \/ g.scanning))
             d == g.due \/ goes
             e == g.failing /\ ~goes
             f == g.rqSync \/ goes
  <2>1. Asked(ModeSet(g, mode, b, d, e, f)) BY Zenon DEF SetMode, ModeSet
  <2>2. b \in BOOLEAN /\ d \in BOOLEAN /\ e \in BOOLEAN /\ f \in BOOLEAN OBVIOUS
  <2>3. /\ g.rqLeave => b = TRUE
        /\ mode = "off" /\ (g.phase # "idle" \/ g.scanning) => b = TRUE
    BY <1>1 DEF Good, Sound, Flags
  <2> HIDE DEF b, d, e, f
  <2> QED BY <2>1, <2>2, <2>3, Zenon
<1> DEFINE n == ModeSet(g, mode, b, d, e, f)
<1>3. Good(n) BY <1>1, <1>2, ModeWell, Zenon
<1>4. n.hold = g.hold /\ n.phase = g.phase /\ n.scanning = g.scanning
  BY <1>1 DEF ModeSet, Good, Sound, Fields
<1> HIDE DEF n
<1> QED BY <1>2, <1>3, <1>4, AsksWell DEF n

LEMMA UpdateMapWell == ASSUME NetInv, UpdateMap PROVE NetInv'
<1>1. PICK now \in {"due", "fresh"} :
        Asked([g EXCEPT !.rqTiles = TRUE, !.rqSync = TRUE, !.job["tiles"] = now])
  BY DEF UpdateMap
<1>2. Good(g) BY DEF NetInv
<1> DEFINE n == [g EXCEPT !.rqTiles = TRUE, !.rqSync = TRUE, !.job["tiles"] = now]
<1>3. Good(n) /\ n.hold = g.hold /\ n.phase = g.phase /\ n.scanning = g.scanning BY <1>2, MapAskedWell
<1> HIDE DEF n
<1> QED BY <1>1, <1>3, AsksWell DEF n

LEMMA NetAskWell == ASSUME NetInv, NetAsk PROVE NetInv'
<1>1. Good(g) BY DEF NetInv
<1>2. CASE Refused
  <2> DEFINE n == [g EXCEPT !.state = "failed"]
  <2>1. Good(n) /\ n.hold = g.hold /\ n.phase = g.phase /\ n.scanning = g.scanning BY <1>1, RefusedWell
  <2>2. Asked(n) BY <1>2 DEF Refused
  <2> HIDE DEF n
  <2> QED BY <2>1, <2>2, AsksWell
<1>3. CASE NetSyncNow
  <2> DEFINE n == [g EXCEPT !.rqSync = TRUE, !.force = TRUE]
  <2>1. Good(n) /\ n.hold = g.hold /\ n.phase = g.phase /\ n.scanning = g.scanning BY <1>1, SyncAskedWell
  <2>2. Asked(n) BY <1>3 DEF NetSyncNow
  <2> HIDE DEF n
  <2> QED BY <2>1, <2>2, AsksWell
<1> QED BY <1>2, <1>3, RequestJoinWell, ScanRequestWell, NetForgetWell, SetModeWell DEF NetAsk

LEMMA WorkerDoneWell == ASSUME NetInv, WorkerDone PROVE NetInv'
<1>1. PICK r \in Results : Becomes([g EXCEPT !.worker = "done", !.res = r]) BY DEF WorkerDone
<1>2. r \in [g.fetch -> Outcome] BY DEF Results
<1>3. Good(g) /\ g.worker = "running" BY DEF NetInv, WorkerDone
<1> DEFINE n == [g EXCEPT !.worker = "done", !.res = r]
<1>4. Good(n) /\ n.hold = g.hold /\ n.phase = g.phase /\ n.scanning = g.scanning BY <1>2, <1>3, WorkerEndsWell
<1> HIDE DEF n
<1> QED BY <1>1, <1>4, BecomesWell DEF n

LEMMA ElapsesWell == ASSUME NetInv, Elapses PROVE NetInv'
<1>1. Good(g) BY DEF NetInv
<1>2. PICK n : Becomes(n) /\ Good(n) /\ n.hold = g.hold /\ n.phase = g.phase /\ n.scanning = g.scanning
  <2>1. CASE JoinElapses BY <1>1, <2>1, JoinLateWell DEF JoinElapses
  <2>2. CASE ScanElapses BY <1>1, <2>2, ScanLateWell DEF ScanElapses
  <2>3. CASE FetchElapses BY <1>1, <2>3, FetchLateWell DEF FetchElapses
  <2>4. CASE WindowDue BY <1>1, <2>4, DueWell DEF WindowDue
  <2>5. CASE GraceElapses BY <1>1, <2>5, GraceOverWell DEF GraceElapses
  <2>6. ASSUME NEW k \in Jobs, JobElapses(k)
        PROVE  \E n : Becomes(n) /\ Good(n) /\ n.hold = g.hold /\ n.phase = g.phase /\ n.scanning = g.scanning
    <3>1. PICK now \in {"due", "fresh"} : Becomes([g EXCEPT !.job[k] = now]) BY <2>6 DEF JobElapses
    <3> QED BY <1>1, <3>1, JobDueWell
  <2> QED BY <2>1, <2>2, <2>3, <2>4, <2>5, <2>6 DEF Elapses
<1> QED BY <1>2, BecomesWell

LEMMA NetKept == NetInv /\ [NetNext]_netVars => NetInv'
<1> SUFFICES ASSUME NetInv, [NetNext]_netVars PROVE NetInv' OBVIOUS
<1>1. CASE Tick BY <1>1, TickWell DEF Tick
<1>2. CASE NetAsk BY <1>2, NetAskWell
<1>3. CASE PhoneComes \/ PhoneGoes \/ FixFound
  BY <1>3 DEF PhoneComes, PhoneGoes, FixFound, NetInv, HopAsHeld
<1>4. CASE WorkerDone BY <1>4, WorkerDoneWell
<1>5. CASE Elapses BY <1>5, ElapsesWell
<1>6. CASE UpdateMap BY <1>6, UpdateMapWell
<1>7. CASE UNCHANGED netVars BY <1>7 DEF netVars, NetInv, HopAsHeld
<1> QED BY <1>1, <1>2, <1>3, <1>4, <1>5, <1>6, <1>7 DEF NetNext, NetSteps

LEMMA NetInvariant == NetSpec => []NetInv
BY NetInitially, NetKept, PTL DEF NetSpec

-----------------------------------------------------------------------------
\* Every field of NetSm has its type, and the saved list holds each network
\* once, whatever is joined, forgotten and joined again (net__save_front).
THEOREM NetTyped == NetSpec => []NetTypeOK
<1>1. NetInv => NetTypeOK
  BY DEF NetInv, Good, Sound, Flags, Values, NetTypeOK
<1> QED BY <1>1, NetInvariant, PTL

\* A transport is owed the outcome of its wifi_join as long as the board has it
\* down for one, and hears it once (net__request_join, net__join_fail, net__joined,
\* net__phone).
THEOREM JoinsAnswered == NetSpec => []JoinsOwed
<1>1. NetInv => JoinsOwed
  <2> SUFFICES ASSUME NetInv, NEW s \in Src
               PROVE  g.owed[s] = Cardinality({r \in {"join", "asked"} :
                                                 s \in IF r = "join" THEN g.reply ELSE g.rqReply})
    BY DEF JoinsOwed
  <2> DEFINE who == {r \in {"join", "asked"} : s \in IF r = "join" THEN g.reply ELSE g.rqReply}
  <2>1. g.owed[s] = IF s \in g.reply THEN IF s \in g.rqReply THEN 2 ELSE 1
                    ELSE IF s \in g.rqReply THEN 1 ELSE 0
    BY DEF NetInv, Good, Sound, Owing
  <2>2. CASE s \notin g.reply /\ s \notin g.rqReply
    <3>1. who = {} BY <2>2
    <3> QED BY <2>1, <2>2, <3>1, FS_EmptySet
  <2>3. CASE s \in g.reply /\ s \notin g.rqReply
    <3>1. who = {"join"} BY <2>3
    <3> QED BY <2>1, <2>3, <3>1, FS_Singleton
  <2>4. CASE s \notin g.reply /\ s \in g.rqReply
    <3>1. who = {"asked"} BY <2>4
    <3> QED BY <2>1, <2>4, <3>1, FS_Singleton
  <2>5. CASE s \in g.reply /\ s \in g.rqReply
    <3>1. who = {"join"} \cup {"asked"} BY <2>5
    <3>2. Cardinality({"join"} \cup {"asked"}) = 1 + 1
      <4>1. IsFiniteSet({"join"}) /\ Cardinality({"join"}) = 1 /\ "asked" \notin {"join"} BY FS_Singleton
      <4> QED BY <4>1, FS_AddElement
    <3> QED BY <2>1, <2>5, <3>1, <3>2
  <2> QED BY <2>2, <2>3, <2>4, <2>5
<1> QED BY <1>1, NetInvariant, PTL

\* Only a network that joined is saved; one that was forgotten is not saved again
\* by a join under way; a phone's presence and OFF leave only what a person asked
\* for (net__phone, net__scan_done, net_forget).
THEOREM NothingUnasked == NetSpec => []AsAsked
<1>1. NetInv => AsAsked
  BY DEF NetInv, Good, Sound, Saving, Asking, AsAsked, SavedJoined, OnlyAsked
<1> QED BY <1>1, NetInvariant, PTL
-----------------------------------------------------------------------------
\* A job that was cut short, and its report not taken yet.
CutShort(n, k) ==
  Good(n) /\ n.worker = "done" /\ k \in n.fetch /\ n.res[k] = "cut" /\ ~n.fetchLate /\ n.job[k] # "backoff"

LEMMA CutWhenPaused == ASSUME NEW n, NEW k, CutShort(n, k) PROVE CutShort(Phone(n), k)
<1>1. Good(Phone(n)) BY PhoneWell DEF CutShort
<1>2. /\ Phone(n).worker = n.worker /\ Phone(n).fetch = n.fetch /\ Phone(n).res = n.res
      /\ Phone(n).fetchLate = n.fetchLate /\ Phone(n).job = n.job
  BY DEF CutShort, Good, Sound, Fields, Phone, PausedBy, Leave
<1> QED BY <1>1, <1>2 DEF CutShort

LEMMA CutWhenPositioned == ASSUME NEW n, NEW k, CutShort(n, k) PROVE CutShort(Positioned(n), k)
<1>1. Good(Positioned(n)) BY PositionedWell DEF CutShort
<1>2. /\ Positioned(n).worker = n.worker /\ Positioned(n).fetch = n.fetch /\ Positioned(n).res = n.res
      /\ Positioned(n).fetchLate = n.fetchLate
  BY DEF CutShort, Good, Sound, Fields, Positioned
<1>3. k \in Jobs BY DEF CutShort, Good, Sound, Values
<1>4. Positioned(n).job[k] \in {"due", n.job[k]}
  BY <1>3 DEF CutShort, Good, Sound, Fields, Positioned
<1> QED BY <1>1, <1>2, <1>4 DEF CutShort

LEMMA CutWhenScanned ==
  ASSUME NEW n, NEW k, CutShort(n, k), NEW in, in.seen \in Nat \ {0}
  PROVE  CutShort(ScanPart(n, in), k)
<1>1. Good(ScanPart(n, in)) BY ScanPollsWell DEF CutShort
<1>2. n.phase # "idle" BY DEF CutShort, Good, Working
<1>3. ScanPart(n, in) \in {n, ScanOver(n)} BY <1>2 DEF ScanPart, ScanPoll, ScanDone
<1>4. /\ ScanOver(n).worker = n.worker /\ ScanOver(n).fetch = n.fetch /\ ScanOver(n).res = n.res
      /\ ScanOver(n).fetchLate = n.fetchLate /\ ScanOver(n).job = n.job
  BY DEF CutShort, Good, Sound, Fields, ScanOver
<1> QED BY <1>1, <1>3, <1>4 DEF CutShort

\* The heart of CancelIsNoFailure: only the fetch's guard makes a cut a failure.
LEMMA CutIsNoted ==
  ASSUME NEW n, NEW k, CutShort(n, k), NEW in, in.starts \in BOOLEAN, home \in BOOLEAN
  PROVE  PhasePoll(n, in).job[k] # "backoff"
<1>1. /\ n.phase \in {"fetch", "drain"} /\ n.worker = "done" /\ k \in n.fetch /\ n.res[k] = "cut" /\ ~n.fetchLate
      /\ n.job[k] # "backoff" /\ n.res \in [n.fetch -> Outcome] /\ DOMAIN n = Fields
      /\ n.phase = "fetch" /\ n.cancel => n.rqJoin \/ n.rqLeave
  BY DEF CutShort, Good, Sound, Working
<1>2. k \in Jobs BY DEF CutShort, Good, Sound, Values
<1> DEFINE c == n.cancel \/ (n.rqJoin \/ n.rqLeave \/ ("tiles" \notin n.fetch /\ n.fetchLate))
           m == [n EXCEPT !.cancel = c]
           d == [m EXCEPT !.worker = "none", !.res = NoResult, !.resNoPos = FALSE]
<1>3. PhasePoll(n, in) = FetchPoll(n) BY <1>1 DEF PhasePoll
<1>4. c => n.cancel \/ n.rqJoin \/ n.rqLeave BY <1>1
<1>5. FetchPoll(n) = FetchDone(d, n.res, n.resNoPos)
  <2>1. m = [n EXCEPT !.cancel = @ \/ (n.rqJoin \/ n.rqLeave \/ ("tiles" \notin n.fetch /\ n.fetchLate))] OBVIOUS
  <2>2. m.worker = "done" /\ m.res = n.res /\ m.resNoPos = n.resNoPos BY <1>1 DEF Fields
  <2>3. FetchPoll(n) = IF m.worker = "done" THEN FetchDone(d, m.res, m.resNoPos) ELSE m
    BY <2>1, Zenon DEF FetchPoll
  <2> QED BY <2>2, <2>3
<1> HIDE DEF c
<1>6. /\ DOMAIN d = Fields /\ d.phase = n.phase /\ d.cancel = c /\ d.rqJoin = n.rqJoin /\ d.rqLeave = n.rqLeave
      /\ d.job = n.job
  BY <1>1 DEF Fields
<1> HIDE DEF d
<1>7. ~CutIsFailure(d) BY <1>1, <1>4, <1>6 DEF CutIsFailure
<1> DEFINE noted == Noted(d, n.res, n.resNoPos)
<1>8. DOMAIN noted = Fields /\ noted.job[k] = n.job[k]
  BY <1>1, <1>2, <1>6, <1>7 DEF Noted, Fields, JobAfter
<1>9. FetchDone(d, n.res, n.resNoPos).job = noted.job
  <2> HIDE DEF noted
  <2> QED BY <1>8 DEF FetchDone, AfterWindow, Leave, Fields, noted
<1> QED BY <1>1, <1>3, <1>5, <1>8, <1>9

LEMMA ScanKeepsJobs ==
  ASSUME NEW n, DOMAIN n = Fields, NEW in, NEW pick
  PROVE  ScanBegin(n, pick, in).job = n.job
<1>1. ASSUME NEW m, DOMAIN m = Fields PROVE ScanDone(m, in).job = m.job
  BY <1>1 DEF ScanDone, ScanOver, JoinBegin, Fields
<1> DEFINE m == [n EXCEPT !.scanning = TRUE, !.pick = pick, !.scanLate = FALSE, !.hold = TRUE, !.rqScan = @ /\ pick]
<1>2. DOMAIN m = Fields /\ m.job = n.job BY DEF Fields
<1>3. ScanBegin(n, pick, in) = IF n.station /\ in.scan # "failed" THEN m ELSE ScanDone(m, in)
  BY Zenon DEF ScanBegin
<1> HIDE DEF m
<1> QED BY <1>1, <1>2, <1>3

LEMMA IdleKeepsJobs ==
  ASSUME NEW n, DOMAIN n = Fields, n.station \in BOOLEAN, NEW in
  PROVE  IdlePart(n, in).job = n.job
<1> DEFINE m == [n EXCEPT !.rqLeave = FALSE]
           graced == Graced(m)
           go == [graced EXCEPT !.manual = m.rqSync, !.rqSync = FALSE]
           beacon == [Answer(m, m.rqReply) EXCEPT
                          !.rqJoin = FALSE, !.rqReply = {}, !.rqCred = NoCred, !.rqNew = FALSE,
                          !.state = IF m.rqJoin THEN "failed" ELSE @,
                          !.rqSync = FALSE, !.rqTiles = FALSE]
           asked == JoinBegin([m EXCEPT !.rqJoin = FALSE, !.rqReply = {}, !.rqCred = NoCred, !.rqNew = FALSE,
                                 !.manual = TRUE],
                       m.rqCred, m.rqNew, m.rqReply)
           unsaved == [m EXCEPT !.rqSync = FALSE, !.rqTiles = FALSE]
<1>1. DOMAIN m = Fields /\ m.job = n.job BY DEF Fields
<1> HIDE DEF m
<1>2. DOMAIN graced = Fields /\ graced.job = n.job BY <1>1 DEF Graced, Fields
<1> HIDE DEF graced
<1>3. DOMAIN go = Fields /\ go.job = n.job BY <1>2 DEF Fields
<1>4. DOMAIN beacon = Fields /\ beacon.job = n.job BY <1>1 DEF Answer, Fields
<1>5. asked.job = n.job /\ unsaved.job = n.job BY <1>1 DEF JoinBegin, Fields
<1>6. JoinBegin(go, m.saved[1], FALSE, {}).job = n.job BY <1>3 DEF JoinBegin, Fields
<1>7. Idle(n, in) \in {beacon, asked, unsaved, graced, ScanBegin(beacon, FALSE, in), ScanBegin(m, FALSE, in),
                       ScanBegin(go, TRUE, in), JoinBegin(go, m.saved[1], FALSE, {})}
  <2>1. m.station \in BOOLEAN BY DEF m, Fields
  <2> QED BY <2>1 DEF Idle, m, graced
<1> HIDE DEF go, beacon, asked, unsaved
<1>8. /\ ScanBegin(beacon, FALSE, in).job = n.job /\ ScanBegin(m, FALSE, in).job = n.job
      /\ ScanBegin(go, TRUE, in).job = n.job
  BY <1>1, <1>3, <1>4, ScanKeepsJobs
<1>9. Idle(n, in).job = n.job BY <1>1, <1>2, <1>4, <1>5, <1>6, <1>7, <1>8
<1> QED BY <1>9, ScanKeepsJobs DEF IdlePart

LEMMA TickNotesCuts ==
  ASSUME NetInv, NEW in \in Input, TickWith(in)
  PROVE  CancelNoted
<1> SUFFICES ASSUME NEW k \in DOMAIN g.res, g.res[k] = "cut", ~g.fetchLate, g.job[k] # "backoff"
             PROVE  g'.job[k] # "backoff"
  BY DEF CancelNoted
<1>1. in.starts \in BOOLEAN /\ in.seen \in Nat \ {0} BY InputOK
<1>2. CutShort(g, k)
  <2>1. Good(g) BY DEF NetInv
  <2>2. DOMAIN NoResult = {} BY DEF NoResult
  <2>3. g.worker = "done" BY <2>1, <2>2 DEF Good, Working
  <2> QED BY <2>1, <2>3 DEF Good, Working, CutShort
<1> DEFINE scanned == ScanPart(Positioned(Phone(g)), in)
<1>3. CutShort(scanned, k) BY <1>1, <1>2, CutWhenPaused, CutWhenPositioned, CutWhenScanned
<1> HIDE DEF scanned
<1> DEFINE polled == PhasePoll(scanned, in)
<1>4. Good(polled) /\ polled.job[k] # "backoff"
  BY <1>1, <1>3, PhasePollWell, CutIsNoted DEF CutShort, NetInv
<1> HIDE DEF polled
<1>5. IdlePart(polled, in).job = polled.job BY <1>4, IdleKeepsJobs DEF Good, Sound, Flags
<1>6. DOMAIN IdlePart(polled, in) = Fields BY <1>1, <1>4, IdlePartWell DEF Good, Sound
<1>7. FreeHop(IdlePart(polled, in)).job = polled.job BY <1>5, <1>6 DEF FreeHop, Fields
<1>8. g' = FreeHop(IdlePart(polled, in)) BY DEF TickWith, polled, scanned
<1> QED BY <1>4, <1>7, <1>8

LEMMA CutsNoted == NetInv /\ [NetNext]_netVars => CancelNoted
<1> SUFFICES ASSUME NetInv, [NetNext]_netVars PROVE CancelNoted OBVIOUS
<1>1. Good(g) BY DEF NetInv
<1>2. \A k \in DOMAIN g.res : k \in Jobs BY <1>1 DEF Good, Sound, Values
<1>3. ASSUME g'.job = g.job PROVE CancelNoted BY <1>3 DEF CancelNoted
<1>4. ASSUME NEW j, NEW now \in {"due", "fresh"}, g'.job = [g.job EXCEPT ![j] = now] PROVE CancelNoted
  <2>1. DOMAIN g.job = Jobs BY <1>1 DEF Good, Sound, Values
  <2> QED BY <1>2, <1>4, <2>1 DEF CancelNoted
<1>5. DOMAIN g = Fields BY <1>1 DEF Good, Sound
<1>6. CASE Tick BY <1>6, TickNotesCuts DEF Tick
<1>7. CASE NetAsk
  <2>1. ASSUME NEW n, Asked(n), n.job = g.job PROVE CancelNoted BY <1>3, <2>1 DEF Asked
  <2>2. ASSUME NEW from, NEW cred, NEW given, RequestJoin(from, cred, given) PROVE g'.job = g.job
    BY <1>5, <2>2 DEF RequestJoin, Asked, Answer, Fields
  <2>3. ASSUME NEW from, ScanRequest(from) PROVE g'.job = g.job
    BY <1>5, <2>3 DEF ScanRequest, Asked, Fields
  <2>4. ASSUME NEW ssid, NetForget(ssid) PROVE g'.job = g.job
    BY <1>5, <2>4 DEF NetForget, Asked, Fields
  <2>5. ASSUME NEW mode, SetMode(mode) PROVE g'.job = g.job BY <1>5, <2>5 DEF SetMode, Asked, Fields
  <2>6. CASE Refused \/ NetSyncNow BY <1>3, <1>5, <2>6 DEF Refused, NetSyncNow, Asked, Fields
  <2> QED BY <1>3, <1>7, <2>2, <2>3, <2>4, <2>5, <2>6 DEF NetAsk
<1>8. CASE PhoneComes \/ PhoneGoes \/ FixFound BY <1>3, <1>8 DEF PhoneComes, PhoneGoes, FixFound
<1>9. CASE WorkerDone BY <1>3, <1>5, <1>9 DEF WorkerDone, Becomes, Fields
<1>10. CASE Elapses
  <2>1. CASE JoinElapses \/ ScanElapses \/ FetchElapses \/ WindowDue \/ GraceElapses
    BY <1>3, <1>5, <2>1 DEF JoinElapses, ScanElapses, FetchElapses, WindowDue, GraceElapses,
        Becomes, Fields
  <2>2. ASSUME NEW k \in Jobs, JobElapses(k) PROVE CancelNoted
    <3>1. PICK now \in {"due", "fresh"} : g' = [g EXCEPT !.job[k] = now]
      BY <2>2 DEF JobElapses, Becomes
    <3>2. g'.job = [g.job EXCEPT ![k] = now] BY <1>5, <3>1 DEF Fields
    <3> QED BY <1>4, <3>2
  <2> QED BY <1>10, <2>1, <2>2 DEF Elapses
<1>11. CASE UpdateMap
  <2>1. PICK now \in {"due", "fresh"} : g' = [g EXCEPT !.rqTiles = TRUE, !.rqSync = TRUE, !.job["tiles"] = now]
    BY <1>11 DEF UpdateMap, Asked
  <2>2. g'.job = [g.job EXCEPT !["tiles"] = now] BY <1>5, <2>1 DEF Fields
  <2> QED BY <1>4, <2>2
<1>12. CASE UNCHANGED netVars BY <1>3, <1>12 DEF netVars
<1> QED BY <1>6, <1>7, <1>8, <1>9, <1>10, <1>11, <1>12 DEF NetNext, NetSteps

-----------------------------------------------------------------------------
\* After every step the hop is held exactly while the radio is on an access
\* point's channel or scans, a worker runs exactly while a fetch waits for it,
\* and a job that a phone, a CONNECT or OFF cut short is not backed off.
THEOREM PhaseAsItIs == NetSpec => PhaseRight
<1>1. NetInv' => HopHeld' /\ WorkerMatches'
  <2>1. NetInv => HopHeld /\ WorkerMatches BY DEF NetInv, HopAsHeld, HopHeld, Good, Working,
      WorkerMatches
  <2> QED BY <2>1, PTL
<1>2. NetInv /\ [NetNext]_netVars => [CancelNoted]_netVars BY CutsNoted
<1> QED BY <1>1, <1>2, NetInvariant, NetKept, PTL DEF NetSpec, PhaseRight, CancelIsNoFailure
=============================================================================
