------------------------------ MODULE NetSync ------------------------------
(***************************************************************************)
(* The T5's Wi-Fi (firmware/common/net_sync.h): saved networks, the state  *)
(* machine that shares the one radio with Remote ID sniffing, what a       *)
(* person asks for on the screen or over a link, the pause while a phone   *)
(* is connected; and the worker that runs the fetch jobs (net_fetch.h).    *)
(*                                                                         *)
(* NetSm, the one record the whole file works on, is the variable g. Each  *)
(* function of the file that changes it is an operator from a record to a  *)
(* record here, so that net_tick, which calls most of them, is one step.   *)
(* Time is what has elapsed: a timer that was started may run out later.   *)
(*                                                                         *)
(* Left out: lengths of periods and back-offs, radio numbers, the built-in *)
(* network, radius settings, what the status lines say.                    *)
(***************************************************************************)
EXTENDS Naturals, Sequences, FiniteSets, Functions

CONSTANTS
  Ssid, Psk,   \* network names; passwords
  MaxSaved,    \* NET_MAX_SAVED
  Src,         \* the transports commands come from (HostSrc)
  Jobs,        \* the jobs the model has, of AllJobs
  NoCred,      \* no network
  MaxAsks      \* bound of the model: things a person asks for

AllJobs == {"time", "tfr", "adsb", "tiles"}

ASSUME SavedAssumption == MaxSaved \in Nat \ {0}
ASSUME JobsAssumption  == Jobs \subseteq AllJobs
ASSUME AsksAssumption  == MaxAsks \in Nat
ASSUME CredAssumption  == NoCred \notin [ssid : Ssid, psk : Psk]

VARIABLES
  g,      \* NetSm, and the worker (s_nf)
  phone,  \* a phone is connected on an encrypted link
  home,   \* a home position is known
  asks    \* bound: what a person has asked for so far

netVars == <<g, phone, home, asks>>

Cred == [ssid : Ssid, psk : Psk]

\* What a job did: "cut" is the result's `cancelled`, "part" a map that is
\* not complete yet. A source's 429 is a failure here.
Outcome == {"ok", "part", "failed", "skipped", "cut"}

\* A job is due; or it was done and is not due yet; or it waits after a
\* failure (or a 429), or after it was skipped.
JobState == {"due", "fresh", "backoff", "skipped"}

NoResult == [k \in {} |-> "ok"]

\* net__initial, with what net_esp_load found in flash. What only a join, a
\* scan or a fetch reads is reset when that ends, so that no state differs
\* in a value nobody reads. The last line is history: answers owed to each
\* transport for its wifi_join; the credentials that have joined; networks
\* forgotten and not asked for since; this fetch has SYNC NOW's jobs.
InitNet(mode, saved, station) ==
  [ phase |-> "idle", state |-> "disconnected", mode |-> mode, saved |-> saved, station |-> station,
    cred |-> NoCred, isNew |-> FALSE, reply |-> {}, joinLate |-> FALSE,
    rqJoin |-> FALSE, rqCred |-> NoCred, rqNew |-> FALSE, rqReply |-> {},
    rqScan |-> FALSE, scanReply |-> {}, rqSync |-> FALSE, rqTiles |-> FALSE, rqLeave |-> FALSE,
    force |-> FALSE, scanning |-> FALSE, pick |-> FALSE, scanLate |-> FALSE,
    failing |-> FALSE, due |-> TRUE, hold |-> FALSE,
    job |-> [k \in Jobs |-> "due"], sour |-> {}, noPos |-> FALSE,
    fetch |-> {}, cancel |-> FALSE, fetchLate |-> FALSE,
    worker |-> "none", res |-> NoResult, resNoPos |-> FALSE,
    paused |-> FALSE, grace |-> "no", manual |-> FALSE,
    owed |-> [s \in Src |-> 0], proved |-> Range(saved), forgotten |-> {}, forced |-> FALSE ]

SavedLists ==
  {s \in UNION {[1 .. n -> Cred] : n \in 0 .. MaxSaved} :
     \A i, j \in DOMAIN s : s[i].ssid = s[j].ssid => i = j}

NetInit ==
  /\ \E mode \in {"off", "sync", "stay"}, saved \in SavedLists, station \in BOOLEAN :
       g = InitNet(mode, saved, station)
  /\ home \in IF Jobs \subseteq {"time"} THEN {TRUE} ELSE BOOLEAN  \* the clock needs none
  /\ phone = FALSE /\ asks = 0

(***************************************************************************)
(* Helpers.                                                                *)
(***************************************************************************)

\* net__saved_index
IsSaved(n, ssid) == \E i \in DOMAIN n.saved : n.saved[i].ssid = ssid

SavedIndex(saved, ssid) == CHOOSE i \in DOMAIN saved : saved[i].ssid = ssid

\* net_forget: the networks after it move up.
Without(saved, ssid) ==
  [k \in 1 .. Len(saved) - 1 |-> IF k < SavedIndex(saved, ssid) THEN saved[k] ELSE saved[k + 1]]

\* An older entry of the network stays (broken on purpose).
SaveFrontTwice(saved, cred) ==
  LET all == <<cred>> \o saved IN SubSeq(all, 1, IF Len(all) > MaxSaved THEN MaxSaved ELSE Len(all))

\* net__save_front: the networks before the one that joins move down by one,
\* all of them, the last one out of a full list, if it was not saved.
SaveFront(saved, cred) ==
  LET found == \E i \in DOMAIN saved : saved[i].ssid = cred.ssid
      n     == IF found \/ Len(saved) = MaxSaved THEN Len(saved) ELSE Len(saved) + 1
      from  == IF found THEN SavedIndex(saved, cred.ssid) ELSE n
  IN  [k \in 1 .. n |-> IF k = 1 THEN cred ELSE IF k <= from THEN saved[k - 1] ELSE saved[k]]

\* A wifi_status or an error for the transports in `to` (net__reply_status,
\* net__reply_err) that says how their wifi_join ended.
Answer(n, to) == [n EXCEPT !.owed = [s \in Src |-> IF s \in to THEN @[s] - 1 ELSE @[s]]]

\* net__leave
Leave(n) ==
  [n EXCEPT !.phase = "idle", !.manual = FALSE, !.cred = NoCred, !.isNew = FALSE, !.joinLate = FALSE,
            !.state = IF @ = "failed" THEN @ ELSE "disconnected"]

\* net__join_begin
JoinBegin(n, cred, isNew, reply) ==
  [n EXCEPT !.cred = cred, !.isNew = isNew, !.reply = reply, !.joinLate = FALSE,
            !.phase = "join", !.state = "connecting", !.hold = TRUE]

\* net__join_fail: a saved network backs off, a typed one just reports.
JoinFail(n) ==
  [Leave(Answer(n, n.reply)) EXCEPT !.state = "failed", !.reply = {},
                                    !.failing = @ \/ ~n.isNew, !.due = @ /\ n.isNew]

\* net__join_poll, the join is superseded.
Superseded(n) == [Leave(Answer(n, n.reply)) EXCEPT !.state = "disconnected", !.reply = {}]

\* net__after_window
AfterWindow(n) ==
  IF n.mode = "stay" /\ ~n.rqLeave /\ ~n.paused
  THEN [n EXCEPT !.phase = "online", !.manual = FALSE]
  ELSE Leave(n)

(***************************************************************************)
(* Jobs.                                                                   *)
(***************************************************************************)

\* net__due
Due(n) ==
  {k \in Jobs : \/ n.job[k] = "due"
                \/ n.force /\ k # "tiles"
                \/ n.rqTiles /\ k = "tiles" /\ n.job[k] = "fresh"}

\* A cancel is no failure, except the fetch guard's.
CutIsFailure(n) == n.cancel /\ n.phase # "drain" /\ ~n.rqJoin /\ ~n.rqLeave

\* net__job_outcome
JobAfter(n, k, outcome) ==
  CASE outcome = "ok"      -> "fresh"
    [] outcome = "part"    -> IF n.job[k] = "fresh" THEN "fresh" ELSE "due"
    [] outcome = "failed"  -> "backoff"
    [] outcome = "skipped" -> "skipped"
    [] outcome = "cut"     -> n.job[k]

\* net__fetch_done, its first part: what the result r says of each job.
Noted(n, r, noPos) ==
  LET o == [k \in DOMAIN r |-> IF r[k] = "cut" /\ CutIsFailure(n) THEN "failed" ELSE r[k]]
      is(k, what) == k \in DOMAIN o /\ o[k] \in what
  IN  [n EXCEPT
        !.job  = [k \in Jobs |-> IF k \in DOMAIN o THEN JobAfter(n, k, o[k]) ELSE @[k]],
        !.sour = {k \in Jobs : is(k, {"failed"}) \/ (k \in @ /\ ~is(k, {"ok", "part"}))},
        !.rqTiles = @ /\ ~is("tiles", {"ok", "failed"}),
        !.noPos = noPos, !.fetch = {}, !.cancel = FALSE, !.fetchLate = FALSE, !.forced = FALSE]

\* net__fetch_done
FetchDone(n, r, noPos) ==
  IF n.phase = "drain" THEN [Noted(n, r, noPos) EXCEPT !.phase = "idle"]
  ELSE IF n.rqJoin \/ n.rqLeave THEN Leave(Noted(n, r, noPos))
  ELSE AfterWindow(Noted(n, r, noPos))

\* net__fetch_begin, before the jobs start. (ADS-B counts as tried when it is
\* asked for.)
Begun(n, jobs) ==
  LET tried(k) == k = "adsb" /\ k \in jobs /\ n.job[k] = "due"
  IN  [n EXCEPT !.force = FALSE, !.rqSync = FALSE, !.phase = "fetch", !.fetch = jobs,
                !.cancel = FALSE, !.fetchLate = FALSE, !.forced = n.force,
                !.job = [k \in Jobs |-> IF tried(k) THEN "fresh" ELSE @[k]]]

\* net__fetch_begin; `starts`: jobs_start found a free worker and memory.
FetchBegin(n, jobs, starts) ==
  IF starts /\ n.worker = "none"
  THEN [Begun(n, jobs) EXCEPT !.worker = "running", !.resNoPos = ~home /\ jobs # {"time"}]
  ELSE FetchDone(Begun(n, jobs), [k \in jobs |-> "failed"], FALSE)

\* net__fetch_poll
FetchPoll(n) ==
  LET stop == n.rqJoin \/ n.rqLeave \/ ("tiles" \notin n.fetch /\ n.fetchLate)
      m    == [n EXCEPT !.cancel = @ \/ stop]
  IN  IF m.worker = "done" THEN FetchDone([m EXCEPT !.worker = "none", !.res = NoResult, !.resNoPos = FALSE],
                                         m.res, m.resNoPos)
      ELSE m

(***************************************************************************)
(* Joining and scanning. `in` is what the radio says: see Tick.            *)
(***************************************************************************)

\* net__joined, its first part: the network is saved, who asked is answered.
Proved(n) ==
  [Answer(n, n.reply) EXCEPT
     !.state = "connected", !.phase = "online", !.failing = FALSE,
     !.saved = SaveFront(@, n.cred), !.proved = @ \cup {n.cred}, !.joinLate = FALSE,
     !.mode = IF n.isNew /\ @ = "off" THEN "sync" ELSE @,
     !.isNew = FALSE, !.due = FALSE, !.reply = {}]

\* net__joined: what is due is fetched at once.
Joined(n, in) ==
  LET m == Proved(n)
  IN  IF Due(m) # {} THEN FetchBegin(m, Due(m), in.starts) ELSE AfterWindow(m)

\* The link first, the requests after it (broken on purpose).
JoinPollLinkFirst(n, in) ==
  CASE in.link = "up" -> Joined(n, in)
    [] in.link = "refused" \/ n.joinLate -> JoinFail(n)
    [] n.rqJoin \/ n.rqLeave -> Superseded(n)
    [] OTHER -> n

\* net__join_poll: superseded, joined, refused, too late, or not yet.
JoinPoll(n, in) ==
  IF n.rqJoin \/ n.rqLeave THEN Superseded(n)
  ELSE IF in.link = "up" THEN Joined(n, in)
  ELSE IF in.link = "refused" \/ n.joinLate THEN JoinFail(n)
  ELSE n

\* net__scan_done: who asked hears the result; a pick joins.
ScanOver(n) == [n EXCEPT !.scanning = FALSE, !.pick = FALSE, !.scanLate = FALSE, !.scanReply = {}]

ScanDone(n, in) ==
  LET m == ScanOver(n)
  IN  IF n.pick /\ n.saved # <<>> /\ n.phase = "idle" /\ ~n.rqJoin /\ ~n.rqLeave
                /\ ~(n.paused /\ ~n.manual)
      THEN JoinBegin(m, n.saved[IF in.seen > Len(n.saved) THEN 1 ELSE in.seen], FALSE, {})
      ELSE m

\* net__scan_begin
ScanBegin(n, pick, in) ==
  LET m == [n EXCEPT !.scanning = TRUE, !.pick = pick, !.scanLate = FALSE, !.hold = TRUE,
                     !.rqScan = @ /\ pick]
  IN  IF n.station /\ in.scan # "failed" THEN m ELSE ScanDone(m, in)

\* net__scan_poll
ScanPoll(n, in) ==
  IF in.scan = "running" /\ ~n.scanLate THEN n ELSE ScanDone(n, in)

\* net__online_poll; a link that is lost is joined again at once.
OnlinePoll(n, in) ==
  IF n.rqJoin \/ n.rqLeave \/ n.mode # "stay" \/ n.paused THEN Leave(n)
  ELSE IF in.link # "up" THEN [Leave(n) EXCEPT !.due = TRUE]
  ELSE IF Due(n) # {} THEN FetchBegin(n, Due(n), in.starts)
  ELSE n

\* The grace after a phone never ends (broken on purpose).
GraceKept(n) == n

\* net__idle: the grace after a phone is over.
Graced(n) == [n EXCEPT !.grace = IF @ = "over" /\ ~n.paused THEN "no" ELSE @]

\* net__idle: a join asked for, a scan asked for, or a window: one that is
\* due and not paused, or one a person asked for.
Idle(n, in) ==
  LET m == [n EXCEPT !.rqLeave = FALSE]
      graced == Graced(m)
      due == /\ m.mode # "off" /\ ~m.paused /\ graced.grace = "no"
             /\ (m.mode = "stay" /\ ~m.failing) \/ m.due
      go  == [graced EXCEPT !.manual = m.rqSync, !.rqSync = FALSE]
      beacon == [Answer(m, m.rqReply) EXCEPT
                          !.rqJoin = FALSE, !.rqReply = {}, !.rqCred = NoCred, !.rqNew = FALSE,
                          !.state = IF m.rqJoin THEN "failed" ELSE @,
                          !.rqSync = FALSE, !.rqTiles = FALSE]
  IN  CASE ~m.station -> IF m.rqScan THEN ScanBegin(beacon, FALSE, in) ELSE beacon
        [] m.station /\ m.rqJoin ->
             JoinBegin([m EXCEPT !.rqJoin = FALSE, !.rqReply = {}, !.rqCred = NoCred, !.rqNew = FALSE,
                                 !.manual = TRUE],
                       m.rqCred, m.rqNew, m.rqReply)
        [] m.station /\ ~m.rqJoin /\ m.rqScan -> ScanBegin(m, FALSE, in)
        [] m.station /\ ~m.rqJoin /\ ~m.rqScan ->
             IF m.saved = <<>> THEN [m EXCEPT !.rqSync = FALSE, !.rqTiles = FALSE]
             ELSE IF ~due /\ ~m.rqSync THEN graced
             ELSE IF Len(m.saved) >= 2 THEN ScanBegin(go, TRUE, in)
             ELSE JoinBegin(go, m.saved[1], FALSE, {})

(***************************************************************************)
(* The phone's pause, and the tick.                                        *)
(***************************************************************************)

\* A join a person asked for is dropped too (broken on purpose).
PausedDropsAll(n) ==
  IF n.phase = "join" THEN [Leave(n) EXCEPT !.state = "disconnected"]
  ELSE IF n.phase = "fetch" /\ ~n.manual THEN [Leave(n) EXCEPT !.phase = "drain", !.cancel = TRUE, !.cred = n.cred]
  ELSE IF n.phase = "online" THEN Leave(n)
  ELSE n

\* net__phone, a phone came: an automatic window is dropped; its worker
\* drains.
PausedBy(n) ==
  IF n.phase = "join" /\ ~n.manual THEN [Leave(n) EXCEPT !.state = "disconnected"]
  ELSE IF n.phase = "fetch" /\ ~n.manual THEN [Leave(n) EXCEPT !.phase = "drain", !.cancel = TRUE, !.cred = n.cred]
  ELSE IF n.phase = "online" THEN Leave(n)
  ELSE n

\* net__phone
Phone(n) ==
  IF phone = n.paused THEN n
  ELSE IF phone THEN PausedBy([n EXCEPT !.paused = TRUE, !.grace = "no"])
  ELSE [n EXCEPT !.paused = FALSE, !.grace = "wait"]

\* net_tick, a position arrived: what was skipped for want of one is due.
Positioned(n) ==
  IF n.noPos /\ home
  THEN [n EXCEPT !.noPos = FALSE, !.due = @ \/ n.mode # "off",
                 !.job = [k \in Jobs |-> IF k # "time" /\ k \notin n.sour /\ @[k] = "skipped"
                                         THEN "due" ELSE @[k]]]
  ELSE n

PhasePoll(n, in) ==
  CASE n.phase = "join" -> JoinPoll(n, in)
    [] n.phase \in {"fetch", "drain"} -> FetchPoll(n)
    [] n.phase = "online" -> OnlinePoll(n, in)
    [] n.phase = "idle" -> n

\* The hop is given back while a fetch is drained only (broken on purpose).
FreeHopDraining(n) == IF n.phase = "drain" /\ ~n.scanning THEN [n EXCEPT !.hold = FALSE] ELSE n

\* net_tick's last line.
FreeHop(n) ==
  IF n.phase \in {"idle", "drain"} /\ ~n.scanning THEN [n EXCEPT !.hold = FALSE] ELSE n

\* net_tick, in its order. (Each \E names what the last part returned.)
ScanPart(n, in) == IF n.scanning THEN ScanPoll(n, in) ELSE n
IdlePart(n, in) ==
  IF n.phase = "online" /\ n.rqScan /\ ~n.scanning THEN ScanBegin(n, FALSE, in)
  ELSE IF n.phase = "idle" /\ ~n.scanning THEN Idle(n, in)
  ELSE n

\* What the radio and the heap may answer: the link is up, the network
\* refuses us (not found, wrong password), or neither; a scan runs, fails, or
\* is done; `seen` is the saved network picked; a worker task can be started.
Input ==
  LET linkAsked == g.phase \in {"join", "online"} \/ g.pick
  IN  [link   : IF linkAsked THEN {"up", "refused", "none"} ELSE {"none"},
       starts : IF linkAsked THEN BOOLEAN ELSE {TRUE},
       scan   : IF g.scanning THEN {"running", "failed", "done"} ELSE {"running", "failed"},
       seen   : IF g.pick THEN 1 .. MaxSaved ELSE {1}]

\* The radio keeps us waiting, and loses no link.
Quiet == [link |-> IF g.phase = "online" THEN "up" ELSE "none", scan |-> "running", seen |-> 1, starts |-> TRUE]

TickWith(in) ==
  /\ \E paused \in {Phone(g)} : \E placed \in {Positioned(paused)} :
     \E scanned \in {ScanPart(placed, in)} : \E polled \in {PhasePoll(scanned, in)} :
     \E idled \in {IdlePart(polled, in)} : g' = FreeHop(idled)
  /\ UNCHANGED <<phone, home, asks>>

Tick == \E in \in Input : TickWith(in)

(***************************************************************************)
(* What a person asks for: the API the screen and net_host_line call.      *)
(***************************************************************************)

Asked(n) ==
  /\ asks < MaxAsks
  /\ asks' = asks + 1
  /\ g' = n
  /\ UNCHANGED <<phone, home>>

\* net__request_join, from a transport or (`from` is {}) the screen: with a
\* password, or (`given` is FALSE) the saved one. An earlier request that
\* never started is answered, unless it is the same transport's.
RequestJoin(from, cred, given) ==
  LET known == ~given /\ IsSaved(g, cred.ssid)
      drops == IF g.rqJoin /\ g.rqReply # from THEN g.rqReply ELSE {}
      again == g.rqJoin /\ g.rqReply = from
      m     == Answer(g, drops)
  IN  /\ known => cred \in Range(g.saved)
      /\ Asked([m EXCEPT !.rqJoin = TRUE, !.rqCred = cred, !.rqNew = ~known, !.rqReply = from,
                         !.owed = [s \in Src |-> IF s \in from /\ ~again THEN @[s] + 1 ELSE @[s]],
                         !.forgotten = @ \ {cred.ssid}])

\* net_connect with a password that cannot be right.
Refused == Asked([g EXCEPT !.state = "failed"])

\* net_scan_request
ScanRequest(from) ==
  Asked([g EXCEPT !.scanReply = @ \cup from, !.rqScan = @ \/ ~g.scanning])

\* net_forget. (A join of it that was asked for and has not begun stays.)
NetForget(ssid) ==
  LET m == [g EXCEPT !.saved = Without(@, ssid),
                     !.rqLeave = @ \/ (g.phase # "idle" /\ g.cred # NoCred /\ g.cred.ssid = ssid),
                     !.forgotten = IF g.rqJoin /\ g.rqCred.ssid = ssid THEN @ ELSE @ \cup {ssid}]
  IN  /\ IsSaved(g, ssid)
      /\ Asked([m EXCEPT !.state = IF @ = "failed" /\ m.saved = <<>> THEN "disconnected" ELSE @])

\* net_set_mode
SetMode(mode) ==
  LET goes == mode # g.mode /\ (g.mode = "off" \/ mode = "stay")
  IN  Asked([g EXCEPT !.mode = mode,
                      !.rqLeave = @ \/ (mode = "off" /\ (g.phase # "idle" \/ g.scanning)),
                      !.due = @ \/ goes, !.failing = @ /\ ~goes, !.rqSync = @ \/ goes])

\* net_sync_now
NetSyncNow == Asked([g EXCEPT !.rqSync = TRUE, !.force = TRUE])

\* net_update_map: the map's back-off is lifted; it may not be due without.
UpdateMap ==
  \E now \in {"due", "fresh"} :
    /\ "tiles" \in Jobs
    /\ g.job["tiles"] \in {"due", "fresh"} => now = g.job["tiles"]
    /\ Asked([g EXCEPT !.rqTiles = TRUE, !.rqSync = TRUE, !.job["tiles"] = now])

(***************************************************************************)
(* The phone, the position, the worker, time.                              *)
(***************************************************************************)

PhoneComes == ~phone /\ phone' = TRUE /\ UNCHANGED <<g, home, asks>>
PhoneGoes == phone /\ phone' = FALSE /\ UNCHANGED <<g, home, asks>>
FixFound == ~home /\ home' = TRUE /\ UNCHANGED <<g, phone, asks>>

Becomes(n) == g' = n /\ UNCHANGED <<phone, home, asks>>

\* What the jobs of a fetch may have done: without a position only the clock
\* is set; nothing is cut short unless a cancel came, and a job after one that
\* was cut never ran; the map alone may be skipped (the app syncs tiles).
JobOrder(k) == CASE k = "time" -> 1 [] k = "tfr" -> 2 [] k = "adsb" -> 3 [] k = "tiles" -> 4

Results ==
  {r \in [g.fetch -> Outcome] :
     \A k \in g.fetch :
       /\ r[k] = "cut" => g.cancel /\ \A j \in g.fetch : JobOrder(j) > JobOrder(k) => r[j] = "cut"
       /\ r[k] = "part" => k = "tiles"
       /\ r[k] = "skipped" => k # "time" /\ (g.resNoPos \/ k = "tiles")
       /\ g.resNoPos /\ k # "time" => r[k] \in {"skipped", "cut"}}

\* net_fetch_task ends.
WorkerDone ==
  /\ g.worker = "running"
  /\ \E r \in Results : Becomes([g EXCEPT !.worker = "done", !.res = r])

JoinElapses == g.phase = "join" /\ ~g.joinLate /\ Becomes([g EXCEPT !.joinLate = TRUE])
ScanElapses == g.scanning /\ ~g.scanLate /\ Becomes([g EXCEPT !.scanLate = TRUE])
FetchElapses == g.phase = "fetch" /\ ~g.fetchLate /\ Becomes([g EXCEPT !.fetchLate = TRUE])
WindowDue == ~g.due /\ Becomes([g EXCEPT !.due = TRUE])
GraceElapses == g.grace = "wait" /\ Becomes([g EXCEPT !.grace = "over"])

\* A job's period, back-off or wait is over. What waited may be done already.
JobElapses(k) ==
  \E now \in {"due", "fresh"} :
    /\ g.job[k] # "due"
    /\ g.job[k] = "fresh" => now = "due"
    /\ Becomes([g EXCEPT !.job[k] = now])

NetAsk ==
  \/ \E from \in {{}} \cup {{s} : s \in Src}, cred \in Cred, given \in BOOLEAN :
       RequestJoin(from, cred, given)
  \/ Refused
  \/ \E from \in {{}} \cup {{s} : s \in Src} : ScanRequest(from)
  \/ \E ssid \in Ssid : NetForget(ssid)
  \/ \E mode \in {"off", "sync", "stay"} : SetMode(mode)
  \/ NetSyncNow

Elapses == JoinElapses \/ ScanElapses \/ FetchElapses \/ WindowDue \/ GraceElapses
           \/ \E k \in Jobs : JobElapses(k)

NetSteps == Tick \/ NetAsk \/ PhoneComes \/ PhoneGoes \/ WorkerDone \/ Elapses

NetNext == NetSteps \/ UpdateMap \/ FixFound

NetSpec == NetInit /\ [][NetNext]_netVars

\* The loop ticks, the worker's requests time out, and time passes. The
\* radio owes us nothing.
NetFairness ==
  /\ WF_netVars(TickWith(Quiet)) /\ WF_netVars(WorkerDone)
  /\ WF_netVars(JoinElapses) /\ WF_netVars(ScanElapses) /\ WF_netVars(WindowDue) /\ WF_netVars(GraceElapses)

NetFairSpec == NetSpec /\ NetFairness

(***************************************************************************)
(* Properties.                                                             *)
(***************************************************************************)

\* Every variable has its type; the saved list holds each network once.
NetTypeOK ==
  /\ g.phase \in {"idle", "join", "fetch", "online", "drain"}
  /\ g.state \in {"disconnected", "connecting", "connected", "failed"}
  /\ g.mode \in {"off", "sync", "stay"} /\ g.grace \in {"no", "wait", "over"}
  /\ g.saved \in SavedLists
  /\ g.cred \in Cred \cup {NoCred} /\ g.rqCred \in Cred \cup {NoCred}
  /\ g.reply \subseteq Src /\ g.rqReply \subseteq Src /\ g.scanReply \subseteq Src
  /\ {g.rqJoin, g.rqScan, g.rqSync, g.rqTiles, g.rqLeave, g.isNew, g.rqNew, g.force, g.scanning, g.pick,
      g.failing, g.due, g.hold, g.noPos, g.cancel, g.paused, g.manual} \subseteq BOOLEAN
  /\ g.job \in [Jobs -> JobState] /\ g.sour \subseteq Jobs /\ g.fetch \subseteq Jobs
  /\ g.worker \in {"none", "running", "done"} /\ DOMAIN g.res \subseteq Jobs
  /\ phone \in BOOLEAN /\ home \in BOOLEAN /\ asks \in 0 .. MaxAsks

\* The sniffer stops hopping channels exactly while the radio is on an access
\* point's channel or scans (net__hold): a hold that outlived its window
\* would leave most of Remote ID unheard, one that came short would tear the
\* link apart.
HopHeld == g.hold <=> g.phase \in {"join", "fetch", "online"} \/ g.scanning

\* A worker task exists exactly while a fetch waits for it, also a fetch whose
\* window is gone: no result is taken for another fetch's, and none is left
\* behind to refuse every later fetch (net_fetch_start).
WorkerMatches ==
  /\ g.worker # "none" <=> g.phase \in {"fetch", "drain"}
  /\ g.worker = "done" => DOMAIN g.res = g.fetch

\* A transport is owed the outcome of its wifi_join as long as the board has
\* it down for one, and hears it once: also when a later join supersedes it,
\* a phone comes or the board is in beacon mode.
JoinsOwed ==
  \A s \in Src : g.owed[s] = Cardinality({r \in {"join", "asked"} :
                                            s \in IF r = "join" THEN g.reply ELSE g.rqReply})

\* A network is saved only if it joined, with the password it joined with. One
\* forgotten, and not asked for since, is not saved again by the join or the
\* fetch that was under way.
SavedJoined == \A c \in Range(g.saved) : c \in g.proved /\ c.ssid \notin g.forgotten

\* While a phone is connected, and while the mode is OFF, only what a person
\* asked for uses Wi-Fi, or a window that is being left (net__phone, net__idle,
\* net__scan_done).
OnlyAsked ==
  /\ g.paused => g.phase # "online" /\ (g.phase \in {"join", "fetch"} => g.manual)
  /\ g.mode = "off" /\ g.phase \in {"join", "fetch", "online"} => g.manual \/ g.rqLeave

\* Nothing is saved, joined or fetched that was not proved and is not wanted.
AsAsked == SavedJoined /\ OnlyAsked

\* A job a phone, a CONNECT or OFF cut short is not backed off; the guard of
\* a fetch that hung is the only cancel that counts as a failure.
CancelNoted ==
  \A k \in DOMAIN g.res :
    g.res[k] = "cut" /\ ~g.fetchLate /\ g.job[k] # "backoff" => g'.job[k] # "backoff"

CancelIsNoFailure == [][CancelNoted]_netVars

\* The receiver's hop and the worker are as the phase says, however the phase
\* was left, and a worker that was cancelled is not taken for one that failed.
PhaseRight == CancelIsNoFailure /\ [][HopHeld' /\ WorkerMatches']_netVars

\* Who asked for a scan hears its result, who asked for a join how it ended.
Answered ==
  \A s \in Src : []<>(s \notin g.scanReply) /\ []<>(g.owed[s] = 0)

\* The board joins, or has a reason not to.
Joining == g.phase \in {"join", "online"} \/ phone \/ g.mode = "off" \/ g.saved = <<>> \/ ~g.station

\* What net_sync.h says: a SYNC NOW still runs while a phone is connected.
PersonServed == g.phase = "drain" => ~g.forced
=============================================================================
