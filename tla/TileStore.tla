----------------------------- MODULE TileStore -----------------------------
(***************************************************************************)
(* The map tiles on a board's flash, and the two that write them: the Mac   *)
(* app, which uploads a tile in chunks over the serial line                 *)
(* (firmware/common/tile_store.h, app TileSync.swift), and the board's own  *)
(* Wi-Fi job, a task of its own (net_job_tiles in net_fetch.h, with         *)
(* tile_sync_run of tile_plan.h). Each plans what the board should hold,    *)
(* evicts what is outside its plan when it needs the room, and neither      *)
(* knows of the other beyond the look the job takes before it starts.       *)
(*                                                                         *)
(* Tiles are numbers in the order of their value: the greater one has the   *)
(* higher zoom, or is farther away, and goes first. A file is the sequence  *)
(* of the chunks written, a chunk fills a block of flash, and a CRC tells   *)
(* any two files apart. The Mac sends what its own cache holds of the plan, *)
(* which it fills first as far as the network lets it. Left out: .png       *)
(* tiles, who asks for a sync and when, bytes below a block, the answers'   *)
(* other fields.                                                            *)
(***************************************************************************)
EXTENDS Integers, Sequences, FiniteSets, Functions

CONSTANTS
  Chunks,      \* the length of each tile
  Circles,     \* the plans, from the whole circle to none, each within the one before
  Blocks,      \* the size of the filesystem
  KeepFree,    \* TILE_PLAN_RESERVE
  Slack,       \* TILE_FS_MARGIN
  Estimate,    \* TilePlan.avg_bytes
  MaxNew,      \* NetJobReq.tile_budget
  Held,        \* the tiles a board may have to begin with
  NoTile,
  Timely,      \* a sync is asked for when at most one answer is out, and fs_stat is answered in its 5 s, if at all
  MaxSyncs, MaxFetches, MaxFaults  \* bounds of the model

Tile == DOMAIN Chunks

ASSUME TileAssumption ==
  /\ Chunks \in Seq(Nat \ {0}) /\ NoTile \notin Nat
  /\ Circles \in Seq(SUBSET Tile) /\ Circles # <<>> /\ Timely \in BOOLEAN
  /\ Held \subseteq SUBSET Tile
  /\ {Blocks, KeepFree, Slack, Estimate, MaxNew, MaxSyncs, MaxFetches, MaxFaults} \subseteq Nat

\* What a sync leaves free, 1 MB, is more than the margin, 16 KB, and what flash
\* holds of a tile, 64 KB at most, that is to be replaced.
ASSUME ReserveAssumption == \A t \in Tile : Slack + Chunks[t] - 1 <= KeepFree

VARIABLES
  files,    \* tile -> what its file holds
  open,     \* s_ts_file: its tile, what it may still take, what flash holds of it until it is closed
  tmp,      \* NET_TILE_TMP: the blocks it has
  recent,   \* tile_store_busy: a command came within two seconds
  toBoard, toMac, \* lines between the Mac and the board
  mac,      \* TileSync
  job,      \* net_job_tiles
  torn,     \* history: tiles a power cut left half written
  stored,   \* history: tiles that were whole when the board confirmed their upload, since it began
  lostTo,   \* history: per writer, tiles it lost since it listed them: the other one took them, or they were open when an upload
            \* began; and of the Mac's plan, those neither the board nor its cache has
  ran,      \* history: the job wrote since the Mac asked for the board's space, the first of the answers that may be out
  syncs, fetches, faults  \* history

tileVars == <<files, open, tmp, recent, toBoard, toMac, mac, job, torn, stored, lostTo, ran, syncs, fetches, faults>>
tileBoard == <<files, open, tmp, recent>>

Content(t) == [k \in 1 .. Chunks[t] |-> <<t, k>>]
Whole(t) == files[t] = Content(t)

Closed == [tile |-> NoTile, left |-> 0, before |-> <<>>]
IsOpen == open.tile # NoTile

\* Flash keeps what a file held until it is closed.
Listed == [t \in DOMAIN files |-> IF t = open.tile THEN Len(open.before) ELSE Len(files[t])]
Sum(f, S) ==
  LET upTo[t \in 0 .. Len(Chunks)] == IF t = 0 THEN 0 ELSE upTo[t - 1] + (IF t \in S THEN f[t] ELSE 0)
  IN upTo[Len(Chunks)]
Used(fs) == Sum([t \in DOMAIN fs |-> Len(fs[t])], DOMAIN fs)
Free == Blocks - Used(files) - Len(open.before) - tmp
Without(fs, gone) == Restrict(fs, DOMAIN fs \ gone)
With(fs, t, body) == [u \in DOMAIN fs \union {t} |-> IF u = t THEN body ELSE fs[u]]

-----------------------------------------------------------------------------
\* tile_plan_make: the first plan that fits what is free, and what it would evict, over the reserve.
Missing(plan, disk) == Cardinality(plan \ DOMAIN disk)
Budget(plan, disk, free) ==
  LET avail == free + Sum(disk, DOMAIN disk \ plan) IN IF avail > KeepFree THEN avail - KeepFree ELSE 0
Fits(plan, disk, free) == Missing(plan, disk) * Estimate <= Budget(plan, disk, free)
LeastOf(S) == CHOOSE t \in S : \A u \in S : t <= u
PlanOf(disk, free) == Circles[LeastOf({i \in DOMAIN Circles : Fits(Circles[i], disk, free) \/ i = Len(Circles)})]

MostOf(S) == CHOOSE t \in S : \A u \in S : t >= u

\* tile_plan_victims: the least valuable outside the plan, until enough is freed.
Victims(plan, disk, need) ==
  {t \in DOMAIN disk \ plan : Sum(disk, {u \in DOMAIN disk \ plan : u > t}) < need}

\* The plan no longer counts on an answer, or on a job.
MacIdle == [state |-> "idle", planned |-> FALSE, known |-> FALSE, free |-> 0, disk |-> <<>>, plan |-> {}, send |-> {},
            delete |-> {}, cur |-> NoTile, seq |-> 0, sent |-> {}, done |-> "not"]
NoJob == [at |-> "none", disk |-> <<>>, plan |-> {}, victims |-> {}, next |-> 1, fetched |-> 0, seen |-> 0, fails |-> 0,
          margin |-> 0, full |-> FALSE, stop |-> FALSE, cancel |-> FALSE, left |-> 0]

-----------------------------------------------------------------------------
\* The board: fs_* commands. Each is answered; any may be the last the host sends.

Say(line) == toMac' = Append(toMac, line)
TakenFromJob(gone) == lostTo' = [lostTo EXCEPT !.job = @ \union (gone \intersect job.plan)]
TakenFromMac(gone) == lostTo' = [lostTo EXCEPT !.mac = @ \union gone]

Stat ==
  /\ Say([type |-> "stat", free |-> Free])
  /\ UNCHANGED <<files, open, torn, stored, lostTo, faults>>

List ==
  /\ Say([type |-> "list", disk |-> Listed]) /\ lostTo' = [lostTo EXCEPT !.mac = {}]
  /\ UNCHANGED <<files, open, torn, stored, faults>>

Stale == IF IsOpen THEN {open.tile} ELSE {}

\* A bug to compare with: an upload that is still open is only closed.
SupersededKept == {}

\* An upload that is still open goes before the next one begins.
Superseded == Stale

\* ts_evict: the least valuable of all go, until enough is free.
SpaceIn(fs) == Blocks - Used(fs) - tmp
Evicted(fs, needed) ==
  LET sizes == [u \in DOMAIN fs |-> Len(fs[u])]
  IN {v \in DOMAIN fs : SpaceIn(fs) + Sum(sizes, {u \in DOMAIN fs : u > v}) < needed}

Begin(t, size) ==
  LET kept == Without(files, Superseded)
      needed == size + Slack
      gone == IF needed > Blocks THEN {} ELSE Evicted(kept, needed)
      rest == Without(kept, gone)
      room == SpaceIn(rest) >= needed
  IN /\ stored' = stored \ {t}
     /\ lostTo' = [job |-> lostTo.job \union ((Superseded \union gone \union {t}) \intersect job.plan),
                   mac |-> lostTo.mac \union Superseded]
     /\ \/ ~room /\ files' = rest /\ open' = Closed /\ Say([type |-> "err"]) /\ UNCHANGED <<torn, faults>>
        \/ /\ room /\ faults < MaxFaults /\ faults' = faults + 1  \* open failed
           /\ files' = rest /\ open' = Closed /\ Say([type |-> "err"]) /\ UNCHANGED torn
        \/ /\ room
           /\ files' = With(rest, t, <<>>)
           /\ open' = [tile |-> t, left |-> size, before |-> IF t \in DOMAIN rest THEN rest[t] ELSE <<>>]
           /\ torn' = torn \ {t}
           /\ Say([type |-> "ack", q |-> 0]) /\ UNCHANGED faults

\* A chunk that is not what was sent: other bytes, or no base64 at all.
Garbled == <<0, 0>>

\* What an upload that failed leaves: nothing.
Dropped ==
  files' = Without(files, Stale) /\ open' = Closed /\ TakenFromJob(Stale) /\ Say([type |-> "err"])

Data(q, chunk) ==
  /\ \/ (~IsOpen \/ chunk = Garbled) /\ Say([type |-> "err"]) /\ UNCHANGED <<files, open, lostTo, faults>>
     \/ IsOpen /\ open.left = 0 /\ Dropped /\ UNCHANGED faults
     \/ IsOpen /\ open.left > 0 /\ Free = 0 /\ Dropped /\ UNCHANGED faults
     \/ IsOpen /\ open.left > 0 /\ Free > 0 /\ faults < MaxFaults /\ Dropped /\ faults' = faults + 1
     \/ /\ IsOpen /\ open.left > 0 /\ Free > 0
        /\ files' = [files EXCEPT ![open.tile] = Append(@, chunk)]
        /\ open' = [open EXCEPT !.left = @ - 1]
        /\ Say([type |-> "ack", q |-> q]) /\ UNCHANGED <<lostTo, faults>>
  /\ UNCHANGED <<torn, stored>>

CrcRight(crc) == files[open.tile] = crc

EndFile(crc) ==
  /\ \/ ~IsOpen /\ UNCHANGED <<files, open, toMac, stored, lostTo>>
     \/ /\ IsOpen /\ CrcRight(crc)
        /\ stored' = (IF Whole(open.tile) THEN stored \union {open.tile} ELSE stored) /\ open' = Closed /\ Say([type |-> "ok"]) /\ UNCHANGED <<files, lostTo>>
     \/ IsOpen /\ ~CrcRight(crc) /\ Dropped /\ UNCHANGED stored
  /\ UNCHANGED <<torn, faults>>

\* A file that is open does not go; the answer is the same.
Erase(t) ==
  LET gone == {t} \ Stale
  IN /\ files' = Without(files, gone) /\ TakenFromJob(gone) /\ Say([type |-> "ok"])
     /\ UNCHANGED <<open, torn, stored, faults>>

\* tile_store_host_line
HostLine ==
  /\ toBoard # <<>> /\ toBoard' = Tail(toBoard) /\ recent' = TRUE
  /\ LET line == Head(toBoard)
     IN CASE line.cmd = "stat"  -> Stat
          [] line.cmd = "ls"    -> List
          [] line.cmd = "begin" -> Begin(line.tile, line.size)
          [] line.cmd = "data"  -> Data(line.q, line.chunk)
          [] line.cmd = "end"   -> EndFile(line.crc)
          [] line.cmd = "rm"    -> Erase(line.tile)
  /\ UNCHANGED <<tmp, mac, job, ran, syncs, fetches>>

\* Two seconds pass; that matters to a job to come.
Quiet == recent /\ fetches < MaxFetches /\ recent' = FALSE /\ UNCHANGED <<files, open, tmp, toBoard, toMac, mac, job, torn, stored, lostTo, ran, syncs, fetches, faults>>

\* The power goes. Of an upload flash keeps what was there when it was opened, or
\* what has been written; of a download the temporary file.
CutPower ==
  /\ faults < MaxFaults /\ faults' = faults + 1
  /\ \/ files' = files
     \/ IsOpen /\ files' = [files EXCEPT ![open.tile] = open.before]
  /\ torn' = torn \union (Stale \intersect {t \in DOMAIN files' : files'[t] # Content(t)})
  /\ open' = Closed /\ recent' = FALSE /\ toBoard' = <<>> /\ toMac' = <<>> /\ job' = NoJob
  /\ UNCHANGED <<tmp, mac, stored, lostTo, ran, syncs, fetches>>

\* A line is lost, either way, or a chunk is garbled.
LoseTileLine ==
  /\ faults < MaxFaults /\ faults' = faults + 1
  /\ \/ toBoard # <<>> /\ toBoard' = Tail(toBoard) /\ UNCHANGED toMac
     \/ toMac # <<>> /\ toMac' = Tail(toMac) /\ UNCHANGED toBoard
     \/ /\ toBoard # <<>> /\ Head(toBoard).cmd = "data"
        /\ toBoard' = <<[cmd |-> "data", q |-> Head(toBoard).q, chunk |-> Garbled]>> \o Tail(toBoard) /\ UNCHANGED toMac
  /\ UNCHANGED <<tileBoard, mac, job, torn, stored, lostTo, ran, syncs, fetches>>

-----------------------------------------------------------------------------
\* The Mac.

AskBoard(line) == toBoard' = Append(toBoard, line)
macOnly == <<tileBoard, job, torn, stored, faults, fetches>>

\* plan, with an empty list until the board has sent its own.
MacPlan ==
  /\ mac.state = "idle" /\ syncs < MaxSyncs /\ syncs' = syncs + 1
  /\ Timely => Len(toBoard) + Len(toMac) <= 1
  /\ mac' = [MacIdle EXCEPT !.state = "awaitStat"]
  /\ ran' = (tmp # 0 \/ (ran /\ (toBoard # <<>> \/ toMac # <<>>))) /\ AskBoard([cmd |-> "stat"])
  /\ UNCHANGED <<macOnly, toMac, lostTo>>

Failed(m) == [MacIdle EXCEPT !.done = "failed"]

ListDevice(m) == mac' = [m EXCEPT !.state = "awaitList"] /\ AskBoard([cmd |-> "ls"])

\* makePlan: with no word of the board's storage, the whole circle.
MakePlan(m, disk) ==
  LET plan == IF m.known THEN PlanOf(disk, m.free) ELSE Circles[1]
  IN mac' = [m EXCEPT !.state = "idle", !.planned = TRUE, !.plan = plan, !.disk = disk]

\* buildQueue: what the cache has of the plan and the board lacks, or holds at another size.
Wanted(m, cached) == {t \in m.plan \intersect cached : t \notin DOMAIN m.disk \/ m.disk[t] # Chunks[t]}
Grows(m, t) == Chunks[t] - (IF t \in DOMAIN m.disk THEN m.disk[t] ELSE 0)

\* The room is made for all of it. A file that cannot be read when its turn comes
\* is passed over there, as if it had not been queued; which those are is settled here.
Queued(m, cached, readable) ==
  LET wanted == Wanted(m, cached)
      grown == Sum([t \in wanted |-> Grows(m, t)], wanted)
      short == grown + KeepFree - m.free
      gone == IF m.known /\ grown > 0 /\ short > 0 THEN Victims(m.plan, m.disk, short) ELSE {}
  IN [m EXCEPT !.send = wanted \intersect readable, !.delete = gone, !.free = @ + Sum(m.disk, gone)]

\* nextFile: done when there is none that can be read, or the next would take free space under the reserve.
NextFile(m) ==
  LET t == LeastOf(m.send)
  IN
  IF m.send = {} \/ (m.known /\ Grows(m, t) > 0 /\ m.free - Grows(m, t) < KeepFree)
  THEN mac' = [MacIdle EXCEPT !.plan = m.plan, !.known = m.known, !.sent = m.sent, !.done = IF m.send = {} THEN "all" ELSE "some"]
       /\ UNCHANGED toBoard
  ELSE /\ mac' = [m EXCEPT !.state = "awaitAck", !.send = @ \ {t}, !.cur = t, !.seq = 0,
                           !.free = IF Grows(m, t) > 0 THEN @ - Grows(m, t) ELSE @]
       /\ AskBoard([cmd |-> "begin", tile |-> t, size |-> Chunks[t]])

NextDelete(m) ==
  LET t == MostOf(m.delete)
  IN IF m.delete = {} THEN NextFile(m)
     ELSE mac' = [m EXCEPT !.state = "deleting", !.delete = @ \ {t}] /\ AskBoard([cmd |-> "rm", tile |-> t])

\* send: the cache is filled as far as the network goes. With nothing in it of the
\* plan there is no sync; else it goes by what there is, and says no word of the rest.
MacSend ==
  /\ mac.state = "idle" /\ mac.planned
  /\ \E cached \in SUBSET mac.plan : \E readable \in SUBSET cached :
       /\ IF cached = {} THEN mac' = Failed(mac) /\ UNCHANGED toBoard
                         ELSE NextDelete(Queued([mac EXCEPT !.planned = FALSE], cached, readable))
       /\ lostTo' = [lostTo EXCEPT !.mac = @ \union (mac.plan \ (readable \union DOMAIN mac.disk))]
  /\ UNCHANGED <<macOnly, toMac, ran, syncs>>

NextChunk(m) ==
  IF m.seq = Chunks[m.cur]
  THEN mac' = [m EXCEPT !.state = "awaitOk"] /\ AskBoard([cmd |-> "end", crc |-> Content(m.cur)])
  ELSE mac' = [m EXCEPT !.seq = @ + 1] /\ AskBoard([cmd |-> "data", q |-> m.seq + 1, chunk |-> <<m.cur, m.seq + 1>>])

AckMine(line) == line.q = mac.seq

\* fileSent
Sent(m) == [m EXCEPT !.sent = @ \union {m.cur}]

\* handle: a line that does not belong to the step under way is ignored.
MacHandle ==
  /\ toMac # <<>> /\ toMac' = Tail(toMac)
  /\ LET line == Head(toMac)
     IN CASE line.type = "stat" /\ mac.state = "awaitStat" -> ListDevice([mac EXCEPT !.known = TRUE, !.free = line.free])
          [] line.type = "list" /\ mac.state = "awaitList" -> MakePlan(mac, line.disk) /\ UNCHANGED toBoard
          [] line.type = "ack" /\ mac.state = "awaitAck" /\ AckMine(line) -> NextChunk(mac)
          [] line.type = "ok" /\ mac.state = "deleting" -> NextDelete(mac)
          [] line.type = "ok" /\ mac.state = "awaitOk" -> NextFile(Sent(mac))
          [] line.type = "err" /\ mac.state # "idle" -> mac' = Failed(mac) /\ UNCHANGED toBoard
          [] OTHER -> UNCHANGED <<mac, toBoard>>
  /\ UNCHANGED <<macOnly, lostTo, ran, syncs>>

\* No answer in time: without fs_stat the sync goes on; else it fails, as it does when the user ends it.
MacTimeout ==
  /\ mac.state # "idle"
  /\ \/ mac.state = "awaitStat" /\ (Timely => toBoard = <<>> /\ toMac = <<>>) /\ ListDevice(mac)
     \/ mac' = Failed(mac) /\ UNCHANGED toBoard
  /\ UNCHANGED <<macOnly, toMac, lostTo, ran, syncs>>

-----------------------------------------------------------------------------
\* The Wi-Fi job. net_sync may cancel it at any time; it looks before it evicts, at each tile, and in a download.

jobOnly == <<open, recent, toBoard, toMac, mac, torn, stored, syncs, faults>>

\* Not while commands come; then the leftover of a reset mid-download goes.
JobStart ==
  /\ job.at \notin {"list", "evict", "walk", "fetch", "rename"} /\ fetches < MaxFetches /\ fetches' = fetches + 1
  /\ IF recent THEN UNCHANGED <<tmp, job, lostTo>> ELSE tmp' = 0 /\ job' = [NoJob EXCEPT !.at = "list"] /\ lostTo' = [lostTo EXCEPT !.job = {}]
  /\ UNCHANGED <<jobOnly, files, ran>>

Cancel == job.at \in {"list", "evict", "walk", "fetch"} /\ ~job.cancel /\ job' = [job EXCEPT !.cancel = TRUE]
          /\ UNCHANGED <<jobOnly, files, tmp, lostTo, ran, fetches>>

Stopped(j) == [NoJob EXCEPT !.at = "cancelled"]

\* The list, the plan, and what tile_sync_run evicts first for what it wants to fetch.
JobPlan ==
  /\ job.at = "list"
  /\ LET plan == PlanOf(Listed, Free)
         lacks == Missing(plan, Listed)
         need == (IF lacks < MaxNew THEN lacks ELSE MaxNew) * Estimate
         gone == IF need > 0 /\ need + KeepFree > Free THEN Victims(plan, Listed, need + KeepFree - Free) ELSE {}
     IN job' = IF job.cancel THEN Stopped(job)
               ELSE [job EXCEPT !.at = IF gone = {} THEN "walk" ELSE "evict", !.disk = Listed, !.plan = plan, !.victims = gone, !.margin = Estimate]
  /\ UNCHANGED <<jobOnly, files, tmp, lostTo, ran, fetches>>

\* net_tile_remove: a file that is open stays.
JobEvict ==
  /\ job.at = "evict"
  /\ LET t == MostOf(job.victims)
         gone == {t} \ Stale
     IN /\ files' = Without(files, gone) /\ TakenFromMac(gone)
        /\ job' = [job EXCEPT !.victims = @ \ {t}, !.at = IF job.victims = {t} THEN "walk" ELSE @]
  /\ UNCHANGED <<jobOnly, tmp, ran, fetches>>

\* What the plan still misses when the walk ends.
LeftOf(j) == IF j.seen > j.fetched THEN j.seen - j.fetched ELSE 0

\* The tiles of the plan that were not listed, from the next on.
Ahead(j) == {t \in j.plan \ DOMAIN j.disk : t >= j.next}

\* On to the next tile that lacks, if any: it may be one too many, or have no room over the reserve.
JobWalk ==
  /\ job.at = "walk"
  /\ LET t == LeastOf(Ahead(job))
         passed == [job EXCEPT !.next = t + 1, !.seen = @ + 1]
     IN job' = IF job.cancel THEN Stopped(job)
               ELSE IF Ahead(job) = {}
               THEN [NoJob EXCEPT !.at = "done", !.left = LeftOf(job), !.plan = job.plan, !.full = job.full]
               ELSE IF job.stop THEN passed
               ELSE IF job.fetched >= MaxNew THEN [passed EXCEPT !.stop = TRUE]
               ELSE IF Free < KeepFree + job.margin THEN [passed EXCEPT !.stop = TRUE, !.full = TRUE]
               ELSE [job EXCEPT !.at = "fetch", !.next = t, !.seen = @ + 1]
  /\ UNCHANGED <<jobOnly, files, tmp, lostTo, ran, fetches>>

\* A bug to compare with: a download that failed counts as one that came.
FailsCounted(j, rate) == [j EXCEPT !.at = "walk", !.next = @ + 1, !.fetched = @ + 1, !.fails = @ + 1, !.stop = rate \/ j.fails = 2]

\* A download that failed: three in a row, or a 429, end the fetching.
Fails(j, rate) == [j EXCEPT !.at = "walk", !.next = @ + 1, !.fails = @ + 1, !.stop = rate \/ j.fails = 2]

\* Into the temporary file, all of it or nothing.
JobFetch ==
  /\ job.at = "fetch"
  /\ \/ \E rate \in BOOLEAN : job' = Fails(job, rate) /\ tmp' = 0 /\ UNCHANGED ran
     \/ /\ ~job.cancel /\ Free >= Chunks[job.next]
        /\ tmp' = Chunks[job.next] /\ ran' = TRUE /\ job' = [job EXCEPT !.at = "rename"]
  /\ UNCHANGED <<jobOnly, files, lostTo, fetches>>

\* And into place, unless an upload has that file open.
JobRename ==
  /\ job.at = "rename" /\ tmp' = 0
  /\ IF job.next = open.tile THEN job' = Fails(job, FALSE) /\ UNCHANGED <<files, torn>>
     ELSE /\ files' = With(files, job.next, Content(job.next)) /\ torn' = torn \ {job.next}
          /\ job' = [job EXCEPT !.at = "walk", !.next = @ + 1, !.fetched = @ + 1, !.fails = 0,
                                !.margin = IF Chunks[job.next] > @ THEN Chunks[job.next] ELSE @]
  /\ UNCHANGED <<open, recent, toBoard, toMac, mac, stored, syncs, faults, lostTo, ran, fetches>>

-----------------------------------------------------------------------------
\* A board that has some tiles.
TileInit ==
  /\ \E held \in Held : files = [t \in held |-> Content(t)]
  /\ open = Closed /\ tmp = 0 /\ Free >= 0
  /\ recent = FALSE /\ toBoard = <<>> /\ toMac = <<>> /\ mac = MacIdle /\ job = NoJob
  /\ torn = {} /\ stored = {} /\ lostTo = [job |-> {}, mac |-> {}] /\ ran = FALSE
  /\ syncs = 0 /\ fetches = 0 /\ faults = 0

TileNext ==
  \/ HostLine \/ Quiet \/ CutPower \/ LoseTileLine
  \/ MacPlan \/ MacSend \/ MacHandle \/ MacTimeout
  \/ JobStart \/ Cancel \/ JobPlan \/ JobEvict \/ JobWalk \/ JobFetch \/ JobRename
TileSpec == TileInit /\ [][TileNext]_tileVars

-----------------------------------------------------------------------------
TileTypeOK ==
  /\ DOMAIN files \subseteq Tile /\ \A t \in DOMAIN files : Len(files[t]) <= Chunks[t]
  /\ Free >= 0 /\ (IsOpen => open.tile \in DOMAIN files /\ Len(files[open.tile]) + open.left = Chunks[open.tile])
  /\ torn \subseteq Tile /\ mac.free \in Int

\* A file that looks like a tile is one, but for the upload that is open and
\* what a power cut left of one.
LooksWhole == \A t \in DOMAIN files : Whole(t) \/ t = open.tile \/ t \in torn

\* So it stays whatever becomes of the host, the lines, and the uploads that
\* failed; and what the Mac counts as sent the board has stored whole, under
\* that name.
OnlyWholeTiles == [][LooksWhole' /\ mac'.sent \ mac.sent \subseteq stored]_tileVars

\* Both writers keep what they plan. The job says that nothing is left only
\* when every tile of its plan is there, but for what uploads have taken from
\* it meanwhile: it never evicts what it plans, never takes a download that
\* failed for a tile. A sync with a plan that knew the board's space never
\* costs the Mac a tile of its plan: when it says that nothing is left to
\* send, every tile is there that the board had or the Mac could send, unless
\* the job wrote, or took it. Of what the cache lacks, or has a file of that
\* cannot be read, and the board has not, it says nothing though it is missing.
PlanKept ==
  /\ job.at = "done" /\ job.left = 0 => job.plan \subseteq DOMAIN files \union lostTo.job
  /\ mac.done = "all" /\ mac.known /\ ~ran => mac.plan \subseteq DOMAIN files \union lostTo.mac
=============================================================================
