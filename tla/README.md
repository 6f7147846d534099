# Orecchino: TLA+ models, checks and proofs

Orecchino is a Remote ID receiver for ESP32 boards. A board decodes what drones
broadcast over Wi-Fi and Bluetooth, follows each drone as a contact, keeps a log
of the contacts that have ended, and serves a phone (BLE) and a Mac (USB) with
JSON lines. The phone app pins a board, copies its log into a database and shows
what it hears; the T5 board also goes on Wi-Fi for the time, flight
restrictions, air traffic and maps.

This directory holds TLA+ modules of the parts that keep state and act
concurrently, TLC configurations that check them on small instances, and TLAPS
proofs for every instance. `PROJECT.json` lists the components, the runs with
the properties each checks, the source lines each definition stands for, the
hazards the properties are aimed at, and for each property a change of the model
(a bug of a plausible kind) that violates it.

    tlc -workers 2 -config Kept.cfg MCKept               # a run
    tlapm MatchLogProofs.tla                             # the proofs

1. [The system](#1-the-system)  2. [The modules](#2-the-modules)
3. [What the runs check](#3-what-the-runs-check)  4. [Fairness](#4-fairness)
5. [What is proved](#5-what-is-proved)  6. [Disagreements found](#6-disagreements-found)
7. [What is not modelled](#7-what-is-not-modelled)

## 1. The system

### The board (firmware/common)

A receiver has four kinds of tasks: the radio callbacks, the *decode task*
(`rx_task`), the *loop* (`rx_tick` and the board's screen), and the tasks of the
BLE stack with a *notify task* of its own. On the T5 a *fetch worker* joins them
for each Wi-Fi window. They meet in the track table (under a lock), in rings
(frames in, command lines in, lines out), and in plain flags.

| component | state | operations | talks to | what is hard |
|---|---|---|---|---|
| receiver pipeline `rx_core.h` | hop index and hold, BLE scan, pieces of advertisements, repeated lines, home position | `hop_cb`, `rx_ble_scan`, `rx_gap_event`, `rx_process`, `handle_host_line`, `rx_set_home`, `rx_tick` | everything on the board | timer task, NimBLE's host task and loop share the radios; pieces lost |
| contact tracker `tracker.h` | the table of contacts (addresses, names, times), hook events | `tracker_upsert`, `tracker_expire`, `rx_note_track`, event hand-over | decode task writes, loop expires, match log hears of ends | names and addresses in any order, shared addresses, eviction, a wrapping clock read in another task |
| authentication `odid_auth.h`, `odid_verify.h`, `tracker_ingest` | pages of a signature per contact, verdict, time of the last check | collect, drop an old set, verify at most so often | tracker | lost pages, sets that follow each other, a verdict kept while the next set arrives |
| match log `match_log.h` | ring of ended contacts, its six NVS keys, identity, debounce stamp | `log_add`, `log_due`, `log_snapshot` + `log_write`, `log_load`, `log_clear` | tracker adds, loop saves, `emit_log` reads | power cuts, saves outside the lock, stamps ahead of the clock, migration |
| history answers `emit_log`, `rx_log_clear_all` | none of its own | `log_get`, `log_clear` and its broadcast | match log, host link | an answer cut short; a clear between question and answer |
| host link `host_link.h` | a feed ring and a reply ring per sink, `stalled`, drop counts, who has the feed | `host_outq_put`, `host_write_to` | all who print; USB and BLE sinks | a host that stops reading; two tasks writing |
| BLE link `ble_link.h` | connection, pairing, subscription, line assembly, ring of command lines, refused bonds | connect, pair, write, disconnect, notify task, pairing deadline | BLE stack, loop, host link | four tasks; what outlives a connection; pairing refused while keys are stored |
| network sync `net_sync.h` | `NetSm`: phase, requests, saved networks, jobs with periods and back-offs, phone pause, hop hold | `net_tick`, requests of the screen and of the links | radio, worker, pipeline (hold), BLE link (phone present) | requests superseding each other; a phone arriving at any moment; hangs |
| fetch worker `net_fetch.h` | one worker's jobs, result, cancel flag | start, poll, the jobs | network sync, tile store, TFRs, traffic | late results; cancelling; no memory |
| flight restrictions (`tfr_*` in `rx_core.h`) | polygons, which contact is inside | clear, add, hit test | host lines and the worker install; tracker reads | a list half replaced; a line suppressed as a repeat though the restriction changed |
| traffic watch `traffic.h` | the set being gathered, the installed one, alerts with hysteresis | `traffic_host_line`, `traffic_ingest`, `traffic_evaluate`, `traffic_apply` | hosts' pushes, worker, screen | sets of two hosts interleave; alerts held by the clock; a full table |
| tile store `tile_store.h`, `tile_path.h` | files in flash, one open upload, its CRC and rest | `fs_begin`, `fs_data`, `fs_end`, `fs_rm`, evict | the Mac uploads; the worker fetches | a host, or power, that goes mid-upload; two writers that do not know of each other |
| tile plan `tile_plan.h` | none | which tiles a budget allows | worker, Mac | floating-point geometry |
| test transmitter `tx_core.h` | advertising sets and who has them, the slots of the Wi-Fi paths, settings | `ble_service`, `ble_take`, `ble_relayout`, `tx_step`; console and screen | radios | calls that fail and are tried again while settings change without the lock; turns |
| decoders, parsers, solar clock, chips, names | none, or a chip's registers | pure functions, register sequences | - | byte layouts |

### The phone (mobile/lib)

A Dart program is one thread; what can come in between is what runs at an
`await`.

| component | state | operations | what is hard |
|---|---|---|---|
| history sync `core/sync/sync_engine.dart`, `data/db.dart`, part of `app/app_controller.dart` | the running sync (cursor, epoch, log identity, retries), pending records; rows and cursor in the database | `startSync`, `handleMessage`, `_done`, `_askAgain`, `abort`; `_onLogCleared`, `resetDetectorLog`, `forgetDetector` | answers of an earlier question, clears, writes that fail, the watchdog |
| BLE transport `core/ble`, `core/protocol/line_codec.dart` | connection phase, line buffer, the pinned board | connect, subscribe, check the identity, reconnect | callbacks of an old connection |
| own radio `core/native_rx` | leases, one chain of changes, throttle, retry and refresh timers; the receiver and its paths | acquire, release, `setDuty`, `_apply`; `start`, `stop`, `_syncPaths`, `setPhoneRx` | two users of one scan; Android's limit on starts; awaits at which the policy, the adapter and the setting change |
| contacts, own history `core/live`, alerts `core/alerts` | contacts by identity and by address; spells of hearing, rows | `ingest` (fold, absorb), `expire`, `clear`; `note`, `flush` | one drone heard by several sensors under several addresses; frames noted while a flush writes; a killed app |
| power and background `core/power`, `core/background` | policy, watch service | decide, start, stop | service life cycle |
| traffic `core/traffic` | aircraft, alerts | as on the board | as on the board |

### The Mac (app/Sources)

`SerialManager` (ports that come and go), `DeviceLog` (a copy of the log over
USB), `TileSync` (uploads of tiles with acknowledgements), `TrafficService` and
`TFRService` (fetch and send), and screens.

### How they interact

* decode task -> tracker -> match log: a contact that leaves the table, by
  eviction in the decode task or expiry in the loop, is added to the log.
* loop -> match log -> flash: a snapshot under the lock, then six puts outside.
* phone -> BLE link -> `handle_host_line` -> `emit_log` -> host link -> notify
  task -> phone: a history question and its answer.
* phone's presence (`ble_link_peer_secure`) -> network sync: automatic Wi-Fi
  pauses; network sync -> pipeline: the hop is held while the station is on.
* network sync <-> fetch worker: one shared record, a cancel flag, a result.
* spectrum view, network hold -> hop timer and BLE scan: plain flags, read before
  what they guard is done.
* Mac's uploads and the worker's job -> tiles: each looks once whether the other
  is about.
* phone's receiver -> contacts -> own history; power policy -> duty and paths.

### What makes each part correct

* match log: a record's number is its place in the history, also after a
  reload; a record is in flash before long; saves are rare.
* history sync: the cursor never passes a record that is not stored; what is
  stored under a confirmed log is not overwritten; every sync ends.
* BLE link and host link: nothing to or from a peer before it is authenticated;
  nothing crosses from one connection to the next; a lost record is told; a peer
  that paired without the passkey keeps no bond; nobody holds the link unpaired.
* network sync and worker: every accepted join is answered once; what is saved
  has joined; what is forgotten stays so; OFF is off; the hop is held exactly
  while it must be; no worker without its window; automatic windows go on.
* tracker: a serial is in one contact and stays with it; the addresses
  remembered are the recent ones; each contact ends exactly once and only after
  silence; a hook sees its own contact.
* radios: a board that believes it scans does; the hop leaves whoever has the
  radio alone; both come back. Advertisements in pieces are reported whole and
  alone; no change of what a line says of a contact is kept from the host for a
  second; the stored position is near the last fix.
* traffic: a set is of one push, as far as the second tells; an alert goes by the clock and not by the number
  of evaluations; what is shown is of the last report; the most urgent stay.
* tiles: a partial file never passes for a tile; neither writer loses what it
  planned without knowing.
* transmitter: what is on the air is what is enabled; each path has its turn.
* phone: one scan for all leases, within the limit, that comes back; the receiver
  is as its setting says; a drone is one contact; its records have every frame.

## 2. The modules

    DetectorLog ............. what the log promises: a numbered history
      ^ implemented by        ^ extended by
    MatchLog                LogSync ........ board's answers + phone's SyncEngine
    HostLink .... extended by .... BleLink ... link, loop, notify task, peer
    NetSync ................. net_sync.h with the worker of net_fetch.h
    TileStore ............... tiles: the Mac's uploads and the board's Wi-Fi job
    Tracker ................. the board's table of contacts
    AuthPages ............... a contact's signature pages and its verdict
    Radio ................... hop timer, BLE scan, spectrum view, network's hold
    Fragments ............... advertisements that come in pieces
    Airspace ................ flight restrictions, and lines suppressed as repeats
    HomePosition ............ the observer's position in RAM and flash
    TrafficFeed ............. how sets of aircraft reach the board
    TrafficWatch ............ the alerts about them
    TxSets, TxSlots ......... the test transmitter's Bluetooth and Wi-Fi halves,
    Transmitter ............. and both together
    PhoneScan ............... the phone's one scan and its leases
    PhoneRx ................. the phone's receiver: setting, start, stop, path
    ContactTracker .......... the phone's live contacts, over all sensors
    PhoneHistory ............ the phone's own records

The proofs are in modules of their own: MatchLogProofs, LogSyncProofs,
NetSyncProofs and TileProofs (TileStore) are about the module they are named
for, BluetoothProofs about BleLink, Radio and PhoneScan, ReceiverProofs about
Tracker and AuthPages, AirProofs about HomePosition, Airspace, TxSets, TxSlots,
TrafficFeed, Fragments and TrafficWatch, PhoneProofs about PhoneRx, ContactTracker
and PhoneHistory. What is proved of parts side by side, as a run has them, is in
the module of one of them: MCKept's in MatchLogProofs, MCCopies's in TileProofs,
MCBluetooth's in BluetoothProofs, MCReceiver's and MCAir's in ReceiverProofs and
AirProofs.

The modules `MC...` have the model values of the runs. Parts that share no
variable share a run: the composing module has a variable `part`, a behaviour
steps the part it names and leaves the others, and fairness is that of the part.
So each part is checked whole, in every state it has, with the number of runs
set by the questions:

| composing module | parts |
|---|---|
| MCKept | MatchLog, PhoneRx, ContactTracker, PhoneHistory |
| MCCopies | LogSync, TileStore |
| MCBluetooth | BleLink, PhoneScan |
| MCLive | LogSync, Radio, NetSync |
| MCReceiver | Tracker, AuthPages |
| MCAir | Fragments, Airspace, HomePosition, TrafficFeed, TrafficWatch, and of Transmitter TxSets and TxSlots, each by itself |

Definitions whose comment says "broken on purpose" or "a bug to compare with" are
the changes against which the properties are tried; no specification uses them.

**DetectorLog** is the abstract specification: a history `rec[seq]`, numbered
from 0 within an identity, of which the newest `LogMax` are held; a saved copy;
`End`, `Save`, `Clear`, `PowerCut`.

**MatchLog** is `match_log.h` as it is: a ring with `head` and `n`, a `dirty`
flag with its stamp, six NVS keys, and a save that is six steps of the loop
between which the decode task or a power cut may come. `ContactEnds` is
`log_add`; `RxTick`, `RxLogFlush`, `ClearAll` and `Put` are the loop;
`PowerCut` reloads with `log_load`, including the migration from the first
layout, whose records had no numbers. The layout of a record, the wall clock and
the second layout (which differs in fields left out) are data. `Refinement` maps
it to DetectorLog: flash counts as saved from the snapshot on.

**LogSync** puts the board's `emit_log` and `rx_log_clear_all` over DetectorLog
and the phone's `SyncEngine`, `AppController` and database rows on the other
side, joined by two sequences of lines. An action is what runs between two
awaits something can come between; the code's own queue (`_queue`) is in the
state. Flags say which adversities a run has: `Overlap` (a clear while a sync
asks), `Outlives` (a question that outlives its connection), `LossyCut` (power
goes before a save), `GivesUp` (a line given up in the air), `Impatient` (the
watchdog fires while an answer is on its way), `Forgets`, `StoreMayFail`.

**NetSync** keeps `NetSm` and the worker as one record `g`; each function of
`net_sync.h` that changes it is an operator from record to record, so that
`net_tick`, which calls most of them, is one step (`TickWith`), as it is in the
code. What radio, heap and scan answer is an input of the tick. Time is what may
have elapsed: a timer that was started may have run out at any later step.

**HostLink** has the policy of the output rings as operators (room, who may
wait, what is lost); **BleLink** is the four tasks around them. A connection has
a handle, which the controller may give to the next one too, and which the notify
task keeps for the line it is sending; and a number, of which the code knows
nothing, so that history can say which connection a line, a command or a half of
either belongs to. `PairedWithCode` is also the encryption of a link on a bond
there is, at once, whatever the rings still hold. The loop's pass is taken apart
where the code can be overtaken: `now` is read at `BeginPass`, a command is run,
each line is written, may wait, and the deadline is judged at the end with that
old `now`. A slice of a line is a step of the notify task.

**TileStore** is three programs on one flash: the board's upload commands
(`HostLine`, one line a step), the Mac's `TileSync` (plan, delete, send, wait for
an ack, time out), and the Wi-Fi job with `tile_sync_run` (plan, evict, fetch to
a temporary file, rename), a task of its own that only looks at its start whether
an upload runs. A file is the sequence of chunks written to it. What eviction
removes is a set of tiles, the least valuable that free enough. The Mac's cache
holds any part of the plan, and any part of that can be read: what it lacks is not
queued (`Wanted`), what it cannot read is passed over when its turn comes, without
a word of either in how the sync ends (TileSync.swift:263, :393). `lostTo` is
history: what each writer has lost to the other since it listed the tiles; `ran`
says that the job wrote since the Mac asked for the free space, so that an answer
that is out may promise too much. `ReserveAssumption` relates three constants of
the code: a sync leaves 1 MB free (tile_plan.h:44), the board's margin is 16 KB
(tile_path.h:17) and a tile has at most 64 KB (net_fetch.h:76).

**Tracker** is the table: which contact a frame belongs to (`Found`), remembered
addresses (`Remember`), names (`Named`), eviction, expiry by the loop with a
`now` that may be behind, and the events for the board's hook. `heard`, `no` and
`ended`, the set of the numbers of contacts that have ended, are history for the
properties.

**AuthPages** is the part of `tracker_ingest` that collects signature pages, with
`odid_verify_auth`'s verdict, for one contact. A set of pages is a number; a page
held is the number of the set it is of, which is all a comparison of bytes can
tell. An aircraft sends its messages round and round, in any order, signs anew at
most once per window, and messages are lost; a second transmitter sends another
ID. A frame is one step (`Ingested`): drop what another ID or another set
outdates (`Collected`), decide whether a check is due and allowed, check. A new ID
forgets the time of the last check with the rest, as the code's `memset` does, so
the limit on checks is per ID.

**Radio** takes `hop_cb`, `rx_ble_scan` and NimBLE's end-of-scan event apart where
another task can come between the read of a flag and what is done by it.
Neither of two orders that need two cores is assumed away; history notes them
(`crossed`, `overtaken`). **Fragments** is the table of unfinished advertisements
of finitely many advertisers. **Airspace** is the restrictions' table, the contact
looked up in it, and two things the code keeps apart: the hash by which a line
counts as a repeat (`Says`) and what the line says of the contact (`Word`, the
first page of the authentication set), some of which the hash lacks.
**HomePosition** is the check and the two puts of a position, which a power cut may
part.

**TrafficFeed** gathers `traffic` lines of several hosts and installs them at a
`traffic_done`. A push carries the second its host's clock shows, any of a few, so
that two pushes may carry one; which push a report is of is history: the order in which `traffic_ingest` keeps reports is of their
distances, and of their places in the push where those are equal. **TrafficWatch**
evaluates an installed set: what each pair of a drone and an aircraft, and each
aircraft alone, comes to, in the order the rules go (`Cases`, a function on the
candidates that are visited), the table after each of them (`Tables`), with its
hysteresis (`Apply`, `Refreshed`), the ranking and the summary on the T5's screen.
Distances and heights are steps
between the rules' limits; the phone's copy of the rules is the same in Dart.

**TxSets** takes a pass of the radio task apart at its calls to the controller,
each of which may fail; the settings may change between any two, since the screen
and the console write them without the lock. **TxSlots** is the round-robin of
the Wi-Fi paths with the cadence of `tx_advance`. **Transmitter** has both, which
share no variable, and what is asked of both (`EachInTurn`).

**PhoneScan** is `BleScanCoordinator`: leases, the chain of `_apply`s (one at a
time, an await at the throttle and at the platform), the retry and refresh
timers, the adapter. Times are ages and countdowns, so that behaviours do not
end. **PhoneRx** is `setPhoneRx`, `_startPhoneRx`, `NativeRxService.start/stop`
and its queue of `_syncPaths`, each a chain of awaits. The release of the lease may
throw, when the scan cannot start again for the leases that are left; `StopThrows`
and `PathStopped` leave then as the code does, with the path noted as on (`threw` is
history). **ContactTracker** is `ingest` with its fold and `_absorb`, `expire` and
`clear`; a detector and an iPhone know a drone by different addresses, a drone may
send two IDs, and drones may share an address. **PhoneHistory** is `note`, `flush`
in two steps around the database's answer, and a killed app.

## 3. What the runs check

| run | module, cfg | asks | bounds and why they are enough |
|---|---|---|---|
| `kept` | MCKept, Kept.cfg | log: `RingNumbered`, `SavedInTime`, `Refinement`. Phone: `RxAsSet`, `OneContact`, `HistoryTrue` | a ring of 2 with 3 contacts wraps; identities 1, 2 wrap past 0; clock 8 with a debounce of 2 wraps inside a wait; every flash image version 1 can have left. Two toggles of the setting after the app's own start, three changes of policy or adapter: one at each await of a start and of a stop; one refused lease, or one release that throws. Four drones: one that two sensors know by addresses of their own, one with two IDs, two that share an address; four frames: a drone heard by both sensors before its ID is. Two contacts, three frames, five seconds with an end after two, one failing write |
| `copies` | MCCopies, Copies.cfg | log: `NoSkip`, `CursorRight`. Tiles: `OnlyWholeTiles`, `PlanKept` | ring of 2, 4 contacts, 2 identities, one retry: rotation past the cursor, a clear, a clear and refill, one gap and one retry each fit; detectors forgotten, writes refused. Three tiles on five blocks, one of two chunks: eviction is needed and an upload can be partial; three syncs, so that what two left is there in the third, one job, one fault; a cache that has any part of the plan, of which any part can be read |
| `bluetooth` | MCBluetooth, Bluetooth.cfg | link: `LinesRight`, `PairingRight`. Scan: `ScanAsHeld`, `ScansOn` | two connections (one after the other) and two handles, so that the second has the handle of the first or another; two command lines, rings of one line, answers of three lines: every ring is full at times, and something of the first connection is left when the second begins. Two clients with different filters, two starts per window of two, four disturbances in all |
| `live` | MCLive, Live.cfg | `SyncEnds`; `HandedOver`, `HearsOn`; `PhaseRight`, `StillSyncs` | log: all adversities at once, one contact (what ends a sync is the count of retries and the watchdog, not the records). Radio: a channel hopped to twice, four turns of the view or the hold, two ends of scans, one refused start. Network: one network, one request, the map job (the one with partial results and no guard) |
| `net_sync` | MCNetSync, NetSync.cfg | `JoinsOwed`, `AsAsked` | two networks (so that a pick scan happens), two requests (so that one supersedes the other), the clock job |
| `receiver` | MCReceiver, Receiver.cfg | Tracker: `IdentityKept`, `KeptTillSilent`. AuthPages: `NotAccused`, `GenuineSoon`, `VerifiedOnce` | two slots and two aircraft with a shared address, four addresses against three remembered, one event at a time, a clock that wraps; three pages, three sets (so that a set is outdated twice), two losses, one other ID, a window of two |
| `air` | MCAir, Air.cfg | `WholeReported`, `ChangesTold`, `HomeStored`, `SetOfOnePush`, `MostUrgentKept`, `AlertsTrue`, `OnlyEnabled`, `EachInTurn` | three advertisers for two slots; two restrictions on two spots, two ways of hearing, a table replaced once (a half of it may be in), two authentication sets where no table is, time past the second after which a line is told again; a road in steps below the distance; two hosts, two pushes of the same second or of two, one lost line, pushes that are full, doubled and empty; an aircraft over two drones, one on the ground and one that leaves it for two slots, a horizon past the clearing time; a failing call, a changed setting or layout at every point, time for two turns; three Wi-Fi paths of two cadences, two refusals |
| `match_log_torn` | MatchLog, MatchLogTorn.cfg | (violated) numbering after a torn save | see 6 |
| `log_sync_overlap` | MCLogSync, LogSyncOverlap.cfg | (violated) no record is skipped when a clear overlaps a sync | see 6 |
| `net_sync_person` | MCNetSync, NetSyncPerson.cfg | (violated) SYNC NOW survives a phone | see 6 |
| `auth_mixed` | AuthPages, AuthMixed.cfg | (violated) what is checked is one set | see 6 |
| `phone_history` | PhoneHistory, PhoneHistoryLive.cfg | (violated) a record is live only while its drone is heard | see 6 |

Each passing run also checks the type invariants of its parts (`KeptTypeOK`,
`CopiesTypeOK` and so on). The properties are stated, each with
the comment or document it comes from, at the end of their modules; some name
two halves of one question (`AsAsked`, `LinesRight`, `KeptTillSilent`, ...), each
defined and commented on its own.

Bounds that are not sizes stop counters that the code lets grow; each is a guard,
named at its declaration ("bound of the model"). They bound what comes from
outside - frames, faults, people, time - never what the code does about it.
Assumptions that are more than a bound:

* `Timely` (TileStore): when a person asks for a sync the board is at most one line
  behind, and `fs_stat` is answered in its 5 s or lost. A sync that was
  interrupted may still leave an answer on its way into the next. Without it
  `OnlyWholeTiles` fails: acks do not say which upload they are of (see 6).
* PhoneHistory: the database answers before the next flush is due.
* PhoneScan: what the leases ask for may differ, as the constructors allow; the
  app gives both clients the same filter.

Deadlock is checked where the system must go on by itself (`bluetooth`,
`net_sync`, `receiver`); the other runs have a part whose bounds end it.

## 4. Fairness

Only what the code's scheduling gives is assumed, all of it weak, and of the part
of a behaviour only.

* LogSync (`LogFair`): the board's loop answers a question and finishes a clear
  it began; lines that are on their way arrive; the phone's event loop runs the
  engine's steps and the steps of a clear; the watchdog's timer fires. Nobody has
  to clear, disconnect or ask.
* NetSync (`NetFair`): the loop ticks even when the radio stays silent
  (`TickWith(Quiet)`); the worker ends (its requests have timeouts); the timers
  of a join, a scan, the window and the grace after a phone run out, each on its
  own. The radio owes no answer and the phone need not leave.
* Radio (`ScannersFair`): the timer fires when armed, NimBLE's host task and the
  loop go on. Nobody has to leave the view.
* BleLink (`LinkFair`): the loop and the notify task run, time passes, and the
  stack ends a connection it has been told to end.
* PhoneScan (`ScannerFair`): the event loop runs what is due, the platform
  answers a start, time passes. Nobody has to release a lease, and the platform
  may stop a scan.

The other modules have safety properties only. That a save comes "soon"
(`SavedInTime`) and a path "in turn" (`EachInTurn`) are bounds, not liveness.

## 5. What is proved

`MatchLogProofs` proves about MatchLog, for every ring size, identity space,
clock, debounce and set of contacts (assumptions: the named ASSUMEs of MatchLog):

* `TypeCorrect`: `Spec => []TypeOK`, with torn saves and failing puts as well.
  It is inductive as it stands; the identity is never lost.
* `RecordsNumbered`: when no save is torn and no put fails (`Reliable`),
  `Spec => []RingNumbered`. The inductive invariant `IInv` adds to the types:
  the image of a save in progress is in order and its keys already put are
  flash's; flash is in order when no save is in progress, so that a power cut
  loads a ring in order. The arithmetic of the ring (which slot `log_at` names,
  that `log_add` writes the newest one's, that the others stay or shift by one)
  is in lemmas about `At`.
* `Implements`: under `Reliable`, `Spec => Refinement`. The step lemma maps each
  step of the ring to a step of the history or to a stutter.

* `KeptTyped`: `KeptSpec => []KeptTypeOK`: the types of the log and of the phone's
  receiver, contacts and records beside it, as MCKept runs them (from `RxTyped`,
  `ContactsTyped` and `HistoryTyped` of PhoneProofs).
* `SavesInTime`: under `Reliable`, `Spec => SavedInTime`. What waits to be saved
  carries the moment it began to wait, and the clock is so many passes after it, or
  up to three before it, however often it wrapped (`After`, `SavedInv`); while
  that is less than half the clock's range the signed difference in `log_due` is
  the number of passes (`SignedAfter`). What does not wait is in flash, or in
  the image on its way there.

`Reliable` is needed: without it RingNumbered is false (`match_log_torn`). No run
has `PutMayFail`: that refused puts keep the types is shown by the proof alone.

`LogSyncProofs` proves about LogSync, for every length of the log, every number
of contacts, identities and retries, with replies that are cut or lose their
last line, a link that comes and goes, a board that is switched off, a database
that refuses batches and a detector that is forgotten:

* `NothingSkipped`: under `Orderly`, `Spec => []NoSkip`. `Orderly` sets the five
  adversities `Overlap`, `Outlives`, `LossyCut`, `GivesUp`, `Impatient` aside, as
  `copies` does (`log_sync_overlap` shows what the first does to NoSkip). The
  inductive invariant says what is under way: while a sync runs, one question
  (`Asked`), one reply (`Replied`) or one cursor on its way to the database
  (`Ending`), and nothing otherwise but the word of a clear, or the cursor of a
  sync whose link went (`Idle`, `DoneOK`). A whole reply covers every record from
  the cursor up that the board still has, whatever rotated out since
  (`InReply`), and what is below the cursor is stored (`EngOK`), so what the last
  line moves the cursor over is stored, or the cursor is of a log that is gone.
* `CursorMovesRight`: under `Orderly`, `Spec => CursorRight`, a property of steps.
  Besides the invariant above, `Moves` says where a sync began (`From`: at the
  stored cursor or, with a log new to the phone, at its oldest record) and that a
  cursor on its way to the database covers all it moves over from there
  (`CursorMoves`); between the flush of the rows and the store of the cursor
  neither the rows nor the stored cursor change.
* `SyncTyped`: `Spec => []TypeOK`, in every adversity: no assumption about the log and
  the link. The lines that are out have the cursors and contacts of a log that was
  (`SerialTyped`), so what the phone asks, stores and comes back to is in range; and
  without a link nothing is on its way and no sync runs (`LinkTyped`).

`TileProofs` proves about TileStore, for every set of tiles and plans, every size
of flash, and any number of syncs, jobs, lost or garbled lines and power cuts:

* `TilesAreWhole`: under `Timely`, `TileSpec => OnlyWholeTiles`, a property of steps.
  The end of an upload has a sum, and a file with that sum is the tile it is of
  only if that tile is what is open (`EndRight`). It is, because the Mac sends a line
  of an upload only when nothing else is out: what may be out in each state of a
  sync is `InStep`; after an interrupted sync one answer may, and `fs_stat`, then
  `fs_ls`, are answered behind it. Eviction, the plans and the job write or remove
  whole files only, so nothing need be known of them.
* `PlansAreKept`: under `Timely`, `TileSpec => []PlanKept`: a sync that says it left
  nothing has on the board what of its plan the board had before or the Mac could
  send, whatever of the plan its cache lacks or cannot read, unless the job wrote or
  took it; and a job that says so has its plan, but for what uploads took. `TilesTyped`: under `Timely`, `[]TileTypeOK`,
  of which that the tiles fit the flash is the hard part. The inductive invariant
  `PlanInv` is about room: answers that are out, or were taken, promise no more
  than is free (`LinesTrue`, `MacTrue`), until the job writes; and while the Mac
  sends, what it takes to be free with all its tiles have a claim to stays within
  the flash (`SyncHolds`, `Claims`), which a deletion, an upload and a chunk hand on
  to each other. With the reserve it leaves, the board never evicts for an upload
  the Mac asked for. `JobTrue` is what the job's walk may count on.
* `CopiesTyped`: under `Timely`, `CopiesSpec => []CopiesTypeOK`: those types and the
  history sync's together, as MCCopies runs them.

`BluetoothProofs` proves about BleLink, for every number of peers, connections
and lines, every size of rings, line buffer and answers, and every deadline:

* `LinesReachRight`: `BleSpec => []LinesRight`, of two parts, without an
  assumption. `OwnLines`: unless a peer was safe, on its bond, before the rings were
  flushed (`quick`), every line in the rings, in the loop's wait or newly with the
  notify task is of the connection that is up, or will never be sent (`Theirs`); a
  line under assembly is of one connection (`Assembly`); and what the notify task
  began before the peer connected (`Astray`) is one line, after which it takes the
  next for who is ready by then.
* `AnswersAreTold`: the other part, `BleSpec => []ToldWhole`.
  Each `log_done` is followed on its whole way, from the loop through the ring and
  the notify task to the peer: before its place are all the records of its answer
  that the peer does not have yet (`Led`, `Answering`). It is kept because the
  loop writes an answer in order and ends one that lost a record with `cut`
  (`Writing`), because a line that was given up is known (`lossy`), and because
  a peer that did not listen has asked for nothing it is told of (`Listening`).
  That the loop waits once for a ring nobody reads is `WaitsOnce`.
* `BondsAreRight`: `BleSpec => BondsRight`; `DroppedInTime`:
  `BleSpec => NotDroppedEarly`: the two parts of `PairingRight` that are not
  liveness. A bond without the passkey, or keys still to be stored, are those of
  the refused peer, and it is still connected (`PairingSane`).

`RadiosHandedOver`, in the same module, is about Radio, for every list of channels
and any number of turns, ends of scans and refusals, whatever the loop, the host task
and the timer do at the same time: `RadioSpec => []HandedOver`. Until the scan
changes behind a task that is about to write the flag (`crossed`), what such a task
writes is so, and a flag that is wrong has one (`FlagOwed`); so a view that is seen
on finds a right flag, or the host task starting (`ViewHas`), and with the view off
somebody scans, is about to, or was refused (`BoardHas`). A hop that comes late was
decided on before the hold. The two orders in which the code does not hand over are
exceptions of the property, not assumptions (see 6).

and, of the other end, PhoneScan, for every set of clients with any filters of which
none is the same as no scan, any limit of starts and any number of failures and
turns of the adapter:

* `ScansAsHeld`: `ScanSpec => []ScanAsHeld`. The inductive invariant `ScanInv` says
  that what scans is what the coordinator takes for running, unless the platform
  stopped it; that this and the change under way cover every lease that is held
  and the one that is asked for; that behind a change for clients that have all
  gone, and behind one that asked for another duty, waits a change that puts it
  right; and, for the limit, that the window has its full number of starts only
  until the sleep that was armed for the first of them is over (`Paced`).
* `BleTyped`, `ScanTyped`, `BluetoothTyped`: the types of both ends, and of the two as
  MCBluetooth runs them (`BluetoothSpec => []BluetoothTypeOK`); of the scan, that a
  lease that is asked for has its change waiting and that nothing scans without
  Bluetooth.

`NetSyncProofs` proves about NetSync, for every set of networks, passwords,
transports and jobs and every length of the saved list:

* `NetTyped`, `JoinsAnswered`, `NothingUnasked`: `NetSpec => []NetTypeOK`,
  `[]JoinsOwed`, `[]AsAsked`; `PhaseAsItIs`: `NetSpec => PhaseRight`. One
  inductive invariant, `NetInv`, serves all four. A tick is a chain of functions of
  one record, as in the code; `Good(n)` says of a record that it has its types and
  that owed answers, saved networks, hold, pause, mode and worker agree with the
  phase, and each function is shown to keep it. In the midst of some (the end of a
  fetch, a join that has just succeeded) phase and worker do not yet agree: they
  keep the weaker `Sound`, and the function that calls them keeps `Good` again.
  `FreeHop`, the last of the chain, makes the hold exact.

`ReceiverProofs` proves about Tracker, for every table, set of aircraft, addresses
and clock:

* `IdentityIsKept`: `Spec => IdentityKept`: no serial is in two contacts, a
  contact keeps its serial, the hook sees the contact its event was of. A frame
  changes one slot (`IngestedInto`) and gives it a serial only when no contact has
  it; contacts are told apart by when they began.
* `ContactsAreKept`: `Spec => KeptTillSilent`. The addresses of a contact are the
  last ones it was heard on, whatever the table did since (`Attached`); a number
  leaves the table when it joins the ended ones and in no other way; and for the
  expiry two readings of `millis()` less than half a round apart have the right
  difference (`SinceIs`), though the loop's may be older than the contact's.
* `TableTyped`: `Spec => []TypeOK`; to that is added that a second name is a
  registration beside a serial (`Paired`) and of which contacts the events are.

and about AuthPages, for every number of pages (at most the
16 of the format), window, number of sets, losses and other senders:

* `AuthTypeCorrect`: `AuthSpec => []AuthTypeOK`, which says also that a set
  counts as verified only while it is held whole, with an ID.
* `CheckedOnce`: `AuthSpec => VerifiedOnce`. The inductive invariant `AuthInv` says
  that what is held either was checked and is not due, or is newer than what was
  checked in some page, or has lost that page and can only receive a newer one.
  Set numbers of pages only grow, so what is newer stays so; `IngestedStep` is
  the step of a frame.
* `NeverAccused`: `AuthSpec => []NotAccused`. While nothing was lost or sent by
  another, `HeardAll` holds: the pages held are the whole set, or what was sent
  so far of this rotation, or all of the last set, verified. The last needs that
  a set was verified before the next came: the rotation an aircraft may sign
  after began when the window had passed (`settled`), and no check was made since
  that signature, so a due one was not put off.
* `KnownGenuine`: `AuthSpec => GenuineSoon`: whatever came before, an aircraft
  heard whole for two rotations is known to be genuine. The first leaves no page
  of another set; nothing is dropped in the second, after which its set is held and
  is due, or was checked.
* `ReceiverTyped`: `ReceiverSpec => []ReceiverTypeOK`, the types of both parts side by
  side as MCReceiver runs them.

`AirProofs` proves about HomePosition, for every road, distance, interval, range
of millis() and number of power cuts:

* `PositionStored`: `HomeSpec => []HomeStored`. Between two calls what the check
  compares with is what flash has.

and about Airspace, for every set of places and restrictions, table and horizon:

* `ChangesAreTold`: `AirSpec => []ChangesTold`. A frame that is not told has the hash
  of a line told less than a second ago. Since that line the contact has changed
  only if it is not as that line says (`SinceTold`); so a change that a suppressed
  frame makes goes back on another of that second, and where it makes none the
  line before said the same of the contact, but for having a word of a restriction
  at all, which, once had, is had for good (`LinesOK`).

and about TxSets, for every set of rates and cadences and any number of failing
calls, changed settings and layouts, until millis() is half way round:

* `OnlyEnabledOnAir`: `TxSpec => []OnlyEnabled`. The inductive invariant `SetsInv` says
  that a set the pass has gone by is settled (`BehindSettled`: as OnlyEnabled asks),
  as is one beyond the layout, which is off; that the pass goes by the settings as
  they are while none changes (`GoesBySettings`), and who is taken on a set wants
  it (`OnTurnWants`); and that what a set advertises is what NimBLE said it does
  (`AirIs`).

and about Transmitter, for every number of paths, cadences, turns and any number of
refusals, failing calls and changes, until the pass's readings of `millis()` are half
way round, and if a refused frame is tried again within a period (`RetryIn`):

* `EachGetsItsTurn`: `TxSpec /\ SlotSpec => []EachInTurn`. Wi-Fi: what passed over a
  path that is due has moved behind it in the round; the frames a path sent, each
  a period long, and the time since its last slot never exceed the time there was
  by more than two periods. Bluetooth: a path waits while another has the set for less
  than a turn, while it is being taken, or while the set is put off, which is not
  counted; each call that fails and each change allows a turn more (`Slack`).

and about TrafficFeed, for any hosts, sets, limits and lost lines:

* `SetsAreOfOnePush`: `FeedSpec => []SetOfOnePush`. What is gathered has the second of
  the line that opened it, and while no line was lost what one host has in it is of
  one push, the one it is still sending (`FeedInv`, `Owed`): so two pushes meet in a
  set only with one second, of two hosts or where a line was lost. What `traffic_ingest` makes of it follows from the order: those it
  takes have the first places, what has none comes after each of them.

and about Fragments, for every number of advertisers, pieces and slots:

* `AdvertisementsWhole`: `FragSpec => WholeReported`, and `FragTyped`:
  `FragSpec => []FragTypeOK`. An assembly that is not too old shows in the history of
  tails, so one that begins in good order finds none to join; and while no more
  advertisers are under way than there are slots, who begins takes no other's.

and about TrafficWatch, for any numbers of drones and aircraft, any reports of them
and all limits:

* `AlertsAreTrue`: `WatchSpec => AlertsTrue`. An alert that is not out was seen to
  stand at the last evaluation, and one that is out at the one before, a unit of
  time ago at most (`TimesOK`). The cases of an evaluation have different names, so
  what is true of the table after some of them stays true with one more
  (`AppliedOK`): an alert has the numbers of its case, and a name is lost, or left out
  when raised, of a full table only; such a table, as it gets no smaller, has a new
  name. That the table after each case is what `Tables` says needs that a function
  so defined exists: `RunExists`, from a least counterexample.
* `UrgentAreKept`: `WatchSpec => []MostUrgentKept`. The order of alerts is total
  (`Before`), another evaluation of the same changes no alert of the table
  (`EvaluatedSettles`), so what then ranks last only gets earlier (`RankedOK`).
* `AlertsTyped`: `WatchSpec => []WatchTypeOK`; no two alerts have one name.

and about them side by side:

* `AirTypes`, `HomeTypes`, `SetsTypes`: the types of Airspace, HomePosition and TxSets;
  `ReceivedTyped`: `MCAirSpec => []ReceivedTypeOK`: those and the types of Fragments
  and TrafficWatch, in the behaviours MCAir runs.

`PhoneProofs` proves about PhoneRx, for any number of changes of the setting, the
policy and the adapter, and of refused leases:

* `PhoneReceivesAsSet`: `RxSpec => []RxAsSet` (with the exceptions RxAsSet
  itself names: two calls that overlapped, a refused lease, a stop that threw). How
  far the one call under way is tells what the receiver is; a path that is not as
  policy and adapter want it has a change queued. Also after a stop that threw
  nothing scans for a receiver that is off.

and about ContactTracker, for every number of drones and sensors:

* `DroneIsOneContact`: `ContactSpec => []OneContact`, whatever IDs and addresses
  the drones have and share. A frame changes the contact it is of, that of its address,
  and what leads to them, and all of those are of its drone if that shares nothing
  (`KeysApart`, `Apart`). A drone with one address is what that leads to; of one with
  one ID the addresses of a contact all lead to it, so that a fold leaves nothing of
  the drone behind.

and about PhoneHistory, for every set of contacts, every period and delay, any number
of failing writes and clears, and an app that may be killed:

* `HistoryIsTrue`: `HistSpec => []HistoryTrue`. A spell's frames are counted in the
  spell and in the history of what was noted, and the two agree; a flush under way
  has what the spells had when it began and differs only in what was noted since,
  for which `unsaved` is set; a spell it ends takes no frame any more.

Each argument stands at length before its proof.

Only model-checked: liveness (`SyncEnds`, `HearsOn`, `StillSyncs`, `ScansOn`, the first
half of `PairsInTime`), since the prover has no support for fairness and ENABLED.
Every other property of the passing runs is a theorem, for all values of the
constants under the assumptions named with it.

## 6. Disagreements found

Each is a run that TLC ends with a counterexample to what a comment says.

* `match_log_torn`: a power cut between two of the six puts of a save mixes keys
  of two saves, and `log_load` takes them as one log; a record's number is then
  not "its place in the history" (match_log.h:184).
* `log_sync_overlap`: when a log is cleared while the phone is syncing, the
  `log_done` of the old question ends the new sync and moves the cursor past
  records nobody stored; app_controller.dart:683 and sync_engine.dart:10 say
  otherwise.
* `net_sync_person`: in STAY a SYNC NOW is served by a fetch that counts as
  automatic, and a phone that connects cancels it; net_sync.h:45 says what a
  person asks for still runs.
* `auth_mixed`: pages after page 0 do not say which set they are of. When the
  last page of one set and page 0 of the next are lost, or page 0 of a set is,
  pages of two sets make a whole one, which is checked, and a genuine aircraft is
  reported invalid until its set came through whole; rx_core.h:829 says that a
  new set drops the pages of the old one. `GenuineSoon` is what holds instead:
  two whole rotations heal it.
* `phone_history`: a drone heard again after a minute of silence, before the next
  flush, gets a new spell in place of the old one, whose record stays live in the
  database; phone_history.dart:5 says it is ended.

Met while modelling, and in the models, without a run of their own; the
properties name them as exceptions where they would bite:

* match log: `log_write` ignores a refused put after `dirty` was reset. With
  `LossyCut` a power cut gives the next contacts numbers the phone has already
  synced under the same identity.
* board's feed: a command to start the feed that was queued when its peer left
  runs afterwards, though host_link.h:167 says the feed is off after every
  disconnect.
* tiles: an ack says how many chunks came, not of which upload. On a board that is
  several lines behind, the late ack of an interrupted upload's `fs_begin` is taken
  for that of the next (TileSync.swift:342), though :328 says that it is ignored;
  `Timely` sets that aside.
* radios: `s_ble_scanning` is written after the call to NimBLE by two tasks on two
  cores; a scan that is started, stopped or ends in between leaves it saying what is
  not so (`crossed`), and the board may be deaf to Bluetooth until the view is opened
  and closed. And the host task, having read that the view is off, may start its
  scan after the loop has handed the radios over (`overtaken`): the view is left
  with a scan, though rx_core.h:382 says "forever means forever -- unless a board
  hook has the radios". `HandedOver` excepts both orders and nothing else.
  Builds without extended advertising (rx_core.h:441), which have no flag, are not
  modelled.
* position: a power cut between its two keys stores a latitude and a longitude of
  two places; 24.8 days after a save the interval reads as not yet begun.
* traffic: the T5's panel flashes again for a caution that is merely held, when its
  aircraft has left the ground: `traffic_apply` takes the level from the last report
  (traffic.h:652), and the panel flashes for any warning it did not show
  (ui_epd.cpp:497). No comment says otherwise, and `SaysTheTruth` says so.
* link: `ble_send_line` keeps the handle it began with while it waits to retry
  (ble_link.h:199): when the link changes hands in that time and the controller
  gives the handle again, the rest of that line reaches the next peer, paired or not,
  though the "Security" comment of ble_link.h says that nothing does; and a peer that
  comes back on its bond before the notify task has flushed the rings gets what
  they held. `OwnLines` excepts both and nothing else. (In the model the notify task
  looks at the link and reads its handle in one step; in the code two reads.)
* restrictions: the hash of a line lacks the word `in_tfr` itself, which appears when
  a first table comes, and the page-0 fields of the authentication set, though
  rx_core.h:1408 says it has "what the track adds to the line"; and a restriction
  that changes twice within a second, as when a table is pushed anew, clear first,
  may leave the host with the wrong word until the next line. `ChangesTold` says how
  long, and that nothing else is kept back.
* tiles: a sync whose cache lacked tiles of the plan, or could not read them, ends
  as done with none left (TileSync.swift:30, :263, :393).
* traffic: `t` is the second of the push in both apps (AppModel.swift:577,
  app_controller.dart:930), though traffic.h:190 says "unix seconds of the data
  set"; the lines of two hosts that push in one second, or of one that does where
  the `done` between was lost, make one set, which `SetOfOnePush` excepts.
* traffic: `traffic_done` names no second: after a lost one, the next push, when
  it is empty, installs the lines of the push before (traffic.h:189, :207 say
  they are discarded).
* transmitter: `ble_take` notes the rate as it is when the set starts, which may
  have changed since it was configured (`OnlyEnabled`'s exception);
  `ble_relayout` counts a set it failed to stop as stopped; a set's first turn
  waits when `millis()` reads as before `retry_ms` 0 (after 24.8 days).
* phone's scan: a duty that changes during the first start is not applied until
  the next start (`missed`); a retry timer that fires during a start takes it for
  a scan and is not armed again (`swallowed`); the limit of starts is counted
  from the call, though the backend may wait before it asks the platform.
* phone's receiver: a second toggle of the setting before the first has returned
  may end the wrong way round (`overlap`).
* phone's receiver: when the release of the lease throws, `stop` and `_syncPaths`
  leave before `_bleOn` is cleared (native_rx_service.dart:270, :302); the path is not
  started again, though the setting says so, until a stop returns (`threw`).
* phone's contacts: `_absorb` drops the absorbed contact's verdict. An ID without a
  contact takes the contact of its address, that of another ID included: the two
  IDs of a drone then are one contact in turn, and so are two aircraft that share an
  address. Two IDs first heard on two addresses stay two contacts.
* phone's history: a flush that fails has cleared `_dirty`; a killed app leaves its
  records live; a spell begun while the flush that ends the one before it awaits the
  database is removed with it, by its key (phone_history.dart:80).

## 7. What is not modelled

* Drawing, pins and chips of the boards, the phone's and the Mac's screens:
  input and output without a protocol.
* Decoders, parsers and message formats, payloads of the transmitter: pure
  functions of bytes and text.
* Floating-point geometry: solar clock, tile geometry, the distances of
  conflicts and restrictions. Their results are inputs of the models.
* Vendored libraries; the BLE stack, the Wi-Fi driver, the platform's scan, the
  database and flash appear as what may happen at their interfaces (marked
  external in the map). These and the screens are most of the repository's lines.
* USB serial: it runs the same ring policy as BLE, without connections; the Mac's
  copy of the log asks the same questions over it.
* In NetSync: lengths of periods, who may command over USB, the built-in
  network, the stored copy of the configuration, holds after a source's 429.
* In LogSync: live contacts, the `after_utc` filter, firmware without `log_id`,
  an event between the read of the stored cursor and the question.
* In TileStore: .png tiles, the source mark that empties the store, paths.
* The frame queue between radio callbacks and decode task (a queue that drops),
  the heartbeat's figures.
* The phone's Wi-Fi paths (they go the way of the Bluetooth path), the picker's
  timeout, the alert policy, range and bearing; the reconnects of the BLE
  transport beyond links that come and go.
