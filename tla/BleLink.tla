------------------------------ MODULE BleLink ------------------------------
(***************************************************************************)
(* The receiver's Bluetooth link (firmware/common/ble_link.h) over the     *)
(* output rings of host_link.h, with the commands that matter to it        *)
(* (handle_host_line and emit_log in rx_core.h).                           *)
(*                                                                         *)
(* Four tasks share the link and run in any order:                         *)
(*   - NimBLE's host task: connections, pairing, subscriptions, writes;    *)
(*   - the loop: runs the command lines, writes their replies, waits for   *)
(*     room in the reply ring, drops a peer that does not pair in time;    *)
(*   - the decode task: the live feed;                                     *)
(*   - the notify task: sends lines slice by slice, replies first.         *)
(* A connection has a handle, which the next one may have again, and a     *)
(* number, of which the code knows nothing: it says in the history which   *)
(* connection something belongs to. A link is "safe" when it is encrypted  *)
(* and authenticated (ble_link_secure): the stack tells the two apart only *)
(* in a pairing that is then refused.                                      *)
(*                                                                         *)
(* Left out: USB serial's ring, connection parameters, advertising data,   *)
(* drop counters nobody decides on, the wake-up of the notify task.        *)
(***************************************************************************)
EXTENDS HostLink, Integers, FiniteSets, Functions

CONSTANTS
  Phones,
  Handles,     \* the connection handles of the controller
  NoHandle,    \* BLE_HS_CONN_HANDLE_NONE
  Commands,    \* the commands the model has, of AllCommands
  LineRoom,    \* pieces a command line may have (BLE_LINE_MAX)
  RxRoom,      \* command lines the incoming ring holds
  CtlRoom,     \* lines the reply ring holds
  FeedRoom,    \* lines the feed ring holds
  Records,     \* records in the log a log_get asks for
  PollMax,     \* command lines the loop runs in a pass (32)
  Deadline,    \* BLE_PAIR_DEADLINE_MS, in ticks
  MaxLag,      \* bound of the model: ticks a pass of the loop may last
  MaxConns,    \* bound of the model: connections
  MaxLines     \* bound of the model: command lines written

AllCommands == {"feed_on", "feed_off", "log_get", "log_clear"}

ASSUME CommandsAssumption == Commands \subseteq AllCommands
ASSUME RoomAssumption ==
  /\ LineRoom \in Nat \ {0} /\ RxRoom \in Nat \ {0} /\ CtlRoom \in Nat \ {0}
  /\ FeedRoom \in Nat \ {0} /\ PollMax \in Nat \ {0} /\ Records \in Nat
ASSUME TimeAssumption == Deadline \in Nat /\ MaxLag \in Nat
ASSUME BoundAssumption == MaxConns \in Nat /\ MaxLines \in Nat
ASSUME HandleAssumption == NoHandle \notin Handles

VARIABLES
  link,    \* connection state: s_ble_*, what the stack knows of the peer, and
           \* whether it was safe before the rings were flushed (quick: history)
  bonds,   \* the stack's bonds, s_ble_refused, and keys it has still to store
  asm,     \* line assembly of incoming writes (s_ble_rx_line)
  rxq,     \* complete command lines, for the loop (s_ble_rx_rb)
  feed,    \* s_feed_ble
  ctl,     \* s_ble_ctl_q: replies and other lines that are not the feed
  live,    \* s_ble_feed_q
  loop,    \* the loop task
  tx,      \* the notify task
  air,     \* history: what the connected peer has of the lines sent to it
  lines    \* bound: command lines written so far

bleVars == <<link, bonds, asm, rxq, feed, ctl, live, loop, tx, air, lines>>

-----------------------------------------------------------------------------
(* Values *)

Conn == 1 .. MaxConns
MaxAge == Deadline + MaxLag + 1     \* as good as any longer time

\* A line: what it is, the connection whose command it answers (0: a
\* broadcast), the connection that was up when it was written.
What == {"rid", "status", "record", "done", "cut", "note"}
KindOf(what) == IF what = "rid" THEN "feed" ELSE IF what \in {"done", "cut"} THEN "final" ELSE "reply"
Line == {l \in [what : What, kind : Kind, asker : 0 .. MaxConns, conn : 0 .. MaxConns] : l.kind = KindOf(l.what)}

NoLink == [up |-> FALSE, conn |-> 0, handle |-> NoHandle, phone |-> {}, subscribed |-> FALSE, safe |-> FALSE,
           quick |-> FALSE, age |-> 0, closing |-> "no"]
NoAsm == [pieces |-> <<>>, over |-> FALSE, wrote |-> 0]
Idle == [at |-> "idle", lag |-> 0, left |-> 0, conn |-> 0, out |-> <<>>, asker |-> 0, drops0 |-> 0]
Asleep == [line |-> <<>>, conn |-> 0, handle |-> NoHandle]
Nothing == [part |-> <<>>, junk |-> FALSE, records |-> 0, ended |-> "no", lossy |-> FALSE, waits |-> 0, strays |-> 0]

BleInit ==
  /\ link = NoLink
  /\ bonds = [code |-> {}, free |-> {}, refused |-> {}, late |-> {}]
  /\ asm = NoAsm /\ rxq = <<>> /\ feed = FALSE
  /\ ctl = EmptyQ /\ live = EmptyQ
  /\ loop = Idle /\ tx = Asleep /\ air = Nothing /\ lines = 0

\* Connections and disconnects drop a line that was being assembled.
AsmReset == NoAsm

\* ble_link_ready: nothing leaves for a peer that is not this far.
Ready == link.up /\ link.subscribed /\ link.safe

\* ble_pair_overdue, as the loop sees it: its `now` is the time its pass
\* began, which may be before the peer connected. The difference is signed.
Overdue == link.up /\ ~link.safe /\ link.age - loop.lag > Deadline

-----------------------------------------------------------------------------
(* The NimBLE host task, and the peer *)

BleConnect(p, h) ==
  /\ ~link.up /\ link.conn < MaxConns
  /\ link' = [NoLink EXCEPT !.up = TRUE, !.conn = link.conn + 1, !.handle = h, !.phone = {p}]
  /\ asm' = AsmReset
  /\ UNCHANGED <<bonds, rxq, feed, ctl, live, loop, tx, air, lines>>

\* Nothing of the connection before is left in the rings, or waits to be put there.
Flushed == ctl.ring = <<>> /\ live.ring = <<>> /\ loop.at # "wait"

\* onAuthenticationComplete after a pairing with the passkey, or the
\* encryption of a link with the bond such a pairing left: at once.
PairedWithCode ==
  /\ link.up /\ ~link.safe /\ link.closing # "refused"
  /\ link' = [link EXCEPT !.safe = TRUE, !.quick = ~Flushed,
                          !.age = IF link.closing = "no" THEN 0 ELSE @]  \* read no more
  /\ bonds' = [bonds EXCEPT !.code = @ \union link.phone, !.free = @ \ link.phone]
  /\ UNCHANGED <<asm, rxq, feed, ctl, live, loop, tx, air, lines>>

\* It failed, or the peer never showed the passkey. The stack may have the
\* keys of the latter still to store.
PairedOtherwise ==
  /\ link.up /\ ~link.safe /\ link.closing = "no"
  /\ link' = [link EXCEPT !.closing = "refused"]
  /\ \E keys \in {{}, link.phone} :
       bonds' = [code |-> bonds.code \ link.phone, free |-> bonds.free \ link.phone,
                 refused |-> link.phone, late |-> keys]
  /\ UNCHANGED <<asm, rxq, feed, ctl, live, loop, tx, air, lines>>

StoreKeys ==
  /\ bonds.late # {}
  /\ bonds' = [bonds EXCEPT !.free = @ \union bonds.late, !.late = {}]
  /\ UNCHANGED <<link, asm, rxq, feed, ctl, live, loop, tx, air, lines>>

\* A bug to compare with: deleted once only.
BondsLeftAsTheyAre == [bonds EXCEPT !.refused = {}, !.late = {}]
\* The bonds a disconnect leaves: that of a refused peer is deleted again.
BondsLeft == [code |-> bonds.code \ bonds.refused, free |-> bonds.free \ bonds.refused, refused |-> {}, late |-> {}]

\* onDisconnect: the peer went, or was told to. Lines and commands that were
\* queued stay in their rings.
BleDisconnect ==
  /\ link.up
  /\ link' = [NoLink EXCEPT !.conn = link.conn]
  /\ asm' = AsmReset
  /\ ctl' = [ctl EXCEPT !.stalled = FALSE]
  /\ feed' = FALSE
  /\ bonds' = BondsLeft
  /\ air' = Nothing
  /\ UNCHANGED <<rxq, live, loop, tx, lines>>

Subscribe(on) ==
  /\ link.up /\ link.safe
  /\ link' = [link EXCEPT !.subscribed = on]
  /\ air' = [air EXCEPT !.lossy = @ \/ ~on]
  /\ UNCHANGED <<bonds, asm, rxq, feed, ctl, live, loop, tx, lines>>

\* ble_rx_bytes ignores what a link that is not safe brings.
Heeded == link.safe

\* A part of a line that does not end it.
WritePiece ==
  /\ link.up /\ Heeded /\ lines < MaxLines /\ asm.wrote <= LineRoom
  /\ asm' = IF Len(asm.pieces) < LineRoom
            THEN [asm EXCEPT !.pieces = Append(@, link.conn), !.wrote = @ + 1]
            ELSE [asm EXCEPT !.over = TRUE, !.wrote = @ + 1]
  /\ UNCHANGED <<link, bonds, rxq, feed, ctl, live, loop, tx, air, lines>>

\* What the assembler makes of a line's end: the command line, if one fits.
Delivered(cmd) ==
  IF asm.over \/ Len(rxq) = RxRoom
  THEN rxq
  ELSE Append(rxq, [cmd |-> cmd, conn |-> link.conn, safe |-> link.safe,
                    whole |-> asm.pieces = [i \in 1 .. asm.wrote |-> link.conn]])

WriteEnd(cmd) ==
  /\ link.up /\ Heeded /\ lines < MaxLines /\ asm.wrote > 0
  /\ rxq' = Delivered(cmd)
  /\ asm' = NoAsm
  /\ lines' = lines + 1
  /\ air' = [air EXCEPT !.lossy = @ \/ ~link.subscribed]
  /\ UNCHANGED <<link, bonds, feed, ctl, live, loop, tx>>

-----------------------------------------------------------------------------
(* The decode task *)

\* A rid line, for a peer that asked for the feed: never waits for room.
Rid ==
  /\ feed /\ Ready
  /\ HasRoom(live, FeedRoom)
  /\ live' = Taken(live, [what |-> "rid", kind |-> "feed", asker |-> 0, conn |-> link.conn])
  /\ UNCHANGED <<link, bonds, asm, rxq, feed, ctl, loop, tx, air, lines>>

-----------------------------------------------------------------------------
(* The loop task *)

\* rx_tick begins a pass: `now` is read here, and used until it ends.
BeginPass ==
  /\ loop.at = "idle"
  /\ loop' = [Idle EXCEPT !.at = "poll", !.left = PollMax]
  /\ UNCHANGED <<link, bonds, asm, rxq, feed, ctl, live, tx, air, lines>>

\* The lines a command writes.
Answer(cmd) ==
  CASE cmd \in {"feed_on", "feed_off"} -> <<"status">>
    [] cmd = "log_get" -> [i \in 1 .. Records |-> "record"] \o <<"done">>
    [] cmd = "log_clear" -> <<"note">>

\* handle_host_line on the next command line, whose peer may be gone.
RunCommand ==
  /\ loop.at = "poll" /\ loop.left > 0 /\ rxq # <<>>
  /\ LET c == Head(rxq) IN
     /\ rxq' = Tail(rxq)
     /\ feed' = IF c.cmd = "feed_on" THEN TRUE ELSE IF c.cmd = "feed_off" THEN FALSE ELSE feed
     /\ loop' = [loop EXCEPT !.at = "write", !.left = @ - 1, !.out = Answer(c.cmd),
                             !.asker = IF c.cmd = "log_clear" THEN 0 ELSE c.conn,
                             !.drops0 = ctl.replyDrops]
  /\ UNCHANGED <<link, bonds, asm, ctl, live, tx, air, lines>>

\* emit_log asks after each record whether the link has dropped one.
Cut(drops) == Head(loop.out) = "record" /\ drops # loop.drops0

\* The next line, when this one is written or lost.
Written(drops) ==
  LET out == IF Cut(drops) THEN <<"cut">> ELSE Tail(loop.out) IN
  loop' = IF out = <<>>
          THEN [Idle EXCEPT !.at = "poll", !.lag = loop.lag, !.left = loop.left]
          ELSE [loop EXCEPT !.at = "write", !.out = out, !.conn = 0]

Out(conn) == [what |-> Head(loop.out), kind |-> KindOf(Head(loop.out)), asker |-> loop.asker, conn |-> conn]

\* ble_sink_enqueue and host_outq_put. Nothing counts a line for a peer that is not ready.
WriteLine ==
  /\ loop.at = "write"
  /\ LET line == Out(link.conn) IN
     \/ /\ ~Ready
        /\ Written(ctl.replyDrops)
        /\ UNCHANGED <<ctl, air>>
     \/ /\ Ready /\ HasRoom(ctl, CtlRoom)
        /\ ctl' = Taken(ctl, line)
        /\ Written(ctl'.replyDrops)
        /\ air' = [air EXCEPT !.waits = 0]
     \/ /\ Ready /\ ~HasRoom(ctl, CtlRoom) /\ MayWait(ctl, line.kind)
        /\ loop' = [loop EXCEPT !.at = "wait", !.conn = link.conn]
        /\ air' = [air EXCEPT !.waits = IF line.kind = "reply" THEN @ + 1 ELSE @]
        /\ UNCHANGED ctl
     \/ /\ Ready /\ ~HasRoom(ctl, CtlRoom) /\ ~MayWait(ctl, line.kind)
        /\ ctl' = Lost(ctl, line.kind)
        /\ Written(ctl'.replyDrops)
        /\ UNCHANGED air
  /\ UNCHANGED <<link, bonds, asm, rxq, feed, live, tx, lines>>

\* The wait ends: with room, or after HOST_CTL_WAIT_MS. The link may have
\* changed hands meanwhile; nobody looks.
WaitEnds ==
  /\ loop.at = "wait"
  /\ LET line == Out(loop.conn) IN
     \/ /\ HasRoom(ctl, CtlRoom)
        /\ ctl' = Taken(ctl, line)
        /\ Written(ctl'.replyDrops)
        /\ air' = [air EXCEPT !.waits = 0]
     \/ /\ ~HasRoom(ctl, CtlRoom)
        /\ ctl' = Lost(ctl, line.kind)
        /\ Written(ctl'.replyDrops)
        /\ UNCHANGED air
  /\ UNCHANGED <<link, bonds, asm, rxq, feed, live, tx, lines>>

\* The commands are done, or enough of them: on to the pairing deadline. The
\* connection the loop means is the one of now.
EndPoll ==
  /\ loop.at = "poll" /\ (loop.left = 0 \/ rxq = <<>>)
  /\ loop' = IF link.up THEN [loop EXCEPT !.at = "pair", !.left = 0, !.conn = link.conn] ELSE Idle
  /\ UNCHANGED <<link, bonds, asm, rxq, feed, ctl, live, tx, air, lines>>

CheckPairing ==
  /\ loop.at = "pair"
  /\ loop' = Idle
  /\ link' = IF Overdue /\ link.conn = loop.conn /\ link.closing = "no"
             THEN [link EXCEPT !.closing = "late"] ELSE link
  /\ UNCHANGED <<bonds, asm, rxq, feed, ctl, live, tx, air, lines>>

-----------------------------------------------------------------------------
(* The notify task *)

\* A bug to compare with: lines are sent to whoever is connected.
BoundUp(line) == IF link.up THEN [line |-> <<line>>, conn |-> link.conn, handle |-> link.handle] ELSE Asleep

\* A line that was taken is sent to the peer that is ready, or flushed.
Bound(line) == IF Ready THEN [line |-> <<line>>, conn |-> link.conn, handle |-> link.handle] ELSE Asleep

\* It takes a line, replies first.
TakeLine ==
  /\ tx.line = <<>>
  /\ \/ /\ ctl.ring # <<>>
        /\ ctl' = [ctl EXCEPT !.ring = Tail(@)] /\ UNCHANGED live
        /\ tx' = Bound(Head(ctl.ring))
     \/ /\ ctl.ring = <<>> /\ live.ring # <<>>
        /\ live' = [live EXCEPT !.ring = Tail(@)] /\ UNCHANGED ctl
        /\ tx' = Bound(Head(live.ring))
  /\ UNCHANGED <<link, bonds, asm, rxq, feed, loop, air, lines>>

\* The stack takes a notification for the handle the line was begun with,
\* whose connection that is by now.
Reaches == tx.line # <<>> /\ link.up /\ link.handle = tx.handle

\* The line under way was begun before the peer connected.
Astray == tx.conn # link.conn

\* The first slice of a line to reach this peer.
Reached(a) == IF Astray /\ air.part = <<>> THEN [a EXCEPT !.strays = @ + 1] ELSE a

\* A slice that is not the line's last (a line may be one slice).
SendSlice ==
  /\ Reaches /\ air.part = <<>>
  /\ air' = Reached([air EXCEPT !.part = tx.line])
  /\ UNCHANGED <<link, bonds, asm, rxq, feed, ctl, live, loop, tx, lines>>

\* What the peer makes of a whole line: of the answer to its log_get it
\* counts the records. A line after one that was left half sent is garbage.
Heard(l) ==
  LET a == [air EXCEPT !.part = <<>>, !.junk = FALSE]
      n == IF air.ended = "no" THEN air.records ELSE 0
  IN IF air.junk \/ l.asker # link.conn THEN a
     ELSE IF l.what = "record" THEN [a EXCEPT !.records = IF n < Records THEN n + 1 ELSE n, !.ended = "no"]
     ELSE IF l.kind = "final" THEN [a EXCEPT !.records = n, !.ended = l.what]
     ELSE a

SendLast ==
  /\ Reaches
  /\ tx' = Asleep
  /\ air' = Reached(Heard(tx.line[1]))
  /\ UNCHANGED <<link, bonds, asm, rxq, feed, ctl, live, loop, lines>>

\* The stack has refused a slice too often, or the peer is not ready any
\* more: the rest of the line is not sent. A half stays with the peer.
BleGiveUp ==
  /\ tx.line # <<>>
  /\ tx' = Asleep
  /\ air' = IF link.up /\ (~Astray \/ air.part # <<>>)
            THEN [air EXCEPT !.part = <<>>, !.junk = @ \/ air.part # <<>>, !.lossy = TRUE] ELSE air
  /\ UNCHANGED <<link, bonds, asm, rxq, feed, ctl, live, loop, lines>>

-----------------------------------------------------------------------------
\* Time matters until the peer has paired. The clock's wrap is out of a
\* peer's reach: it would have to stay unpaired for 24 days.
Tick ==
  /\ loop.lag < MaxLag /\ ~link.safe
  /\ link' = IF link.up /\ link.age < MaxAge THEN [link EXCEPT !.age = @ + 1] ELSE link
  /\ loop' = IF loop.at = "idle" THEN loop ELSE [loop EXCEPT !.lag = @ + 1]
  /\ UNCHANGED <<bonds, asm, rxq, feed, ctl, live, tx, air, lines>>

HostTask ==
  \/ \E p \in Phones, h \in Handles : BleConnect(p, h)
  \/ PairedWithCode \/ PairedOtherwise \/ StoreKeys \/ BleDisconnect
  \/ \E on \in BOOLEAN : Subscribe(on)
  \/ WritePiece
  \/ \E cmd \in Commands : WriteEnd(cmd)

LoopSteps == BeginPass \/ RunCommand \/ WriteLine \/ WaitEnds \/ EndPoll \/ CheckPairing
NotifyTask == TakeLine \/ SendSlice \/ SendLast \/ BleGiveUp

BleNext == HostTask \/ Rid \/ LoopSteps \/ NotifyTask \/ Tick

\* The tasks run, time passes, and the stack ends a connection it is told to end.
BleFairness ==
  /\ WF_bleVars(LoopSteps) /\ WF_bleVars(NotifyTask) /\ WF_bleVars(Tick)
  /\ WF_bleVars(BleDisconnect /\ link.closing # "no")

BleSpec == BleInit /\ [][BleNext]_bleVars /\ BleFairness

-----------------------------------------------------------------------------
(* Properties *)

\* Every variable has its type, and no ring holds more than it has room for.
BleTypeOK ==
  /\ link \in [up : BOOLEAN, conn : 0 .. MaxConns, handle : Handles \union {NoHandle}, phone : SUBSET Phones,
               subscribed : BOOLEAN, safe : BOOLEAN, quick : BOOLEAN, age : 0 .. MaxAge, closing : {"no", "late", "refused"}]
  /\ bonds \in [code : SUBSET Phones, free : SUBSET Phones, refused : SUBSET Phones, late : SUBSET Phones]
  /\ asm.pieces \in Seq(Conn) /\ Len(asm.pieces) <= LineRoom /\ asm.over \in BOOLEAN
  /\ \A i \in DOMAIN rxq : rxq[i] \in [cmd : Commands, conn : Conn, safe : BOOLEAN, whole : BOOLEAN]
  /\ Len(rxq) <= RxRoom /\ feed \in BOOLEAN
  /\ \A q \in {ctl, live} : Range(q.ring) \subseteq Line /\ q.stalled \in BOOLEAN /\ q.replyDrops \in Nat
  /\ Len(ctl.ring) <= CtlRoom /\ Len(live.ring) <= FeedRoom
  /\ loop.at \in {"idle", "poll", "write", "wait", "pair"} /\ loop.lag \in 0 .. MaxLag
  /\ loop.left \in 0 .. PollMax /\ Range(loop.out) \subseteq What /\ (loop.at \in {"write", "wait"} <=> loop.out # <<>>)
  /\ Range(tx.line) \subseteq Line /\ tx.conn \in 0 .. MaxConns /\ tx.handle \in Handles \union {NoHandle}
  /\ air.records \in 0 .. Records /\ air.ended \in {"no", "done", "cut"} /\ air.waits \in Nat /\ air.strays \in Nat

\* Nothing flows to or from a peer before its link is encrypted and
\* authenticated (ble_link.h's "Security"): not the bytes it writes, and not
\* the lines that were in the rings when it connected. And what is of one
\* connection does not meet the next: a line written while one peer was
\* connected is not sent to another, unless that one was safe, on its bond,
\* before the notify task had flushed the rings; a command that runs is one
\* line of one peer, whole, not two halves and not the start of a line that is
\* too long. One line at most escapes this: the one the notify task was sending
\* when the link changed hands and the controller gave its handle again.
OwnLines ==
  /\ \A i \in DOMAIN rxq : rxq[i].safe /\ rxq[i].whole
  /\ air.part # <<>> => Astray \/ (link.safe /\ (air.part[1].conn = link.conn \/ link.quick))
  /\ air.strays <= 1

\* A peer that was listening since it asked, and hears log_done without an
\* error, has every record of the answer, unless the notify task gave a line
\* up on the way (emit_log's `cut`); and a host that stopped reading costs the
\* loop one wait, not one for every line of a reply (host_link.h's `stalled`).
ToldWhole ==
  /\ air.ended = "done" /\ ~air.lossy => air.records = Records
  /\ air.waits <= 1

\* A peer that paired without the passkey leaves no bond to come back on,
\* also when the stack stored its keys after the bond was deleted; and a bond
\* made with the passkey is only lost to the refusal of a later pairing of
\* the same peer, never to the cleaning up after another.
BondsMove ==
  /\ ~link'.up => bonds'.free = {}
  /\ bonds.code \subseteq bonds'.code \/ link'.closing = "refused"
BondsRight == [][BondsMove]_bleVars

\* A peer that does not pair does not keep the only connection; but it is
\* dropped for that only when it has had the time the deadline gives, however
\* old the loop's `now` is.
HasItsTime == link'.closing = "late" => link'.age > Deadline
NotDroppedEarly == [][HasItsTime]_bleVars
PairsInTime == []<>(~link.up \/ link.safe) /\ NotDroppedEarly

\* What a peer hears and what is run for it is its own, and whole or told cut.
LinesRight == OwnLines /\ ToldWhole

\* Who may come back and who must go.
PairingRight == BondsRight /\ PairsInTime
=============================================================================
