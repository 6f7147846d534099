-------------------------- MODULE BluetoothProofs --------------------------
(***************************************************************************)
(* What is proved of the board's end of the Bluetooth link (BleLink), for   *)
(* every number of peers, connections and lines, every size of the rings,   *)
(* the line buffer and an answer, and every pairing deadline; at the end of *)
(* who has the board's radios (Radio), of the phone's scan (PhoneScan) and   *)
(* of the types of both ends.                                              *)
(*                                                                         *)
(* PairingSane is why the bonds are right and nobody is dropped early: a    *)
(* bond made without the passkey, or keys that are still to be stored, are  *)
(* those of the refused peer, which is still connected; and the loop's now  *)
(* is behind the clock, never ahead of it.                                  *)
(*                                                                         *)
(* Lines are a peer's own (OwnLines): with one that was not ready before the *)
(* rings were flushed, what is in them, waits or was taken since it is      *)
(* there was written in its own connection (Theirs); what was taken before  *)
(* is one line (OneAstray); a line under assembly is of one connection      *)
(* (Assembly).                                                             *)
(*                                                                         *)
(* Answers are told whole: every end of one follows, on its whole way       *)
(* through the ring, all its records (Led, Answering): the loop writes them *)
(* in order, an answer that lost one ends in "cut" (Writing), and whoever   *)
(* was not listening when it asked is not told (Listening).                 *)
(***************************************************************************)
EXTENDS MCBluetooth, Radio, SequenceTheorems, WellFoundedInduction, TLAPS

LinkType == [up : BOOLEAN, conn : 0 .. MaxConns, handle : Handles \union {NoHandle}, phone : SUBSET Phones,
             subscribed : BOOLEAN, safe : BOOLEAN, quick : BOOLEAN, age : 0 .. MaxAge, closing : {"no", "late", "refused"}]
BondsType == [code : SUBSET Phones, free : SUBSET Phones, refused : SUBSET Phones, late : SUBSET Phones]
AsmType == [pieces : Seq(Conn), over : BOOLEAN, wrote : Nat]
CommandType == [cmd : Commands, conn : Conn, safe : BOOLEAN, whole : BOOLEAN]
QueueType == [ring : Seq(Line), stalled : BOOLEAN, replyDrops : Nat]
LoopType == [at : {"idle", "poll", "write", "wait", "pair"}, lag : 0 .. MaxLag, left : 0 .. PollMax,
             conn : 0 .. MaxConns, out : Seq(What \ {"rid"}), asker : 0 .. MaxConns, drops0 : Nat]
AtMostOne == {<<>>} \union {<<l>> : l \in Line}
TxType == [line : AtMostOne, conn : 0 .. MaxConns, handle : Handles \union {NoHandle}]
AirType == [part : AtMostOne, junk : BOOLEAN, records : 0 .. Records, ended : {"no", "done", "cut"},
            lossy : BOOLEAN, waits : Nat, strays : Nat]

LinkOK == link \in LinkType
BondsOK == bonds \in BondsType
AsmOK == asm \in AsmType /\ Len(asm.pieces) <= LineRoom
RxqOK == rxq \in Seq(CommandType) /\ Len(rxq) <= RxRoom
CtlOK == ctl \in QueueType /\ Len(ctl.ring) <= CtlRoom
LiveOK == live \in QueueType /\ Len(live.ring) <= FeedRoom
LoopOK == loop \in LoopType /\ (loop.at \in {"write", "wait"} <=> loop.out # <<>>)
TxOK == tx \in TxType
AirOK == air \in AirType

Types == LinkOK /\ BondsOK /\ AsmOK /\ RxqOK /\ feed \in BOOLEAN /\ CtlOK /\ LiveOK /\ LoopOK /\ TxOK /\ AirOK

\* A link that is not up has nothing; one that is up has a number.
LinkSane ==
  /\ link.subscribed => link.safe
  /\ link.safe => link.up
  /\ link.up => link.conn \in Conn

-----------------------------------------------------------------------------
LEMMA InitTypes == BleInit => Types /\ LinkSane
<1> SUFFICES ASSUME BleInit PROVE Types /\ LinkSane
  OBVIOUS
<1> USE RoomAssumption, TimeAssumption, BoundAssumption DEF BleInit
<1>1. link \in LinkType
  <2>1. 0 \in 0 .. MaxConns /\ 0 \in 0 .. MaxAge
    BY DEF MaxAge
  <2> QED BY <2>1 DEF NoLink, LinkType
<1>8. bonds \in BondsType /\ feed \in BOOLEAN
  BY DEF BondsType
<1>2. asm \in AsmType /\ Len(asm.pieces) <= LineRoom
  BY DEF NoAsm, AsmType
<1>3. rxq \in Seq(CommandType) /\ Len(rxq) <= RxRoom
  OBVIOUS
<1>4. /\ ctl \in QueueType /\ Len(ctl.ring) <= CtlRoom
      /\ live \in QueueType /\ Len(live.ring) <= FeedRoom
  BY DEF EmptyQ, QueueType
<1>5. loop \in LoopType /\ (loop.at \in {"write", "wait"} <=> loop.out # <<>>)
  BY DEF Idle, LoopType
<1>6. tx \in TxType /\ air \in AirType
  BY DEF Asleep, Nothing, TxType, AirType, AtMostOne
<1>7. LinkSane
  BY DEF LinkSane, NoLink
<1> QED BY <1>1, <1>2, <1>3, <1>4, <1>5, <1>6, <1>7, <1>8 DEF Types, LinkOK, BondsOK, AsmOK, RxqOK, CtlOK, LiveOK, LoopOK, TxOK, AirOK

\* What the two operations on a ring make of it.
LEMMA QueueTaken ==
  ASSUME NEW q \in QueueType, NEW l \in Line, NEW room \in Nat, HasRoom(q, room)
  PROVE  /\ Taken(q, l) \in QueueType /\ Taken(q, l).ring = Append(q.ring, l) /\ Len(Taken(q, l).ring) <= room
         /\ Taken(q, l).replyDrops = q.replyDrops
<1>1. q.ring \in Seq(Line) /\ q.stalled \in BOOLEAN /\ q.replyDrops \in Nat /\ DOMAIN q = {"ring", "stalled", "replyDrops"}
  BY DEF QueueType
<1> DEFINE ring == Append(q.ring, l)
           stalled == IF l.kind = "feed" THEN q.stalled ELSE FALSE
<1>2. ring \in Seq(Line) /\ Len(ring) <= room
  BY <1>1 DEF HasRoom
<1>5. stalled \in BOOLEAN
  BY <1>1
<1>3. Taken(q, l) = [q EXCEPT !.ring = ring, !.stalled = stalled]
  BY DEF Taken
<1> HIDE DEF ring, stalled
<1>4. Taken(q, l) \in QueueType /\ Taken(q, l).ring = ring /\ Taken(q, l).replyDrops = q.replyDrops
  BY <1>1, <1>2, <1>3, <1>5 DEF QueueType
<1> QED BY <1>2, <1>4 DEF ring

LEMMA QueueLost ==
  ASSUME NEW q \in QueueType, NEW kind \in {"reply", "final"}
  PROVE  /\ Lost(q, kind) \in QueueType /\ Lost(q, kind).ring = q.ring /\ Lost(q, kind).stalled
         /\ Lost(q, kind).replyDrops = q.replyDrops + 1
<1> DEFINE n == q.replyDrops + 1
<1>1. n \in Nat
  BY DEF QueueType
<1>2. Lost(q, kind) = [q EXCEPT !.stalled = TRUE, !.replyDrops = n]
  BY DEF Lost
<1> HIDE DEF n
<1>3. Lost(q, kind) \in QueueType /\ Lost(q, kind).ring = q.ring /\ Lost(q, kind).stalled /\ Lost(q, kind).replyDrops = n
  BY <1>1, <1>2 DEF QueueType
<1> QED BY <1>3 DEF n

LEMMA QueueTail ==
  ASSUME NEW q \in QueueType, NEW room \in Nat, q.ring # <<>>, Len(q.ring) <= room
  PROVE  [q EXCEPT !.ring = Tail(q.ring)] \in QueueType /\ Len([q EXCEPT !.ring = Tail(q.ring)].ring) <= room
<1> DEFINE rest == Tail(q.ring)
<1>1. rest \in Seq(Line) /\ Len(rest) <= room
  BY DEF QueueType
<1> HIDE DEF rest
<1>2. [q EXCEPT !.ring = rest] \in QueueType /\ [q EXCEPT !.ring = rest].ring = rest
  BY <1>1 DEF QueueType
<1> QED BY <1>1, <1>2 DEF rest

\* The lines of an answer: records come before the last one only, and an answer
\* that has any ends in "done".
Shaped(out) ==
  /\ \A i \in DOMAIN out : i < Len(out) => out[i] = "record"
  /\ Len(out) > 1 => out[Len(out)] = "done"
  /\ Len(out) <= Records + 1
  /\ out # <<>> => out[Len(out)] # "record"

LEMMA AnswerOut ==
  ASSUME NEW cmd \in AllCommands
  PROVE  /\ Answer(cmd) \in Seq(What \ {"rid"}) /\ Answer(cmd) # <<>> /\ Shaped(Answer(cmd))
         /\ Answer(cmd)[Len(Answer(cmd))] = "done" => Len(Answer(cmd)) = Records + 1
<1> USE RoomAssumption
<1>1. CASE cmd \in {"feed_on", "feed_off"}
  <2>1. Answer(cmd) = <<"status">>
    BY <1>1 DEF Answer
  <2> QED BY <2>1 DEF Shaped, What
<1>2. CASE cmd = "log_clear"
  <2>1. Answer(cmd) = <<"note">>
    BY <1>2 DEF Answer
  <2> QED BY <2>1 DEF Shaped, What
<1>3. CASE cmd = "log_get"
  <2> DEFINE records == [i \in 1 .. Records |-> "record"]
             out == records \o <<"done">>
  <2>1. Answer(cmd) = out
    BY <1>3 DEF Answer
  <2>2. records \in Seq(What \ {"rid"}) /\ Len(records) = Records /\ <<"done">> \in Seq(What \ {"rid"})
    BY DEF What
  <2>3. out \in Seq(What \ {"rid"}) /\ Len(out) = Records + 1 /\ out[Records + 1] = "done"
    BY <2>2
  <2>4. \A i \in 1 .. Records : out[i] = "record"
    BY <2>2
  <2> HIDE DEF out
  <2>5. out # <<>> /\ Shaped(out)
    BY <2>3, <2>4 DEF Shaped
  <2> QED BY <2>1, <2>3, <2>5
<1> QED BY <1>1, <1>2, <1>3 DEF AllCommands

LEMMA OutIsLine ==
  ASSUME loop \in LoopType, loop.out # <<>>, NEW c \in 0 .. MaxConns
  PROVE  /\ Out(c) \in Line /\ KindOf(Head(loop.out)) \in {"reply", "final"} /\ Out(c).kind = KindOf(Head(loop.out))
         /\ Out(c).what = Head(loop.out) /\ Out(c).asker = loop.asker /\ Out(c).conn = c
<1>1. Head(loop.out) \in What \ {"rid"}
  BY DEF LoopType
<1>2. KindOf(Head(loop.out)) \in {"reply", "final"}
  BY <1>1 DEF KindOf, What
<1>3. Head(loop.out) \in What /\ loop.asker \in 0 .. MaxConns
  BY <1>1 DEF LoopType
<1>4. Out(c) \in [what : What, kind : Kind, asker : 0 .. MaxConns, conn : 0 .. MaxConns]
  BY <1>2, <1>3 DEF Out, Kind
<1> QED BY <1>2, <1>4 DEF Out, Line

LEMMA WrittenLoop ==
  ASSUME Types, loop.out # <<>>, NEW drops, Written(drops)
  PROVE  /\ loop' \in LoopType /\ (loop'.at \in {"write", "wait"} <=> loop'.out # <<>>)
         /\ loop'.at \in {"write", "poll"} /\ loop'.lag = loop.lag
         /\ loop'.out = IF Cut(drops) THEN <<"cut">> ELSE Tail(loop.out)
         /\ loop'.out # <<>> => loop'.asker = loop.asker /\ loop'.drops0 = loop.drops0
         /\ loop'.drops0 \in {0, loop.drops0}
<1> DEFINE out == IF Cut(drops) THEN <<"cut">> ELSE Tail(loop.out)
<1>6. loop.out \in Seq(What \ {"rid"}) /\ loop.lag \in 0 .. MaxLag /\ loop.left \in 0 .. PollMax
  BY DEF Types, LoopOK, LoopType
<1>7. <<"cut">> \in Seq(What \ {"rid"}) /\ Tail(loop.out) \in Seq(What \ {"rid"})
  BY <1>6 DEF What
<1>1. out \in Seq(What \ {"rid"})
  BY <1>7
<1>2. loop' = IF out = <<>>
              THEN [Idle EXCEPT !.at = "poll", !.lag = loop.lag, !.left = loop.left]
              ELSE [loop EXCEPT !.at = "write", !.out = out, !.conn = 0]
  BY DEF Written
<1>3. loop \in LoopType
  BY DEF Types, LoopOK
<1> HIDE DEF out
<1>8. 0 \in 0 .. MaxConns
  BY BoundAssumption
<1>4. CASE out = <<>>
  <2>1. loop' = [at |-> "poll", lag |-> loop.lag, left |-> loop.left, conn |-> 0, out |-> <<>>, asker |-> 0, drops0 |-> 0]
    BY <1>2, <1>4 DEF Idle
  <2>2. loop' \in LoopType
    BY <2>1, <1>6, <1>8 DEF LoopType
  <2> QED BY <2>1, <2>2, <1>4 DEF out
<1>5. CASE out # <<>>
  <2>1. loop' = [loop EXCEPT !.at = "write", !.out = out, !.conn = 0]
    BY <1>2, <1>5
  <2>2. loop' \in LoopType
    BY <2>1, <1>1, <1>3, <1>8 DEF LoopType
  <2>3. loop'.at = "write" /\ loop'.out = out /\ loop'.lag = loop.lag /\ loop'.asker = loop.asker /\ loop'.drops0 = loop.drops0
    BY <2>1, <1>3 DEF LoopType
  <2> QED BY <2>2, <2>3, <1>5 DEF out
<1> QED BY <1>4, <1>5

LEMMA HostTypes ==
  ASSUME Types, LinkSane, HostTask
  PROVE  Types' /\ LinkSane'
<1> USE DEF Types
<1>f. link.conn \in 0 .. MaxConns /\ link.phone \in SUBSET Phones /\ link.age \in 0 .. MaxAge
  BY DEF LinkOK, LinkType
<1>z. 0 \in 0 .. MaxConns /\ 0 \in 0 .. MaxAge /\ NoAsm \in AsmType /\ Len(NoAsm.pieces) = 0 /\ 0 <= LineRoom
  BY TimeAssumption, BoundAssumption, RoomAssumption DEF MaxAge, NoAsm, AsmType
<1>1. ASSUME NEW p \in Phones, NEW h \in Handles, BleConnect(p, h) PROVE Types' /\ LinkSane'
  <2>1. link' = [up |-> TRUE, conn |-> link.conn + 1, handle |-> h, phone |-> {p}, subscribed |-> FALSE, safe |-> FALSE,
                    quick |-> FALSE, age |-> 0, closing |-> "no"]
    BY <1>1 DEF BleConnect, NoLink
  <2>2. link.conn + 1 \in 0 .. MaxConns /\ link.conn + 1 \in Conn
    BY <1>1, <1>f, BoundAssumption DEF BleConnect, Conn
  <2>3. LinkOK' /\ LinkSane'
    BY <2>1, <2>2, <1>z DEF LinkOK, LinkType, LinkSane
  <2>4. AsmOK'
    BY <1>1, <1>z DEF BleConnect, AsmReset, AsmOK
  <2> QED BY <2>3, <2>4, <1>1 DEF BleConnect, BondsOK, RxqOK, CtlOK, LiveOK, LoopOK, TxOK, AirOK
<1>2. CASE PairedWithCode
  <2> DEFINE age == IF link.closing = "no" THEN 0 ELSE link.age
  <2>1. age \in 0 .. MaxAge
    BY <1>f, <1>z
  <2> DEFINE quick == ~Flushed
  <2>2. link' = [link EXCEPT !.safe = TRUE, !.quick = quick, !.age = age] /\ quick \in BOOLEAN
    BY <1>2 DEF PairedWithCode
  <2> HIDE DEF age, quick
  <2>3. LinkOK' /\ LinkSane'
    BY <2>1, <2>2, <1>2 DEF PairedWithCode, LinkOK, LinkType, LinkSane
  <2>4. bonds' = [bonds EXCEPT !.code = bonds.code \union link.phone, !.free = bonds.free \ link.phone]
    BY <1>2 DEF PairedWithCode
  <2>5. BondsOK'
    BY <2>4, <1>f DEF BondsOK, BondsType
  <2> QED BY <2>3, <2>5, <1>2 DEF PairedWithCode, AsmOK, RxqOK, CtlOK, LiveOK, LoopOK, TxOK, AirOK
<1>3. CASE PairedOtherwise
  <2>1. link' = [link EXCEPT !.closing = "refused"]
    BY <1>3 DEF PairedOtherwise
  <2>2. LinkOK' /\ LinkSane'
    BY <2>1 DEF LinkOK, LinkType, LinkSane
  <2>3. BondsOK'
    BY <1>3, <1>f DEF PairedOtherwise, BondsOK, BondsType
  <2> QED BY <2>2, <2>3, <1>3 DEF PairedOtherwise, AsmOK, RxqOK, CtlOK, LiveOK, LoopOK, TxOK, AirOK
<1>4. CASE StoreKeys
  <2>1. bonds' = [bonds EXCEPT !.free = bonds.free \union bonds.late, !.late = {}]
    BY <1>4 DEF StoreKeys
  <2>2. BondsOK'
    BY <2>1 DEF BondsOK, BondsType
  <2> QED BY <2>2, <1>4 DEF StoreKeys, LinkOK, LinkSane, AsmOK, RxqOK, CtlOK, LiveOK, LoopOK, TxOK, AirOK
<1>5. CASE BleDisconnect
  <2>1. link' = [up |-> FALSE, conn |-> link.conn, handle |-> NoHandle, phone |-> {}, subscribed |-> FALSE, safe |-> FALSE,
                    quick |-> FALSE, age |-> 0, closing |-> "no"]
    BY <1>5 DEF BleDisconnect, NoLink
  <2>2. LinkOK' /\ LinkSane'
    BY <2>1, <1>f, <1>z DEF LinkOK, LinkType, LinkSane
  <2>3. BondsOK'
    BY <1>5 DEF BleDisconnect, BondsLeft, BondsOK, BondsType
  <2>4. AsmOK' /\ feed' \in BOOLEAN
    BY <1>5, <1>z DEF BleDisconnect, AsmReset, AsmOK
  <2>5. CtlOK'
    BY <1>5 DEF BleDisconnect, CtlOK, QueueType
  <2>6. AirOK'
    BY <1>5, RoomAssumption DEF BleDisconnect, Nothing, AirOK, AirType, AtMostOne
  <2> QED BY <2>2, <2>3, <2>4, <2>5, <2>6, <1>5 DEF BleDisconnect, RxqOK, LiveOK, LoopOK, TxOK
<1>6. ASSUME NEW on \in BOOLEAN, Subscribe(on) PROVE Types' /\ LinkSane'
  <2>1. LinkOK' /\ LinkSane'
    BY <1>6 DEF Subscribe, LinkOK, LinkType, LinkSane
  <2>2. AirOK'
    <3>1. PICK b \in BOOLEAN : air' = [air EXCEPT !.lossy = b]
      BY <1>6 DEF Subscribe, AirOK, AirType
    <3> QED BY <3>1 DEF AirOK, AirType
  <2> QED BY <2>1, <2>2, <1>6 DEF Subscribe, BondsOK, AsmOK, RxqOK, CtlOK, LiveOK, LoopOK, TxOK
<1>7. CASE WritePiece
  <2> DEFINE n == asm.wrote + 1
  <2>1. asm.pieces \in Seq(Conn) /\ n \in Nat /\ link.conn \in Conn
    BY <1>7 DEF WritePiece, AsmOK, AsmType, LinkSane
  <2>2. ASSUME Len(asm.pieces) < LineRoom PROVE AsmOK'
    <3> DEFINE pieces == Append(asm.pieces, link.conn)
    <3>1. pieces \in Seq(Conn) /\ Len(pieces) <= LineRoom
      BY <2>1, <2>2, RoomAssumption
    <3>2. asm' = [asm EXCEPT !.pieces = pieces, !.wrote = n]
      BY <1>7, <2>2 DEF WritePiece
    <3> HIDE DEF pieces, n
    <3>3. asm' \in AsmType /\ asm'.pieces = pieces
      BY <3>1, <3>2, <2>1 DEF AsmOK, AsmType
    <3> QED BY <3>1, <3>3 DEF AsmOK
  <2>3. ASSUME ~(Len(asm.pieces) < LineRoom) PROVE AsmOK'
    <3>1. asm' = [asm EXCEPT !.over = TRUE, !.wrote = n]
      BY <1>7, <2>3 DEF WritePiece
    <3> HIDE DEF n
    <3>2. asm' \in AsmType /\ asm'.pieces = asm.pieces
      BY <3>1, <2>1 DEF AsmOK, AsmType
    <3> QED BY <3>2 DEF AsmOK
  <2> QED BY <1>7, <2>2, <2>3 DEF WritePiece, LinkOK, LinkSane, BondsOK, AsmOK, RxqOK, CtlOK, LiveOK, LoopOK, TxOK, AirOK
<1>8. ASSUME NEW cmd \in Commands, WriteEnd(cmd) PROVE Types' /\ LinkSane'
  <2>1. RxqOK'
    <3> DEFINE whole == asm.pieces = [i \in 1 .. asm.wrote |-> link.conn]
               c == [cmd |-> cmd, conn |-> link.conn, safe |-> link.safe, whole |-> whole]
    <3>1. link.conn \in Conn /\ link.safe \in BOOLEAN /\ whole \in BOOLEAN
      BY <1>8 DEF WriteEnd, LinkSane, LinkOK, LinkType
    <3>2. rxq' = IF asm.over \/ Len(rxq) = RxRoom THEN rxq ELSE Append(rxq, c)
      BY <1>8 DEF WriteEnd, Delivered
    <3> HIDE DEF whole
    <3>3. c \in CommandType
      BY <3>1 DEF CommandType
    <3> HIDE DEF c
    <3> QED BY <3>2, <3>3, RoomAssumption DEF RxqOK
  <2>2. AsmOK'
    BY <1>8, <1>z DEF WriteEnd, AsmOK
  <2>3. AirOK'
    <3>1. PICK b \in BOOLEAN : air' = [air EXCEPT !.lossy = b]
      BY <1>8 DEF WriteEnd, AirOK, AirType
    <3> QED BY <3>1 DEF AirOK, AirType
  <2> QED BY <2>1, <2>2, <2>3, <1>8 DEF WriteEnd, LinkOK, LinkSane, BondsOK, CtlOK, LiveOK, LoopOK, TxOK
<1> QED BY <1>1, <1>2, <1>3, <1>4, <1>5, <1>6, <1>7, <1>8 DEF HostTask

LEMMA LoopTypes ==
  ASSUME Types, LinkSane, Rid \/ LoopSteps \/ Tick
  PROVE  Types' /\ LinkSane'
<1> USE DEF Types
<1>f. link.conn \in 0 .. MaxConns /\ link.age \in 0 .. MaxAge /\ 0 \in 0 .. MaxConns /\ 0 \in 0 .. MaxLag
  BY BoundAssumption, TimeAssumption DEF LinkOK, LinkType
<1>i. Idle \in LoopType /\ Idle.out = <<>> /\ Idle.at = "idle"
  BY <1>f, RoomAssumption DEF Idle, LoopType
<1>1. CASE Rid
  <2> DEFINE l == [what |-> "rid", kind |-> "feed", asker |-> 0, conn |-> link.conn]
  <2>1. l \in Line
    BY <1>f DEF Line, What, Kind, KindOf
  <2>2. live' = Taken(live, l) /\ HasRoom(live, FeedRoom)
    BY <1>1 DEF Rid
  <2> HIDE DEF l
  <2>3. LiveOK'
    BY <2>1, <2>2, QueueTaken, RoomAssumption DEF LiveOK
  <2> QED BY <2>3, <1>1 DEF Rid, LinkOK, LinkSane, BondsOK, AsmOK, RxqOK, CtlOK, LoopOK, TxOK, AirOK
<1>2. CASE BeginPass
  <2>1. loop' = [Idle EXCEPT !.at = "poll", !.left = PollMax] /\ PollMax \in 0 .. PollMax
    BY <1>2, RoomAssumption DEF BeginPass
  <2>2. LoopOK'
    BY <2>1, <1>i DEF LoopOK, LoopType
  <2> QED BY <2>2, <1>2 DEF BeginPass, LinkOK, LinkSane, BondsOK, AsmOK, RxqOK, CtlOK, LiveOK, TxOK, AirOK
<1>3. CASE RunCommand
  <2> DEFINE c == Head(rxq)
             out == Answer(c.cmd)
             left == loop.left - 1
             asker == IF c.cmd = "log_clear" THEN 0 ELSE c.conn
  <2>1. rxq # <<>> /\ loop.at = "poll" /\ loop.left > 0
    BY <1>3 DEF RunCommand
  <2>2. c \in CommandType /\ RxqOK'
    <3>1. rxq' = Tail(rxq) /\ rxq \in Seq(CommandType) /\ Len(rxq) <= RxRoom
      BY <1>3 DEF RunCommand, RxqOK
    <3>2. Head(rxq) \in CommandType /\ Tail(rxq) \in Seq(CommandType) /\ Len(Tail(rxq)) <= RxRoom
      BY <2>1, <3>1, RoomAssumption
    <3> QED BY <3>1, <3>2 DEF RxqOK
  <2>3. c.cmd \in AllCommands /\ c.conn \in 0 .. MaxConns
    BY <2>2, CommandsAssumption, BoundAssumption DEF CommandType, Conn
  <2>4. out \in Seq(What \ {"rid"}) /\ out # <<>>
    BY <2>3, AnswerOut
  <2>5. left \in 0 .. PollMax /\ asker \in 0 .. MaxConns /\ ctl.replyDrops \in Nat
    BY <2>1, <2>3, <1>f, RoomAssumption DEF LoopOK, LoopType, CtlOK, QueueType
  <2>6. loop' = [loop EXCEPT !.at = "write", !.left = left, !.out = out, !.asker = asker, !.drops0 = ctl.replyDrops]
    BY <1>3 DEF RunCommand
  <2>7. feed' \in BOOLEAN
    BY <1>3 DEF RunCommand
  <2> HIDE DEF c, out, left, asker
  <2>8. LoopOK'
    BY <2>4, <2>5, <2>6 DEF LoopOK, LoopType
  <2> QED BY <2>2, <2>7, <2>8, <1>3 DEF RunCommand, LinkOK, LinkSane, BondsOK, AsmOK, CtlOK, LiveOK, TxOK, AirOK
<1>4. CASE WriteLine \/ WaitEnds
  <2> USE RoomAssumption
  <2>1. PICK c \in 0 .. MaxConns :
          \/ ctl' = ctl /\ Written(ctl.replyDrops)
          \/ ctl' = ctl /\ loop' = [loop EXCEPT !.at = "wait", !.conn = link.conn] /\ loop.at = "write"
          \/ ctl' = Taken(ctl, Out(c)) /\ HasRoom(ctl, CtlRoom) /\ Written(ctl'.replyDrops)
          \/ ctl' = Lost(ctl, Out(c).kind) /\ Written(ctl'.replyDrops)
    BY <1>4, <1>f DEF WriteLine, WaitEnds, LoopOK, LoopType
  <2>2. loop.out # <<>> /\ loop \in LoopType
    BY <1>4 DEF WriteLine, WaitEnds, LoopOK
  <2>3. Out(c) \in Line /\ Out(c).kind \in {"reply", "final"}
    BY <2>2, OutIsLine
  <2>4. CtlOK'
    BY <2>1, <2>3, QueueTaken, QueueLost DEF CtlOK
  <2>5. LoopOK'
    <3>1. CASE loop' = [loop EXCEPT !.at = "wait", !.conn = link.conn]
      BY <3>1, <2>2, <1>f DEF LoopOK, LoopType
    <3>2. ASSUME NEW drops, Written(drops) PROVE LoopOK'
      BY <3>2, <2>2, WrittenLoop DEF LoopOK
    <3> QED BY <2>1, <3>1, <3>2
  <2>6. AirOK'
    <3>1. PICK w \in Nat : air' = [air EXCEPT !.waits = w] \/ air' = air
      <4>1. air.waits \in Nat /\ air.waits + 1 \in Nat /\ air = [air EXCEPT !.waits = air.waits]
        BY DEF AirOK, AirType
      <4> QED BY <1>4, <4>1 DEF WriteLine, WaitEnds
    <3> QED BY <3>1 DEF AirOK, AirType
  <2> QED BY <2>4, <2>5, <2>6, <1>4 DEF WriteLine, WaitEnds, LinkOK, LinkSane, BondsOK, AsmOK, RxqOK, LiveOK, TxOK
<1>5. CASE EndPoll
  <2>1. (loop' = [loop EXCEPT !.at = "pair", !.left = 0, !.conn = link.conn] /\ loop.out = <<>>) \/ loop' = Idle
    BY <1>5 DEF EndPoll, LoopOK
  <2>2. 0 \in 0 .. PollMax
    BY RoomAssumption
  <2>3. ASSUME loop' = [loop EXCEPT !.at = "pair", !.left = 0, !.conn = link.conn] /\ loop.out = <<>> PROVE LoopOK'
    BY <2>2, <2>3, <1>f DEF LoopOK, LoopType
  <2>4. LoopOK'
    BY <2>1, <2>3, <1>i DEF LoopOK
  <2> QED BY <2>4, <1>5 DEF EndPoll, LinkOK, LinkSane, BondsOK, AsmOK, RxqOK, CtlOK, LiveOK, TxOK, AirOK
<1>6. CASE CheckPairing
  <2>1. loop' = Idle /\ (link' = [link EXCEPT !.closing = "late"] \/ link' = link)
    BY <1>6 DEF CheckPairing
  <2>2. LoopOK' /\ LinkOK' /\ LinkSane'
    BY <2>1, <1>i DEF LoopOK, LinkOK, LinkType, LinkSane
  <2> QED BY <2>2, <1>6 DEF CheckPairing, BondsOK, AsmOK, RxqOK, CtlOK, LiveOK, TxOK, AirOK
<1>7. CASE Tick
  <2> DEFINE age == link.age + 1
             lag == loop.lag + 1
  <2>1. link' = link \/ (link' = [link EXCEPT !.age = age] /\ age \in 0 .. MaxAge)
    BY <1>7, <1>f, TimeAssumption DEF Tick, MaxAge
  <2>2. loop' = loop \/ (loop' = [loop EXCEPT !.lag = lag] /\ lag \in 0 .. MaxLag)
    BY <1>7, TimeAssumption DEF Tick, LoopOK, LoopType
  <2> HIDE DEF age, lag
  <2>3. LinkOK' /\ LinkSane'
    BY <2>1 DEF LinkOK, LinkType, LinkSane
  <2>4. LoopOK'
    BY <2>2 DEF LoopOK, LoopType
  <2> QED BY <2>3, <2>4, <1>7 DEF Tick, BondsOK, AsmOK, RxqOK, CtlOK, LiveOK, TxOK, AirOK
<1> QED BY <1>1, <1>2, <1>3, <1>4, <1>5, <1>6, <1>7 DEF LoopSteps

\* The count of lines that were taken too early is all that Reached changes.
LEMMA ReachedIs ==
  ASSUME NEW a \in AirType
  PROVE  /\ Reached(a) \in AirType
         /\ Reached(a).part = a.part /\ Reached(a).junk = a.junk /\ Reached(a).lossy = a.lossy
         /\ Reached(a).records = a.records /\ Reached(a).ended = a.ended /\ Reached(a).waits = a.waits
         /\ Reached(a).strays = IF Astray /\ air.part = <<>> THEN a.strays + 1 ELSE a.strays
<1>1. CASE Astray /\ air.part = <<>>
  BY <1>1 DEF Reached, AirType
<1>2. CASE ~(Astray /\ air.part = <<>>)
  BY <1>2 DEF Reached, AirType
<1> QED BY <1>1, <1>2

\* What the peer has heard is of its type, and no slice is left.
LEMMA HeardTypes ==
  ASSUME air \in AirType, NEW l \in Line
  PROVE  Heard(l) \in AirType /\ Heard(l).part = <<>> /\ Heard(l).lossy = air.lossy
         /\ Heard(l).waits = air.waits /\ Heard(l).strays = air.strays
<1> DEFINE a == [air EXCEPT !.part = <<>>, !.junk = FALSE]
           n == IF air.ended = "no" THEN air.records ELSE 0
           m == IF n < Records THEN n + 1 ELSE n
<1>1. n \in 0 .. Records /\ m \in 0 .. Records
  BY RoomAssumption DEF AirType
<1>2. a \in AirType /\ a.part = <<>> /\ a.lossy = air.lossy /\ a.waits = air.waits /\ a.strays = air.strays
  BY DEF AirType, AtMostOne
<1>3. l.kind = "final" => l.what \in {"done", "cut"}
  BY DEF Line, KindOf, What
<1>4. \/ Heard(l) = a \/ Heard(l) = [a EXCEPT !.records = m, !.ended = "no"]
      \/ Heard(l) = [a EXCEPT !.records = n, !.ended = l.what] /\ l.kind = "final"
  BY DEF Heard
<1> HIDE DEF n, m, a
<1> QED BY <1>1, <1>2, <1>3, <1>4 DEF AirType

\* A last slice: the line has been heard, and the count is kept.
LEMMA LastHeard ==
  ASSUME Types, SendLast
  PROVE  /\ tx.line # <<>> /\ tx.line[1] \in Line /\ tx.line = <<tx.line[1]>> /\ tx'.line = <<>> /\ UNCHANGED link
         /\ link.up /\ air' \in AirType
         /\ LET h == Heard(tx.line[1]) IN
            /\ air'.part = h.part /\ air'.junk = h.junk /\ air'.lossy = h.lossy
            /\ air'.records = h.records /\ air'.ended = h.ended /\ air'.waits = h.waits
            /\ air'.strays = IF Astray /\ air.part = <<>> THEN h.strays + 1 ELSE h.strays
<1>1. tx.line # <<>> /\ tx.line[1] \in Line /\ tx.line = <<tx.line[1]>> /\ tx'.line = <<>> /\ UNCHANGED link /\ link.up
  BY DEF SendLast, Reaches, Asleep, Types, TxOK, TxType, AtMostOne
<1> DEFINE h == Heard(tx.line[1])
<1>2. h \in AirType
  BY <1>1, HeardTypes DEF Types, AirOK
<1>3. air' = Reached(h)
  BY DEF SendLast
<1> HIDE DEF h
<1>4. /\ air' \in AirType
      /\ air'.part = h.part /\ air'.junk = h.junk /\ air'.lossy = h.lossy
      /\ air'.records = h.records /\ air'.ended = h.ended /\ air'.waits = h.waits
      /\ air'.strays = IF Astray /\ air.part = <<>> THEN h.strays + 1 ELSE h.strays
  BY <1>2, <1>3, ReachedIs
<1> QED BY <1>1, <1>4 DEF h

\* A slice: nothing changes for the peer but what it has of the line.
LEMMA SliceHeard ==
  ASSUME Types, SendSlice
  PROVE  /\ UNCHANGED <<link, tx>> /\ link.up /\ tx.line # <<>> /\ air.part = <<>> /\ air' \in AirType
         /\ air'.part = tx.line /\ air'.junk = air.junk /\ air'.lossy = air.lossy
         /\ air'.records = air.records /\ air'.ended = air.ended /\ air'.waits = air.waits
         /\ air'.strays = IF Astray THEN air.strays + 1 ELSE air.strays
<1> DEFINE a == [air EXCEPT !.part = tx.line]
<1>1. a \in AirType /\ a.part = tx.line /\ a.junk = air.junk /\ a.lossy = air.lossy
      /\ a.records = air.records /\ a.ended = air.ended /\ a.waits = air.waits /\ a.strays = air.strays
  BY DEF Types, AirOK, AirType, TxOK, TxType
<1>2. air' = Reached(a) /\ UNCHANGED <<link, tx>> /\ link.up /\ tx.line # <<>> /\ air.part = <<>>
  BY DEF SendSlice, Reaches
<1> HIDE DEF a
<1> QED BY <1>1, <1>2, ReachedIs

LEMMA NotifyTypes ==
  ASSUME Types, LinkSane, NotifyTask
  PROVE  Types' /\ LinkSane'
<1> USE DEF Types
<1>f. /\ link.conn \in 0 .. MaxConns /\ link.handle \in Handles \union {NoHandle}
      /\ Asleep \in TxType /\ <<>> \in AtMostOne
  BY BoundAssumption DEF LinkOK, LinkType, Asleep, TxType, AtMostOne
<1>1. CASE TakeLine
  <2>1. CtlOK' /\ LiveOK'
    <3>1. \/ ctl' = [ctl EXCEPT !.ring = Tail(ctl.ring)] /\ ctl.ring # <<>> /\ live' = live
          \/ live' = [live EXCEPT !.ring = Tail(live.ring)] /\ live.ring # <<>> /\ ctl' = ctl
      BY <1>1 DEF TakeLine
    <3> QED BY <3>1, QueueTail, RoomAssumption DEF CtlOK, LiveOK
  <2>2. TxOK'
    <3>1. PICK l \in Line : tx' = [line |-> <<l>>, conn |-> link.conn, handle |-> link.handle] \/ tx' = Asleep
      <4>1. ctl.ring # <<>> => Head(ctl.ring) \in Line
        BY DEF CtlOK, QueueType
      <4>2. live.ring # <<>> => Head(live.ring) \in Line
        BY DEF LiveOK, QueueType
      <4> QED BY <1>1, <4>1, <4>2 DEF TakeLine, Bound
    <3>2. <<l>> \in AtMostOne
      BY DEF AtMostOne
    <3> DEFINE s == <<l>>
    <3>3. s \in AtMostOne /\ (tx' = [line |-> s, conn |-> link.conn, handle |-> link.handle] \/ tx' = Asleep)
      BY <3>1, <3>2
    <3> HIDE DEF s
    <3>4. [line |-> s, conn |-> link.conn, handle |-> link.handle] \in TxType
      BY <3>3, <1>f DEF TxType
    <3> QED BY <3>3, <3>4, <1>f DEF TxOK
  <2> QED BY <2>1, <2>2, <1>1 DEF TakeLine, LinkOK, LinkSane, BondsOK, AsmOK, RxqOK, LoopOK, AirOK
<1>2. CASE SendSlice
  <2>1. TxOK' /\ AirOK'
    BY <1>2, SliceHeard DEF SendSlice, TxOK, AirOK
  <2> QED BY <2>1, <1>2 DEF SendSlice, LinkOK, LinkSane, BondsOK, AsmOK, RxqOK, CtlOK, LiveOK, LoopOK
<1>3. CASE SendLast
  <2>1. TxOK' /\ AirOK'
    BY <1>3, <1>f, LastHeard DEF SendLast, TxOK, AirOK
  <2> QED BY <2>1, <1>3 DEF SendLast, LinkOK, LinkSane, BondsOK, AsmOK, RxqOK, CtlOK, LiveOK, LoopOK
<1>4. CASE BleGiveUp
  <2> DEFINE b == air.junk \/ air.part # <<>>
  <2>1. b \in BOOLEAN /\ (air' = [air EXCEPT !.part = <<>>, !.junk = b, !.lossy = TRUE] \/ air' = air) /\ tx' = Asleep
    BY <1>4 DEF BleGiveUp
  <2>2. AirOK' /\ TxOK'
    <3> HIDE DEF b
    <3> QED BY <2>1, <1>f DEF AirOK, AirType, TxOK
  <2> QED BY <2>2, <1>4 DEF BleGiveUp, LinkOK, LinkSane, BondsOK, AsmOK, RxqOK, CtlOK, LiveOK, LoopOK
<1> QED BY <1>1, <1>2, <1>3, <1>4 DEF NotifyTask

LEMMA TypesStep == Types /\ LinkSane /\ [BleNext]_bleVars => Types' /\ LinkSane'
<1>1. UNCHANGED bleVars /\ Types /\ LinkSane => Types' /\ LinkSane'
  BY DEF bleVars, Types, LinkOK, LinkSane, BondsOK, AsmOK, RxqOK, CtlOK, LiveOK, LoopOK, TxOK, AirOK
<1> QED BY <1>1, HostTypes, LoopTypes, NotifyTypes DEF BleNext

-----------------------------------------------------------------------------
(* Who may come back and who must go. *)

\* Only while a refused peer is still connected is there a bond to delete; and
\* whoever is dropped as late was late.
PairingSane ==
  /\ ~(link.up /\ link.closing = "refused") => bonds.free = {} /\ bonds.refused = {} /\ bonds.late = {}
  /\ bonds.free \subseteq bonds.refused /\ bonds.late \subseteq bonds.refused
  /\ bonds.code \cap bonds.refused = {}
  /\ link.closing = "late" => link.age > Deadline

LEMMA PairingStep ==
  ASSUME Types, LinkSane, PairingSane, [BleNext]_bleVars
  PROVE  PairingSane' /\ BondsMove /\ HasItsTime
<1> SUFFICES PairingSane' /\ (bonds.code \subseteq bonds'.code \/ link'.closing = "refused")
  BY DEF PairingSane, BondsMove, HasItsTime
<1> USE DEF PairingSane
<1>t. link \in LinkType /\ bonds \in BondsType /\ link.age \in Nat /\ Deadline \in Nat /\ loop.lag \in Nat
  BY TimeAssumption DEF Types, LinkOK, BondsOK, LoopOK, LinkType, LoopType, MaxAge
<1>1. ASSUME NEW p \in Phones, NEW h \in Handles, BleConnect(p, h) PROVE PairingSane' /\ bonds' = bonds
  BY <1>1 DEF BleConnect, NoLink
<1>2. CASE PairedWithCode
  <2>1. bonds' = [bonds EXCEPT !.code = bonds.code \union link.phone, !.free = bonds.free \ link.phone]
    BY <1>2 DEF PairedWithCode
  <2>2. /\ bonds'.code = bonds.code \union link.phone /\ bonds'.free = bonds.free \ link.phone
        /\ bonds'.refused = bonds.refused /\ bonds'.late = bonds.late
    BY <2>1, <1>t DEF BondsType
  <2>3. /\ link'.closing = link.closing /\ link.closing # "refused"
        /\ link.closing = "late" => link'.age = link.age
    BY <1>2, <1>t DEF PairedWithCode, LinkType
  <2> QED BY <2>2, <2>3
<1>3. CASE PairedOtherwise
  <2>1. link'.closing = "refused" /\ link'.up /\ bonds.free = {}
    BY <1>3, <1>t DEF PairedOtherwise, LinkType
  <2>2. bonds'.refused = link.phone /\ bonds'.free = {} /\ bonds'.late \subseteq link.phone /\ bonds'.code = bonds.code \ link.phone
    BY <1>3, <2>1 DEF PairedOtherwise
  <2> QED BY <2>1, <2>2
<1>4. CASE StoreKeys
  <2>1. bonds' = [bonds EXCEPT !.free = bonds.free \union bonds.late, !.late = {}] /\ link' = link /\ bonds.late # {}
    BY <1>4 DEF StoreKeys
  <2>2. /\ bonds'.code = bonds.code /\ bonds'.free = bonds.free \union bonds.late
        /\ bonds'.refused = bonds.refused /\ bonds'.late = {}
    BY <2>1, <1>t DEF BondsType
  <2> QED BY <2>1, <2>2
<1>5. CASE BleDisconnect
  <2>1. link'.closing = "no" /\ ~link'.up
    BY <1>5 DEF BleDisconnect, NoLink
  <2>2. bonds'.code = bonds.code /\ bonds'.free = {} /\ bonds'.refused = {} /\ bonds'.late = {}
    BY <1>5 DEF BleDisconnect, BondsLeft
  <2> QED BY <2>1, <2>2
<1>6. CASE CheckPairing
  <2>1. /\ bonds' = bonds
        /\ link' = link \/ (link' = [link EXCEPT !.closing = "late"] /\ link.age - loop.lag > Deadline /\ link.closing = "no")
    BY <1>6 DEF CheckPairing, Overdue
  <2>2. link'.closing = "late" => link'.age > Deadline
    BY <2>1, <1>t DEF LinkType
  <2>3. link'.up = link.up /\ (link'.closing = "refused" <=> link.closing = "refused")
    BY <2>1, <1>t DEF LinkType
  <2> QED BY <2>1, <2>2, <2>3
<1>7. CASE Tick
  <2>1. bonds' = bonds /\ link'.closing = link.closing /\ link'.up = link.up /\ link'.age >= link.age
    BY <1>7, <1>t DEF Tick, LinkType
  <2>2. link'.age \in Nat
    BY TypesStep, TimeAssumption DEF Types, LinkOK, LinkType, MaxAge
  <2> QED BY <2>1, <2>2, <1>t
<1>8. CASE UNCHANGED <<link, bonds>>
  BY <1>8
<1>9. ASSUME NEW on \in BOOLEAN, Subscribe(on)
      PROVE  bonds' = bonds /\ link'.up = link.up /\ link'.closing = link.closing /\ link'.age = link.age
  BY <1>9, <1>t DEF Subscribe, LinkType
<1>10. /\ \A cmd \in Commands : WriteEnd(cmd) => UNCHANGED <<link, bonds>>
       /\ WritePiece \/ Rid \/ BeginPass \/ RunCommand \/ WriteLine \/ WaitEnds \/ EndPoll \/ NotifyTask \/ UNCHANGED bleVars
             => UNCHANGED <<link, bonds>>
  BY DEF WriteEnd, WritePiece, Rid, BeginPass, RunCommand, WriteLine, WaitEnds, EndPoll, NotifyTask,
         TakeLine, SendSlice, SendLast, BleGiveUp, bleVars
<1> QED BY <1>1, <1>2, <1>3, <1>4, <1>5, <1>6, <1>7, <1>8, <1>9, <1>10 DEF BleNext, HostTask, LoopSteps

\* A peer that was let in without the passkey has no bond once it is gone, and
\* one that has the passkey keeps its bond whatever another does.
THEOREM BondsAreRight == BleSpec => BondsRight
<1>1. BleInit => PairingSane
  BY DEF BleInit, NoLink, PairingSane
<1>2. Types /\ LinkSane /\ PairingSane /\ [BleNext]_bleVars => (Types /\ LinkSane /\ PairingSane)' /\ BondsMove
  BY TypesStep, PairingStep
<1> QED BY <1>1, <1>2, InitTypes, PTL DEF BleSpec, BondsRight

\* Nobody is dropped for being late before the deadline, however old the loop's
\* clock is.
THEOREM DroppedInTime == BleSpec => NotDroppedEarly
<1>1. BleInit => PairingSane
  BY DEF BleInit, NoLink, PairingSane
<1>2. Types /\ LinkSane /\ PairingSane /\ [BleNext]_bleVars => (Types /\ LinkSane /\ PairingSane)' /\ HasItsTime
  BY TypesStep, PairingStep
<1> QED BY <1>1, <1>2, InitTypes, PTL DEF BleSpec, NotDroppedEarly

-----------------------------------------------------------------------------
(* What is of one connection does not meet the next. *)

\* A line that is being assembled is of the peer that is connected.
Assembly ==
  /\ ~asm.over => asm.pieces = [i \in 1 .. asm.wrote |-> link.conn]
  /\ \A i \in DOMAIN rxq : rxq[i].safe /\ rxq[i].whole

LEMMA AssemblyStep ==
  ASSUME Types, LinkSane, Assembly, [BleNext]_bleVars
  PROVE  Assembly'
<1> USE DEF Assembly
<1>t. asm \in AsmType /\ rxq \in Seq(CommandType) /\ link \in LinkType
  BY DEF Types, AsmOK, RxqOK, LinkOK
<1>n. NoAsm.pieces = [i \in 1 .. NoAsm.wrote |-> link'.conn]
  BY DEF NoAsm
<1>1. ASSUME NEW p \in Phones, NEW h \in Handles, BleConnect(p, h) PROVE Assembly'
  BY <1>1, <1>n DEF BleConnect, AsmReset
<1>2. CASE BleDisconnect
  BY <1>2, <1>n DEF BleDisconnect, AsmReset
<1>3. CASE WritePiece
  <2>1. link' = link /\ rxq' = rxq
    BY <1>3 DEF WritePiece
  <2>2. ASSUME ~asm'.over PROVE asm'.pieces = [i \in 1 .. asm'.wrote |-> link'.conn]
    <3>1. Len(asm.pieces) < LineRoom /\ asm' = [asm EXCEPT !.pieces = Append(asm.pieces, link.conn), !.wrote = asm.wrote + 1]
      BY <1>3, <2>2, <1>t DEF WritePiece, AsmType
    <3>2. ~asm.over /\ asm'.pieces = Append(asm.pieces, link.conn) /\ asm'.wrote = asm.wrote + 1
      BY <3>1, <2>2, <1>t DEF AsmType
    <3>3. PICK n \in Nat : n = asm.wrote
      BY <1>t DEF AsmType
    <3>4. Append([i \in 1 .. n |-> link.conn], link.conn) = [i \in 1 .. n + 1 |-> link.conn]
      <4> DEFINE s == [i \in 1 .. n |-> link.conn]
                 r == [i \in 1 .. n + 1 |-> link.conn]
      <4>1. s \in Seq({link.conn}) /\ r \in Seq({link.conn}) /\ Len(s) = n /\ Len(r) = n + 1
        OBVIOUS
      <4>2. Append(s, link.conn) \in Seq({link.conn}) /\ Len(Append(s, link.conn)) = n + 1
        BY <4>1
      <4>3. \A i \in 1 .. n + 1 : Append(s, link.conn)[i] = r[i]
        BY <4>1
      <4> HIDE DEF s, r
      <4> QED BY <4>1, <4>2, <4>3
    <3> QED BY <2>1, <3>2, <3>3, <3>4
  <2> QED BY <2>1, <2>2
<1>4. ASSUME NEW cmd \in Commands, WriteEnd(cmd) PROVE Assembly'
  <2> DEFINE whole == asm.pieces = [i \in 1 .. asm.wrote |-> link.conn]
             c == [cmd |-> cmd, conn |-> link.conn, safe |-> link.safe, whole |-> whole]
  <2>1. rxq' = (IF asm.over \/ Len(rxq) = RxRoom THEN rxq ELSE Append(rxq, c)) /\ asm' = NoAsm /\ link.safe
    BY <1>4 DEF WriteEnd, Delivered, Heeded
  <2>2. ~asm.over => c.safe /\ c.whole
    BY <2>1
  <2> HIDE DEF c
  <2>3. \A i \in DOMAIN rxq' : rxq'[i].safe /\ rxq'[i].whole
    BY <2>1, <2>2, <1>t
  <2> QED BY <2>1, <2>3, <1>n
<1>5. CASE RunCommand
  <2>1. rxq' = Tail(rxq) /\ rxq # <<>> /\ link' = link /\ asm' = asm
    BY <1>5 DEF RunCommand
  <2>2. \A i \in DOMAIN rxq' : rxq'[i].safe /\ rxq'[i].whole
    BY <2>1, <1>t
  <2> QED BY <2>1, <2>2
<1>6. CASE UNCHANGED <<asm, rxq>> /\ link'.conn = link.conn
  BY <1>6
<1>7. /\ PairedWithCode \/ PairedOtherwise \/ (\E on \in BOOLEAN : Subscribe(on)) \/ CheckPairing \/ Tick
           => UNCHANGED <<asm, rxq>> /\ link'.conn = link.conn
  BY <1>t DEF PairedWithCode, PairedOtherwise, Subscribe, CheckPairing, Tick, LinkType
<1>8. StoreKeys \/ Rid \/ BeginPass \/ WriteLine \/ WaitEnds \/ EndPoll \/ NotifyTask \/ UNCHANGED bleVars
           => UNCHANGED <<asm, rxq>> /\ link'.conn = link.conn
  BY DEF StoreKeys, Rid, BeginPass, WriteLine, WaitEnds, EndPoll, NotifyTask, TakeLine, SendSlice, SendLast, BleGiveUp, bleVars
<1> QED BY <1>1, <1>2, <1>3, <1>4, <1>5, <1>6, <1>7, <1>8 DEF BleNext, HostTask, LoopSteps

\* With a peer that was not quick nothing waits that was written while another
\* was connected; and nothing is taken for a peer that is not safe.
Theirs ==
  /\ link.safe /\ ~link.quick =>
       /\ \A i \in DOMAIN ctl.ring : ctl.ring[i].conn = link.conn
       /\ \A i \in DOMAIN live.ring : live.ring[i].conn = link.conn
       /\ loop.at = "wait" => loop.conn = link.conn
  /\ tx.line # <<>> => tx.conn <= link.conn
  /\ tx.line # <<>> /\ link.up /\ tx.conn = link.conn =>
       link.safe /\ (~link.quick => tx.line[1].conn = link.conn)

\* Of a line that was taken before the peer connected it has heard the first
\* slice, or nothing of any such line.
OneAstray ==
  /\ air.part # <<>> => air.part = tx.line
  /\ ~link.up => air.part = <<>> /\ air.strays = 0
  /\ air.strays <= 1
  /\ tx.line # <<>> /\ Astray /\ air.part = <<>> => air.strays = 0

LEMMA TheirsHost ==
  ASSUME Types, LinkSane, Theirs, HostTask
  PROVE  Theirs'
<1> USE DEF Theirs
<1>t. link \in LinkType /\ link.conn \in Nat /\ tx.conn \in Nat
  BY BoundAssumption DEF Types, LinkOK, LinkType, TxOK, TxType
<1>1. ASSUME NEW p \in Phones, NEW h \in Handles, BleConnect(p, h) PROVE Theirs'
  <2>1. ~link'.safe /\ link'.conn = link.conn + 1 /\ tx' = tx /\ air' = air /\ ~link.up
    BY <1>1 DEF BleConnect, NoLink
  <2> QED BY <2>1, <1>t DEF LinkSane
<1>2. CASE PairedWithCode
  <2>1. /\ link'.conn = link.conn /\ link'.safe /\ link'.up = link.up /\ UNCHANGED <<ctl, live, loop, tx>>
        /\ ~link'.quick => Flushed
        /\ ~link.safe /\ link.up
    BY <1>2, <1>t DEF PairedWithCode, LinkType, Flushed
  <2>2. ~link'.quick => DOMAIN ctl.ring = {} /\ DOMAIN live.ring = {} /\ loop.at # "wait"
    BY <2>1 DEF Flushed
  <2> QED BY <2>1, <2>2
<1>3. CASE BleDisconnect
  <2>1. ~link'.safe /\ ~link'.up /\ link'.conn = link.conn /\ tx' = tx
    BY <1>3 DEF BleDisconnect, NoLink
  <2> QED BY <2>1
<1>4. PairedOtherwise \/ (\E on \in BOOLEAN : Subscribe(on))
        => /\ link'.conn = link.conn /\ link'.safe = link.safe /\ link'.up = link.up /\ link'.quick = link.quick
           /\ UNCHANGED <<ctl, live, loop, tx>>
  BY <1>t DEF PairedOtherwise, Subscribe, LinkType
<1>5. StoreKeys \/ WritePiece \/ (\E cmd \in Commands : WriteEnd(cmd))
        => link' = link /\ UNCHANGED <<ctl, live, loop, tx>>
  BY DEF StoreKeys, WritePiece, WriteEnd
<1>6. CASE /\ link'.conn = link.conn /\ link'.safe = link.safe /\ link'.up = link.up /\ link'.quick = link.quick
           /\ UNCHANGED <<ctl, live, loop, tx>>
  BY <1>6
<1> QED BY <1>1, <1>2, <1>3, <1>4, <1>5, <1>6 DEF HostTask

\* The line the loop takes to the ring is of the peer it writes to, if that one
\* is safe and was not quick.
LEMMA TheirLine ==
  ASSUME Types, Theirs, WriteLine \/ WaitEnds
  PROVE  /\ \/ ctl'.ring = ctl.ring
            \/ \E l \in Line : ctl'.ring = Append(ctl.ring, l) /\ (link.safe /\ ~link.quick => l.conn = link.conn)
         /\ loop'.at = "wait" => loop'.conn = link.conn
<1>t. /\ ctl \in QueueType /\ loop \in LoopType /\ link.conn \in 0 .. MaxConns
      /\ Len(ctl.ring) <= CtlRoom /\ CtlRoom \in Nat
  BY RoomAssumption DEF Types, CtlOK, LoopOK, LinkOK, LinkType
<1>o. loop.out # <<>> /\ loop.conn \in 0 .. MaxConns
  BY <1>t DEF Types, LoopOK, LoopType, WriteLine, WaitEnds
<1>w. ASSUME NEW drops, Written(drops) PROVE loop'.at # "wait"
  BY <1>w, <1>o, WrittenLoop
<1>1. CASE WriteLine
  <2>1. Out(link.conn) \in Line /\ Out(link.conn).conn = link.conn /\ Out(link.conn).kind \in {"reply", "final"}
    BY <1>t, <1>o, OutIsLine
  <2>2. \/ ctl' = ctl /\ (loop'.at # "wait" \/ loop' = [loop EXCEPT !.at = "wait", !.conn = link.conn])
        \/ ctl' = Taken(ctl, Out(link.conn)) /\ HasRoom(ctl, CtlRoom) /\ loop'.at # "wait"
        \/ ctl' = Lost(ctl, Out(link.conn).kind) /\ loop'.at # "wait"
    BY <1>1, <1>w DEF WriteLine
  <2>3. loop'.at = "wait" => loop'.conn = link.conn
    BY <2>2, <1>t DEF LoopType
  <2> QED BY <2>1, <2>2, <2>3, <1>t, QueueTaken, QueueLost
<1>2. CASE WaitEnds
  <2>1. Out(loop.conn) \in Line /\ Out(loop.conn).conn = loop.conn /\ Out(loop.conn).kind \in {"reply", "final"}
    BY <1>t, <1>o, OutIsLine
  <2>2. \/ ctl' = Taken(ctl, Out(loop.conn)) /\ HasRoom(ctl, CtlRoom) /\ loop'.at # "wait"
        \/ ctl' = Lost(ctl, Out(loop.conn).kind) /\ loop'.at # "wait"
    BY <1>2, <1>w DEF WaitEnds
  <2>3. link.safe /\ ~link.quick => loop.conn = link.conn
    BY <1>2 DEF WaitEnds, Theirs
  <2> QED BY <2>1, <2>2, <2>3, <1>t, QueueTaken, QueueLost
<1> QED BY <1>1, <1>2

LEMMA TheirsOnRing ==
  ASSUME NEW s \in Seq(Line), NEW c, \A i \in DOMAIN s : s[i].conn = c
  PROVE  /\ \A l \in Line : l.conn = c => \A i \in DOMAIN Append(s, l) : Append(s, l)[i].conn = c
         /\ s # <<>> => (\A i \in DOMAIN Tail(s) : Tail(s)[i].conn = c) /\ Head(s).conn = c
<1>1. ASSUME NEW l \in Line, l.conn = c, NEW i \in DOMAIN Append(s, l) PROVE Append(s, l)[i].conn = c
  <2>1. i = Len(s) + 1 \/ i \in DOMAIN s
    OBVIOUS
  <2> QED BY <2>1, <1>1
<1>2. ASSUME s # <<>> PROVE (\A i \in DOMAIN Tail(s) : Tail(s)[i].conn = c) /\ Head(s).conn = c
  <2>1. ASSUME NEW i \in DOMAIN Tail(s) PROVE i + 1 \in DOMAIN s /\ Tail(s)[i] = s[i + 1]
    BY <1>2
  <2>2. Head(s) = s[1] /\ 1 \in DOMAIN s
    BY <1>2
  <2> QED BY <2>1, <2>2
<1> QED BY <1>1, <1>2

LEMMA TheirsStep ==
  ASSUME Types, LinkSane, Theirs, [BleNext]_bleVars
  PROVE  Theirs'
<1> USE DEF Theirs
<1>t. /\ link \in LinkType /\ link.conn \in Nat /\ tx \in TxType /\ air \in AirType /\ loop \in LoopType
      /\ ctl \in QueueType /\ live \in QueueType
  BY BoundAssumption DEF Types, LinkOK, LinkType, TxOK, AirOK, LoopOK, CtlOK, LiveOK
<1>1. CASE Rid
  <2> DEFINE l == [what |-> "rid", kind |-> "feed", asker |-> 0, conn |-> link.conn]
  <2>1. l \in Line /\ l.conn = link.conn
    BY BoundAssumption DEF Types, LinkOK, LinkType, Line, What, Kind, KindOf
  <2>2. live' = Taken(live, l) /\ HasRoom(live, FeedRoom) /\ UNCHANGED <<link, ctl, loop, tx, air>>
    BY <1>1 DEF Rid
  <2> HIDE DEF l
  <2>3. live'.ring = Append(live.ring, l)
    BY <2>1, <2>2, <1>t, QueueTaken, RoomAssumption
  <2>4. link.safe /\ ~link.quick => \A i \in DOMAIN live'.ring : live'.ring[i].conn = link.conn
    BY <2>1, <2>3, <1>t DEF QueueType
  <2> QED BY <2>2, <2>4
<1>2. CASE WriteLine \/ WaitEnds
  <2>1. UNCHANGED <<link, live, tx>>
    BY <1>2 DEF WriteLine, WaitEnds
  <2>2. link.safe /\ ~link.quick => \A i \in DOMAIN ctl'.ring : ctl'.ring[i].conn = link.conn
    <3>1. ctl.ring \in Seq(Line)
      BY <1>t DEF QueueType
    <3>2. CASE ctl'.ring = ctl.ring
      BY <3>2
    <3>3. ASSUME NEW l \in Line, ctl'.ring = Append(ctl.ring, l), link.safe, ~link.quick, l.conn = link.conn
          PROVE  \A i \in DOMAIN ctl'.ring : ctl'.ring[i].conn = link.conn
      BY <3>1, <3>3, TheirsOnRing
    <3> QED BY <1>2, <3>2, <3>3, TheirLine
  <2>3. loop'.at = "wait" => loop'.conn = link.conn
    BY <1>2, TheirLine
  <2> QED BY <2>1, <2>2, <2>3
<1>3. CASE BeginPass \/ RunCommand \/ EndPoll \/ CheckPairing \/ Tick
  <2>1. loop'.at = "wait" => loop.at = "wait" /\ loop'.conn = loop.conn
    <3>1. CASE BeginPass
      <4>1. loop'.at = "poll"
        BY <3>1 DEF BeginPass, Idle
      <4> QED BY <4>1
    <3>4. CASE EndPoll \/ CheckPairing
      <4>1. loop' = [loop EXCEPT !.at = "pair", !.left = 0, !.conn = link.conn] \/ loop' = Idle
        BY <3>4 DEF EndPoll, CheckPairing
      <4>2. loop'.at = "pair" \/ loop'.at = "idle"
        <5>1. loop' = [loop EXCEPT !.at = "pair", !.left = 0, !.conn = link.conn] => loop'.at = "pair"
          BY <1>t DEF LoopType
        <5> QED BY <4>1, <5>1 DEF Idle
      <4> QED BY <4>2
    <3>2. CASE RunCommand
      BY <3>2, <1>t DEF RunCommand, LoopType
    <3>3. CASE Tick
      BY <3>3, <1>t DEF Tick, LoopType
    <3> QED BY <1>3, <3>1, <3>2, <3>3, <3>4
  <2>2. /\ UNCHANGED <<ctl, live, tx>> /\ link'.conn = link.conn
        /\ link'.safe = link.safe /\ link'.up = link.up /\ link'.quick = link.quick
    BY <1>3, <1>t DEF BeginPass, RunCommand, EndPoll, CheckPairing, Tick, LinkType
  <2> QED BY <2>1, <2>2
<1>4. CASE TakeLine
  <2>1. UNCHANGED <<link, loop>>
    BY <1>4 DEF TakeLine
  <2>2. /\ ctl'.ring = ctl.ring \/ (ctl.ring # <<>> /\ ctl'.ring = Tail(ctl.ring))
        /\ live'.ring = live.ring \/ (live.ring # <<>> /\ live'.ring = Tail(live.ring))
    BY <1>4, <1>t DEF TakeLine, QueueType
  <2>3. /\ link.safe /\ ~link.quick => \A i \in DOMAIN ctl'.ring : ctl'.ring[i].conn = link.conn
        /\ link.safe /\ ~link.quick => \A i \in DOMAIN live'.ring : live'.ring[i].conn = link.conn
    <3>1. ctl.ring \in Seq(Line) /\ live.ring \in Seq(Line)
      BY <1>t DEF QueueType
    <3>2. link.safe /\ ~link.quick =>
            /\ ctl.ring # <<>> => \A i \in DOMAIN Tail(ctl.ring) : Tail(ctl.ring)[i].conn = link.conn
            /\ live.ring # <<>> => \A i \in DOMAIN Tail(live.ring) : Tail(live.ring)[i].conn = link.conn
      BY <3>1, TheirsOnRing
    <3> QED BY <2>2, <3>2
  <2>4. tx'.line # <<>> => (~link.quick => tx'.line[1].conn = link.conn) /\ tx'.conn = link.conn /\ link.safe
    <3>1. ctl.ring # <<>> => (link.safe /\ ~link.quick => Head(ctl.ring).conn = link.conn)
      BY <1>t DEF QueueType
    <3>2. live.ring # <<>> => (link.safe /\ ~link.quick => Head(live.ring).conn = link.conn)
      BY <1>t DEF QueueType
    <3>3. \/ tx' = Asleep
          \/ Ready /\ ctl.ring # <<>> /\ tx' = [line |-> <<Head(ctl.ring)>>, conn |-> link.conn, handle |-> link.handle]
          \/ Ready /\ live.ring # <<>> /\ tx' = [line |-> <<Head(live.ring)>>, conn |-> link.conn, handle |-> link.handle]
      BY <1>4 DEF TakeLine, Bound
    <3> QED BY <3>1, <3>2, <3>3 DEF Asleep, Ready
  <2> QED BY <2>1, <2>3, <2>4, <1>t
<1>5. CASE SendSlice
  BY <1>5 DEF SendSlice
<1>6. CASE SendLast \/ BleGiveUp
  BY <1>6 DEF SendLast, BleGiveUp, Asleep
<1>7. CASE UNCHANGED bleVars
  BY <1>7 DEF bleVars
<1> QED BY <1>1, <1>2, <1>3, <1>4, <1>5, <1>6, <1>7, TheirsHost DEF BleNext, LoopSteps, NotifyTask

LEMMA OneAstrayStep ==
  ASSUME Types, LinkSane, Theirs, OneAstray, [BleNext]_bleVars
  PROVE  OneAstray'
<1> USE DEF OneAstray
<1>t. /\ link \in LinkType /\ link.conn \in Nat /\ tx \in TxType /\ air \in AirType /\ tx.conn \in Nat
      /\ air.strays \in Nat
  BY BoundAssumption DEF Types, LinkOK, LinkType, TxOK, TxType, AirOK, AirType
<1>1. ASSUME NEW p \in Phones, NEW h \in Handles, BleConnect(p, h) PROVE OneAstray'
  BY <1>1 DEF BleConnect
<1>2. CASE BleDisconnect
  BY <1>2 DEF BleDisconnect, Nothing
<1>3. CASE TakeLine
  <2>1. UNCHANGED <<link, air>> /\ tx.line = <<>> /\ air.part = <<>>
    BY <1>3 DEF TakeLine
  <2>2. tx'.line # <<>> => tx'.conn = link.conn
    BY <1>3 DEF TakeLine, Bound, Asleep
  <2> QED BY <2>1, <2>2 DEF Astray
<1>4. CASE SendSlice
  BY <1>4, <1>t, SliceHeard
<1>5. CASE SendLast
  <2>1. Heard(tx.line[1]).part = <<>> /\ Heard(tx.line[1]).strays = air.strays
    BY <1>5, <1>t, LastHeard, HeardTypes
  <2> QED BY <1>5, <1>t, <2>1, LastHeard
<1>6. CASE BleGiveUp
  <2>1. UNCHANGED link /\ tx'.line = <<>>
    BY <1>6 DEF BleGiveUp, Asleep
  <2>2. air'.part = <<>> /\ air'.strays = air.strays
    <3>1. CASE link.up /\ (~Astray \/ air.part # <<>>)
      BY <1>6, <3>1, <1>t DEF BleGiveUp, AirType
    <3>2. CASE ~(link.up /\ (~Astray \/ air.part # <<>>))
      BY <1>6, <3>2 DEF BleGiveUp
    <3> QED BY <3>1, <3>2
  <2> QED BY <2>1, <2>2
<1>7. CASE link'.up = link.up /\ link'.conn = link.conn /\ tx' = tx /\ air'.part = air.part /\ air'.strays = air.strays
  BY <1>7 DEF Astray
<1>a. ASSUME NEW on \in BOOLEAN, Subscribe(on)
      PROVE  link'.up = link.up /\ link'.conn = link.conn /\ tx' = tx /\ air'.part = air.part /\ air'.strays = air.strays
  BY <1>a, <1>t DEF Subscribe, LinkType, AirType
<1>8. PairedWithCode \/ PairedOtherwise \/ CheckPairing \/ Tick
        => link'.up = link.up /\ link'.conn = link.conn /\ tx' = tx /\ air'.part = air.part /\ air'.strays = air.strays
  BY <1>t DEF PairedWithCode, PairedOtherwise, CheckPairing, Tick, LinkType
<1>9. StoreKeys \/ WritePiece \/ (\E cmd \in Commands : WriteEnd(cmd)) \/ Rid \/ BeginPass \/ RunCommand \/ EndPoll
        \/ WriteLine \/ WaitEnds \/ UNCHANGED bleVars
        => link'.up = link.up /\ link'.conn = link.conn /\ tx' = tx /\ air'.part = air.part /\ air'.strays = air.strays
  BY <1>t DEF StoreKeys, WritePiece, WriteEnd, Rid, BeginPass, RunCommand, EndPoll, WriteLine, WaitEnds, AirType, bleVars
<1> QED BY <1>1, <1>2, <1>3, <1>4, <1>5, <1>6, <1>7, <1>8, <1>9, <1>a DEF BleNext, HostTask, LoopSteps, NotifyTask

\* No line reaches another peer than it was written to, unless that one was safe
\* before the rings were flushed, and but for the one the notify task was sending
\* when the link changed hands; and no command is run that is not whole or not
\* of a safe peer.
THEOREM LinesAreOwn == BleSpec => []OwnLines
<1> DEFINE Inv == Types /\ LinkSane /\ Assembly /\ Theirs /\ OneAstray
<1>1. BleInit => Inv
  <2>1. BleInit => Assembly /\ Theirs /\ OneAstray
    BY DEF BleInit, Assembly, Theirs, OneAstray, NoLink, NoAsm, EmptyQ, Idle, Asleep, Nothing
  <2> QED BY <2>1, InitTypes
<1>2. Inv /\ [BleNext]_bleVars => Inv'
  BY TypesStep, AssemblyStep, TheirsStep, OneAstrayStep
<1>3. Inv => OwnLines
  <2> SUFFICES ASSUME Inv PROVE OwnLines
    OBVIOUS
  <2>1. ASSUME air.part # <<>>, ~Astray
        PROVE  link.safe /\ (air.part[1].conn = link.conn \/ link.quick)
    <3>1. tx.line # <<>> /\ air.part = tx.line /\ link.up /\ tx.conn = link.conn
      BY <2>1 DEF OneAstray, Astray
    <3> QED BY <3>1 DEF Theirs
  <2> QED BY <2>1 DEF OwnLines, Assembly, OneAstray
<1> QED BY <1>1, <1>2, <1>3, PTL DEF BleSpec

-----------------------------------------------------------------------------
(* An answer is whole, or the peer is told that it was cut. *)

\* Whose command a line answers is somebody who has connected.
Past ==
  /\ \A i \in DOMAIN ctl.ring : ctl.ring[i].asker <= link.conn
  /\ \A i \in DOMAIN live.ring : live.ring[i].asker = 0
  /\ \A i \in DOMAIN rxq : rxq[i].conn <= link.conn
  /\ loop.asker <= link.conn
  /\ tx.line # <<>> => tx.line[1].asker <= tx.conn /\ tx.conn <= link.conn

\* The peer is there, and nothing was lost to it but what it is told of.
Intact == link.up /\ ~air.lossy

\* A peer that does not listen has asked for nothing that it would be told of.
Listening ==
  Intact /\ ~link.subscribed =>
    /\ \A i \in DOMAIN rxq : rxq[i].conn # link.conn
    /\ \A i \in DOMAIN ctl.ring : ctl.ring[i].asker # link.conn
    /\ loop.out # <<>> => loop.asker # link.conn

\* The answer the loop is writing.
Writing == Shaped(loop.out) /\ loop.drops0 <= ctl.replyDrops

\* The records the peer has of the answer under way; and those it has when the
\* line that is being sent has reached it.
Heeding(a) == IF a.ended = "no" THEN a.records ELSE 0
Had(line, a, c) ==
  LET n == Heeding(a) IN
  IF line = <<>> THEN n
  ELSE IF line[1].asker # c THEN n
  ELSE IF line[1].what = "record" THEN IF n < Records THEN n + 1 ELSE n
  ELSE IF line[1].kind = "final" THEN 0 ELSE n

\* A place of the ring follows m records of c's answer: those in the ring
\* before it, and before those the ones c has.
Led(ring, had, c, i, m) ==
  /\ \A j \in DOMAIN ring : i - m <= j /\ j < i => ring[j].what = "record" /\ ring[j].asker = c
  /\ i - 1 < m => had >= m - (i - 1)

\* Every end of an answer follows all its records, wherever it is on the way;
\* and the loop's place in it follows those it has written.
Answering ==
  /\ ~link.up => air.ended = "no"
  /\ air.junk => air.lossy
  /\ Intact =>
       /\ \A i \in DOMAIN ctl.ring :
            ctl.ring[i].what = "done" /\ ctl.ring[i].asker = link.conn
              => Led(ctl.ring, Had(tx.line, air, link.conn), link.conn, i, Records)
       /\ loop.out # <<>> /\ loop.asker = link.conn /\ loop.out[Len(loop.out)] = "done"
            => Led(ctl.ring, Had(tx.line, air, link.conn), link.conn, Len(ctl.ring) + 1, Records + 1 - Len(loop.out))
       /\ tx.line # <<>> /\ tx.line[1].what = "done" /\ tx.line[1].asker = link.conn => Heeding(air) = Records
       /\ air.ended = "done" => air.records = Records

\* A ring nobody reads has been waited for once.
WaitsOnce == air.waits = 0 \/ (air.waits = 1 /\ (ctl.stalled \/ loop.at = "wait"))

-----------------------------------------------------------------------------
LEMMA Places ==
  ASSUME NEW S, NEW s \in Seq(S)
  PROVE  /\ \A l \in S : /\ Append(s, l) \in Seq(S) /\ Len(Append(s, l)) = Len(s) + 1 /\ Append(s, l)[Len(s) + 1] = l
                         /\ \A i \in DOMAIN s : Append(s, l)[i] = s[i]
         /\ s # <<>> => /\ Tail(s) \in Seq(S) /\ Len(Tail(s)) = Len(s) - 1 /\ Head(s) = s[1] /\ s[1] \in S /\ Len(s) >= 1
                        /\ \A i \in DOMAIN Tail(s) : Tail(s)[i] = s[i + 1] /\ i + 1 \in DOMAIN s
         /\ DOMAIN s = 1 .. Len(s) /\ Len(s) \in Nat
OBVIOUS

\* Where the lines of a sequence come from that one was taken off, or put on.
LEMMA FromTail ==
  ASSUME NEW s \in Seq(Line), s # <<>>
  PROVE  (\A i \in DOMAIN Tail(s) : \E j \in DOMAIN s : Tail(s)[i] = s[j]) /\ 1 \in DOMAIN s
<1>1. ASSUME NEW i \in DOMAIN Tail(s) PROVE i + 1 \in DOMAIN s /\ Tail(s)[i] = s[i + 1]
  OBVIOUS
<1> QED BY <1>1

LEMMA FromAppend ==
  ASSUME NEW s \in Seq(Line), NEW l \in Line
  PROVE  \A i \in DOMAIN Append(s, l) : Append(s, l)[i] = l \/ \E j \in DOMAIN s : Append(s, l)[i] = s[j]
<1>1. ASSUME NEW i \in DOMAIN Append(s, l) PROVE Append(s, l)[i] = l \/ (i \in DOMAIN s /\ Append(s, l)[i] = s[i])
  OBVIOUS
<1> QED BY <1>1

\* The place after the first line taken off the ring.
LEMMA LedTail ==
  ASSUME NEW ring \in Seq(Line), ring # <<>>, NEW c, NEW had \in Nat, NEW had2 \in Nat,
         NEW i \in 2 .. Len(ring) + 1, NEW m \in 0 .. Records, Led(ring, had, c, i, m),
         ring[1].what = "record" /\ ring[1].asker = c => had2 >= had + 1 \/ had2 >= Records
  PROVE  Led(Tail(ring), had2, c, i - 1, m)
<1>1. PICK n \in Nat : n = Len(ring) /\ n >= 1 /\ DOMAIN ring = 1 .. n /\ Len(Tail(ring)) = n - 1 /\ DOMAIN Tail(ring) = 1 .. n - 1
  BY Places
<1>2. ASSUME NEW j \in DOMAIN Tail(ring), (i - 1) - m <= j, j < i - 1
      PROVE  Tail(ring)[j].what = "record" /\ Tail(ring)[j].asker = c
  <2>1. Tail(ring)[j] = ring[j + 1] /\ j + 1 \in DOMAIN ring
    BY Places
  <2>2. i - m <= j + 1 /\ j + 1 < i
    BY <1>1, <1>2
  <2> QED BY <2>1, <2>2 DEF Led
<1>3. ASSUME (i - 1) - 1 < m PROVE had2 >= m - ((i - 1) - 1)
  <2>1. 1 \in DOMAIN ring /\ i - m <= 1 /\ 1 < i
    BY <1>1, <1>3
  <2>2. had2 >= had + 1 \/ had2 >= Records
    BY <2>1 DEF Led
  <2>3. i - 1 < m => had >= m - (i - 1)
    BY DEF Led
  <2> QED BY <2>2, <2>3, <1>1, RoomAssumption
<1> QED BY <1>2, <1>3 DEF Led

\* The places of a ring that takes a line, and the place after that line.
LEMMA LedAppend ==
  ASSUME NEW ring \in Seq(Line), NEW l \in Line, NEW c, NEW had \in Nat, NEW i \in 1 .. Len(ring) + 1, NEW m \in 0 .. Records,
         Led(ring, had, c, i, m)
  PROVE  Led(Append(ring, l), had, c, i, m)
<1>1. PICK n \in Nat : n = Len(ring) /\ DOMAIN ring = 1 .. n /\ DOMAIN Append(ring, l) = 1 .. n + 1
  BY Places
<1>2. ASSUME NEW j \in DOMAIN Append(ring, l), i - m <= j, j < i
      PROVE  j \in DOMAIN ring /\ Append(ring, l)[j] = ring[j]
  BY <1>1, <1>2, Places
<1> QED BY <1>2 DEF Led

LEMMA LedNext ==
  ASSUME NEW ring \in Seq(Line), NEW l \in Line, NEW c, NEW had \in Nat, NEW m \in 0 .. Records,
         l.what = "record" /\ l.asker = c, Led(ring, had, c, Len(ring) + 1, m)
  PROVE  Led(Append(ring, l), had, c, Len(Append(ring, l)) + 1, m + 1)
<1>1. PICK n \in Nat : n = Len(ring) /\ DOMAIN ring = 1 .. n /\ DOMAIN Append(ring, l) = 1 .. n + 1 /\ Len(Append(ring, l)) = n + 1
  BY Places
<1>2. ASSUME NEW j \in DOMAIN Append(ring, l), n + 2 - (m + 1) <= j, j < n + 2
      PROVE  Append(ring, l)[j].what = "record" /\ Append(ring, l)[j].asker = c
  <2>1. j = n + 1 \/ (j \in DOMAIN ring /\ j < n + 1)
    BY <1>1, <1>2
  <2>2. CASE j = n + 1
    BY <1>1, <2>2, Places
  <2>3. CASE j \in DOMAIN ring /\ j < n + 1
    <3>1. Append(ring, l)[j] = ring[j] /\ n + 1 - m <= j
      BY <1>1, <1>2, <2>3, Places
    <3> QED BY <3>1, <2>3, <1>1 DEF Led
  <2> QED BY <2>1, <2>2, <2>3
<1>3. n + 2 - 1 < m + 1 => had >= (m + 1) - (n + 2 - 1)
  BY <1>1 DEF Led
<1> QED BY <1>1, <1>2, <1>3 DEF Led

\* What a step of the loop makes of the line it is at: nobody is there for it,
\* the ring takes it, it waits, or it is lost and counted.
LEMMA LoopWrites ==
  ASSUME Types, WriteLine \/ WaitEnds
  PROVE  \E l \in Line :
           /\ l.what = Head(loop.out) /\ l.asker = loop.asker /\ l.kind = KindOf(l.what) /\ l.kind \in {"reply", "final"}
           /\ \/ /\ ~Ready /\ loop.at = "write" /\ Written(ctl.replyDrops) /\ UNCHANGED <<ctl, air>>
              \/ /\ ctl'.ring = Append(ctl.ring, l) /\ ctl'.replyDrops = ctl.replyDrops
                 /\ Written(ctl'.replyDrops) /\ air' = [air EXCEPT !.waits = 0]
              \/ /\ Ready /\ loop.at = "write" /\ loop' = [loop EXCEPT !.at = "wait", !.conn = link.conn] /\ ctl' = ctl
                 /\ \/ l.kind = "reply" /\ ~ctl.stalled /\ air' = [air EXCEPT !.waits = air.waits + 1]
                    \/ air' = air
              \/ /\ ctl'.ring = ctl.ring /\ ctl'.replyDrops = ctl.replyDrops + 1 /\ ctl'.stalled
                 /\ Written(ctl'.replyDrops) /\ air' = air
<1>t. /\ ctl \in QueueType /\ loop \in LoopType /\ link.conn \in 0 .. MaxConns
      /\ Len(ctl.ring) <= CtlRoom /\ CtlRoom \in Nat /\ air = [air EXCEPT !.waits = air.waits]
  BY RoomAssumption DEF Types, CtlOK, LoopOK, LinkOK, LinkType, AirOK, AirType
<1>o. loop.out # <<>> /\ loop.conn \in 0 .. MaxConns
  BY <1>t DEF Types, LoopOK, LoopType, WriteLine, WaitEnds
<1>1. CASE WriteLine
  <2> DEFINE l == Out(link.conn)
  <2>1. l \in Line /\ l.what = Head(loop.out) /\ l.asker = loop.asker /\ l.kind = KindOf(l.what) /\ l.kind \in {"reply", "final"}
    BY <1>t, <1>o, OutIsLine
  <2>2. \/ /\ ~Ready /\ loop.at = "write" /\ Written(ctl.replyDrops) /\ UNCHANGED <<ctl, air>>
        \/ /\ ctl' = Taken(ctl, l) /\ HasRoom(ctl, CtlRoom)
           /\ Written(ctl'.replyDrops) /\ air' = [air EXCEPT !.waits = 0]
        \/ /\ Ready /\ loop.at = "write" /\ loop' = [loop EXCEPT !.at = "wait", !.conn = link.conn] /\ ctl' = ctl
           /\ MayWait(ctl, l.kind)
           /\ air' = [air EXCEPT !.waits = IF l.kind = "reply" THEN air.waits + 1 ELSE air.waits]
        \/ ctl' = Lost(ctl, l.kind) /\ Written(ctl'.replyDrops) /\ air' = air
    BY <1>1 DEF WriteLine
  <2> HIDE DEF l
  <2> QED BY <2>1, <2>2, <1>t, QueueTaken, QueueLost DEF MayWait
<1>2. CASE WaitEnds
  <2> DEFINE l == Out(loop.conn)
  <2>1. l \in Line /\ l.what = Head(loop.out) /\ l.asker = loop.asker /\ l.kind = KindOf(l.what) /\ l.kind \in {"reply", "final"}
    BY <1>t, <1>o, OutIsLine
  <2>2. \/ /\ ctl' = Taken(ctl, l) /\ HasRoom(ctl, CtlRoom)
           /\ Written(ctl'.replyDrops) /\ air' = [air EXCEPT !.waits = 0]
        \/ ctl' = Lost(ctl, l.kind) /\ Written(ctl'.replyDrops) /\ air' = air
    BY <1>2 DEF WaitEnds
  <2> HIDE DEF l
  <2> QED BY <2>1, <2>2, <1>t, QueueTaken, QueueLost
<1> QED BY <1>1, <1>2

\* The variables a step leaves alone.
LEMMA LeftAlone ==
  ASSUME Types
  PROVE  /\ PairedWithCode \/ PairedOtherwise \/ StoreKeys
              => /\ UNCHANGED <<rxq, ctl, live, loop, tx, air>>
                 /\ link'.conn = link.conn /\ link'.up = link.up /\ link'.subscribed = link.subscribed
         /\ WritePiece \/ UNCHANGED bleVars => UNCHANGED <<link, rxq, ctl, live, loop, tx, air>>
         /\ BeginPass \/ EndPoll \/ CheckPairing \/ Tick
              => /\ UNCHANGED <<rxq, ctl, live, tx, air>>
                 /\ link'.conn = link.conn /\ link'.up = link.up /\ link'.subscribed = link.subscribed
                 /\ \/ loop'.out = <<>> /\ loop'.asker = 0 /\ loop'.drops0 = 0 /\ loop'.at # "wait" /\ loop.at # "wait"
                    \/ /\ loop'.out = loop.out /\ loop'.asker = loop.asker /\ loop'.drops0 = loop.drops0
                       /\ loop'.at = "wait" <=> loop.at = "wait"
<1>t. link \in LinkType /\ loop \in LoopType
  BY DEF Types, LinkOK, LoopOK
<1>1. PairedWithCode \/ PairedOtherwise \/ StoreKeys
         => /\ UNCHANGED <<rxq, ctl, live, loop, tx, air>>
            /\ link'.conn = link.conn /\ link'.up = link.up /\ link'.subscribed = link.subscribed
  BY <1>t DEF PairedWithCode, PairedOtherwise, StoreKeys, LinkType
<1>2. WritePiece \/ UNCHANGED bleVars => UNCHANGED <<link, rxq, ctl, live, loop, tx, air>>
  BY DEF WritePiece, bleVars
<1>3. BeginPass \/ EndPoll \/ CheckPairing \/ Tick
         => /\ UNCHANGED <<rxq, ctl, live, tx, air>>
            /\ link'.conn = link.conn /\ link'.up = link.up /\ link'.subscribed = link.subscribed
  BY <1>t DEF BeginPass, EndPoll, CheckPairing, Tick, LinkType
<1>i. Idle.out = <<>> /\ Idle.asker = 0 /\ Idle.drops0 = 0 /\ Idle.at = "idle" /\ Idle = [Idle EXCEPT !.left = 0]
  BY DEF Idle
<1>p. LET l == [Idle EXCEPT !.at = "poll", !.left = PollMax] IN l.out = <<>> /\ l.asker = 0 /\ l.drops0 = 0 /\ l.at = "poll"
  BY DEF Idle
<1>4. CASE BeginPass
  BY <1>3, <1>4, <1>p, <1>1, <1>2 DEF BeginPass
<1>5. CASE EndPoll
  <2>1. loop' = [loop EXCEPT !.at = "pair", !.left = 0, !.conn = link.conn] \/ loop' = Idle
    BY <1>5 DEF EndPoll
  <2>2. loop.at = "poll"
    BY <1>5 DEF EndPoll
  <2>3. loop' = [loop EXCEPT !.at = "pair", !.left = 0, !.conn = link.conn]
          => loop'.out = loop.out /\ loop'.asker = loop.asker /\ loop'.drops0 = loop.drops0 /\ loop'.at = "pair"
    BY <1>t DEF LoopType
  <2> QED BY <2>1, <2>2, <2>3, <1>i, <1>1, <1>2, <1>3
<1>6. CASE CheckPairing
  BY <1>6, <1>i, <1>1, <1>2, <1>3 DEF CheckPairing
<1>7. CASE Tick
  <2>1. loop' = loop \/ loop' = [loop EXCEPT !.lag = loop.lag + 1]
    BY <1>7 DEF Tick
  <2>2. loop'.out = loop.out /\ loop'.asker = loop.asker /\ loop'.drops0 = loop.drops0 /\ loop'.at = loop.at
    BY <2>1, <1>t DEF LoopType
  <2> QED BY <2>2, <1>1, <1>2, <1>3
<1> QED BY <1>1, <1>2, <1>3, <1>4, <1>5, <1>6, <1>7

\* What the other steps do to what Past and Listening are about.
LEMMA CommandTaken ==
  ASSUME Types, RunCommand
  PROVE  /\ UNCHANGED <<link, ctl, live, tx, air>>
         /\ rxq # <<>> /\ rxq' = Tail(rxq) /\ rxq[1].cmd \in AllCommands
         /\ loop'.out = Answer(rxq[1].cmd) /\ loop'.asker \in {0, rxq[1].conn} /\ loop'.drops0 = ctl.replyDrops
         /\ loop.at = "poll" /\ loop'.at = "write"
<1>1. loop \in LoopType /\ rxq # <<>> /\ rxq \in Seq(CommandType)
  BY DEF Types, LoopOK, RxqOK, RunCommand
<1>2. rxq[1] \in CommandType /\ Head(rxq) = rxq[1]
  BY <1>1, Places
<1>3. rxq[1].cmd \in AllCommands
  BY <1>2, CommandsAssumption DEF CommandType
<1> DEFINE left == loop.left - 1
           asker == IF rxq[1].cmd = "log_clear" THEN 0 ELSE rxq[1].conn
           out == Answer(rxq[1].cmd)
<1>4. /\ UNCHANGED <<link, ctl, live, tx, air>> /\ rxq' = Tail(rxq) /\ loop.at = "poll"
      /\ loop' = [loop EXCEPT !.at = "write", !.left = left, !.out = out, !.asker = asker, !.drops0 = ctl.replyDrops]
  BY <1>2 DEF RunCommand
<1>5. asker \in {0, rxq[1].conn}
  OBVIOUS
<1> HIDE DEF left, asker, out
<1>6. loop'.out = out /\ loop'.asker = asker /\ loop'.drops0 = ctl.replyDrops /\ loop'.at = "write"
  BY <1>1, <1>4 DEF LoopType
<1> QED BY <1>1, <1>3, <1>4, <1>5, <1>6 DEF out

LEMMA LineTaken ==
  ASSUME Types, TakeLine
  PROVE  /\ UNCHANGED <<link, rxq, loop, air>> /\ tx.line = <<>>
         /\ ctl'.replyDrops = ctl.replyDrops /\ ctl'.stalled = ctl.stalled
         /\ \/ ctl.ring # <<>> /\ ctl'.ring = Tail(ctl.ring) /\ live' = live /\ (Ready => tx'.line = <<ctl.ring[1]>>)
            \/ ctl' = ctl /\ live.ring # <<>> /\ live'.ring = Tail(live.ring) /\ (Ready => tx'.line = <<live.ring[1]>>)
         /\ Ready => tx'.conn = link.conn
         /\ ~Ready => tx'.line = <<>>
<1>t. ctl \in QueueType /\ live \in QueueType
  BY DEF Types, CtlOK, LiveOK
<1>1. ctl.ring # <<>> => Head(ctl.ring) = ctl.ring[1]
  BY <1>t, Places DEF QueueType
<1>2. live.ring # <<>> => Head(live.ring) = live.ring[1]
  BY <1>t, Places DEF QueueType
<1>3. UNCHANGED <<link, rxq, loop, air>> /\ tx.line = <<>>
  BY DEF TakeLine
<1>4. CASE ctl.ring # <<>> /\ ctl' = [ctl EXCEPT !.ring = Tail(ctl.ring)] /\ live' = live
           /\ tx' = IF Ready THEN [line |-> <<Head(ctl.ring)>>, conn |-> link.conn, handle |-> link.handle] ELSE Asleep
  BY <1>1, <1>3, <1>4, <1>t DEF QueueType, Asleep
<1>5. CASE live.ring # <<>> /\ live' = [live EXCEPT !.ring = Tail(live.ring)] /\ ctl' = ctl
           /\ tx' = IF Ready THEN [line |-> <<Head(live.ring)>>, conn |-> link.conn, handle |-> link.handle] ELSE Asleep
  BY <1>2, <1>3, <1>5, <1>t DEF QueueType, Asleep
<1> QED BY <1>4, <1>5 DEF TakeLine, Bound

LEMMA PastStep ==
  ASSUME Types, LinkSane, Past, [BleNext]_bleVars
  PROVE  Past'
<1> USE DEF Past
<1>t. /\ link \in LinkType /\ link.conn \in Nat /\ ctl.ring \in Seq(Line) /\ live.ring \in Seq(Line)
      /\ rxq \in Seq(CommandType) /\ tx.conn \in Nat
  BY BoundAssumption DEF Types, LinkOK, LinkType, CtlOK, LiveOK, RxqOK, QueueType, TxOK, TxType
<1>l. /\ \A s \in Seq(Line) : \A i \in DOMAIN s : s[i].asker \in Nat
      /\ \A i \in DOMAIN rxq : rxq[i].conn \in Nat
      /\ loop.asker \in Nat /\ (tx.line # <<>> => tx.line[1].asker \in Nat)
  <2>1. \A l \in Line : l.asker \in Nat
    BY BoundAssumption DEF Line
  <2>2. \A c \in CommandType : c.conn \in Nat
    BY BoundAssumption DEF CommandType, Conn
  <2>3. tx.line # <<>> => tx.line[1] \in Line
    BY DEF Types, TxOK, TxType, AtMostOne
  <2>4. loop.asker \in Nat
    BY BoundAssumption DEF Types, LoopOK, LoopType
  <2> QED BY <1>t, <2>1, <2>2, <2>3, <2>4
<1>1. ASSUME NEW p \in Phones, NEW h \in Handles, BleConnect(p, h) PROVE Past'
  <2>1. link'.conn = link.conn + 1 /\ UNCHANGED <<rxq, ctl, live, loop, tx>>
    BY <1>1 DEF BleConnect, NoLink
  <2>2. \A n \in Nat : n <= link.conn => n <= link.conn + 1
    BY <1>t
  <2> QED BY <2>1, <2>2, <1>t, <1>l
<1>2. CASE BleDisconnect
  <2>1. link'.conn = link.conn /\ ctl'.ring = ctl.ring /\ UNCHANGED <<rxq, live, loop, tx>>
    BY <1>2 DEF BleDisconnect, NoLink, Types, CtlOK, QueueType
  <2> QED BY <2>1
<1>3. ASSUME NEW on \in BOOLEAN, Subscribe(on) PROVE Past'
  <2>1. link'.conn = link.conn /\ UNCHANGED <<rxq, ctl, live, loop, tx>>
    BY <1>3, <1>t DEF Subscribe, LinkType
  <2> QED BY <2>1
<1>4. ASSUME NEW cmd \in Commands, WriteEnd(cmd) PROVE Past'
  <2> DEFINE c == [cmd |-> cmd, conn |-> link.conn, safe |-> link.safe, whole |-> asm.pieces = [i \in 1 .. asm.wrote |-> link.conn]]
  <2>1. UNCHANGED <<link, ctl, live, loop, tx>> /\ (rxq' = rxq \/ rxq' = Append(rxq, c)) /\ c.conn = link.conn
    BY <1>4 DEF WriteEnd, Delivered
  <2> HIDE DEF c
  <2>2. \A i \in DOMAIN rxq' : rxq'[i].conn <= link.conn
    BY <2>1, <1>t
  <2> QED BY <2>1, <2>2
<1>5. CASE Rid
  <2> DEFINE l == [what |-> "rid", kind |-> "feed", asker |-> 0, conn |-> link.conn]
  <2>1. l \in Line /\ l.asker = 0
    BY BoundAssumption DEF Types, LinkOK, LinkType, Line, What, Kind, KindOf
  <2>2. live' = Taken(live, l) /\ HasRoom(live, FeedRoom) /\ UNCHANGED <<link, rxq, ctl, loop, tx>>
    BY <1>5 DEF Rid
  <2> HIDE DEF l
  <2>3. live'.ring = Append(live.ring, l)
    BY <2>1, <2>2, QueueTaken, RoomAssumption DEF Types, LiveOK
  <2>4. \A i \in DOMAIN live'.ring : live'.ring[i].asker = 0
    BY <2>1, <2>3, <1>t
  <2> QED BY <2>2, <2>4
<1>6. CASE RunCommand
  <2>1. /\ UNCHANGED <<link, ctl, live, tx>> /\ rxq # <<>> /\ rxq' = Tail(rxq) /\ loop'.asker \in {0, rxq[1].conn}
    BY <1>6, CommandTaken
  <2>2. 1 \in DOMAIN rxq /\ \A i \in DOMAIN rxq' : rxq'[i].conn <= link.conn
    BY <2>1, <1>t, Places
  <2>3. loop'.asker <= link.conn
    BY <2>1, <2>2, <1>t
  <2> QED BY <2>1, <2>2, <2>3
<1>7. CASE WriteLine \/ WaitEnds
  <2>1. UNCHANGED <<link, rxq, live, tx>>
    BY <1>7 DEF WriteLine, WaitEnds
  <2>2. PICK l \in Line : l.asker = loop.asker /\ (ctl'.ring = ctl.ring \/ ctl'.ring = Append(ctl.ring, l))
    BY <1>7, LoopWrites
  <2>3. \A i \in DOMAIN ctl'.ring : ctl'.ring[i].asker <= link.conn
    <3>1. \A i \in DOMAIN ctl'.ring : ctl'.ring[i] = l \/ \E j \in DOMAIN ctl.ring : ctl'.ring[i] = ctl.ring[j]
      <4>1. ctl.ring \in Seq(Line)
        BY <1>t
      <4>2. CASE ctl'.ring = ctl.ring
        BY <4>2
      <4>3. CASE ctl'.ring = Append(ctl.ring, l)
        BY <4>1, <4>3, FromAppend
      <4> QED BY <2>2, <4>2, <4>3
    <3> QED BY <2>2, <3>1
  <2>4. loop'.asker \in {0, loop.asker}
    <3>1. ASSUME NEW drops, Written(drops) PROVE loop'.asker \in {0, loop.asker}
      <4>i. [Idle EXCEPT !.at = "poll", !.lag = loop.lag, !.left = loop.left].asker = 0
        BY DEF Idle
      <4>1. loop'.asker = 0 \/ \E out : loop' = [loop EXCEPT !.at = "write", !.out = out, !.conn = 0]
        BY Zenon, <3>1, <4>i DEF Written
      <4>2. ASSUME NEW out, loop' = [loop EXCEPT !.at = "write", !.out = out, !.conn = 0] PROVE loop'.asker = loop.asker
        BY <4>2 DEF Types, LoopOK, LoopType
      <4> QED BY <4>1, <4>2
    <3>2. loop' = [loop EXCEPT !.at = "wait", !.conn = link.conn] => loop'.asker = loop.asker
      BY DEF Types, LoopOK, LoopType
    <3> QED BY <1>7, <3>1, <3>2, LoopWrites
  <2>5. loop'.asker <= link.conn
    BY <2>4, <1>t
  <2> QED BY <2>1, <2>3, <2>5
<1>8. CASE TakeLine
  <2>1. /\ UNCHANGED <<link, rxq, loop>>
        /\ ctl'.ring = ctl.ring \/ (ctl.ring # <<>> /\ ctl'.ring = Tail(ctl.ring))
        /\ live'.ring = live.ring \/ (live.ring # <<>> /\ live'.ring = Tail(live.ring))
    BY <1>8, LineTaken
  <2>2. \A i \in DOMAIN ctl'.ring : ctl'.ring[i].asker <= link.conn
    <3>1. \A i \in DOMAIN ctl'.ring : \E j \in DOMAIN ctl.ring : ctl'.ring[i] = ctl.ring[j]
      <4>1. CASE ctl'.ring = ctl.ring
        BY <4>1
      <4>2. CASE ctl.ring # <<>> /\ ctl'.ring = Tail(ctl.ring)
        BY <4>2, <1>t, FromTail
      <4> QED BY <2>1, <4>1, <4>2
    <3> QED BY <3>1
  <2>3. \A i \in DOMAIN live'.ring : live'.ring[i].asker = 0
    <3>1. \A i \in DOMAIN live'.ring : \E j \in DOMAIN live.ring : live'.ring[i] = live.ring[j]
      <4>1. CASE live'.ring = live.ring
        BY <4>1
      <4>2. CASE live.ring # <<>> /\ live'.ring = Tail(live.ring)
        BY <4>2, <1>t, FromTail
      <4> QED BY <2>1, <4>1, <4>2
    <3> QED BY <3>1
  <2>4. tx'.line # <<>> => tx'.line[1].asker <= tx'.conn /\ tx'.conn <= link.conn
    <3>1. /\ tx'.line # <<>> => tx'.conn = link.conn
          /\ tx'.line # <<>> => \/ ctl.ring # <<>> /\ tx'.line = <<ctl.ring[1]>>
                                \/ live.ring # <<>> /\ tx'.line = <<live.ring[1]>>
      <4>1. CASE Ready
        <5>1. tx'.conn = link.conn
          BY <1>8, <4>1, LineTaken
        <5>2. (tx'.line = <<ctl.ring[1]>> /\ ctl.ring # <<>>) \/ (tx'.line = <<live.ring[1]>> /\ live.ring # <<>>)
          <6>1. \/ ctl.ring # <<>> /\ (Ready => tx'.line = <<ctl.ring[1]>>)
                \/ live.ring # <<>> /\ (Ready => tx'.line = <<live.ring[1]>>)
            BY <1>8, LineTaken
          <6> QED BY <4>1, <6>1
        <5> QED BY <5>1, <5>2
      <4>2. CASE ~Ready
        BY <1>8, <4>2, LineTaken
      <4> QED BY <4>1, <4>2
    <3>2. ctl.ring # <<>> => ctl.ring[1].asker <= link.conn
      BY <1>t, FromTail
    <3>3. live.ring # <<>> => live.ring[1].asker <= link.conn
      <4>1. live.ring # <<>> => 1 \in DOMAIN live.ring
        BY <1>t, FromTail
      <4> QED BY <4>1, <1>t
    <3> QED BY <3>1, <3>2, <3>3, <1>t
  <2> QED BY <2>1, <2>2, <2>3, <2>4
<1>9. CASE SendSlice \/ SendLast \/ BleGiveUp
  <2>1. UNCHANGED <<link, rxq, ctl, live, loop>> /\ (tx'.line = <<>> \/ (tx'.line = tx.line /\ tx'.conn = tx.conn))
    BY <1>9 DEF SendSlice, SendLast, BleGiveUp, Asleep, Types, TxOK, TxType
  <2> QED BY <2>1
<1>10. CASE PairedWithCode \/ PairedOtherwise \/ StoreKeys \/ WritePiece \/ UNCHANGED bleVars
  <2>1. UNCHANGED <<rxq, ctl, live, loop, tx>> /\ link'.conn = link.conn
    BY <1>10, LeftAlone
  <2> QED BY <2>1
<1>11. CASE BeginPass \/ EndPoll \/ CheckPairing \/ Tick
  <2>1. UNCHANGED <<rxq, ctl, live, tx>> /\ link'.conn = link.conn /\ loop'.asker \in {0, loop.asker}
    BY <1>11, LeftAlone
  <2> QED BY <2>1, <1>t
<1> QED BY <1>1, <1>2, <1>3, <1>4, <1>5, <1>6, <1>7, <1>8, <1>9, <1>10, <1>11 DEF BleNext, HostTask, LoopSteps, NotifyTask

LEMMA ListeningStep ==
  ASSUME Types, LinkSane, Past, Listening, [BleNext]_bleVars
  PROVE  Listening'
<1> USE DEF Listening, Intact
<1>t. /\ link \in LinkType /\ link.conn \in Nat /\ ctl.ring \in Seq(Line) /\ rxq \in Seq(CommandType) /\ air \in AirType
      /\ (link.up => link.conn # 0)
  BY BoundAssumption DEF Types, LinkOK, LinkType, CtlOK, RxqOK, QueueType, AirOK, LinkSane, Conn
<1>1. ASSUME NEW p \in Phones, NEW h \in Handles, BleConnect(p, h) PROVE Listening'
  <2>1. link'.conn = link.conn + 1 /\ UNCHANGED <<rxq, ctl, loop>>
    BY <1>1 DEF BleConnect, NoLink
  <2>2. \A n : n <= link.conn => n # link.conn + 1
    BY <1>t
  <2> QED BY <2>1, <2>2 DEF Past
<1>2. CASE BleDisconnect
  BY <1>2 DEF BleDisconnect, NoLink
<1>3. ASSUME NEW on \in BOOLEAN, Subscribe(on) PROVE Listening'
  <2>1. link'.subscribed = on /\ (air'.lossy = (air.lossy \/ ~on))
    BY <1>3, <1>t DEF Subscribe, LinkType, AirType
  <2> QED BY <2>1
<1>4. ASSUME NEW cmd \in Commands, WriteEnd(cmd) PROVE Listening'
  <2>1. link' = link /\ (air'.lossy = (air.lossy \/ ~link.subscribed))
    BY <1>4, <1>t DEF WriteEnd, AirType
  <2> QED BY <2>1
<1>5. CASE Rid
  BY <1>5 DEF Rid
<1>6. CASE RunCommand
  <2>1. /\ UNCHANGED <<link, ctl, air>> /\ rxq # <<>> /\ rxq' = Tail(rxq) /\ loop'.asker \in {0, rxq[1].conn}
    BY <1>6, CommandTaken
  <2>2. 1 \in DOMAIN rxq /\ \A i \in DOMAIN rxq' : i + 1 \in DOMAIN rxq /\ rxq'[i] = rxq[i + 1]
    BY <2>1, <1>t, Places
  <2> QED BY <2>1, <2>2, <1>t
<1>7. CASE WriteLine \/ WaitEnds
  <2>1. UNCHANGED <<link, rxq>>
    BY <1>7 DEF WriteLine, WaitEnds
  <2>2. air'.lossy = air.lossy
    <3>1. \A w : [air EXCEPT !.waits = w].lossy = air.lossy
      BY <1>t DEF AirType
    <3>2. air' = [air EXCEPT !.waits = 0] \/ air' = [air EXCEPT !.waits = air.waits + 1] \/ air' = air
      BY <1>7, LoopWrites
    <3> QED BY <3>1, <3>2
  <2>3. PICK l \in Line : l.asker = loop.asker /\ (ctl'.ring = ctl.ring \/ ctl'.ring = Append(ctl.ring, l))
    BY <1>7, LoopWrites
  <2>4. loop.out # <<>>
    BY <1>7 DEF WriteLine, WaitEnds, Types, LoopOK
  <2>5. loop'.out # <<>> => loop'.asker = loop.asker
    <3>1. loop' = [loop EXCEPT !.at = "wait", !.conn = link.conn] => loop'.asker = loop.asker
      BY DEF Types, LoopOK, LoopType
    <3> QED BY <1>7, <2>4, <3>1, LoopWrites, WrittenLoop
  <2>6. ASSUME Intact, ~link.subscribed PROVE \A i \in DOMAIN ctl'.ring : ctl'.ring[i].asker # link.conn
    <3>1. \A i \in DOMAIN ctl'.ring : ctl'.ring[i] = l \/ \E j \in DOMAIN ctl.ring : ctl'.ring[i] = ctl.ring[j]
      <4>1. ctl.ring \in Seq(Line)
        BY <1>t
      <4>2. CASE ctl'.ring = ctl.ring
        BY <4>2
      <4>3. CASE ctl'.ring = Append(ctl.ring, l)
        BY <4>1, <4>3, FromAppend
      <4> QED BY <2>3, <4>2, <4>3
    <3> QED BY <2>3, <2>4, <2>6, <3>1
  <2> QED BY <2>1, <2>2, <2>4, <2>5, <2>6
<1>8. CASE TakeLine
  <2>1. /\ UNCHANGED <<link, rxq, loop, air>>
        /\ ctl'.ring = ctl.ring \/ (ctl.ring # <<>> /\ ctl'.ring = Tail(ctl.ring))
    BY <1>8, LineTaken
  <2>2. \A i \in DOMAIN ctl'.ring : \E j \in DOMAIN ctl.ring : ctl'.ring[i] = ctl.ring[j]
    <3>1. CASE ctl'.ring = ctl.ring
      BY <3>1
    <3>2. CASE ctl.ring # <<>> /\ ctl'.ring = Tail(ctl.ring)
      BY <3>2, <1>t, FromTail
    <3> QED BY <2>1, <3>1, <3>2
  <2> QED BY <2>1, <2>2
<1>9. CASE SendSlice \/ SendLast \/ BleGiveUp
  <2>1. UNCHANGED <<link, rxq, ctl, loop>>
    BY <1>9 DEF SendSlice, SendLast, BleGiveUp
  <2>2. air.lossy => air'.lossy
    <3>1. CASE BleGiveUp
      BY <3>1, <1>t DEF BleGiveUp, AirType
    <3>2. CASE SendSlice
      BY <3>2, SliceHeard
    <3>3. CASE SendLast
      <4>1. Heard(tx.line[1]).lossy = air.lossy
        BY <3>3, <1>t, LastHeard, HeardTypes
      <4> QED BY <3>3, <4>1, LastHeard
    <3> QED BY <1>9, <3>1, <3>2, <3>3
  <2> QED BY <2>1, <2>2
<1>10. CASE PairedWithCode \/ PairedOtherwise \/ StoreKeys \/ WritePiece \/ UNCHANGED bleVars
  <2>1. /\ UNCHANGED <<rxq, ctl, loop, air>> /\ link'.conn = link.conn /\ link'.up = link.up
        /\ link'.subscribed = link.subscribed
    BY <1>10, LeftAlone
  <2> QED BY <2>1
<1>11. CASE BeginPass \/ EndPoll \/ CheckPairing \/ Tick
  <2>1. /\ UNCHANGED <<rxq, ctl, air>> /\ link'.conn = link.conn /\ link'.up = link.up /\ link'.subscribed = link.subscribed
        /\ loop'.out # <<>> => loop.out # <<>> /\ loop'.asker = loop.asker
    BY <1>11, LeftAlone
  <2> QED BY <2>1
<1> QED BY <1>1, <1>2, <1>3, <1>4, <1>5, <1>6, <1>7, <1>8, <1>9, <1>10, <1>11 DEF BleNext, HostTask, LoopSteps, NotifyTask

\* What the peer makes of a line.
LEMMA HeardIs ==
  ASSUME air \in AirType, NEW l \in Line
  PROVE  /\ Heard(l).lossy = air.lossy /\ Heard(l).waits = air.waits /\ Heard(l).junk = FALSE
         /\ air.junk \/ l.asker # link.conn => Heard(l).records = air.records /\ Heard(l).ended = air.ended
         /\ ~(air.junk \/ l.asker # link.conn) =>
              /\ Heeding(Heard(l)) = Had(<<l>>, air, link.conn)
              /\ l.what = "done" => Heard(l).records = Heeding(air)
              /\ l.what # "done" /\ Heard(l).ended = "done" => air.ended = "done" /\ Heard(l).records = air.records
<1> DEFINE a == [air EXCEPT !.part = <<>>, !.junk = FALSE]
           n == IF air.ended = "no" THEN air.records ELSE 0
           m == IF n < Records THEN n + 1 ELSE n
           h == Heard(l)
           own == ~(air.junk \/ l.asker # link.conn)
<1>1. a.lossy = air.lossy /\ a.waits = air.waits /\ a.junk = FALSE /\ a.records = air.records /\ a.ended = air.ended
      /\ DOMAIN a = {"part", "junk", "records", "ended", "lossy", "waits", "strays"}
  BY DEF AirType
<1>2. Heard(l) = IF ~own THEN a
                 ELSE IF l.what = "record" THEN [a EXCEPT !.records = m, !.ended = "no"]
                 ELSE IF l.kind = "final" THEN [a EXCEPT !.records = n, !.ended = l.what]
                 ELSE a
  BY Zenon DEF Heard
<1>k. (l.what = "record" => l.kind # "final") /\ (l.what = "done" => l.kind = "final") /\ (l.kind = "final" => l.what \in {"done", "cut"})
  BY DEF Line, KindOf, What
<1>w. <<l>> # <<>> /\ <<l>>[1] = l
  OBVIOUS
<1>3. Had(<<l>>, air, link.conn) = IF l.asker # link.conn THEN n
                                   ELSE IF l.what = "record" THEN m
                                   ELSE IF l.kind = "final" THEN 0 ELSE n
  BY <1>w DEF Had, Heeding
<1>n. n = Heeding(air)
  BY DEF Heeding
<1> HIDE DEF a, m, n, own
<1>4. CASE ~own
  BY <1>1, <1>2, <1>4 DEF own
<1>5. CASE own /\ l.what = "record"
  <2>1. h = [a EXCEPT !.records = m, !.ended = "no"]
    BY <1>2, <1>5
  <2>2. h.lossy = a.lossy /\ h.waits = a.waits /\ h.junk = a.junk /\ h.records = m /\ h.ended = "no"
    BY <1>1, <2>1
  <2> QED BY <1>1, <1>3, <1>5, <2>2 DEF own, Heeding
<1>6. CASE own /\ l.kind = "final"
  <2>1. h = [a EXCEPT !.records = n, !.ended = l.what] /\ l.what # "record" /\ l.what \in {"done", "cut"}
    BY <1>2, <1>6, <1>k
  <2>2. h.lossy = a.lossy /\ h.waits = a.waits /\ h.junk = a.junk /\ h.records = n /\ h.ended = l.what
    BY <1>1, <2>1
  <2> QED BY <1>1, <1>3, <1>6, <1>n, <2>1, <2>2 DEF own, Heeding
<1>7. CASE own /\ l.what # "record" /\ l.kind # "final"
  <2>1. h = a
    BY <1>2, <1>7
  <2>2. Heeding(h) = n
    BY <1>1, <2>1, <1>n DEF Heeding
  <2> QED BY <1>1, <1>3, <1>7, <1>k, <2>1, <2>2 DEF own
<1> QED BY <1>4, <1>5, <1>6, <1>7

LEMMA ShapedTail ==
  ASSUME NEW out \in Seq(What), out # <<>>, Shaped(out)
  PROVE  /\ Shaped(Tail(out)) /\ Len(out) >= 1 /\ Len(out) <= Records + 1 /\ Head(out) = out[1]
         /\ Len(out) > 1 => Head(out) = "record" /\ Tail(out)[Len(Tail(out))] = out[Len(out)] /\ Len(Tail(out)) = Len(out) - 1
         /\ Len(out) = 1 => Tail(out) = <<>> /\ Head(out) # "record"
<1>1. PICK n \in Nat : n = Len(out) /\ n >= 1 /\ Len(Tail(out)) = n - 1 /\ DOMAIN out = 1 .. n /\ DOMAIN Tail(out) = 1 .. n - 1 /\ Head(out) = out[1]
  OBVIOUS
<1>2. \A i \in 1 .. n - 1 : Tail(out)[i] = out[i + 1]
  BY <1>1
<1>3. Shaped(Tail(out))
  <2>1. \A i \in DOMAIN Tail(out) : i < Len(Tail(out)) => Tail(out)[i] = "record"
    BY <1>1, <1>2 DEF Shaped
  <2>2. n - 1 > 1 => Tail(out)[n - 1] = "done"
    BY <1>1, <1>2 DEF Shaped
  <2>3. n - 1 <= Records + 1
    BY <1>1, RoomAssumption DEF Shaped
  <2>4. n - 1 >= 1 => Tail(out)[n - 1] # "record"
    BY <1>1, <1>2 DEF Shaped
  <2>5. Tail(out) # <<>> => n - 1 >= 1
    BY <1>1
  <2> QED BY <1>1, <2>1, <2>2, <2>3, <2>4, <2>5 DEF Shaped
<1>4. n > 1 => Head(out) = "record" /\ Tail(out)[n - 1] = out[n]
  BY <1>1, <1>2 DEF Shaped
<1>5. n = 1 => Tail(out) = <<>> /\ Head(out) # "record"
  BY <1>1 DEF Shaped
<1> QED BY <1>1, <1>3, <1>4, <1>5 DEF Shaped

LEMMA WritingStep ==
  ASSUME Types, LinkSane, Writing, [BleNext]_bleVars
  PROVE  Writing'
<1> USE DEF Writing
<1>t. ctl \in QueueType /\ ctl.replyDrops \in Nat /\ loop \in LoopType /\ loop.drops0 \in Nat /\ loop.out \in Seq(What)
  BY DEF Types, CtlOK, QueueType, LoopOK, LoopType
<1>e. Shaped(<<>>) /\ Shaped(<<"cut">>)
  BY RoomAssumption DEF Shaped
<1>1. CASE RunCommand
  <2>1. /\ ctl' = ctl /\ loop'.out = Answer(rxq[1].cmd) /\ rxq[1].cmd \in AllCommands /\ loop'.drops0 = ctl.replyDrops
    BY <1>1, CommandTaken
  <2> QED BY <2>1, <1>t, AnswerOut
<1>2. CASE WriteLine \/ WaitEnds
  <2>o. loop.out # <<>>
    BY <1>2 DEF WriteLine, WaitEnds, Types, LoopOK
  <2>1. ctl'.replyDrops \in {ctl.replyDrops, ctl.replyDrops + 1}
    BY <1>2, LoopWrites
  <2>2. ASSUME NEW drops, Written(drops) PROVE Shaped(loop'.out) /\ loop'.drops0 \in {0, loop.drops0}
    <3>1. loop'.out \in {<<"cut">>, Tail(loop.out)} /\ loop'.drops0 \in {0, loop.drops0}
      BY <2>2, <2>o, WrittenLoop
    <3> QED BY <3>1, <2>o, <1>e, <1>t, ShapedTail
  <2>3. loop' = [loop EXCEPT !.at = "wait", !.conn = link.conn] => loop'.out = loop.out /\ loop'.drops0 = loop.drops0
    BY <1>t DEF LoopType
  <2>4. Shaped(loop'.out) /\ loop'.drops0 \in {0, loop.drops0}
    BY <1>2, <2>2, <2>3, LoopWrites
  <2> QED BY <2>1, <2>4, <1>t
<1>3. CASE BeginPass \/ EndPoll \/ CheckPairing \/ Tick
  <2>1. ctl' = ctl /\ ((loop'.out = <<>> /\ loop'.drops0 = 0) \/ (loop'.out = loop.out /\ loop'.drops0 = loop.drops0))
    BY <1>3, LeftAlone
  <2> QED BY <2>1, <1>e, <1>t
<1>4. CASE loop' = loop /\ ctl'.replyDrops = ctl.replyDrops
  BY <1>4
<1>5. TakeLine => loop' = loop /\ ctl'.replyDrops = ctl.replyDrops
  BY LineTaken
<1>6. BleDisconnect => loop' = loop /\ ctl'.replyDrops = ctl.replyDrops
  BY <1>t DEF BleDisconnect, QueueType
<1>c. ASSUME NEW p \in Phones, NEW h \in Handles, BleConnect(p, h) PROVE loop' = loop /\ ctl' = ctl
  BY <1>c DEF BleConnect
<1>7. /\ (\E on \in BOOLEAN : Subscribe(on)) \/ (\E cmd \in Commands : WriteEnd(cmd)) \/ Rid
           => loop' = loop /\ ctl'.replyDrops = ctl.replyDrops
      /\ SendSlice \/ SendLast \/ BleGiveUp => loop' = loop /\ ctl'.replyDrops = ctl.replyDrops
      /\ PairedWithCode \/ PairedOtherwise \/ StoreKeys \/ WritePiece \/ UNCHANGED bleVars => loop' = loop /\ ctl'.replyDrops = ctl.replyDrops
  BY LeftAlone DEF Subscribe, WriteEnd, Rid, SendSlice, SendLast, BleGiveUp
<1> QED BY <1>1, <1>2, <1>3, <1>4, <1>5, <1>6, <1>7, <1>c DEF BleNext, HostTask, LoopSteps, NotifyTask

LEMMA WaitsStep ==
  ASSUME Types, LinkSane, WaitsOnce, [BleNext]_bleVars
  PROVE  WaitsOnce'
<1> USE DEF WaitsOnce
<1>t. ctl \in QueueType /\ air \in AirType /\ loop \in LoopType
  BY DEF Types, CtlOK, AirOK, LoopOK
<1>1. CASE RunCommand
  <2>1. UNCHANGED <<ctl, air>> /\ loop.at = "poll"
    BY <1>1, CommandTaken
  <2> QED BY <2>1
<1>2. CASE WriteLine \/ WaitEnds
  <2>1. \A n : [air EXCEPT !.waits = n].waits = n
    BY <1>t DEF AirType
  <2>2. loop' = [loop EXCEPT !.at = "wait", !.conn = link.conn] => loop'.at = "wait"
    BY <1>t DEF LoopType
  <2>3. \/ UNCHANGED <<ctl, air>> /\ loop.at = "write"
        \/ air'.waits = 0
        \/ loop.at = "write" /\ loop'.at = "wait" /\ ctl' = ctl /\ (air' = air \/ (~ctl.stalled /\ air'.waits = air.waits + 1))
        \/ ctl'.stalled /\ air' = air
    BY <1>2, <2>1, <2>2, LoopWrites
  <2> QED BY <2>3
<1>3. CASE BeginPass \/ EndPoll \/ CheckPairing \/ Tick
  <2>1. UNCHANGED <<ctl, air>> /\ (loop.at = "wait" => loop'.at = "wait")
    BY <1>3, LeftAlone
  <2> QED BY <2>1
<1>4. CASE loop' = loop /\ ctl'.stalled = ctl.stalled /\ air'.waits = air.waits
  BY <1>4
<1>5. TakeLine => loop' = loop /\ ctl'.stalled = ctl.stalled /\ air'.waits = air.waits
  BY LineTaken
<1>6. CASE BleDisconnect
  BY <1>6 DEF BleDisconnect, Nothing
<1>7. CASE SendLast
  <2>1. UNCHANGED <<loop, ctl>>
    BY <1>7 DEF SendLast
  <2>2. air'.waits = air.waits
    BY <1>7, <1>t, LastHeard, HeardIs
  <2> QED BY <2>1, <2>2
<1>c. ASSUME NEW p \in Phones, NEW h \in Handles, BleConnect(p, h) PROVE UNCHANGED <<loop, ctl, air>>
  BY <1>c DEF BleConnect
<1>8. /\ (\E on \in BOOLEAN : Subscribe(on)) \/ (\E cmd \in Commands : WriteEnd(cmd)) \/ Rid
           => loop' = loop /\ ctl'.stalled = ctl.stalled /\ air'.waits = air.waits
      /\ BleGiveUp => loop' = loop /\ ctl'.stalled = ctl.stalled /\ air'.waits = air.waits
      /\ PairedWithCode \/ PairedOtherwise \/ StoreKeys \/ WritePiece \/ UNCHANGED bleVars
           => loop' = loop /\ ctl'.stalled = ctl.stalled /\ air'.waits = air.waits
  BY <1>t, LeftAlone DEF Subscribe, WriteEnd, Rid, BleGiveUp, AirType
<1>9. SendSlice => loop' = loop /\ ctl'.stalled = ctl.stalled /\ air'.waits = air.waits
  BY SliceHeard DEF SendSlice
<1> QED BY <1>1, <1>2, <1>3, <1>4, <1>5, <1>6, <1>7, <1>8, <1>9, <1>c DEF BleNext, HostTask, LoopSteps, NotifyTask

\* A step that leaves the link, the lines on their way and what the peer has of
\* them, and takes nothing up in the loop.
LEMMA AnswersKept ==
  ASSUME Answering,
         link'.conn = link.conn, link'.up = link.up, ctl'.ring = ctl.ring, tx'.line = tx.line,
         air'.records = air.records, air'.ended = air.ended, air'.junk = air.junk, air.lossy => air'.lossy,
         loop'.out = <<>> \/ (loop'.out = loop.out /\ loop'.asker = loop.asker)
  PROVE  Answering'
<1>1. Heeding(air)' = Heeding(air) /\ Had(tx.line, air, link.conn)' = Had(tx.line, air, link.conn)
  BY DEF Had, Heeding
<1>2. Intact' => Intact
  BY DEF Intact
<1> QED BY <1>1, <1>2 DEF Answering

LEMMA AnsweringTake ==
  ASSUME Types, LinkSane, Past, Listening, Writing, Answering, TakeLine
  PROVE  Answering'
<1>t. /\ ctl.ring \in Seq(Line) /\ live.ring \in Seq(Line) /\ air \in AirType /\ Records \in Nat
      /\ loop.out \in Seq(What)
  BY RoomAssumption DEF Types, CtlOK, LiveOK, QueueType, AirOK, LoopOK, LoopType
<1>1. UNCHANGED <<link, loop, air>> /\ tx.line = <<>>
  BY LineTaken
<1> DEFINE c == link.conn
           h == Had(tx.line, air, c)
           h2 == Had(tx'.line, air, c)
<1>2. SUFFICES ASSUME Intact
               PROVE  /\ \A i \in DOMAIN ctl'.ring :
                           ctl'.ring[i].what = "done" /\ ctl'.ring[i].asker = c => Led(ctl'.ring, h2, c, i, Records)
                      /\ loop.out # <<>> /\ loop.asker = c /\ loop.out[Len(loop.out)] = "done"
                           => Led(ctl'.ring, h2, c, Len(ctl'.ring) + 1, Records + 1 - Len(loop.out))
                      /\ tx'.line # <<>> /\ tx'.line[1].what = "done" /\ tx'.line[1].asker = c => Heeding(air) = Records
  BY <1>1 DEF Answering, Intact
<1>n. h = Heeding(air) /\ h \in 0 .. Records
  BY <1>1, <1>t DEF Had, Heeding, AirType
<1>d. /\ \A i \in DOMAIN ctl.ring : ctl.ring[i].what = "done" /\ ctl.ring[i].asker = c => Led(ctl.ring, h, c, i, Records)
      /\ loop.out # <<>> /\ loop.asker = c /\ loop.out[Len(loop.out)] = "done"
           => Led(ctl.ring, h, c, Len(ctl.ring) + 1, Records + 1 - Len(loop.out))
  BY <1>2 DEF Answering
<1>c. c # 0
  BY <1>2, BoundAssumption DEF Intact, LinkSane, Conn
<1>r. \/ /\ ctl.ring # <<>> /\ ctl'.ring = Tail(ctl.ring)
         /\ (Ready => tx'.line = <<ctl.ring[1]>>)
      \/ ctl' = ctl /\ live.ring # <<>> /\ (Ready => tx'.line = <<live.ring[1]>>)
  BY LineTaken
<1>q. ~Ready => tx'.line = <<>>
  BY LineTaken
<1>3. CASE ctl' = ctl /\ live.ring # <<>> /\ (Ready => tx'.line = <<live.ring[1]>>)
  <2>1. live.ring[1].asker = 0
    BY <1>3, <1>t, FromTail DEF Past
  <2>2. tx'.line = <<>> \/ (tx'.line # <<>> /\ tx'.line[1].asker = 0)
    <3>1. CASE Ready
      BY <3>1, <2>1, <1>3
    <3> QED BY <3>1, <1>q
  <2>3. h2 = h
    BY <2>2, <1>c, <1>n DEF Had
  <2> HIDE DEF h, h2
  <2> QED BY <1>3, <1>d, <2>2, <2>3, <1>c
<1>4. CASE ctl.ring # <<>> /\ ctl'.ring = Tail(ctl.ring) /\ (Ready => tx'.line = <<ctl.ring[1]>>)
  <2> DEFINE d == ctl.ring[1]
  <2>1. 1 \in DOMAIN ctl.ring
    BY <1>4, <1>t, FromTail
  <2>2. d.asker = c => Ready
    BY <1>2, <2>1 DEF Listening, Ready, Intact, LinkSane
  <2>3. tx'.line = <<>> \/ (tx'.line # <<>> /\ tx'.line[1] = d)
    <3>1. CASE Ready
      BY <3>1, <1>4
    <3> QED BY <3>1, <1>q
  <2>4. d.asker = c => tx'.line # <<>> /\ tx'.line[1] = d
    BY <2>2, <1>4
  <2>5. h2 \in Nat /\ (d.what = "record" /\ d.asker = c => h2 >= h + 1 \/ h2 >= Records)
    BY <2>3, <2>4, <1>n, <1>t DEF Had
  <2>6. PICK n \in Nat : n = Len(ctl.ring) /\ n >= 1 /\ DOMAIN ctl.ring = 1 .. n /\ DOMAIN ctl'.ring = 1 .. n - 1 /\ Len(ctl'.ring) = n - 1
    <3>1. ctl.ring \in Seq(Line) /\ Len(ctl.ring) \in Nat /\ Len(ctl.ring) >= 1 /\ DOMAIN ctl.ring = 1 .. Len(ctl.ring)
      BY <1>t, <2>1
    <3>2. Len(Tail(ctl.ring)) = Len(ctl.ring) - 1 /\ DOMAIN Tail(ctl.ring) = 1 .. Len(ctl.ring) - 1
      BY <3>1, <1>4
    <3> QED
      BY <3>1, <3>2, <1>4
  <2>7. h \in Nat
    BY <1>n, <1>t
  <2>8. ASSUME tx'.line # <<>>, tx'.line[1].what = "done", tx'.line[1].asker = c PROVE h = Records
    <3>1. Led(ctl.ring, h, c, 1, Records)
      BY <2>3, <2>8, <2>1, <1>d
    <3>2. 0 < Records => h >= Records
      BY <3>1, <1>t DEF Led
    <3> QED BY <3>2, <1>n, <1>t
  <2>11. h2 \in Nat /\ (ctl.ring[1].what = "record" /\ ctl.ring[1].asker = c => h2 >= h + 1 \/ h2 >= Records)
    BY <2>5
  <2> HIDE DEF h, h2, c, d
  <2>9. ASSUME NEW i \in DOMAIN ctl'.ring, ctl'.ring[i].what = "done", ctl'.ring[i].asker = c
        PROVE  Led(ctl'.ring, h2, c, i, Records)
    <3>1. i + 1 \in 2 .. n + 1 /\ i + 1 \in DOMAIN ctl.ring /\ ctl'.ring[i] = ctl.ring[i + 1] /\ (i + 1) - 1 = i
      BY <2>6, <1>4, <1>t
    <3>2. Led(ctl.ring, h, c, i + 1, Records)
      BY <2>9, <3>1, <1>d
    <3>3. Led(Tail(ctl.ring), h2, c, (i + 1) - 1, Records)
      <4>1. i + 1 \in 2 .. Len(ctl.ring) + 1 /\ Records \in 0 .. Records
        BY <3>1, <2>6, <1>t
      <4> QED BY <4>1, <3>2, <2>11, <2>7, <1>4, <1>t, LedTail
    <3> QED BY <3>1, <3>3, <1>4
  <2>10. ASSUME loop.out # <<>>, loop.asker = c, loop.out[Len(loop.out)] = "done"
         PROVE  Led(ctl'.ring, h2, c, Len(ctl'.ring) + 1, Records + 1 - Len(loop.out))
    <3>1. PICK m \in 0 .. Records : m = Records + 1 - Len(loop.out)
      <4>1. Len(loop.out) \in Nat /\ Len(loop.out) >= 1 /\ Len(loop.out) <= Records + 1
        BY <2>10, <1>t DEF Writing, Shaped
      <4>2. PICK k \in Nat : k = Len(loop.out) /\ k >= 1 /\ k <= Records + 1
        BY <4>1
      <4>3. Records + 1 - k \in 0 .. Records
        BY <4>2, <1>t
      <4> QED BY <4>2, <4>3
    <3>2. Led(ctl.ring, h, c, n + 1, m)
      BY <2>10, <3>1, <2>6, <1>d
    <3>3. Led(Tail(ctl.ring), h2, c, (n + 1) - 1, m)
      <4>1. n + 1 \in 2 .. Len(ctl.ring) + 1
        BY <2>6
      <4> QED BY <4>1, <3>2, <2>11, <2>7, <1>4, <1>t, LedTail
    <3>4. (n + 1) - 1 = Len(ctl'.ring) + 1
      BY <2>6
    <3> QED BY <3>1, <3>3, <3>4, <1>4
  <2> QED BY <2>8, <2>9, <2>10, <1>n
<1> QED BY <1>3, <1>4, <1>r

LEMMA AnsweringWrite ==
  ASSUME Types, LinkSane, Listening, Writing, Answering, WriteLine \/ WaitEnds
  PROVE  Answering'
<1>t. /\ ctl.ring \in Seq(Line) /\ air \in AirType /\ Records \in Nat /\ loop \in LoopType
      /\ loop.out \in Seq(What) /\ loop.out # <<>> /\ ctl.replyDrops \in Nat /\ loop.drops0 \in Nat
  BY RoomAssumption DEF Types, CtlOK, QueueType, AirOK, LoopOK, LoopType, WriteLine, WaitEnds
<1>1. UNCHANGED <<link, tx>>
  BY DEF WriteLine, WaitEnds
<1> DEFINE c == link.conn
           h == Had(tx.line, air, c)
<1>w. \A n : LET a == [air EXCEPT !.waits = n]
             IN a.records = air.records /\ a.ended = air.ended /\ a.junk = air.junk /\ a.lossy = air.lossy
  BY <1>t DEF AirType
<1>2. PICK l \in Line :
        /\ l.what = Head(loop.out) /\ l.asker = loop.asker /\ l.kind = KindOf(l.what) /\ l.kind \in {"reply", "final"}
        /\ \/ /\ ~Ready /\ loop.at = "write" /\ Written(ctl.replyDrops) /\ UNCHANGED <<ctl, air>>
           \/ /\ ctl'.ring = Append(ctl.ring, l) /\ ctl'.replyDrops = ctl.replyDrops
              /\ Written(ctl'.replyDrops) /\ air' = [air EXCEPT !.waits = 0]
           \/ /\ Ready /\ loop.at = "write" /\ loop' = [loop EXCEPT !.at = "wait", !.conn = link.conn] /\ ctl' = ctl
              /\ \/ l.kind = "reply" /\ ~ctl.stalled /\ air' = [air EXCEPT !.waits = air.waits + 1]
                 \/ air' = air
           \/ /\ ctl'.ring = ctl.ring /\ ctl'.replyDrops = ctl.replyDrops + 1 /\ ctl'.stalled
              /\ Written(ctl'.replyDrops) /\ air' = air
  BY LoopWrites
<1>a. air'.records = air.records /\ air'.ended = air.ended /\ air'.junk = air.junk /\ air'.lossy = air.lossy
  <2>1. air' = air \/ \E n : air' = [air EXCEPT !.waits = n]
    BY <1>2
  <2> QED BY <2>1, <1>w
<1>h. Heeding(air') = Heeding(air) /\ Had(tx'.line, air', c) = h /\ h \in Nat
  <2>1. Heeding(air) \in Nat
    BY <1>t DEF Heeding, AirType
  <2> QED BY <2>1, <1>1, <1>a, <1>t DEF Had, Heeding
<1>o. ASSUME NEW drops, Written(drops)
      PROVE  /\ loop'.out = IF Cut(drops) THEN <<"cut">> ELSE Tail(loop.out)
             /\ loop'.out # <<>> => loop'.asker = loop.asker
  BY <1>o, <1>t, WrittenLoop
<1>s. /\ Len(loop.out) > 1 => /\ l.what = "record" /\ Tail(loop.out)[Len(Tail(loop.out))] = loop.out[Len(loop.out)]
                              /\ Len(Tail(loop.out)) = Len(loop.out) - 1
      /\ Len(loop.out) = 1 => Tail(loop.out) = <<>> /\ l.what # "record" /\ l.what = loop.out[1]
  BY <1>t, <1>2, ShapedTail DEF Writing
<1>k. PICK k \in 1 .. Records + 1 : k = Len(loop.out)
  <2>1. Len(loop.out) >= 1 /\ Len(loop.out) <= Records + 1
    BY <1>t, ShapedTail DEF Writing
  <2> QED BY <2>1, <1>t
<1>x. Len(loop.out) > 1 \/ Len(loop.out) = 1
  <2>1. k > 1 \/ k = 1
    <3>1. Records + 1 \in Int
      BY RoomAssumption
    <3> QED BY <3>1
  <2> QED BY <1>k, <2>1
<1>3. CASE ~Ready /\ Written(ctl.replyDrops) /\ UNCHANGED <<ctl, air>>
  <2>1. Intact => loop.asker # c
    BY <1>3, <1>t DEF Listening, Intact, Ready, LinkSane
  <2>2. loop'.out # <<>> => loop'.asker = loop.asker
    BY <1>3, <1>o
  <2>3. Intact' = Intact /\ Had(tx.line, air, link.conn)' = Had(tx.line, air, link.conn) /\ Heeding(air)' = Heeding(air)
    BY <1>1, <1>3 DEF Intact, Had, Heeding
  <2> QED BY <1>1, <1>3, <2>1, <2>2, <2>3 DEF Answering
<1>4. CASE loop' = [loop EXCEPT !.at = "wait", !.conn = link.conn] /\ ctl' = ctl
  <2>1. loop'.out = loop.out /\ loop'.asker = loop.asker
    BY <1>4, <1>t DEF LoopType
  <2> QED BY <2>1, <1>1, <1>4, <1>a, AnswersKept
<1>5. CASE /\ ctl'.ring = ctl.ring /\ ctl'.replyDrops = ctl.replyDrops + 1
           /\ Written(ctl'.replyDrops) /\ air' = air
  <2>1. loop'.out \in {<<>>, <<"cut">>}
    <3>1. CASE Len(loop.out) > 1
      <4>1. Head(loop.out) = "record" /\ ctl'.replyDrops # loop.drops0
        BY <3>1, <1>2, <1>5, <1>s, <1>t DEF Writing
      <4>2. Cut(ctl'.replyDrops)
        BY <4>1 DEF Cut
      <4> QED BY <1>5, <1>o, <4>2
    <3>2. CASE Len(loop.out) = 1
      BY <3>2, <1>5, <1>o, <1>s
    <3> QED BY <3>1, <3>2, <1>x
  <2>2. loop'.out # <<>> => loop'.out[Len(loop'.out)] = "cut"
    BY <2>1
  <2>3. Intact' = Intact /\ Had(tx.line, air, link.conn)' = Had(tx.line, air, link.conn) /\ Heeding(air)' = Heeding(air)
    BY <1>1, <1>5 DEF Intact, Had, Heeding
  <2> QED BY <1>1, <1>5, <2>2, <2>3 DEF Answering
<1>6. CASE ctl'.ring = Append(ctl.ring, l) /\ Written(ctl'.replyDrops)
  <2>1. SUFFICES ASSUME Intact
                 PROVE  /\ \A i \in DOMAIN ctl'.ring :
                             ctl'.ring[i].what = "done" /\ ctl'.ring[i].asker = c => Led(ctl'.ring, h, c, i, Records)
                        /\ loop'.out # <<>> /\ loop'.asker = c /\ loop'.out[Len(loop'.out)] = "done"
                             => Led(ctl'.ring, h, c, Len(ctl'.ring) + 1, Records + 1 - Len(loop'.out))
    BY <1>1, <1>a, <1>h DEF Answering, Intact
  <2>d. /\ \A i \in DOMAIN ctl.ring : ctl.ring[i].what = "done" /\ ctl.ring[i].asker = c => Led(ctl.ring, h, c, i, Records)
        /\ loop.asker = c /\ loop.out[Len(loop.out)] = "done"
             => Led(ctl.ring, h, c, Len(ctl.ring) + 1, Records + 1 - Len(loop.out))
    BY <2>1, <1>t DEF Answering
  <2> HIDE DEF c, h
  <2>n. PICK n \in Nat : n = Len(ctl.ring) /\ DOMAIN ctl.ring = 1 .. n /\ Len(ctl'.ring) = n + 1 /\ DOMAIN ctl'.ring = 1 .. n + 1
                         /\ ctl'.ring[n + 1] = l /\ \A i \in 1 .. n : ctl'.ring[i] = ctl.ring[i]
    BY <1>6, <1>t
  <2>h. h \in Nat
    BY <1>h
  <2>2. ASSUME NEW i \in DOMAIN ctl'.ring, ctl'.ring[i].what = "done", ctl'.ring[i].asker = c
        PROVE  Led(ctl'.ring, h, c, i, Records)
    <3>1. Led(ctl.ring, h, c, i, Records)
      <4>1. CASE i \in 1 .. n
        BY <4>1, <2>2, <2>n, <2>d
      <4>2. CASE i = n + 1
        <5>1. l.what = "done" /\ loop.asker = c
          BY <4>2, <2>2, <2>n, <1>2
        <5>2. k = 1 /\ loop.out[1] = "done" /\ Records + 1 - k = Records
          <6>1. k = 1
            BY <5>1, <1>k, <1>s, <1>x
          <6>2. l.what = loop.out[1]
            BY <6>1, <1>k, <1>s
          <6> QED BY <5>1, <6>1, <6>2, <1>t
        <5> QED BY <4>2, <5>1, <5>2, <2>d, <1>k, <2>n
      <4> QED BY <4>1, <4>2, <2>n
    <3>2. i \in 1 .. Len(ctl.ring) + 1 /\ Records \in 0 .. Records
      BY <2>n, <1>t
    <3> QED BY <3>1, <3>2, <2>h, <1>6, <1>t, LedAppend
  <2>3. ASSUME loop'.out # <<>>, loop'.asker = c, loop'.out[Len(loop'.out)] = "done"
        PROVE  Led(ctl'.ring, h, c, Len(ctl'.ring) + 1, Records + 1 - Len(loop'.out))
    <3>1. loop'.out = Tail(loop.out) /\ loop.asker = c
      <4>1. <<"cut">>[Len(<<"cut">>)] # "done"
        OBVIOUS
      <4> QED BY <4>1, <2>3, <1>6, <1>o
    <3>2. k > 1
      BY <3>1, <2>3, <1>k, <1>s
    <3>3. /\ l.what = "record" /\ l.asker = c /\ loop.out[k] = "done" /\ Len(loop'.out) = k - 1
      BY <3>1, <3>2, <2>3, <1>k, <1>s, <1>2
    <3>4. PICK m \in 0 .. Records : m = Records + 1 - k
      <4>1. Records + 1 - k \in 0 .. Records
        BY <1>k, <1>t
      <4> QED BY <4>1
    <3>5. Led(ctl.ring, h, c, Len(ctl.ring) + 1, m)
      BY <3>1, <3>3, <3>4, <2>d, <1>k
    <3>6. Led(ctl'.ring, h, c, Len(ctl'.ring) + 1, m + 1)
      BY <3>3, <3>5, <2>h, <1>6, <1>t, LedNext
    <3>7. m + 1 = Records + 1 - Len(loop'.out)
      BY <3>3, <3>4, <1>k, <1>t
    <3> QED BY <3>6, <3>7
  <2> QED BY <2>2, <2>3
<1> QED BY <1>2, <1>3, <1>4, <1>5, <1>6

LEMMA AnsweringStep ==
  ASSUME Types, LinkSane, Past, Listening, Writing, Answering, [BleNext]_bleVars
  PROVE  Answering'
<1>t. /\ link \in LinkType /\ link.conn \in Nat /\ tx.conn \in Nat /\ air \in AirType /\ loop \in LoopType /\ ctl \in QueueType
      /\ tx.line \in AtMostOne /\ ctl.ring \in Seq(Line)
  BY BoundAssumption DEF Types, LinkOK, LinkType, CtlOK, QueueType, AirOK, LoopOK, TxOK, TxType
<1>l. \A l \in Line : l.asker \in Nat
  BY BoundAssumption DEF Line
<1>1. ASSUME NEW p \in Phones, NEW h \in Handles, BleConnect(p, h) PROVE Answering'
  <2>1. /\ link'.conn = link.conn + 1 /\ link'.up /\ ~link.up /\ UNCHANGED <<ctl, loop, tx, air>>
    BY <1>1 DEF BleConnect, NoLink
  <2>2. \A n \in Nat : n <= link.conn => n # link.conn + 1
    BY <1>t
  <2>3. \A i \in DOMAIN ctl.ring : ctl.ring[i].asker # link.conn + 1
    BY <2>2, <1>t, <1>l DEF Past
  <2>4. loop.asker # link.conn + 1
    BY <1>t DEF Past
  <2>5. tx.line # <<>> => tx.line[1].asker # link.conn + 1
    BY <1>t DEF Past
  <2>6. air.ended = "no"
    BY <2>1 DEF Answering
  <2> QED BY <2>1, <2>3, <2>4, <2>5, <2>6 DEF Answering
<1>2. CASE BleDisconnect
  <2>1. ~link'.up /\ air'.ended = "no" /\ ~air'.junk
    BY <1>2 DEF BleDisconnect, NoLink, Nothing
  <2> QED BY <2>1 DEF Answering, Intact
<1>3. ASSUME NEW on \in BOOLEAN, Subscribe(on) PROVE Answering'
  <2>1. /\ link'.conn = link.conn /\ link'.up = link.up /\ UNCHANGED <<ctl, tx, loop>>
        /\ air'.records = air.records /\ air'.ended = air.ended /\ air'.junk = air.junk /\ (air.lossy => air'.lossy)
    BY <1>3, <1>t DEF Subscribe, LinkType, AirType
  <2> QED BY <2>1, AnswersKept
<1>4. ASSUME NEW cmd \in Commands, WriteEnd(cmd) PROVE Answering'
  <2>1. /\ UNCHANGED <<link, ctl, tx, loop>>
        /\ air'.records = air.records /\ air'.ended = air.ended /\ air'.junk = air.junk /\ (air.lossy => air'.lossy)
    BY <1>4, <1>t DEF WriteEnd, AirType
  <2> QED BY <2>1, AnswersKept
<1>5. CASE Rid
  <2>1. UNCHANGED <<link, ctl, tx, loop, air>>
    BY <1>5 DEF Rid
  <2> QED BY <2>1, AnswersKept
<1>6. CASE RunCommand
  <2>1. /\ UNCHANGED <<link, ctl, tx, air>> /\ rxq[1].cmd \in AllCommands /\ loop'.out = Answer(rxq[1].cmd)
    BY <1>6, CommandTaken
  <2>2. loop'.out[Len(loop'.out)] = "done" => Len(loop'.out) = Records + 1
    BY <2>1, AnswerOut
  <2>3. \A had, c : Led(ctl.ring, had, c, Len(ctl.ring) + 1, 0)
    BY <1>t DEF Led
  <2>4. Len(loop'.out) = Records + 1 => Records + 1 - Len(loop'.out) = 0
    BY RoomAssumption
  <2>5. loop'.out[Len(loop'.out)] = "done" => Records + 1 - Len(loop'.out) = 0
    BY <2>2, <2>4
  <2>6. Intact' = Intact /\ Had(tx.line, air, link.conn)' = Had(tx.line, air, link.conn) /\ Heeding(air)' = Heeding(air)
    BY <2>1 DEF Intact, Had, Heeding
  <2> QED BY <2>1, <2>3, <2>5, <2>6 DEF Answering
<1>7. CASE WriteLine \/ WaitEnds
  BY <1>7, AnsweringWrite
<1>8. CASE TakeLine
  BY <1>8, AnsweringTake
<1>9. CASE SendSlice
  <2>1. /\ UNCHANGED <<link, ctl, loop>> /\ tx'.line = tx.line
        /\ air'.records = air.records /\ air'.ended = air.ended /\ air'.junk = air.junk /\ air'.lossy = air.lossy
    BY <1>9, SliceHeard DEF SendSlice
  <2> QED BY <2>1, AnswersKept
<1>10. CASE SendLast
  <2> DEFINE l == tx.line[1]
  <2>1. l \in Line /\ tx.line = <<l>> /\ tx.line # <<>> /\ link.up
    BY <1>10, LastHeard
  <2>2. /\ UNCHANGED <<link, ctl, loop>> /\ tx'.line = <<>> /\ air'.lossy = Heard(l).lossy /\ air'.junk = Heard(l).junk
        /\ air'.records = Heard(l).records /\ air'.ended = Heard(l).ended
    BY <1>10, LastHeard DEF SendLast
  <2>h. Heeding(air') = Heeding(Heard(l))
    BY <2>2 DEF Heeding
  <2> HIDE DEF l
  <2>3. air'.lossy = air.lossy /\ ~air'.junk
    BY <2>1, <2>2, <1>t, HeardIs
  <2>4. SUFFICES ASSUME Intact
                 PROVE  /\ Heeding(air') = Had(tx.line, air, link.conn)
                        /\ air'.ended = "done" => air'.records = Records
    BY <2>1, <2>2, <2>3 DEF Answering, Intact, Had, Heeding
  <2>5. ~air.junk
    BY <2>4 DEF Answering, Intact
  <2>6. /\ l.what = "done" /\ l.asker = link.conn => Heeding(air) = Records
        /\ air.ended = "done" => air.records = Records
    BY <2>1, <2>4 DEF Answering
  <2>7. CASE l.asker = link.conn
    BY <2>1, <2>2, <2>h, <2>5, <2>6, <2>7, <1>t, HeardIs
  <2>8. CASE l.asker # link.conn
    <3>1. air'.records = air.records /\ air'.ended = air.ended
      BY <2>1, <2>2, <2>8, <1>t, HeardIs
    <3>2. Had(tx.line, air, link.conn) = Heeding(air)
      BY <2>1, <2>8 DEF Had
    <3> QED BY <3>1, <3>2, <2>6 DEF Heeding
  <2> QED BY <2>7, <2>8
<1>11. CASE BleGiveUp
  <2>1. UNCHANGED <<link, ctl, loop>> /\ tx'.line = <<>> /\ tx.line # <<>>
    BY <1>11 DEF BleGiveUp, Asleep
  <2>2. CASE link.up /\ (~Astray \/ air.part # <<>>)
    <3>1. air'.lossy /\ link'.up
      BY <1>11, <1>t, <2>1, <2>2 DEF BleGiveUp, AirType
    <3> QED BY <3>1 DEF Answering, Intact
  <2>3. CASE ~(link.up /\ (~Astray \/ air.part # <<>>))
    <3>1. air' = air
      BY <1>11, <2>3 DEF BleGiveUp
    <3>2. link.up => Had(tx'.line, air, link.conn) = Had(tx.line, air, link.conn)
      <4>1. link.up => tx.line[1].asker # link.conn
        <5>1. tx.line[1] \in Line
          BY <2>1, <1>t DEF AtMostOne
        <5> QED BY <5>1, <2>1, <2>3, <1>t, <1>l DEF Past, Astray
      <4> QED BY <4>1, <2>1 DEF Had
    <3> QED BY <2>1, <3>1, <3>2 DEF Answering, Intact, Had, Heeding
  <2> QED BY <2>2, <2>3
<1>12. CASE PairedWithCode \/ PairedOtherwise \/ StoreKeys \/ WritePiece \/ UNCHANGED bleVars
  <2>1. /\ UNCHANGED <<ctl, loop, tx, air>> /\ link'.conn = link.conn /\ link'.up = link.up
    BY <1>12, LeftAlone
  <2> QED BY <2>1, AnswersKept
<1>13. CASE BeginPass \/ EndPoll \/ CheckPairing \/ Tick
  <2>1. /\ UNCHANGED <<ctl, tx, air>> /\ link'.conn = link.conn /\ link'.up = link.up
        /\ loop'.out = <<>> \/ (loop'.out = loop.out /\ loop'.asker = loop.asker)
    BY <1>13, LeftAlone
  <2> QED BY <2>1, AnswersKept
<1> QED BY <1>1, <1>2, <1>3, <1>4, <1>5, <1>6, <1>7, <1>8, <1>9, <1>10, <1>11, <1>12, <1>13 DEF BleNext, HostTask, LoopSteps, NotifyTask

\* A peer that was listening since it asked and hears the end of its answer,
\* without an error and with no line given up on the way, has every record of
\* it; and a host that does not read costs the loop one wait (emit_log,
\* ble_sink_enqueue, host_outq_put).
THEOREM AnswersAreTold == BleSpec => []ToldWhole
<1> DEFINE Inv == Types /\ LinkSane /\ Past /\ Listening /\ Writing /\ Answering /\ WaitsOnce
<1>1. BleInit => Inv
  <2> SUFFICES ASSUME BleInit PROVE Inv
    OBVIOUS
  <2>1. /\ ~link.up /\ link.conn = 0 /\ rxq = <<>> /\ ctl.ring = <<>> /\ live.ring = <<>> /\ tx.line = <<>> /\ tx.conn = 0
        /\ loop.out = <<>> /\ loop.asker = 0 /\ loop.drops0 = 0 /\ ctl.replyDrops = 0
        /\ air.ended = "no" /\ ~air.junk /\ air.waits = 0
    BY DEF BleInit, NoLink, EmptyQ, Idle, Asleep, Nothing
  <2>2. Past /\ Listening /\ Answering /\ WaitsOnce
    BY <2>1 DEF Past, Listening, Answering, Intact, WaitsOnce
  <2>3. Writing
    BY <2>1, RoomAssumption DEF Writing, Shaped
  <2> QED BY <2>2, <2>3, InitTypes
<1>2. Inv /\ [BleNext]_bleVars => Inv'
  BY TypesStep, PastStep, ListeningStep, WritingStep, AnsweringStep, WaitsStep
<1>3. Inv => ToldWhole
  <2>1. ASSUME Inv PROVE air.ended = "done" /\ ~air.lossy => air.records = Records
    BY <2>1 DEF Answering, Intact
  <2>2. ASSUME Inv PROVE air.waits <= 1
    BY <2>2 DEF WaitsOnce
  <2> QED BY <2>1, <2>2 DEF ToldWhole
<1> QED BY <1>1, <1>2, <1>3, PTL DEF BleSpec

\* Both together: what a peer hears and what is run for it is its own, and
\* whole or told cut.
THEOREM LinesReachRight == BleSpec => []LinesRight
<1>1. OwnLines /\ ToldWhole <=> LinesRight
  BY DEF LinesRight
<1> QED BY <1>1, LinesAreOwn, AnswersAreTold, PTL

-----------------------------------------------------------------------------
(***************************************************************************)
(* That the radios are handed over, and back (HandedOver), for every list   *)
(* of channels and every number of turns, ends of scans and refusals.       *)
(*                                                                         *)
(* The argument: until the scan changes between what a task knows of it and *)
(* its write of the flag, a task that is about to write the flag will write *)
(* what is so, and a flag that is wrong has such a task. So a view that is   *)
(* seen on finds a flag that is right, or the host task on its way to start *)
(* a scan; and with the view off somebody scans, is about to, or was        *)
(* refused. A hop that comes late was decided on before the radios were      *)
(* taken, and the next one is decided on after.                            *)
(***************************************************************************)
\* How far the tasks are.
TasksOK ==
  /\ task \in [Who -> {"idle", "complete", "hook", "start", "cancel", "started", "refused"}]
  /\ task["loop"] \notin {"complete", "hook"} /\ task["host"] # "cancel"
  /\ {view, held, was, flag, scanning, denied, overtaken, crossed} \subseteq BOOLEAN /\ ~(view /\ held)
  /\ hopsHeld \in Nat

\* What a task will write is what its call came to; and a flag that is wrong
\* has a task that will write it.
FlagOwed ==
  /\ \A w \in Who : Pending(w) => (task[w] = "started" <=> scanning)
  /\ (flag <=> scanning) \/ \E w \in Who : Pending(w)

\* The loop stops a scan only for the view, and where the view was seen in time
\* nobody starts one and what goes on is about to be stopped.
ViewHas ==
  /\ task["loop"] = "cancel" => was
  /\ view /\ was /\ ~overtaken =>
       /\ \A w \in Who : task[w] \notin {"start", "started"}
       /\ scanning => task["loop"] = "cancel"

\* With the view off a scan goes on, or somebody is about to start one; who is
\* about to write that it was refused had the last start.
BoardHas ==
  /\ task["host"] = "refused" => denied
  /\ task["loop"] = "refused" /\ ~was => denied
  /\ ~view /\ ~was => scanning \/ denied \/ \E w \in Who : task[w] \in {"complete", "hook", "start"}

\* A hop that is late was decided on before the radios were taken.
LateHop ==
  /\ hopsHeld <= 1
  /\ ~view /\ ~held => hopsHeld = 0
  /\ view /\ timer \in {"ours", "hop"} => hopsHeld = 0
  /\ held /\ timer = "hop" => hopsHeld = 0

RadioInv == TasksOK /\ LateHop /\ (~crossed => FlagOwed /\ ViewHas /\ BoardHas)

-----------------------------------------------------------------------------
LEMMA RadioInitInv == RadioInit => RadioInv
<1> SUFFICES ASSUME RadioInit PROVE RadioInv
  OBVIOUS
<1>1. TasksOK
  BY DEF RadioInit, TasksOK, Who
<1>2. FlagOwed /\ ViewHas /\ BoardHas
  BY DEF RadioInit, FlagOwed, ViewHas, BoardHas, Pending, Who
<1>3. LateHop
  BY DEF RadioInit, LateHop
<1> QED
  BY <1>1, <1>2, <1>3 DEF RadioInv

\* The timer task's steps leave the scan alone.
LEMMA TimerKeeps ==
  ASSUME RadioInv, TimerStep
  PROVE  RadioInv'
<1>1. UNCHANGED <<view, held, was, Scan>>
  BY DEF TimerStep, HopReads, HopDecides, HopSets, HopRearms
<1>2. LateHop'
  <2>1. CASE HopReads
    BY <2>1 DEF RadioInv, LateHop, HopReads
  <2>2. CASE HopDecides
    BY <2>2 DEF RadioInv, LateHop, HopDecides, MayHop
  <2>3. CASE HopSets
    BY <2>3 DEF RadioInv, TasksOK, LateHop, HopSets
  <2>4. CASE HopRearms
    BY <2>4 DEF RadioInv, LateHop, HopRearms, Rearmed
  <2> QED
    BY <2>1, <2>2, <2>3, <2>4 DEF TimerStep
<1>3. hopsHeld' \in Nat
  BY DEF RadioInv, TasksOK, TimerStep, HopReads, HopDecides, HopSets, HopRearms
<1> QED
  BY <1>1, <1>2, <1>3 DEF RadioInv, TasksOK, FlagOwed, ViewHas, BoardHas, Pending, Scan

\* A start: whoever was about to write that nothing scans has been crossed.
LEMMA StartKeeps ==
  ASSUME RadioInv, NEW w \in Who, StartScan(w)
  PROVE  TasksOK' /\ (~crossed' => FlagOwed' /\ ViewHas' /\ BoardHas')
<1> USE DEF Who
<1>1. TasksOK'
  BY DEF StartScan, RadioInv, TasksOK
<1>2. ASSUME ~crossed'
      PROVE  FlagOwed' /\ ViewHas' /\ BoardHas'
  <2>1. /\ ~crossed /\ FlagOwed /\ ViewHas /\ BoardHas
        /\ scanning' # scanning => \A x \in Who \ {w} : ~Pending(x)
    BY <1>2 DEF RadioInv, StartScan, Crosses
  <2>2. FlagOwed'
    BY <2>1 DEF StartScan, RadioInv, TasksOK, FlagOwed, Pending
  <2>3. ViewHas'
    BY <2>1 DEF StartScan, RadioInv, TasksOK, ViewHas
  <2>4. BoardHas'
    <3>1. scanning' \/ denied'
      <4>1. PICK ok \in BOOLEAN : scanning' = ok /\ denied' = ~ok
        BY Zenon DEF StartScan
      <4> QED
        BY <4>1
    <3>2. \A x \in Who : task'[x] = "refused" => denied' \/ (x # w /\ ~denied' /\ Pending(x))
      BY DEF StartScan, RadioInv, TasksOK, Pending
    <3>3. \A x \in Who \ {w} : task[x] = "refused" => denied'
      BY <2>1, <3>1 DEF StartScan, FlagOwed, Pending
    <3> QED
      BY <3>1, <3>2, <3>3 DEF BoardHas, StartScan, RadioInv, TasksOK
  <2> QED
    BY <2>2, <2>3, <2>4
<1> QED
  BY <1>1, <1>2

\* A stop is the loop's, for the view.
LEMMA CancelKeeps ==
  ASSUME RadioInv, NEW w \in Who, CancelScan(w)
  PROVE  TasksOK' /\ (~crossed' => FlagOwed' /\ ViewHas' /\ BoardHas')
<1> USE DEF Who
<1>1. TasksOK'
  BY DEF CancelScan, RadioInv, TasksOK
<1>2. ASSUME ~crossed'
      PROVE  FlagOwed' /\ ViewHas' /\ BoardHas'
  <2>1. /\ ~crossed /\ FlagOwed /\ ViewHas /\ BoardHas
        /\ scanning' # scanning => \A x \in Who \ {w} : ~Pending(x)
        /\ w = "loop"
    BY <1>2 DEF RadioInv, CancelScan, Crosses, TasksOK
  <2>2. FlagOwed'
    BY <2>1 DEF CancelScan, RadioInv, TasksOK, FlagOwed, Pending
  <2>3. ViewHas'
    BY <2>1 DEF CancelScan, RadioInv, TasksOK, ViewHas
  <2>4. BoardHas'
    BY <2>1 DEF CancelScan, RadioInv, TasksOK, ViewHas, BoardHas
  <2> QED
    BY <2>2, <2>3, <2>4
<1> QED
  BY <1>1, <1>2

\* The host task's own steps, and either task's write of the flag.
LEMMA HostKeeps ==
  ASSUME RadioInv, ScanComplete \/ ScanAgain \/ EndScan \/ \E w \in Who : NoteScan(w)
  PROVE  TasksOK' /\ (~crossed' => FlagOwed' /\ ViewHas' /\ BoardHas')
<1> USE DEF Who
<1>1. TasksOK'
  <2>1. CASE ScanComplete
    BY <2>1 DEF ScanComplete, RadioInv, TasksOK, FlagCleared
  <2>3. CASE ScanAgain
    BY <2>3 DEF ScanAgain, RadioInv, TasksOK, Called
  <2>4. CASE EndScan
    BY <2>4 DEF EndScan, RadioInv, TasksOK
  <2>2. ASSUME NEW w \in Who, NoteScan(w)
        PROVE  TasksOK'
    BY <2>2 DEF NoteScan, RadioInv, TasksOK
  <2> QED
    BY <2>1, <2>2, <2>3, <2>4
<1>2. ASSUME ~crossed'
      PROVE  FlagOwed' /\ ViewHas' /\ BoardHas'
  <2>a. crossed => crossed'
    BY DEF RadioInv, TasksOK, ScanComplete, ScanAgain, EndScan, NoteScan, Crosses
  <2>1. ~crossed /\ FlagOwed /\ ViewHas /\ BoardHas
    BY <1>2, <2>a DEF RadioInv
  <2>2. CASE ScanComplete
    BY <2>1, <2>2 DEF ScanComplete, RadioInv, TasksOK, FlagOwed, ViewHas, BoardHas, Pending, FlagCleared
  <2>3. CASE ScanAgain
    BY <2>1, <2>3 DEF ScanAgain, RadioInv, TasksOK, FlagOwed, ViewHas, BoardHas, Pending, Called
  <2>4. CASE EndScan
    BY <1>2, <2>1, <2>4 DEF EndScan, RadioInv, TasksOK, FlagOwed, ViewHas, BoardHas, Pending, Crosses
  <2>5. ASSUME NEW w \in Who, NoteScan(w)
        PROVE  FlagOwed' /\ ViewHas' /\ BoardHas'
    BY <2>1, <2>5 DEF NoteScan, RadioInv, TasksOK, FlagOwed, ViewHas, BoardHas, Pending
  <2> QED
    BY <2>2, <2>3, <2>4, <2>5
<1> QED
  BY <1>1, <1>2

\* The steps of the scan leave the hop alone.
LEMMA ScanKeeps ==
  ASSUME RadioInv, ScanStep \/ EndScan
  PROVE  RadioInv'
<1>1. UNCHANGED <<view, held, timer, hopsHeld>>
  BY DEF ScanStep, EndScan, ScanComplete, ScanAgain, StartScan, CancelScan, NoteScan, Hopping
<1>2. TasksOK' /\ (~crossed' => FlagOwed' /\ ViewHas' /\ BoardHas')
  BY StartKeeps, CancelKeeps, HostKeeps DEF ScanStep
<1> QED
  BY <1>1, <1>2 DEF RadioInv, LateHop

\* The loop's turns start the count of late hops anew; a view that is seen
\* finds what it needs to know in the flag, or the host task starting.
LEMMA LoopKeeps ==
  ASSUME RadioInv, TurnView \/ HoldHop \/ SeeView \/ SweepView
  PROVE  RadioInv'
<1> USE DEF RadioInv
<1>1. CASE TurnView
  BY <1>1 DEF TurnView, TasksOK, FlagOwed, ViewHas, BoardHas, Pending, LateHop, Hopping, Scan, Who
<1>2. CASE HoldHop
  BY <1>2 DEF HoldHop, TasksOK, FlagOwed, ViewHas, BoardHas, Pending, LateHop, Hopping, Scan, Who
<1>3. CASE SeeView
  <2>1. TasksOK' /\ LateHop' /\ (crossed' <=> crossed)
    BY <1>3 DEF SeeView, TasksOK, LateHop, Hopping, HandOver, Called, Who
  <2>2. ~crossed => FlagOwed'
    BY <1>3 DEF SeeView, TasksOK, FlagOwed, Pending, HandOver, Called, Who
  <2>3. ~crossed => ViewHas'
    BY <1>3 DEF SeeView, TasksOK, FlagOwed, ViewHas, Pending, HandOver, Called, Who
  <2>4. ~crossed => BoardHas'
    BY <1>3 DEF SeeView, TasksOK, FlagOwed, BoardHas, Pending, HandOver, Called, Who
  <2> QED
    BY <2>1, <2>2, <2>3, <2>4
<1>4. CASE SweepView
  BY <1>4 DEF SweepView, TasksOK, FlagOwed, ViewHas, BoardHas, Pending, LateHop, Scan, Who
<1> QED
  BY <1>1, <1>2, <1>3, <1>4

LEMMA InvHandsOver == RadioInv => HandedOver
<1> SUFFICES ASSUME RadioInv PROVE HandedOver
  OBVIOUS
<1>1. FlagRight
  BY DEF RadioInv, TasksOK, FlagOwed, FlagRight, Settled, Pending, Who
<1>2. ScanGiven
  BY DEF RadioInv, TasksOK, ViewHas, ScanGiven, Settled, Who
<1>3. ScanBack
  BY DEF RadioInv, TasksOK, BoardHas, ScanBack, Settled, Who
<1>4. ChannelLeft
  BY DEF RadioInv, LateHop, ChannelLeft
<1> QED
  BY <1>1, <1>2, <1>3, <1>4 DEF HandedOver

\* Bluetooth is handed to the view and back, the flag says whether it is
\* scanned, and the hop sets the channel at most once more when the view or the
\* network has it (rx_ble_scan, rx_gap_event, rx_tick and hop_cb), on every
\* board and whatever its tasks do at the same time; the two orders in which
\* the code does not do so are named in the property (overtaken, crossed).
THEOREM RadiosHandedOver == RadioSpec => []HandedOver
<1>1. RadioInit => RadioInv
  BY RadioInitInv
<1>2. RadioInv /\ [RadioNext]_radioVars => RadioInv'
  <2> SUFFICES ASSUME RadioInv, [RadioNext]_radioVars PROVE RadioInv'
    OBVIOUS
  <2>1. CASE UNCHANGED radioVars
    BY <2>1 DEF radioVars, RadioInv, TasksOK, FlagOwed, ViewHas, BoardHas, Pending, LateHop
  <2> QED
    BY <2>1, TimerKeeps, ScanKeeps, LoopKeeps DEF RadioNext
<1> QED
  BY <1>1, <1>2, InvHandsOver, PTL DEF RadioSpec
-----------------------------------------------------------------------------
(***************************************************************************)
(* That the phone scans for its leases, at the duty of its power policy, and *)
(* asks for no more starts than Android allows (ScanAsHeld), for every       *)
(* number of clients, starts, failures and turns of the adapter.             *)
(*                                                                         *)
(* The argument: the scan is the one the app thinks it is; it and the start  *)
(* that is under way cover every lease that is held, and the start the lease *)
(* it is made for too, which no other change asks for; with nobody left a    *)
(* change waits that will see so, behind the one under way; and a scan at    *)
(* another duty has a forced change waiting, so that none of the three can be *)
(* wrong once nothing waits. The starts that count are the last ones; who     *)
(* finds MaxStarts of them sleeps until just the first has left the window.  *)
(***************************************************************************)
-----------------------------------------------------------------------------
(* The starts within the window *)

InOrder(ages) == ages \in Seq(0 .. StartWindow) /\ \A i, j \in DOMAIN ages : i <= j => ages[j] <= ages[i]
InWindow(ages) == \A i \in DOMAIN ages : ages[i] < StartWindow

LEMMA Smallest ==
  ASSUME NEW T \in SUBSET Nat, T # {}
  PROVE  \E d \in T : \A e \in T : d <= e
<1>1. PICK d \in T : \A e \in T : ~(<<e, d>> \in OpToRel(<, Nat))
  BY NatLessThanWellFounded, WFMin, Zenon
<1>2. \A e \in T : ~(e < d)
  BY <1>1 DEF OpToRel
<1> QED
  BY <1>2

LEMMA FirstOf ==
  ASSUME NEW S, NEW s \in Seq(S), s # <<>>
  PROVE  1 \in DOMAIN s /\ s[1] \in S
OBVIOUS

LEMMA Ending ==
  ASSUME NEW S, NEW s \in Seq(S), NEW m \in 1 .. Len(s) + 1
  PROVE  /\ SubSeq(s, m, Len(s)) \in Seq(S) /\ Len(SubSeq(s, m, Len(s))) = Len(s) + 1 - m
         /\ \A i \in 1 .. Len(s) + 1 - m : i + m - 1 \in 1 .. Len(s) /\ SubSeq(s, m, Len(s))[i] = s[i + m - 1]
<1>1. PICK k \in Nat : k = Len(s)
  OBVIOUS
<1>2. m \in 1 .. k + 1 /\ DOMAIN s = 1 .. k
  BY <1>1
<1>3. SubSeq(s, m, k) = [i \in 1 .. (k + 1) - m |-> s[(i + m) - 1]]
  BY <1>2
<1>4. \A i \in 1 .. (k + 1) - m : (i + m) - 1 \in 1 .. k
  BY <1>2
<1>5. SubSeq(s, m, k) \in Seq(S) /\ Len(SubSeq(s, m, k)) = (k + 1) - m
  BY <1>1, <1>2, <1>3, <1>4
<1>6. \A i \in 1 .. (k + 1) - m : SubSeq(s, m, k)[i] = s[(i + m) - 1]
  BY <1>3
<1> QED
  BY <1>1, <1>4, <1>5, <1>6

LEMMA FirstFreshIs ==
  ASSUME NEW s, InOrder(s)
  PROVE  /\ FirstFresh(s) \in 1 .. Len(s) + 1
         /\ \A i \in DOMAIN s : (s[i] < StartWindow) <=> FirstFresh(s) <= i
<1> DEFINE T == {n \in 1 .. Len(s) + 1 : n = Len(s) + 1 \/ s[n] < StartWindow}
<1>0. Len(s) \in Nat /\ DOMAIN s = 1 .. Len(s) /\ StartWindow \in Nat /\ \A i \in DOMAIN s : s[i] \in Nat
  BY PhoneScanAssumption DEF InOrder
<1>1. T \in SUBSET Nat /\ Len(s) + 1 \in T
  BY <1>0
<1>2. PICK n \in T : \A m \in T : n <= m
  BY <1>1, Smallest
<1>3. \A i \in DOMAIN s : (s[i] < StartWindow) <=> n <= i
  <2> TAKE i \in DOMAIN s
  <2>1. s[i] < StartWindow => n <= i
    BY <1>0, <1>2
  <2>2. n <= i => s[i] < StartWindow
    BY <1>0, <1>2 DEF InOrder
  <2> QED
    BY <2>1, <2>2
<1> QED
  BY <1>2, <1>3 DEF FirstFresh

LEMMA FreshStarts ==
  ASSUME NEW s, InOrder(s), NEW n \in 1 .. Len(s) + 1, \A i \in DOMAIN s : (s[i] < StartWindow) <=> n <= i
  PROVE  FirstFresh(s) = n
<1> DEFINE f == FirstFresh(s)
<1>1. f \in 1 .. Len(s) + 1 /\ \A i \in DOMAIN s : (s[i] < StartWindow) <=> f <= i
  BY FirstFreshIs
<1>2. Len(s) \in Nat /\ DOMAIN s = 1 .. Len(s)
  BY DEF InOrder
<1> HIDE DEF f
<1>3. ~(f < n)
  <2> SUFFICES ASSUME f < n PROVE FALSE
    OBVIOUS
  <2>1. f \in DOMAIN s
    BY <1>1, <1>2
  <2> QED
    BY <1>1, <2>1
<1>4. ~(n < f)
  <2> SUFFICES ASSUME n < f PROVE FALSE
    OBVIOUS
  <2>1. n \in DOMAIN s
    BY <1>1, <1>2
  <2> QED
    BY <1>1, <2>1
<1>5. f = n
  BY <1>1, <1>2, <1>3, <1>4
<1> QED
  BY <1>5 DEF f

LEMMA FreshParts ==
  ASSUME NEW s, InOrder(s)
  PROVE  /\ Fresh(s) \in Seq(0 .. StartWindow) /\ Len(Fresh(s)) = Len(s) + 1 - FirstFresh(s)
         /\ \A i \in 1 .. Len(Fresh(s)) : Fresh(s)[i] = s[i + FirstFresh(s) - 1]
         /\ InOrder(Fresh(s)) /\ InWindow(Fresh(s))
<1> DEFINE f == FirstFresh(s)
           t == Fresh(s)
<1>1. f \in 1 .. Len(s) + 1 /\ \A i \in DOMAIN s : (s[i] < StartWindow) <=> f <= i
  BY FirstFreshIs
<1>2. s \in Seq(0 .. StartWindow) /\ Len(s) \in Nat /\ DOMAIN s = 1 .. Len(s)
  BY DEF InOrder
<1>3. t = SubSeq(s, f, Len(s))
  BY DEF Fresh
<1> HIDE DEF f, t
<1>4. t \in Seq(0 .. StartWindow) /\ Len(t) = Len(s) + 1 - f
  BY <1>1, <1>2, <1>3, Ending
<1>5. \A i \in 1 .. Len(t) : i + f - 1 \in DOMAIN s /\ t[i] = s[i + f - 1]
  BY <1>1, <1>2, <1>3, <1>4, Ending
<1>0. PICK k \in Nat : k = Len(t)
  BY <1>4
<1>8. DOMAIN t = 1 .. k
  BY <1>0, <1>4
<1>6. InOrder(t)
  <2> SUFFICES ASSUME NEW i \in 1 .. k, NEW j \in 1 .. k, i <= j PROVE t[j] <= t[i]
    BY <1>4, <1>8 DEF InOrder
  <2>1. i + f - 1 \in DOMAIN s /\ j + f - 1 \in DOMAIN s /\ t[i] = s[i + f - 1] /\ t[j] = s[j + f - 1]
    BY <1>0, <1>5
  <2>2. i + f - 1 <= j + f - 1
    BY <1>1, <1>2
  <2> QED
    BY <2>1, <2>2 DEF InOrder
<1>7. InWindow(t)
  <2> SUFFICES ASSUME NEW i \in 1 .. k PROVE t[i] < StartWindow
    BY <1>8 DEF InWindow
  <2>1. i + f - 1 \in DOMAIN s /\ t[i] = s[i + f - 1]
    BY <1>0, <1>5
  <2>2. f <= i + f - 1
    BY <1>1, <1>2
  <2> QED
    BY <1>1, <2>1, <2>2
<1> QED
  BY <1>4, <1>5, <1>6, <1>7 DEF f, t

LEMMA FreshStays ==
  ASSUME NEW s, InOrder(s), InWindow(s)
  PROVE  Fresh(s) = s
<1>1. s \in Seq(0 .. StartWindow) /\ Len(s) \in Nat /\ DOMAIN s = 1 .. Len(s)
  BY DEF InOrder
<1>2. FirstFresh(s) = 1
  BY <1>1, FreshStarts DEF InWindow
<1>3. Fresh(s) = SubSeq(s, 1, Len(s))
  BY <1>2 DEF Fresh
<1> QED
  BY <1>1, <1>3

LEMMA OneMoreStart ==
  ASSUME NEW s, InOrder(s), InWindow(s)
  PROVE  InOrder(Append(s, 0)) /\ InWindow(Append(s, 0)) /\ Len(Append(s, 0)) = Len(s) + 1
<1> DEFINE t == Append(s, 0)
<1>1. s \in Seq(0 .. StartWindow) /\ Len(s) \in Nat /\ DOMAIN s = 1 .. Len(s) /\ StartWindow \in Nat \ {0}
  BY PhoneScanAssumption DEF InOrder
<1>2. t \in Seq(0 .. StartWindow) /\ Len(t) = Len(s) + 1 /\ DOMAIN t = 1 .. Len(s) + 1 /\ t[Len(s) + 1] = 0
      /\ \A i \in DOMAIN s : t[i] = s[i]
  BY <1>1
<1> HIDE DEF t
<1>3. InOrder(t)
  <2> SUFFICES ASSUME NEW i \in DOMAIN t, NEW j \in DOMAIN t, i <= j PROVE t[j] <= t[i]
    BY <1>2 DEF InOrder
  <2>1. CASE j = Len(s) + 1
    BY <1>1, <1>2, <2>1
  <2>2. CASE j # Len(s) + 1
    <3>1. i \in DOMAIN s /\ j \in DOMAIN s
      BY <1>1, <1>2, <2>2
    <3> QED
      BY <1>2, <3>1 DEF InOrder
  <2> QED
    BY <2>1, <2>2
<1>4. InWindow(t)
  BY <1>1, <1>2 DEF InWindow
<1> QED
  BY <1>2, <1>3, <1>4 DEF t

LEMMA OlderStarts ==
  ASSUME NEW s, InOrder(s)
  PROVE  /\ InOrder(Older(s)) /\ Len(Older(s)) = Len(s)
         /\ \A i \in DOMAIN s : Older(s)[i] = IF s[i] < StartWindow THEN s[i] + 1 ELSE StartWindow
<1> DEFINE t == Older(s)
<1>1. s \in Seq(0 .. StartWindow) /\ Len(s) \in Nat /\ DOMAIN s = 1 .. Len(s) /\ StartWindow \in Nat \ {0}
  BY PhoneScanAssumption DEF InOrder
<1>2. \A i \in DOMAIN s : t[i] = IF s[i] < StartWindow THEN s[i] + 1 ELSE StartWindow
  BY DEF Older
<1>3. t \in Seq(0 .. StartWindow) /\ Len(t) = Len(s) /\ DOMAIN t = DOMAIN s
  BY <1>1 DEF Older
<1> HIDE DEF t
<1>4. InOrder(t)
  <2> SUFFICES ASSUME NEW i \in DOMAIN t, NEW j \in DOMAIN t, i <= j PROVE t[j] <= t[i]
    BY <1>3 DEF InOrder
  <2>1. s[j] <= s[i] /\ s[j] \in 0 .. StartWindow /\ s[i] \in 0 .. StartWindow
    BY <1>1, <1>3 DEF InOrder
  <2> QED
    BY <1>1, <1>2, <1>3, <2>1
<1> QED
  BY <1>2, <1>3, <1>4 DEF t

LEMMA FreshOfOlder ==
  ASSUME NEW s, InOrder(s)
  PROVE  Fresh(Older(Fresh(s))) = Fresh(Older(s))
<1> DEFINE t == Fresh(s)
           f == FirstFresh(s)
           g == FirstFresh(Older(s))
           a == Older(s)
           b == Older(t)
<1>1. s \in Seq(0 .. StartWindow) /\ Len(s) \in Nat /\ DOMAIN s = 1 .. Len(s) /\ StartWindow \in Nat \ {0}
  BY PhoneScanAssumption DEF InOrder
<1>2. f \in 1 .. Len(s) + 1 /\ \A i \in DOMAIN s : (s[i] < StartWindow) <=> f <= i
  BY FirstFreshIs
<1>3. InOrder(t) /\ Len(t) = Len(s) + 1 - f /\ \A i \in 1 .. Len(t) : t[i] = s[i + f - 1]
  BY FreshParts
<1>4. InOrder(a) /\ Len(a) = Len(s) /\ \A i \in DOMAIN s : a[i] = IF s[i] < StartWindow THEN s[i] + 1 ELSE StartWindow
  BY OlderStarts
<1>5. g \in 1 .. Len(a) + 1 /\ \A i \in DOMAIN a : (a[i] < StartWindow) <=> g <= i
  BY <1>4, FirstFreshIs
<1>6. InOrder(b) /\ Len(b) = Len(t) /\ \A i \in DOMAIN t : b[i] = IF t[i] < StartWindow THEN t[i] + 1 ELSE StartWindow
  BY <1>3, OlderStarts
<1>7. Fresh(a) = SubSeq(a, g, Len(a)) /\ Fresh(b) = SubSeq(b, FirstFresh(b), Len(b))
  BY DEF Fresh
<1> HIDE DEF a, b, f, g, t
<1>0. PICK k \in Nat : k = Len(s)
  BY <1>1
<1>8. DOMAIN s = 1 .. k /\ DOMAIN a = 1 .. k /\ f \in 1 .. k + 1 /\ g \in 1 .. k + 1
  BY <1>0, <1>1, <1>2, <1>4, <1>5 DEF InOrder
<1>22. Len(t) = (k + 1) - f
  BY <1>0, <1>3, <1>8
<1>23. (k + 1) - f \in Nat
  BY <1>8
<1>20. PICK n \in Nat : n = Len(t) /\ n = (k + 1) - f
  BY <1>22, <1>23
<1>21. DOMAIN b = 1 .. n /\ DOMAIN t = 1 .. n /\ a \in Seq(0 .. StartWindow) /\ b \in Seq(0 .. StartWindow)
  BY <1>3, <1>4, <1>6, <1>20 DEF InOrder
<1>9. \A i \in 1 .. n : (i + f) - 1 \in 1 .. k /\ b[i] = a[(i + f) - 1]
  <2> TAKE i \in 1 .. n
  <2>1. (i + f) - 1 \in 1 .. k
    BY <1>8, <1>20
  <2>3. i \in 1 .. Len(t)
    BY <1>20
  <2>2. t[i] = s[(i + f) - 1]
    BY <1>3, <1>8, <2>3
  <2> QED
    BY <1>4, <1>6, <1>8, <1>21, <2>1, <2>2
<1>10. f <= g
  <2> SUFFICES ASSUME g < f PROVE FALSE
    BY <1>8
  <2>1. g \in 1 .. k
    BY <1>8
  <2>2. a[g] < StartWindow
    BY <1>5, <1>8, <2>1
  <2>3. s[g] \in 0 .. StartWindow
    BY <1>1, <1>8, <2>1
  <2>4. s[g] < StartWindow
    BY <1>1, <1>4, <1>8, <2>1, <2>2, <2>3
  <2>5. f <= g
    BY <1>2, <1>8, <2>1, <2>4
  <2> QED
    BY <1>8, <2>5
<1>11. PICK h \in 1 .. n + 1 : h = (g - f) + 1
  BY <1>8, <1>10, <1>20
<1>12. \A i \in DOMAIN b : (b[i] < StartWindow) <=> h <= i
  <2> TAKE i \in DOMAIN b
  <2>1. (i + f) - 1 \in DOMAIN a /\ b[i] = a[(i + f) - 1]
    BY <1>8, <1>9, <1>21
  <2>2. (a[(i + f) - 1] < StartWindow) <=> g <= (i + f) - 1
    BY <1>5, <2>1
  <2>3. (g <= (i + f) - 1) <=> h <= i
    BY <1>8, <1>11, <1>21
  <2> QED
    BY <2>1, <2>2, <2>3
<1>13. FirstFresh(b) = h
  BY <1>6, <1>11, <1>12, <1>20, FreshStarts
<1>14. Fresh(b) = SubSeq(b, h, Len(b)) /\ Len(b) = n /\ Len(a) = k
  BY <1>0, <1>4, <1>6, <1>7, <1>13, <1>20
<1>15. SubSeq(b, h, Len(b)) = SubSeq(a, g, Len(a))
  <2> DEFINE x == SubSeq(b, h, Len(b))
             y == SubSeq(a, g, Len(a))
  <2>1. PICK m \in Nat : m = (n + 1) - h /\ m = (k + 1) - g
    BY <1>8, <1>10, <1>11, <1>20
  <2>2. x \in Seq(0 .. StartWindow) /\ Len(x) = m /\ \A i \in 1 .. m : x[i] = b[(i + h) - 1]
    <3>1. h \in 1 .. Len(b) + 1 /\ Len(b) + 1 - h = m
      BY <1>11, <1>14, <2>1
    <3>2. /\ SubSeq(b, h, Len(b)) \in Seq(0 .. StartWindow) /\ Len(SubSeq(b, h, Len(b))) = Len(b) + 1 - h
          /\ \A i \in 1 .. Len(b) + 1 - h : SubSeq(b, h, Len(b))[i] = b[i + h - 1]
      BY <1>21, <3>1, Ending, Zenon
    <3> QED
      BY <3>1, <3>2
  <2>3. y \in Seq(0 .. StartWindow) /\ Len(y) = m /\ \A i \in 1 .. m : y[i] = a[(i + g) - 1]
    <3>1. g \in 1 .. Len(a) + 1 /\ Len(a) + 1 - g = m
      BY <1>8, <1>14, <2>1
    <3>2. /\ SubSeq(a, g, Len(a)) \in Seq(0 .. StartWindow) /\ Len(SubSeq(a, g, Len(a))) = Len(a) + 1 - g
          /\ \A i \in 1 .. Len(a) + 1 - g : SubSeq(a, g, Len(a))[i] = a[i + g - 1]
      BY <1>21, <3>1, Ending, Zenon
    <3> QED
      BY <3>1, <3>2
  <2>4. \A i \in 1 .. m : (i + h) - 1 \in 1 .. n /\ (((i + h) - 1) + f) - 1 = (i + g) - 1
    BY <1>8, <1>11, <1>20, <2>1
  <2>5. \A i \in 1 .. m : x[i] = y[i]
    BY <1>9, <2>2, <2>3, <2>4
  <2> HIDE DEF x, y
  <2>6. DOMAIN x = 1 .. m /\ DOMAIN y = 1 .. m
    BY <2>2, <2>3
  <2>7. x = y
    BY <2>2, <2>3, <2>5, <2>6
  <2> QED
    BY <2>7 DEF x, y
<1> QED
  BY <1>7, <1>14, <1>15 DEF a, b, t

-----------------------------------------------------------------------------
(* The scan, the changes that wait and the leases *)

AllFilters == UNION {FilterOf[c] : c \in Client}
LeaseIs == {"none", "asked", "held", "failing"}
Jobs == [force : BOOLEAN, by : {"acquire", "release", "duty", "retry", "refresh"}, of : Client \union {NoScan}]
Plans == [filter : SUBSET AllFilters, duty : Duty \union {NoScan}]
Scans == [is : {"off", "starting", "on"}, filter : SUBSET AllFilters, duty : Duty \union {NoScan}]

ChainOK ==
  /\ lease \in [Client -> LeaseIs] /\ chain \in Seq(Jobs)
  /\ \A i \in DOMAIN chain : chain[i].by = "acquire" => ~chain[i].force /\ chain[i].of \in Client

ScanOK ==
  /\ at \in {"ready", "throttled", "starting", "refused"} /\ (at # "ready" => chain # <<>>)
  /\ plan \in Plans /\ runningFilter \in {NoScan} \union SUBSET AllFilters /\ runningDuty \in Duty \union {NoScan}
  /\ duty \in Duty /\ scan \in Scans /\ (scan.is = "off" => scan = Off) /\ adapter \in BOOLEAN /\ missed \in BOOLEAN

\* The platform starts what was asked for, and scans what the app thinks it does.
ScanIs ==
  /\ scan.is = "starting" => at = "starting" /\ scan.filter = plan.filter /\ scan.duty = plan.duty
  /\ scan.is = "on" => at \notin {"starting", "refused"} /\ scan.filter = runningFilter /\ scan.duty = runningDuty
  /\ scan # Off => adapter

\* A lease is asked for by one change that waits.
Asks(i, c) == chain[i].by = "acquire" /\ chain[i].of = c
OneAsks ==
  \A c \in Client :
    /\ \A i, j \in DOMAIN chain : Asks(i, c) /\ Asks(j, c) => i = j
    /\ lease[c] = "asked" <=> \E i \in DOMAIN chain : Asks(i, c)

\* The scan, and the one to be started, cover every lease that is held; the
\* latter the one it is started for as well.
Covered ==
  \A c \in Client :
    /\ lease[c] = "held" /\ scan.is = "on" => FilterOf[c] \subseteq scan.filter
    /\ at \in {"throttled", "starting"} /\ (lease[c] = "held" \/ Asks(1, c)) => FilterOf[c] \subseteq plan.filter

\* Nothing scans for nobody, but while a change waits that will see so.
ForSomebody ==
  Leases(lease) = {} => /\ scan # Off => chain # <<>>
                        /\ at # "ready" => Len(chain) >= 2

\* A scan at another duty than the policy's has a change waiting that starts it again.
AtDuty ==
  scan # Off /\ scan.duty # duty /\ ~missed =>
    \E i \in DOMAIN chain : chain[i].force /\ (at = "starting" => i > 1)

\* The starts that count: who must wait does so until the first of them is old.
Paced ==
  /\ InOrder(starts) /\ asked = Fresh(starts) /\ Len(starts) <= MaxStarts
  /\ at = "throttled" => starts # <<>> /\ wake \in Nat /\ starts[1] + wake = StartWindow
  /\ at # "throttled" => wake = Unarmed

ScanTypes == ChainOK /\ ScanOK
ScanInv == ScanTypes /\ ScanIs /\ OneAsks /\ Covered /\ ForSomebody /\ AtDuty /\ Paced

-----------------------------------------------------------------------------
(* What a step does to them *)

paceVars == <<at, plan, wake, starts, asked>>

Takes(c) ==
  /\ lease[c] = "none" /\ lease' = [lease EXCEPT ![c] = "asked"] /\ chain' = Append(chain, Job(FALSE, "acquire", c))
  /\ UNCHANGED <<paceVars, runVars, duty, adapter, scan, missed>>
GivesBack(c) ==
  /\ lease[c] \in {"held", "failing"} /\ lease' = [lease EXCEPT ![c] = "none"] /\ chain' = Append(chain, Job(FALSE, "release", c))
  /\ UNCHANGED <<paceVars, runVars, duty, adapter, scan, missed>>
ChangesDuty(d) == SetDuty(d) /\ UNCHANGED <<lease, paceVars, runVars, adapter, scan>>
GoesDown == scan' = Off /\ adapter' \in BOOLEAN /\ UNCHANGED <<leaseVars, paceVars, runVars, duty, missed>>
Refreshes == chain' = Append(chain, Job(TRUE, "refresh", NoScan)) /\ UNCHANGED <<lease, paceVars, runVars, duty, adapter, scan, missed>>
Retries ==
  /\ scan = Off /\ runningFilter' = NoScan /\ chain' = Append(chain, Job(TRUE, "retry", NoScan)) /\ adapter' \in BOOLEAN
  /\ UNCHANGED <<lease, paceVars, runningDuty, duty, scan, missed>>
Goes ==
  /\ adapter' \in BOOLEAN /\ (scan # Off => adapter' = adapter)
  /\ UNCHANGED <<leaseVars, paceVars, runVars, duty, scan, missed>>

Begins == at = "ready" /\ chain # <<>>
Wanted == IF runningFilter = NoScan THEN Union(lease) ELSE Union(lease) \union runningFilter
NobodyWants ==
  /\ Begins /\ Leases(lease) = {} /\ runningFilter' = NoScan /\ scan' = (IF runningFilter # NoScan THEN Off ELSE scan) /\ Finish
  /\ UNCHANGED <<lease, wake, starts, asked, runningDuty, duty, adapter, missed>>
RunsAsWanted ==
  /\ Begins /\ Leases(lease) # {} /\ Covers(Union(lease)) /\ runningDuty = duty /\ Finish /\ Served(Head(chain))
  /\ UNCHANGED <<wake, starts, asked, runVars, scan, duty, adapter, missed>>
AsksPlatform ==
  /\ Begins /\ Leases(lease) # {} /\ Len(Fresh(starts)) < MaxStarts /\ Call(Wanted)
  /\ UNCHANGED <<leaseVars, runVars, duty, adapter, missed>>
MustWait ==
  /\ Begins /\ Leases(lease) # {} /\ Len(Fresh(starts)) >= MaxStarts
  /\ at' = "throttled" /\ plan' = [NoPlan EXCEPT !.filter = Wanted] /\ starts' = Fresh(starts)
  /\ wake' = StartWindow - starts'[1] /\ UNCHANGED <<asked, scan, leaseVars, runVars, duty, adapter, missed>>

LEMMA ScanCases ==
  ASSUME ScanTypes, ScanIs, Paced, [ScanNext]_scanVars
  PROVE  \/ \E c \in Client : Takes(c) \/ GivesBack(c)
         \/ \E d \in Duty : ChangesDuty(d)
         \/ GoesDown \/ Refreshes \/ Retries \/ Goes
         \/ NobodyWants \/ RunsAsWanted \/ AsksPlatform \/ MustWait
         \/ Throttled \/ Started \/ StartFailed \/ ScanTick
<1> USE DEF leaseVars, jobVars, paceVars, runVars, timerVars, scanVars
<1>1. CASE Act
  <2>1. CASE \E c \in Client : (Acquire(c) \/ Release(c)) /\ UNCHANGED <<duty, missed, runVars, backoff, retry, adapter, scan>>
    BY <1>1, <2>1 DEF Act, Acquire, Release, Takes, GivesBack
  <2>2. CASE \E d \in Duty : SetDuty(d) /\ UNCHANGED <<lease, runVars, backoff, retry, adapter, scan>>
    BY <1>1, <2>2 DEF Act, ChangesDuty
  <2>3. CASE AdapterTurns /\ UNCHANGED <<lease, duty, missed>>
    <3>0. adapter' \in BOOLEAN /\ UNCHANGED <<lease, paceVars, duty, missed>>
      BY <1>1, <2>3 DEF Act, AdapterTurns
    <3>1. CASE adapter
      <4>1. scan' = Off /\ UNCHANGED <<chain, runVars>>
        BY <2>3, <3>1 DEF AdapterTurns
      <4> QED
        BY <3>0, <4>1 DEF GoesDown
    <3>2. CASE ~adapter
      <4>1. scan = Off
        BY <3>2 DEF ScanIs
      <4>2. \/ UNCHANGED <<scan, chain, runVars>>
            \/ runningFilter' = NoScan /\ chain' = Append(chain, Job(TRUE, "retry", NoScan)) /\ UNCHANGED <<scan, runningDuty>>
        BY <2>3, <3>2 DEF AdapterTurns
      <4> QED
        BY <3>0, <4>1, <4>2 DEF Goes, Retries
    <3> QED
      BY <3>1, <3>2 DEF ScanTypes, ScanOK
  <2> QED
    BY <1>1, <2>1, <2>2, <2>3 DEF Act
<1>2. CASE StopsByItself
  BY <1>2 DEF StopsByItself, GoesDown, ScanTypes, ScanOK
<1>3. CASE Apply
  <2>0. Begins /\ UNCHANGED <<duty, adapter, missed>>
    BY <1>3 DEF Apply, Begins
  <2>1. CASE Leases(lease) = {}
    BY <1>3, <2>0, <2>1 DEF Apply, NobodyWants
  <2>2. CASE Leases(lease) # {} /\ ~Head(chain).force /\ Covers(Union(lease)) /\ runningDuty = duty
    BY <1>3, <2>0, <2>2 DEF Apply, RunsAsWanted
  <2>3. CASE Leases(lease) # {} /\ ~(~Head(chain).force /\ Covers(Union(lease)) /\ runningDuty = duty)
    <3>1. /\ UNCHANGED <<leaseVars, runVars>>
          /\ IF Len(Fresh(starts)) < MaxStarts THEN Call(Wanted)
             ELSE /\ at' = "throttled" /\ plan' = [NoPlan EXCEPT !.filter = Wanted] /\ starts' = Fresh(starts)
                  /\ wake' = StartWindow - starts'[1] /\ UNCHANGED <<asked, scan>>
      BY <1>3, <2>3 DEF Apply, Wanted
    <3>2. CASE Len(Fresh(starts)) < MaxStarts
      BY <2>0, <2>3, <3>1, <3>2 DEF AsksPlatform
    <3>3. CASE ~(Len(Fresh(starts)) < MaxStarts)
      <4>1. Len(Fresh(starts)) \in Nat /\ MaxStarts \in Nat
        BY FreshParts, PhoneScanAssumption DEF Paced
      <4>2. Len(Fresh(starts)) >= MaxStarts
        BY <3>3, <4>1
      <4> QED
        BY <2>0, <2>3, <3>1, <3>3, <4>2 DEF MustWait
    <3> QED
      BY <3>2, <3>3
  <2> QED
    BY <2>1, <2>2, <2>3
<1>4. CASE RetryFires
  <2>1. adapter' \in BOOLEAN /\ adapter' = adapter /\ UNCHANGED <<lease, paceVars, runningDuty, duty, scan, missed>>
    BY <1>4 DEF RetryFires, ScanTypes, ScanOK
  <2>2. \/ UNCHANGED <<runningFilter, chain>>
        \/ scan = Off /\ runningFilter' = NoScan /\ chain' = Append(chain, Job(TRUE, "retry", NoScan))
    BY <1>4 DEF RetryFires
  <2> QED
    BY <2>1, <2>2 DEF Goes, Retries
<1>5. CASE RefreshFires
  BY <1>5 DEF RefreshFires, Refreshes
<1>6. CASE \E c \in Client : ReleaseFailed(c)
  BY <1>6 DEF ReleaseFailed, GivesBack
<1>7. CASE UNCHANGED scanVars
  BY <1>7 DEF Goes, ScanTypes, ScanOK
<1> QED
  BY <1>1, <1>2, <1>3, <1>4, <1>5, <1>6, <1>7 DEF ScanNext, Works

LEMMA Appended ==
  ASSUME NEW s \in Seq(Jobs), NEW j \in Jobs
  PROVE  /\ Append(s, j) \in Seq(Jobs) /\ Append(s, j) # <<>> /\ Len(Append(s, j)) = Len(s) + 1 /\ Len(s) \in Nat
         /\ DOMAIN Append(s, j) = (DOMAIN s) \union {Len(s) + 1} /\ DOMAIN s = 1 .. Len(s)
         /\ \A i \in DOMAIN s : Append(s, j)[i] = s[i]
         /\ Append(s, j)[Len(s) + 1] = j
OBVIOUS

LEMMA AppendedAt ==
  ASSUME NEW s \in Seq(Jobs), NEW j \in Jobs, NEW n \in Nat, n = Len(s) + 1
  PROVE  DOMAIN Append(s, j) = (DOMAIN s) \union {n} /\ n \notin DOMAIN s /\ Append(s, j)[n] = j /\ \A i \in DOMAIN s : Append(s, j)[i] = s[i]
OBVIOUS

LEMMA Tailed ==
  ASSUME NEW s \in Seq(Jobs), s # <<>>
  PROVE  /\ Tail(s) \in Seq(Jobs) /\ 1 \in DOMAIN s /\ Head(s) = s[1] /\ s[1] \in Jobs /\ Len(Tail(s)) = Len(s) - 1 /\ Len(s) \in Nat
         /\ \A i \in DOMAIN Tail(s) : i + 1 \in DOMAIN s /\ i + 1 > 1 /\ Tail(s)[i] = s[i + 1]
         /\ \A i \in DOMAIN s : i # 1 => i - 1 \in DOMAIN Tail(s) /\ Tail(s)[i - 1] = s[i]
         /\ Len(s) >= 2 => Tail(s) # <<>>
         /\ DOMAIN s = 1 .. Len(s) /\ DOMAIN Tail(s) = 1 .. Len(s) - 1
<1>1. Len(s) \in Nat /\ Len(s) # 0 /\ DOMAIN s = 1 .. Len(s) /\ Head(s) = s[1] /\ s[1] \in Jobs
  OBVIOUS
<1>2. Tail(s) \in Seq(Jobs) /\ Len(Tail(s)) = Len(s) - 1 /\ DOMAIN Tail(s) = 1 .. Len(s) - 1
      /\ \A i \in 1 .. Len(s) - 1 : Tail(s)[i] = s[i + 1]
  BY <1>1
<1>3. Len(s) >= 2 => Tail(s) # <<>>
  BY <1>1, <1>2
<1> QED
  BY <1>1, <1>2, <1>3

-----------------------------------------------------------------------------
LEMMA JobIs ==
  /\ \A c \in Client : Job(FALSE, "acquire", c) \in Jobs /\ Job(FALSE, "release", c) \in Jobs
  /\ Job(TRUE, "duty", NoScan) \in Jobs /\ Job(TRUE, "retry", NoScan) \in Jobs /\ Job(TRUE, "refresh", NoScan) \in Jobs
BY DEF Job, Jobs

\* A change is added that asks for nothing, or is for a client.
LEMMA ChainGrows ==
  ASSUME ChainOK, NEW j \in Jobs, chain' = Append(chain, j), j.by = "acquire" => ~j.force /\ j.of \in Client, lease' \in [Client -> LeaseIs]
  PROVE  ChainOK' /\ chain' # <<>>
<1>1. chain' \in Seq(Jobs) /\ chain' # <<>>
  BY Appended DEF ChainOK
<1>2. \A i \in DOMAIN chain' : chain'[i].by = "acquire" => ~chain'[i].force /\ chain'[i].of \in Client
  <2> SUFFICES ASSUME NEW i \in DOMAIN chain', chain'[i].by = "acquire" PROVE ~chain'[i].force /\ chain'[i].of \in Client
    OBVIOUS
  <2>1. (i \in DOMAIN chain /\ chain'[i] = chain[i]) \/ chain'[i] = j
    BY Appended DEF ChainOK
  <2> QED
    BY <2>1 DEF ChainOK
<1> QED
  BY <1>1, <1>2 DEF ChainOK

LEMMA ChainShrinks ==
  ASSUME ChainOK, chain # <<>>, chain' = Tail(chain), lease' \in [Client -> LeaseIs]
  PROVE  ChainOK'
<1>1. chain' \in Seq(Jobs)
  BY Tailed DEF ChainOK
<1>2. \A i \in DOMAIN chain' : chain'[i].by = "acquire" => ~chain'[i].force /\ chain'[i].of \in Client
  BY Tailed DEF ChainOK
<1> QED
  BY <1>1, <1>2 DEF ChainOK

LEMMA WantedIs ==
  ASSUME ScanTypes
  PROVE  Wanted \in SUBSET AllFilters /\ Union(lease) \in SUBSET AllFilters /\ NoPlan \in Plans
<1>1. Union(lease) \in SUBSET AllFilters
  BY DEF Union, Leases, AllFilters
<1>2. NoPlan \in Plans
  BY DEF NoPlan, Plans
<1>3. Wanted \in SUBSET AllFilters
  BY <1>1 DEF Wanted, ScanTypes, ScanOK
<1> QED
  BY <1>1, <1>2, <1>3

LEMMA OffIs == Off \in Scans /\ Off.is = "off" /\ \A s \in Scans : s.is # "off" => s # Off
BY DEF Off, Scans

LEMMA LeaseServed ==
  ASSUME ChainOK, NEW j, NEW x \in LeaseIs
  PROVE  (IF j.by = "acquire" THEN [lease EXCEPT ![j.of] = x] ELSE lease) \in [Client -> LeaseIs]
BY DEF ChainOK

LEMMA TypesStay ==
  ASSUME ScanTypes, ScanIs, Paced, [ScanNext]_scanVars
  PROVE  ScanTypes'
<1> USE DEF paceVars, runVars, leaseVars
<1> DEFINE AtOK == at' \in {"ready", "throttled", "starting", "refused"} /\ (at' # "ready" => chain' # <<>>)
<1>1. ASSUME NEW c \in Client, Takes(c) PROVE ScanTypes'
  <2>1. ChainOK' /\ chain' # <<>>
    <3>1. lease' \in [Client -> LeaseIs] /\ Job(FALSE, "acquire", c) \in Jobs
      BY <1>1, JobIs DEF Takes, ScanTypes, ChainOK, LeaseIs
    <3>2. Job(FALSE, "acquire", c).force = FALSE /\ Job(FALSE, "acquire", c).of = c
      BY DEF Job
    <3> QED
      BY <1>1, <3>1, <3>2, ChainGrows DEF Takes, ScanTypes
  <2>2. ScanOK'
    BY <1>1, <2>1 DEF Takes, ScanTypes, ScanOK
  <2> QED
    BY <2>1, <2>2 DEF ScanTypes
<1>2. ASSUME NEW c \in Client, GivesBack(c) PROVE ScanTypes'
  <2>1. ChainOK' /\ chain' # <<>>
    <3>1. lease' \in [Client -> LeaseIs] /\ Job(FALSE, "release", c) \in Jobs
      BY <1>2, JobIs DEF GivesBack, ScanTypes, ChainOK, LeaseIs
    <3>2. Job(FALSE, "release", c).by = "release"
      BY DEF Job
    <3> QED
      BY <1>2, <3>1, <3>2, ChainGrows DEF GivesBack, ScanTypes
  <2>2. ScanOK'
    BY <1>2, <2>1 DEF GivesBack, ScanTypes, ScanOK
  <2> QED
    BY <2>1, <2>2 DEF ScanTypes
<1>3. ASSUME NEW d \in Duty, ChangesDuty(d) PROVE ScanTypes'
  <2>1. ChainOK' /\ (chain # <<>> => chain' # <<>>)
    <3>1. lease' \in [Client -> LeaseIs] /\ Job(TRUE, "duty", NoScan) \in Jobs
      BY <1>3, JobIs DEF ChangesDuty, ScanTypes, ChainOK
    <3>2. Job(TRUE, "duty", NoScan).by = "duty"
      BY DEF Job
    <3>3. CASE chain' = chain
      BY <1>3, <3>3 DEF ChangesDuty, ScanTypes, ChainOK
    <3>4. CASE chain' = Append(chain, Job(TRUE, "duty", NoScan))
      BY <3>1, <3>2, <3>4, ChainGrows DEF ScanTypes
    <3> QED
      BY <1>3, <3>3, <3>4 DEF ChangesDuty, SetDuty
  <2>2. ScanOK'
    BY <1>3, <2>1 DEF ChangesDuty, SetDuty, ScanTypes, ScanOK
  <2> QED
    BY <2>1, <2>2 DEF ScanTypes
<1>4. CASE GoesDown
  <2>1. ChainOK'
    BY <1>4 DEF GoesDown, ScanTypes, ChainOK
  <2>2. ScanOK'
    BY <1>4, OffIs DEF GoesDown, ScanTypes, ScanOK
  <2> QED
    BY <2>1, <2>2 DEF ScanTypes
<1>5. CASE Refreshes
  <2>1. ChainOK' /\ chain' # <<>>
    <3>1. lease' \in [Client -> LeaseIs] /\ Job(TRUE, "refresh", NoScan) \in Jobs
      BY <1>5, JobIs DEF Refreshes, ScanTypes, ChainOK
    <3>2. Job(TRUE, "refresh", NoScan).by = "refresh"
      BY DEF Job
    <3> QED
      BY <1>5, <3>1, <3>2, ChainGrows DEF Refreshes, ScanTypes
  <2>2. ScanOK'
    BY <1>5, <2>1 DEF Refreshes, ScanTypes, ScanOK
  <2> QED
    BY <2>1, <2>2 DEF ScanTypes
<1>6. CASE Retries
  <2>1. ChainOK' /\ chain' # <<>>
    <3>1. lease' \in [Client -> LeaseIs] /\ Job(TRUE, "retry", NoScan) \in Jobs
      BY <1>6, JobIs DEF Retries, ScanTypes, ChainOK
    <3>2. Job(TRUE, "retry", NoScan).by = "retry"
      BY DEF Job
    <3> QED
      BY <1>6, <3>1, <3>2, ChainGrows DEF Retries, ScanTypes
  <2>2. ScanOK'
    BY <1>6, <2>1 DEF Retries, ScanTypes, ScanOK
  <2> QED
    BY <2>1, <2>2 DEF ScanTypes
<1>7. CASE Goes
  <2>1. ChainOK'
    BY <1>7 DEF Goes, ScanTypes, ChainOK
  <2>2. ScanOK'
    BY <1>7 DEF Goes, ScanTypes, ScanOK
  <2> QED
    BY <2>1, <2>2 DEF ScanTypes
<1>8. CASE NobodyWants
  <2>1. ChainOK'
    BY <1>8, ChainShrinks DEF NobodyWants, Begins, Finish, ScanTypes, ChainOK
  <2>2. ScanOK'
    BY <1>8, OffIs, WantedIs DEF NobodyWants, Finish, ScanTypes, ScanOK
  <2> QED
    BY <2>1, <2>2 DEF ScanTypes
<1>9. CASE RunsAsWanted
  <2>1. ChainOK'
    <3>1. lease' \in [Client -> LeaseIs]
      BY <1>9, LeaseServed DEF RunsAsWanted, Served, LeaseIs, ScanTypes
    <3> QED
      BY <1>9, <3>1, ChainShrinks DEF RunsAsWanted, Begins, Finish, ScanTypes
  <2>2. ScanOK'
    BY <1>9, WantedIs DEF RunsAsWanted, Finish, ScanTypes, ScanOK
  <2> QED
    BY <2>1, <2>2 DEF ScanTypes
<1>10. ASSUME NEW f \in SUBSET AllFilters, Call(f), chain # <<>>, UNCHANGED <<leaseVars, runVars, duty, adapter, missed>>
       PROVE ScanTypes'
  <2>1. ChainOK'
    BY <1>10 DEF ScanTypes, ChainOK
  <2>2. plan' \in Plans
    BY <1>10 DEF Call, Plans, ScanTypes, ScanOK
  <2>3. scan' \in Scans /\ (scan'.is = "off" => scan' = Off)
    <3>1. CASE adapter
      BY <1>10, <3>1 DEF Call, Scans, ScanTypes, ScanOK
    <3>2. CASE ~adapter
      BY <1>10, <3>2 DEF Call, ScanTypes, ScanOK
    <3> QED
      BY <3>1, <3>2
  <2>4. at' \in {"starting", "refused"} /\ chain' # <<>>
    BY <1>10 DEF Call
  <2>5. ScanOK'
    BY <1>10, <2>2, <2>3, <2>4 DEF ScanTypes, ScanOK
  <2> QED
    BY <2>1, <2>5 DEF ScanTypes
<1>11. CASE AsksPlatform
  BY <1>10, <1>11, WantedIs DEF AsksPlatform, Begins
<1>12. CASE Throttled
  BY <1>10, <1>12 DEF Throttled, ScanTypes, ScanOK, Plans
<1>13. CASE MustWait
  <2>1. ChainOK'
    BY <1>13 DEF MustWait, ScanTypes, ChainOK
  <2>2. plan' \in Plans
    BY <1>13, WantedIs DEF MustWait, NoPlan, Plans
  <2>3. ScanOK'
    BY <1>13, <2>2 DEF MustWait, Begins, ScanTypes, ScanOK
  <2> QED
    BY <2>1, <2>3 DEF ScanTypes
<1>14. CASE Started
  <2>0. at = "starting" /\ chain # <<>>
    BY <1>14 DEF Started, ScanTypes, ScanOK
  <2>1. ChainOK'
    <3>1. lease' \in [Client -> LeaseIs]
      BY <1>14, LeaseServed DEF Started, Served, LeaseIs, ScanTypes
    <3> QED
      BY <1>14, <2>0, <3>1, ChainShrinks DEF Started, Finish, ScanTypes
  <2>2. scan' \in Scans /\ (scan'.is = "off" => scan' = Off)
    BY <1>14 DEF Started, Scans, ScanTypes, ScanOK
  <2>3. runningFilter' \in SUBSET AllFilters /\ runningDuty' \in Duty \union {NoScan}
    BY <1>14 DEF Started, Plans, ScanTypes, ScanOK
  <2>4. ScanOK'
    BY <1>14, <2>2, <2>3, WantedIs DEF Started, Finish, ScanTypes, ScanOK
  <2> QED
    BY <2>1, <2>4 DEF ScanTypes
<1>15. CASE StartFailed
  <2>0. at # "ready" /\ chain # <<>>
    BY <1>15 DEF StartFailed, ScanTypes, ScanOK
  <2>1. ChainOK'
    <3>1. lease' \in [Client -> LeaseIs]
      BY <1>15, LeaseServed DEF StartFailed, LeaseIs, ScanTypes
    <3> QED
      BY <1>15, <2>0, <3>1, ChainShrinks DEF StartFailed, Finish, ScanTypes
  <2>2. runningFilter' \in {NoScan} \union SUBSET AllFilters /\ scan' = Off
    BY <1>15 DEF StartFailed
  <2>4. ScanOK'
    BY <1>15, <2>2, WantedIs, OffIs DEF StartFailed, Finish, ScanTypes, ScanOK
  <2> QED
    BY <2>1, <2>4 DEF ScanTypes
<1>16. CASE ScanTick
  <2>1. ChainOK'
    BY <1>16 DEF ScanTick, ScanTypes, ChainOK
  <2>2. ScanOK'
    BY <1>16 DEF ScanTick, ScanTypes, ScanOK
  <2> QED
    BY <2>1, <2>2 DEF ScanTypes
<1> QED
  BY <1>1, <1>2, <1>3, <1>4, <1>5, <1>6, <1>7, <1>8, <1>9, <1>11, <1>12, <1>13, <1>14, <1>15, <1>16, ScanCases

-----------------------------------------------------------------------------
LEMMA ScanIsStays ==
  ASSUME ScanTypes, ScanTypes', ScanIs, Paced, [ScanNext]_scanVars
  PROVE  ScanIs'
<1> USE OffIs DEF paceVars, runVars, leaseVars
<1>1. ASSUME NEW c \in Client, Takes(c) \/ GivesBack(c) PROVE ScanIs'
  BY <1>1 DEF Takes, GivesBack, ScanIs
<1>2. ASSUME NEW d \in Duty, ChangesDuty(d) PROVE ScanIs'
  BY <1>2 DEF ChangesDuty, ScanIs
<1>3. CASE GoesDown
  BY <1>3 DEF GoesDown, ScanIs
<1>4. CASE Refreshes
  BY <1>4 DEF Refreshes, ScanIs
<1>5. CASE Retries
  BY <1>5 DEF Retries, ScanIs
<1>6. CASE Goes
  BY <1>6 DEF Goes, ScanIs
<1>7. CASE NobodyWants
  <2>1. scan' = Off
    BY <1>7, PhoneScanAssumption DEF NobodyWants, Begins, ScanIs, ScanTypes, ScanOK, Scans, AllFilters
  <2> QED
    BY <2>1 DEF ScanIs
<1>8. CASE RunsAsWanted
  BY <1>8 DEF RunsAsWanted, Begins, Finish, ScanIs
<1>9. ASSUME NEW f, Call(f), at \in {"ready", "throttled"}, adapter' = adapter PROVE ScanIs'
  <2>1. CASE adapter
    BY <1>9, <2>1 DEF Call, ScanIs
  <2>2. CASE ~adapter
    BY <1>9, <2>2 DEF Call, ScanIs
  <2> QED
    BY <2>1, <2>2
<1>10. CASE AsksPlatform
  BY <1>9, <1>10 DEF AsksPlatform, Begins
<1>11. CASE Throttled
  BY <1>9, <1>11 DEF Throttled
<1>12. CASE MustWait
  BY <1>12 DEF MustWait, Begins, ScanIs
<1>13. CASE Started
  <2>1. scan.is \in {"off", "starting"}
    BY <1>13 DEF Started, ScanIs, ScanTypes, ScanOK, Scans
  <2>2. CASE scan.is = "off"
    BY <1>13, <2>2 DEF Started, ScanIs, ScanTypes, ScanOK
  <2>3. CASE scan.is = "starting"
    <3>1. scan'.is = "on" /\ scan'.filter = scan.filter /\ scan'.duty = scan.duty
      BY <1>13, <2>3 DEF Started, ScanTypes, ScanOK, Scans
    <3> QED
      BY <1>13, <2>3, <3>1 DEF Started, Finish, ScanIs, ScanTypes, ScanOK
  <2> QED
    BY <2>1, <2>2, <2>3
<1>14. CASE StartFailed
  BY <1>14 DEF StartFailed, ScanIs
<1>15. CASE ScanTick
  BY <1>15 DEF ScanTick, ScanIs
<1> QED
  BY <1>1, <1>2, <1>3, <1>4, <1>5, <1>6, <1>7, <1>8, <1>10, <1>11, <1>12, <1>13, <1>14, <1>15, ScanCases

-----------------------------------------------------------------------------
\* A change that asks for no lease is added.
LEMMA OtherAdded ==
  ASSUME ChainOK, OneAsks, NEW j \in Jobs, j.by # "acquire", chain' = Append(chain, j),
         \A c \in Client : lease'[c] = "asked" <=> lease[c] = "asked"
  PROVE  OneAsks'
<1> SUFFICES ASSUME NEW c \in Client
    PROVE  /\ \A i, k \in DOMAIN chain' : Asks(i, c)' /\ Asks(k, c)' => i = k
           /\ lease'[c] = "asked" <=> \E i \in DOMAIN chain' : Asks(i, c)'
  BY DEF OneAsks
<1>1. \A i \in DOMAIN chain' : Asks(i, c)' => i \in DOMAIN chain /\ Asks(i, c)
  BY Appended DEF Asks, ChainOK
<1>2. \A i \in DOMAIN chain : Asks(i, c) => i \in DOMAIN chain' /\ Asks(i, c)'
  BY Appended DEF Asks, ChainOK
<1> QED
  BY <1>1, <1>2 DEF OneAsks

\* The first change is over, and with it what it asked for.
LEMMA FirstDone ==
  ASSUME ChainOK, OneAsks, chain # <<>>, chain' = Tail(chain),
         \A c \in Client : lease'[c] = "asked" <=> lease[c] = "asked" /\ ~Asks(1, c)
  PROVE  OneAsks'
<1> SUFFICES ASSUME NEW c \in Client
    PROVE  /\ \A i, k \in DOMAIN chain' : Asks(i, c)' /\ Asks(k, c)' => i = k
           /\ lease'[c] = "asked" <=> \E i \in DOMAIN chain' : Asks(i, c)'
  BY DEF OneAsks
<1>0. 1 \in DOMAIN chain /\ DOMAIN chain = 1 .. Len(chain) /\ DOMAIN chain' = 1 .. Len(chain) - 1 /\ Len(chain) \in Nat
  BY Tailed DEF ChainOK
<1>1. \A i \in DOMAIN chain' : i + 1 \in DOMAIN chain /\ i + 1 # 1 /\ (Asks(i, c)' <=> Asks(i + 1, c))
  <2> TAKE i \in DOMAIN chain'
  <2>1. i + 1 \in DOMAIN chain /\ chain'[i] = chain[i + 1]
    BY Tailed DEF ChainOK
  <2> QED
    BY <1>0, <2>1 DEF Asks
<1>2. \A i, k \in DOMAIN chain' : Asks(i, c)' /\ Asks(k, c)' => i = k
  <2> SUFFICES ASSUME NEW i \in DOMAIN chain', NEW k \in DOMAIN chain', Asks(i, c)', Asks(k, c)' PROVE i = k
    OBVIOUS
  <2>1. i + 1 = k + 1
    BY <1>1 DEF OneAsks
  <2> QED
    BY <1>0, <2>1
<1>3. ASSUME NEW i \in DOMAIN chain', Asks(i, c)' PROVE lease'[c] = "asked"
  <2>1. Asks(i + 1, c) /\ i + 1 \in DOMAIN chain /\ i + 1 # 1
    BY <1>1, <1>3
  <2>2. ~Asks(1, c)
    BY <1>0, <2>1 DEF OneAsks
  <2> QED
    BY <2>1, <2>2 DEF OneAsks
<1>4. ASSUME lease'[c] = "asked" PROVE \E i \in DOMAIN chain' : Asks(i, c)'
  <2>1. PICK i \in DOMAIN chain : Asks(i, c)
    BY <1>4 DEF OneAsks
  <2>2. i # 1
    BY <1>4, <2>1
  <2>3. i - 1 \in DOMAIN chain' /\ chain'[i - 1] = chain[i]
    BY <2>2, Tailed DEF ChainOK
  <2>4. Asks(i - 1, c)'
    BY <2>1, <2>3 DEF Asks
  <2> QED
    BY <2>3, <2>4
<1> QED
  BY <1>2, <1>3, <1>4

LEMMA OneAsksStays ==
  ASSUME ScanTypes, ScanTypes', ScanIs, Paced, OneAsks, [ScanNext]_scanVars
  PROVE  OneAsks'
<1> USE DEF paceVars, runVars, leaseVars
<1>0. ChainOK /\ ChainOK'
  BY DEF ScanTypes
<1>1. ASSUME NEW c \in Client, Takes(c) PROVE OneAsks'
  <2>1. Job(FALSE, "acquire", c) \in Jobs /\ Job(FALSE, "acquire", c).by = "acquire" /\ Job(FALSE, "acquire", c).of = c
    BY JobIs DEF Job
  <2>9. PICK n \in Nat : n = Len(chain) + 1
    BY <1>0 DEF ChainOK
  <2>10. /\ DOMAIN chain' = (DOMAIN chain) \union {n} /\ n \notin DOMAIN chain /\ chain'[n] = Job(FALSE, "acquire", c)
         /\ \A i \in DOMAIN chain : chain'[i] = chain[i]
    <3>1. chain' = Append(chain, Job(FALSE, "acquire", c))
      BY <1>1 DEF Takes
    <3>2. chain \in Seq(Jobs)
      BY <1>0 DEF ChainOK
    <3> DEFINE a == Append(chain, Job(FALSE, "acquire", c))
    <3>3. DOMAIN a = (DOMAIN chain) \union {n} /\ n \notin DOMAIN chain /\ a[n] = Job(FALSE, "acquire", c)
      BY <2>9, <3>2, JobIs, AppendedAt, Zenon
    <3>4. \A i \in DOMAIN chain : a[i] = chain[i]
      BY <3>2, JobIs, Appended, Zenon
    <3> HIDE DEF a
    <3> QED
      BY <3>1, <3>3, <3>4 DEF a
  <2>2. n \in DOMAIN chain' /\ Asks(n, c)'
    BY <2>1, <2>10 DEF Asks
  <2>3. \A b \in Client : \A i \in DOMAIN chain' : Asks(i, b)' => (b = c /\ i = n) \/ (i \in DOMAIN chain /\ Asks(i, b))
    BY <2>1, <2>10 DEF Asks
  <2>4. \A b \in Client : \A i \in DOMAIN chain : Asks(i, b) => i \in DOMAIN chain' /\ Asks(i, b)'
    BY <2>10 DEF Asks
  <2>5. lease[c] = "none" /\ lease'[c] = "asked" /\ \A b \in Client : b # c => lease'[b] = lease[b]
    BY <1>0, <1>1 DEF Takes, ChainOK
  <2>6. \A i \in DOMAIN chain : ~Asks(i, c)
    BY <2>5 DEF OneAsks
  <2>7. ASSUME NEW b \in Client PROVE \A i, k \in DOMAIN chain' : Asks(i, b)' /\ Asks(k, b)' => i = k
    BY <2>3, <2>6 DEF OneAsks
  <2>8. ASSUME NEW b \in Client PROVE lease'[b] = "asked" <=> \E i \in DOMAIN chain' : Asks(i, b)'
    <3>1. CASE b = c
      BY <2>2, <2>5, <3>1
    <3>2. CASE b # c
      BY <2>3, <2>4, <2>5, <3>2 DEF OneAsks
    <3> QED
      BY <3>1, <3>2
  <2> QED
    BY <2>7, <2>8 DEF OneAsks
<1>2. ASSUME NEW c \in Client, GivesBack(c) PROVE OneAsks'
  <2>1. Job(FALSE, "release", c) \in Jobs /\ Job(FALSE, "release", c).by # "acquire"
    BY JobIs DEF Job
  <2>2. \A b \in Client : lease'[b] = "asked" <=> lease[b] = "asked"
    BY <1>0, <1>2 DEF GivesBack, ChainOK
  <2> QED
    BY <1>0, <1>2, <2>1, <2>2, OtherAdded DEF GivesBack
<1>3. ASSUME NEW d \in Duty, ChangesDuty(d) PROVE OneAsks'
  <2>1. Job(TRUE, "duty", NoScan) \in Jobs /\ Job(TRUE, "duty", NoScan).by # "acquire"
    BY JobIs DEF Job
  <2>2. CASE chain' = chain
    BY <1>3, <2>2 DEF ChangesDuty, OneAsks, Asks
  <2>3. CASE chain' = Append(chain, Job(TRUE, "duty", NoScan))
    BY <1>0, <1>3, <2>1, <2>3, OtherAdded DEF ChangesDuty
  <2> QED
    BY <1>3, <2>2, <2>3 DEF ChangesDuty, SetDuty
<1>4. CASE Refreshes
  <2>1. Job(TRUE, "refresh", NoScan) \in Jobs /\ Job(TRUE, "refresh", NoScan).by # "acquire"
    BY JobIs DEF Job
  <2> QED
    BY <1>0, <1>4, <2>1, OtherAdded DEF Refreshes
<1>5. CASE Retries
  <2>1. Job(TRUE, "retry", NoScan) \in Jobs /\ Job(TRUE, "retry", NoScan).by # "acquire"
    BY JobIs DEF Job
  <2> QED
    BY <1>0, <1>5, <2>1, OtherAdded DEF Retries
<1>6. CASE UNCHANGED leaseVars
  BY <1>6 DEF OneAsks, Asks
<1>7. CASE NobodyWants
  <2>1. \A c \in Client : lease[c] # "asked" /\ lease'[c] = lease[c]
    BY <1>7 DEF NobodyWants, Leases
  <2> QED
    BY <1>0, <1>7, <2>1, FirstDone DEF NobodyWants, Begins, Finish
<1>8. ASSUME NEW x \in LeaseIs \ {"asked"}, chain # <<>>, chain' = Tail(chain),
             lease' = IF Head(chain).by = "acquire" THEN [lease EXCEPT ![Head(chain).of] = x] ELSE lease
      PROVE  OneAsks'
  <2>1. 1 \in DOMAIN chain /\ Head(chain) = chain[1]
    BY <1>0, <1>8, Tailed DEF ChainOK
  <2>2. ASSUME NEW c \in Client PROVE lease'[c] = "asked" <=> lease[c] = "asked" /\ ~Asks(1, c)
    <3>1. CASE Asks(1, c)
      BY <1>0, <1>8, <2>1, <3>1 DEF Asks, ChainOK
    <3>2. CASE ~Asks(1, c)
      BY <1>0, <1>8, <2>1, <3>2 DEF Asks, ChainOK
    <3> QED
      BY <3>1, <3>2
  <2> QED
    BY <1>0, <1>8, <2>2, FirstDone
<1>9. CASE RunsAsWanted
  BY <1>8, <1>9 DEF RunsAsWanted, Begins, Finish, Served, LeaseIs
<1>10. CASE Started
  <2>1. chain # <<>>
    BY <1>10 DEF Started, ScanTypes, ScanOK
  <2>2. chain' = Tail(chain) /\ lease' = IF Head(chain).by = "acquire" THEN [lease EXCEPT ![Head(chain).of] = "held"] ELSE lease
    BY <1>10 DEF Started, Finish, Served
  <2>3. "held" \in LeaseIs \ {"asked"}
    BY DEF LeaseIs
  <2> QED
    BY <1>8, <2>1, <2>2, <2>3
<1>11. CASE StartFailed
  <2>1. chain # <<>>
    BY <1>11 DEF StartFailed, ScanTypes, ScanOK
  <2>2. chain' = Tail(chain) /\ lease' = IF Head(chain).by = "acquire" THEN [lease EXCEPT ![Head(chain).of] = "failing"] ELSE lease
    BY <1>11 DEF StartFailed, Finish
  <2>3. "failing" \in LeaseIs \ {"asked"}
    BY DEF LeaseIs
  <2> QED
    BY <1>8, <2>1, <2>2, <2>3
<1>12. GoesDown \/ Goes \/ AsksPlatform \/ MustWait \/ Throttled \/ ScanTick => UNCHANGED leaseVars
  BY DEF GoesDown, Goes, AsksPlatform, MustWait, Throttled, ScanTick
<1> QED
  BY <1>1, <1>2, <1>3, <1>4, <1>5, <1>6, <1>7, <1>9, <1>10, <1>11, <1>12, ScanCases

-----------------------------------------------------------------------------
\* The first change is the same, when one is added.
LEMMA FirstStays ==
  ASSUME ChainOK, chain # <<>>, NEW j \in Jobs, chain' = Append(chain, j)
  PROVE  chain'[1] = chain[1]
BY Appended, Tailed DEF ChainOK

LEMMA CoveredStays ==
  ASSUME ScanTypes, ScanTypes', ScanIs, ScanIs', Paced, OneAsks, Covered, [ScanNext]_scanVars
  PROVE  Covered'
<1> USE DEF paceVars, runVars, leaseVars
<1>0. ChainOK /\ ChainOK' /\ (at # "ready" => chain # <<>>)
  BY DEF ScanTypes, ScanOK
\* A step that starts nothing, and gives no lease.
<1>1. ASSUME UNCHANGED <<at, plan>>, scan' \in {scan, Off}, \A c \in Client : lease'[c] = "held" => lease[c] = "held",
             at # "ready" => chain'[1] = chain[1]
      PROVE  Covered'
  BY <1>1, OffIs DEF Covered, Asks
<1>2. ASSUME NEW c \in Client, Takes(c) PROVE Covered'
  BY <1>0, <1>1, <1>2, JobIs, FirstStays DEF Takes, ChainOK
<1>3. ASSUME NEW c \in Client, GivesBack(c) PROVE Covered'
  BY <1>0, <1>1, <1>3, JobIs, FirstStays DEF GivesBack, ChainOK
<1>4. ASSUME NEW d \in Duty, ChangesDuty(d) PROVE Covered'
  BY <1>0, <1>1, <1>4, JobIs, FirstStays DEF ChangesDuty, SetDuty
<1>5. CASE Refreshes
  BY <1>0, <1>1, <1>5, JobIs, FirstStays DEF Refreshes
<1>6. CASE Retries
  BY <1>0, <1>1, <1>6, JobIs, FirstStays DEF Retries
<1>7. CASE GoesDown \/ Goes
  BY <1>1, <1>7 DEF GoesDown, Goes
<1>8. CASE ScanTick
  BY <1>1, <1>8 DEF ScanTick
<1>9. CASE NobodyWants
  <2>1. \A c \in Client : lease'[c] # "held"
    BY <1>9 DEF NobodyWants, Leases
  <2>2. at' = "ready"
    BY <1>9 DEF NobodyWants, Finish
  <2> QED
    BY <2>1, <2>2 DEF Covered
<1>10. \A c \in Client : lease[c] # "none" => FilterOf[c] \subseteq Union(lease)
  BY DEF Union, Leases
<1>11. CASE RunsAsWanted
  <2>1. at' = "ready" /\ scan' = scan
    BY <1>11 DEF RunsAsWanted, Finish
  <2>2. Union(lease) \subseteq runningFilter
    BY <1>11 DEF RunsAsWanted, Covers
  <2>3. \A c \in Client : lease'[c] = "held" => lease[c] # "none"
    <3>1. 1 \in DOMAIN chain /\ Head(chain) = chain[1]
      BY <1>0, <1>11, Tailed DEF RunsAsWanted, Begins, ChainOK
    <3> SUFFICES ASSUME NEW c \in Client, lease'[c] = "held" PROVE lease[c] # "none"
      OBVIOUS
    <3>2. lease'[c] = lease[c] \/ Asks(1, c)
      BY <1>0, <1>11, <3>1 DEF RunsAsWanted, Served, Asks, ChainOK
    <3> QED
      BY <3>1, <3>2 DEF OneAsks
  <2> QED
    BY <1>10, <2>1, <2>2, <2>3 DEF Covered, ScanIs
\* A start that is decided: it is for every lease there is.
<1>12. \A c \in Client : lease[c] = "held" \/ (chain # <<>> /\ Asks(1, c)) => FilterOf[c] \subseteq Wanted
  <2> SUFFICES ASSUME NEW c \in Client, lease[c] = "held" \/ (chain # <<>> /\ Asks(1, c)) PROVE FilterOf[c] \subseteq Wanted
    OBVIOUS
  <2>1. chain # <<>> => 1 \in DOMAIN chain
    BY <1>0, Tailed DEF ChainOK
  <2>2. lease[c] # "none"
    BY <2>1 DEF OneAsks
  <2> QED
    BY <1>10, <2>2 DEF Wanted
<1>13. ASSUME NEW f, Call(f), UNCHANGED leaseVars, at # "starting", adapter' = adapter,
              \A c \in Client : lease[c] = "held" \/ Asks(1, c) => FilterOf[c] \subseteq f
       PROVE  Covered'
  <2>1. plan'.filter = f /\ at' \in {"starting", "refused"}
    BY <1>13 DEF Call
  <2>2. scan'.is # "on"
    BY <2>1 DEF ScanIs
  <2> QED
    BY <1>13, <2>1, <2>2 DEF Covered, Asks
<1>14. CASE AsksPlatform
  BY <1>12, <1>13, <1>14 DEF AsksPlatform, Begins
<1>15. CASE Throttled
  BY <1>13, <1>15 DEF Throttled, Covered
<1>16. CASE MustWait
  <2>1. plan'.filter = Wanted /\ UNCHANGED <<leaseVars, scan>> /\ chain # <<>>
    BY <1>16 DEF MustWait, Begins, NoPlan
  <2> QED
    BY <1>12, <2>1 DEF Covered, Asks
<1>17. CASE Started
  <2>1. at = "starting" /\ at' = "ready" /\ runningFilter' = plan.filter /\ chain # <<>>
    BY <1>0, <1>17 DEF Started, Finish
  <2>2. 1 \in DOMAIN chain /\ Head(chain) = chain[1]
    BY <1>0, <2>1, Tailed DEF ChainOK
  <2>3. ASSUME NEW c \in Client, lease'[c] = "held" PROVE lease[c] = "held" \/ Asks(1, c)
    BY <1>0, <1>17, <2>2, <2>3 DEF Started, Served, Asks, ChainOK
  <2>4. \A c \in Client : lease'[c] = "held" => FilterOf[c] \subseteq plan.filter
    BY <2>1, <2>3 DEF Covered
  <2>5. scan'.is = "on" => scan'.filter = plan.filter
    BY <2>1 DEF ScanIs
  <2> QED
    BY <2>1, <2>4, <2>5 DEF Covered
<1>18. CASE StartFailed
  <2>1. at' = "ready" /\ scan' = Off
    BY <1>18 DEF StartFailed, Finish
  <2> QED
    BY <2>1, OffIs DEF Covered
<1> QED
  BY <1>2, <1>3, <1>4, <1>5, <1>6, <1>7, <1>8, <1>9, <1>11, <1>14, <1>15, <1>16, <1>17, <1>18, ScanCases

-----------------------------------------------------------------------------
LEMMA ForSomebodyStays ==
  ASSUME ScanTypes, ScanTypes', ScanIs, ScanIs', Paced, OneAsks, ForSomebody, [ScanNext]_scanVars
  PROVE  ForSomebody'
<1> USE DEF paceVars, runVars, leaseVars
<1>0. ChainOK /\ ChainOK' /\ (at # "ready" => chain # <<>>)
  BY DEF ScanTypes, ScanOK
<1>1. \A s \in Seq(Jobs) : s # <<>> => Len(s) >= 1
  OBVIOUS
\* A change that is added is one more to see that nobody is left.
<1>2. ASSUME NEW j \in Jobs, chain' = Append(chain, j), UNCHANGED at PROVE ForSomebody'
  <2>1. chain' # <<>> /\ Len(chain') = Len(chain) + 1 /\ Len(chain) \in Nat
    BY <1>0, <1>2, Appended DEF ChainOK
  <2>2. at # "ready" => Len(chain) >= 1
    BY <1>0, <1>1 DEF ChainOK
  <2>3. at' # "ready" => Len(chain') >= 2
    BY <1>2, <2>1, <2>2
  <2> QED
    BY <2>1, <2>3 DEF ForSomebody
<1>3. ASSUME NEW c \in Client, Takes(c) PROVE ForSomebody'
  BY <1>2, <1>3, JobIs DEF Takes
<1>4. ASSUME NEW c \in Client, GivesBack(c) PROVE ForSomebody'
  BY <1>2, <1>4, JobIs DEF GivesBack
<1>5. ASSUME UNCHANGED <<leaseVars, at>>, scan' \in {scan, Off} PROVE ForSomebody'
  BY <1>5 DEF ForSomebody
<1>6. ASSUME NEW d \in Duty, ChangesDuty(d) PROVE ForSomebody'
  <2>1. CASE chain' = chain
    BY <1>5, <1>6, <2>1 DEF ChangesDuty
  <2>2. CASE chain' = Append(chain, Job(TRUE, "duty", NoScan))
    BY <1>2, <1>6, <2>2, JobIs DEF ChangesDuty
  <2> QED
    BY <1>6, <2>1, <2>2 DEF ChangesDuty, SetDuty
<1>7. CASE Refreshes
  BY <1>2, <1>7, JobIs DEF Refreshes
<1>8. CASE Retries
  BY <1>2, <1>8, JobIs DEF Retries
<1>9. CASE GoesDown \/ Goes \/ ScanTick
  BY <1>5, <1>9 DEF GoesDown, Goes, ScanTick
<1>10. CASE NobodyWants
  <2>1. at' = "ready"
    BY <1>10 DEF NobodyWants, Finish
  <2>2. scan' = Off
    BY <1>10, PhoneScanAssumption DEF NobodyWants, Begins, ScanIs, ScanTypes, ScanOK, Scans, AllFilters
  <2> QED
    BY <2>1, <2>2 DEF ForSomebody
\* Who waits to start has somebody to start for.
<1>11. CASE AsksPlatform \/ MustWait
  BY <1>11 DEF AsksPlatform, MustWait, ForSomebody, Leases
<1>12. CASE Throttled
  <2>1. at = "throttled" /\ UNCHANGED leaseVars
    BY <1>12 DEF Throttled
  <2> QED
    BY <1>0, <2>1 DEF ForSomebody, Leases
\* When a lease is given or fails, there is one.
<1>13. ASSUME NEW x \in {"held", "failing"}, chain # <<>>, chain' = Tail(chain), at' = "ready", at # "ready" \/ Leases(lease) # {},
              lease' = IF Head(chain).by = "acquire" THEN [lease EXCEPT ![Head(chain).of] = x] ELSE lease
       PROVE  ForSomebody'
  <2>1. \A c \in Client : lease[c] # "none" => lease'[c] # "none"
    BY <1>0, <1>13 DEF ChainOK
  <2>2. Leases(lease') = {} => Leases(lease) = {}
    BY <2>1 DEF Leases
  <2>3. Len(chain) >= 2 => chain' # <<>>
    BY <1>0, <1>13, Tailed DEF ChainOK
  <2> QED
    BY <1>13, <2>2, <2>3 DEF ForSomebody
<1>14. CASE RunsAsWanted
  BY <1>13, <1>14 DEF RunsAsWanted, Begins, Finish, Served
<1>15. CASE Started
  <2>1. at # "ready" /\ chain # <<>>
    BY <1>0, <1>15 DEF Started
  <2>2. chain' = Tail(chain) /\ at' = "ready" /\ lease' = IF Head(chain).by = "acquire" THEN [lease EXCEPT ![Head(chain).of] = "held"] ELSE lease
    BY <1>15 DEF Started, Finish, Served
  <2> QED
    BY <1>13, <2>1, <2>2
<1>16. CASE StartFailed
  <2>1. at' = "ready" /\ scan' = Off
    BY <1>16 DEF StartFailed, Finish
  <2> QED
    BY <2>1 DEF ForSomebody
<1> QED
  BY <1>3, <1>4, <1>6, <1>7, <1>8, <1>9, <1>10, <1>11, <1>12, <1>14, <1>15, <1>16, ScanCases

-----------------------------------------------------------------------------
LEMMA AtDutyStays ==
  ASSUME ScanTypes, ScanTypes', ScanIs, ScanIs', Paced, AtDuty, [ScanNext]_scanVars
  PROVE  AtDuty'
<1> USE DEF paceVars, runVars, leaseVars
<1>0. ChainOK /\ ChainOK' /\ (at # "ready" => chain # <<>>)
  BY DEF ScanTypes, ScanOK
<1>1. ASSUME scan' = Off PROVE AtDuty'
  BY <1>1 DEF AtDuty
<1>2. ASSUME UNCHANGED <<chain, at, scan, duty, missed>> PROVE AtDuty'
  BY <1>2 DEF AtDuty
\* The changes that wait, and stay.
<1>3. ASSUME NEW j \in Jobs, chain' = Append(chain, j), UNCHANGED <<at, scan, duty, missed>> PROVE AtDuty'
  <2>1. \A i \in DOMAIN chain : i \in DOMAIN chain' /\ chain'[i] = chain[i]
    BY <1>0, <1>3, Appended DEF ChainOK
  <2> QED
    BY <1>3, <2>1 DEF AtDuty
<1>4. ASSUME NEW c \in Client, Takes(c) PROVE AtDuty'
  BY <1>3, <1>4, JobIs DEF Takes
<1>5. ASSUME NEW c \in Client, GivesBack(c) PROVE AtDuty'
  BY <1>3, <1>5, JobIs DEF GivesBack
<1>6. CASE Refreshes
  BY <1>3, <1>6, JobIs DEF Refreshes
<1>7. CASE Retries
  BY <1>3, <1>7, JobIs DEF Retries
<1>8. CASE Goes
  BY <1>2, <1>8 DEF Goes
<1>9. CASE GoesDown
  BY <1>1, <1>9 DEF GoesDown
<1>10. ASSUME NEW d \in Duty, ChangesDuty(d) PROVE AtDuty'
  <2>0. UNCHANGED <<at, scan>>
    BY <1>10 DEF ChangesDuty
  <2>1. CASE runningFilter # NoScan
    <3>1. chain' = Append(chain, Job(TRUE, "duty", NoScan))
      BY <1>10, <2>1 DEF ChangesDuty, SetDuty
    <3>2. PICK n \in Nat : n = Len(chain) + 1
      BY <1>0 DEF ChainOK
    <3>3. Job(TRUE, "duty", NoScan).force = TRUE
      BY DEF Job
    <3>4. n \in DOMAIN chain' /\ chain'[n].force
      <4>1. chain \in Seq(Jobs)
        BY <1>0 DEF ChainOK
      <4> DEFINE a == Append(chain, Job(TRUE, "duty", NoScan))
      <4>2. DOMAIN a = (DOMAIN chain) \union {n} /\ a[n] = Job(TRUE, "duty", NoScan)
        BY <3>2, <4>1, JobIs, AppendedAt, Zenon
      <4> HIDE DEF a
      <4>3. chain' = a
        BY <3>1 DEF a
      <4> QED
        BY <3>3, <4>2, <4>3
    <3>5. at = "starting" => n > 1
      BY <1>0, <3>2 DEF ChainOK
    <3> QED
      BY <2>0, <3>4, <3>5 DEF AtDuty
  <2>2. CASE runningFilter = NoScan /\ at = "starting"
    <3>1. missed'
      BY <1>10, <2>2 DEF ChangesDuty, SetDuty
    <3> QED
      BY <3>1 DEF AtDuty
  <2>3. CASE runningFilter = NoScan /\ at # "starting"
    <3>1. scan = Off
      BY <2>3, PhoneScanAssumption DEF ScanIs, ScanTypes, ScanOK, Scans, AllFilters
    <3> QED
      BY <1>1, <2>0, <3>1
  <2> QED
    BY <2>1, <2>2, <2>3
<1>11. CASE NobodyWants
  <2>1. scan' = Off
    BY <1>11, PhoneScanAssumption DEF NobodyWants, Begins, ScanIs, ScanTypes, ScanOK, Scans, AllFilters
  <2> QED
    BY <1>1, <2>1
\* The scan goes on as it is only if it is at the duty.
<1>12. CASE RunsAsWanted
  <2>1. scan' = scan /\ duty' = duty /\ runningDuty = duty /\ at = "ready"
    BY <1>12 DEF RunsAsWanted, Begins
  <2>2. scan # Off => scan.duty = duty
    BY <2>1 DEF ScanIs, ScanTypes, ScanOK, Scans
  <2> QED
    BY <2>1, <2>2 DEF AtDuty
\* A start is at the duty of its moment.
<1>13. ASSUME NEW f, Call(f), UNCHANGED <<leaseVars, duty, missed, adapter>> PROVE AtDuty'
  <2>1. CASE adapter
    <3>1. scan'.duty = duty
      BY <1>13, <2>1 DEF Call
    <3> QED
      BY <1>13, <3>1 DEF AtDuty
  <2>2. CASE ~adapter
    <3>1. scan = Off /\ scan' = scan
      BY <1>13, <2>2 DEF Call, ScanIs
    <3> QED
      BY <1>1, <3>1
  <2> QED
    BY <2>1, <2>2
<1>14. CASE AsksPlatform
  BY <1>13, <1>14 DEF AsksPlatform
<1>15. CASE Throttled
  BY <1>13, <1>15 DEF Throttled
<1>16. CASE MustWait
  BY <1>16 DEF MustWait, Begins, AtDuty
<1>17. CASE Started
  <2>1. at = "starting" /\ at' = "ready" /\ chain # <<>> /\ chain' = Tail(chain) /\ UNCHANGED <<duty, missed>>
    BY <1>0, <1>17 DEF Started, Finish
  <2>2. SUFFICES ASSUME scan' # Off, scan'.duty # duty, ~missed PROVE \E i \in DOMAIN chain' : chain'[i].force
    BY <2>1 DEF AtDuty
  <2>3. scan # Off /\ scan'.duty = scan.duty
    <3>0. scan' = IF scan.is = "starting" THEN [scan EXCEPT !.is = "on"] ELSE scan
      BY <1>17 DEF Started
    <3>1. CASE scan.is = "starting"
      <4>1. scan # Off
        BY <3>1, OffIs
      <4>2. scan'.duty = scan.duty
        BY <3>0, <3>1 DEF ScanTypes, ScanOK, Scans
      <4> QED
        BY <4>1, <4>2
    <3>2. CASE scan.is # "starting"
      BY <2>2, <3>0, <3>2
    <3> QED
      BY <3>1, <3>2
  <2>4. PICK i \in DOMAIN chain : chain[i].force /\ i > 1
    BY <2>1, <2>2, <2>3 DEF AtDuty
  <2>5. i # 1
    BY <1>0, <2>4 DEF ChainOK
  <2>6. i - 1 \in DOMAIN chain' /\ chain'[i - 1] = chain[i]
    BY <1>0, <2>1, <2>5, Tailed DEF ChainOK
  <2> QED
    BY <2>4, <2>6
<1>18. CASE StartFailed
  BY <1>1, <1>18 DEF StartFailed
<1>19. CASE ScanTick
  BY <1>2, <1>19 DEF ScanTick
<1> QED
  BY <1>4, <1>5, <1>6, <1>7, <1>8, <1>9, <1>10, <1>11, <1>12, <1>14, <1>15, <1>16, <1>17, <1>18, <1>19, ScanCases

-----------------------------------------------------------------------------
LEMMA PacedStays ==
  ASSUME ScanTypes, ScanIs, Paced, [ScanNext]_scanVars
  PROVE  Paced'
<1> USE DEF paceVars, runVars, leaseVars
<1>0. StartWindow \in Nat \ {0} /\ MaxStarts \in Nat \ {0} /\ Unarmed \notin Nat
  BY PhoneScanAssumption
<1>1. ASSUME UNCHANGED <<at, wake, starts, asked>> PROVE Paced'
  BY <1>1 DEF Paced
<1>2. ASSUME UNCHANGED <<wake, starts, asked>>, at # "throttled", at' # "throttled" PROVE Paced'
  BY <1>2 DEF Paced
<1>3. /\ InOrder(Fresh(starts)) /\ InWindow(Fresh(starts)) /\ Len(Fresh(starts)) = Len(starts) + 1 - FirstFresh(starts)
      /\ FirstFresh(starts) \in 1 .. Len(starts) + 1 /\ Len(starts) \in Nat /\ Len(Fresh(starts)) \in Nat
  BY FreshParts, FirstFreshIs DEF Paced, InOrder
<1>4. Fresh(Fresh(starts)) = Fresh(starts)
  BY <1>3, FreshStays
\* The platform is asked when fewer than MaxStarts starts count.
<1>5. ASSUME NEW f, Call(f), Len(Fresh(starts)) < MaxStarts PROVE Paced'
  <2> DEFINE s == Append(Fresh(starts), 0)
  <2>1. starts' = s /\ asked' = s /\ at' # "throttled" /\ wake' = Unarmed
    BY <1>4, <1>5 DEF Call, Paced
  <2>2. InOrder(s) /\ InWindow(s) /\ Len(s) = Len(Fresh(starts)) + 1
    BY <1>3, OneMoreStart
  <2>3. Fresh(s) = s
    BY <2>2, FreshStays
  <2>4. Len(s) <= MaxStarts
    BY <1>0, <1>3, <1>5, <2>2
  <2> HIDE DEF s
  <2> QED
    BY <2>1, <2>2, <2>3, <2>4 DEF Paced
<1>6. CASE AsksPlatform
  BY <1>5, <1>6 DEF AsksPlatform
\* Whoever has waited has seen the first of them become old.
<1>7. CASE Throttled
  <2>1. at = "throttled" /\ wake = 0
    BY <1>7 DEF Throttled
  <2>2. starts # <<>> /\ starts[1] + wake = StartWindow
    BY <2>1 DEF Paced
  <2>3. 1 \in DOMAIN starts /\ starts[1] \in 0 .. StartWindow
    BY <2>2, FirstOf DEF Paced, InOrder
  <2>4. ~(starts[1] < StartWindow)
    BY <1>0, <2>1, <2>2, <2>3
  <2>5. ~(FirstFresh(starts) <= 1)
    BY <2>3, <2>4, FirstFreshIs DEF Paced
  <2>6. Len(Fresh(starts)) < Len(starts)
    BY <1>3, <2>5
  <2>7. Len(Fresh(starts)) < MaxStarts
    BY <1>0, <1>3, <2>6 DEF Paced
  <2> QED
    BY <1>5, <1>7, <2>7 DEF Throttled
<1>8. CASE MustWait
  <2> DEFINE s == Fresh(starts)
  <2>1. at' = "throttled" /\ starts' = s /\ wake' = StartWindow - s[1] /\ asked' = asked /\ Len(s) >= MaxStarts
    BY <1>8 DEF MustWait
  <2>2. InOrder(s) /\ InWindow(s) /\ Fresh(s) = s /\ asked = s
    BY <1>3, <1>4 DEF Paced
  <2>3. Len(s) <= MaxStarts
    BY <1>0, <1>3 DEF Paced
  <2> HIDE DEF s
  <2>4. s # <<>> /\ 1 \in DOMAIN s
    BY <1>0, <2>1, <2>2 DEF InOrder
  <2>5. s[1] \in 0 .. StartWindow /\ s[1] < StartWindow
    BY <2>2, <2>4, FirstOf DEF InOrder, InWindow
  <2>6. wake' \in Nat /\ s[1] + wake' = StartWindow
    BY <1>0, <2>1, <2>5
  <2> QED
    BY <2>1, <2>2, <2>3, <2>4, <2>6 DEF Paced
<1>9. CASE ScanTick
  <2> DEFINE s == Older(starts)
  <2>1. starts' = s /\ asked' = Fresh(Older(asked)) /\ at' = at /\ wake' = Less(wake) /\ wake # 0
    BY <1>9 DEF ScanTick
  <2>2. InOrder(s) /\ Len(s) = Len(starts) /\ \A i \in DOMAIN starts : s[i] = IF starts[i] < StartWindow THEN starts[i] + 1 ELSE StartWindow
    BY OlderStarts DEF Paced
  <2>3. asked' = Fresh(s)
    BY <2>1, FreshOfOlder DEF Paced
  <2> HIDE DEF s
  <2>4. CASE at = "throttled"
    <3>1. starts # <<>> /\ wake \in Nat /\ starts[1] + wake = StartWindow
      BY <2>4 DEF Paced
    <3>2. 1 \in DOMAIN starts /\ starts[1] \in 0 .. StartWindow
      BY <3>1, FirstOf DEF Paced, InOrder
    <3>3. wake' = wake - 1 /\ wake' \in Nat
      BY <1>0, <2>1, <3>1 DEF Less
    <3>4. s[1] = starts[1] + 1
      BY <1>0, <2>1, <2>2, <3>1, <3>2
    <3>5. s # <<>>
      BY <2>2, <3>2 DEF Paced, InOrder
    <3>6. s[1] + wake' = StartWindow
      BY <3>1, <3>2, <3>3, <3>4
    <3> QED
      BY <2>1, <2>2, <2>3, <2>4, <3>3, <3>5, <3>6 DEF Paced
  <2>5. CASE at # "throttled"
    <3>1. wake' = Unarmed
      BY <2>1, <2>5 DEF Paced, Less
    <3> QED
      BY <2>1, <2>2, <2>3, <2>5, <3>1 DEF Paced
  <2> QED
    BY <2>4, <2>5
<1>10. CASE NobodyWants \/ RunsAsWanted \/ Started \/ StartFailed
  BY <1>2, <1>10 DEF NobodyWants, RunsAsWanted, Begins, Started, StartFailed, Finish
<1>11. (\E c \in Client : Takes(c) \/ GivesBack(c)) \/ (\E d \in Duty : ChangesDuty(d)) \/ GoesDown \/ Refreshes \/ Retries \/ Goes
       => UNCHANGED <<at, wake, starts, asked>>
  BY DEF Takes, GivesBack, ChangesDuty, GoesDown, Refreshes, Retries, Goes
<1> QED
  BY <1>1, <1>6, <1>7, <1>8, <1>9, <1>10, <1>11, ScanCases

-----------------------------------------------------------------------------
LEMMA ScanInitially == ScanInit => ScanInv
<1> SUFFICES ASSUME ScanInit PROVE ScanInv
  OBVIOUS
<1>0. chain = <<>> /\ DOMAIN chain = {} /\ chain \in Seq(Jobs) /\ scan = Off /\ starts = <<>> /\ asked = <<>> /\ starts \in Seq(0 .. StartWindow)
      /\ Len(starts) = 0 /\ DOMAIN starts = {}
  BY DEF ScanInit
<1>1. ScanTypes
  <2>1. ChainOK
    BY <1>0 DEF ScanInit, ChainOK, LeaseIs
  <2>2. ScanOK
    BY <1>0, OffIs DEF ScanInit, ScanOK, NoPlan, Plans
  <2> QED
    BY <2>1, <2>2 DEF ScanTypes
<1>2. ScanIs /\ Covered /\ ForSomebody /\ AtDuty
  BY <1>0, OffIs DEF ScanInit, ScanIs, Covered, ForSomebody, AtDuty
<1>3. OneAsks
  BY <1>0 DEF ScanInit, OneAsks
<1>4. Paced
  <2>1. InOrder(starts) /\ InWindow(starts)
    BY <1>0 DEF InOrder, InWindow
  <2>2. Fresh(starts) = starts
    BY <2>1, FreshStays
  <2> QED
    BY <1>0, <2>1, <2>2, PhoneScanAssumption DEF ScanInit, Paced
<1> QED
  BY <1>1, <1>2, <1>3, <1>4 DEF ScanInv

LEMMA ScanStays == ScanInv /\ [ScanNext]_scanVars => ScanInv'
<1> SUFFICES ASSUME ScanInv, [ScanNext]_scanVars PROVE ScanInv'
  OBVIOUS
<1> USE DEF ScanInv
<1>1. ScanTypes'
  BY TypesStay
<1>2. ScanIs'
  BY <1>1, ScanIsStays
<1>3. OneAsks' /\ Paced'
  BY <1>1, OneAsksStays, PacedStays
<1>4. Covered' /\ ForSomebody' /\ AtDuty'
  BY <1>1, <1>2, CoveredStays, ForSomebodyStays, AtDutyStays
<1> QED
  BY <1>1, <1>2, <1>3, <1>4

LEMMA HeldAsScanned == ScanInv => ScanAsHeld
<1> SUFFICES ASSUME ScanInv PROVE ScanAsHeld
  OBVIOUS
<1> USE DEF ScanInv
<1>1. Len(Fresh(asked)) <= MaxStarts
  <2>1. InOrder(asked) /\ InWindow(asked) /\ Len(asked) = Len(starts) + 1 - FirstFresh(starts)
    BY FreshParts DEF Paced
  <2>2. Fresh(asked) = asked
    BY <2>1, FreshStays
  <2>3. FirstFresh(starts) \in 1 .. Len(starts) + 1 /\ Len(starts) \in Nat
    BY FirstFreshIs DEF Paced, InOrder
  <2>4. Len(asked) <= Len(starts)
    BY <2>1, <2>3
  <2> QED
    BY <2>1, <2>2, <2>3, <2>4, PhoneScanAssumption DEF Paced, InOrder
<1>2. ASSUME chain = <<>>, \A c \in Client : lease[c] # "failing", Leases(lease) = {} PROVE scan = Off
  BY <1>2 DEF ForSomebody
<1>3. ASSUME chain = <<>>, \A c \in Client : lease[c] # "failing", scan.is = "on"
      PROVE  Union(lease) \subseteq scan.filter /\ (scan.duty = duty \/ missed)
  <2>0. DOMAIN chain = {}
    BY <1>3
  <2>1. \A c \in Client : lease[c] # "none" => lease[c] = "held"
    BY <1>3, <2>0 DEF OneAsks, ScanTypes, ChainOK, LeaseIs
  <2>2. Union(lease) \subseteq scan.filter
    BY <1>3, <2>1 DEF Covered, Union, Leases
  <2>3. scan.duty = duty \/ missed
    BY <1>3, <2>0, OffIs DEF AtDuty
  <2> QED
    BY <2>2, <2>3
<1> QED
  BY <1>1, <1>2, <1>3 DEF ScanAsHeld

\* Once every change is made, what scans is what the leases ask for, and Android
\* is not asked for more starts than it allows (ScanAsHeld): for every number of
\* clients, of failures and of changes of the duty and the adapter, and for every
\* window and limit.
THEOREM ScansAsHeld == ScanSpec => []ScanAsHeld
<1>1. ScanInit => ScanInv
  BY ScanInitially
<1>2. ScanInv /\ [ScanNext]_scanVars => ScanInv'
  BY ScanStays
<1>3. ScanInv => ScanAsHeld
  BY HeldAsScanned
<1> QED
  BY <1>1, <1>2, <1>3, PTL DEF ScanSpec

-----------------------------------------------------------------------------
(* The types of both ends of the link *)

LEMMA ElementsOf == ASSUME NEW S, NEW q \in Seq(S) PROVE Range(q) \subseteq S
<1> QED BY DEF Range

LEMMA OneOrNone == ASSUME NEW S PROVE <<>> \in Seq(S) /\ \A x \in S : <<x>> \in Seq(S)
OBVIOUS

LEMMA ScanInvTypes == ScanInv => ScanTypeOK
<1> SUFFICES ASSUME ScanInv PROVE ScanTypeOK
  OBVIOUS
<1>0. ChainOK /\ ScanOK /\ ScanIs /\ OneAsks
  BY DEF ScanInv, ScanTypes
<1>1. \A c \in Client : lease[c] \in {"none", "asked", "held", "failing"}
  BY <1>0 DEF ChainOK, LeaseIs
<1>2. ASSUME NEW c \in Client, lease[c] = "asked" PROVE \E i \in DOMAIN chain : chain[i] = Job(FALSE, "acquire", c)
  <2>1. PICK i \in DOMAIN chain : Asks(i, c)
    BY <1>0, <1>2 DEF OneAsks
  <2>2. chain[i] \in Jobs /\ ~chain[i].force /\ chain[i].by = "acquire" /\ chain[i].of = c
    BY <1>0, <2>1 DEF ChainOK, Asks
  <2>3. chain[i] = Job(FALSE, "acquire", c)
    BY <2>2 DEF Jobs, Job
  <2> QED
    BY <2>3
<1> QED
  BY <1>0, <1>1, <1>2 DEF ScanOK, ScanIs, ScanTypeOK

\* A lease that is asked for has the change that asks for it waiting; the platform
\* scans only with Bluetooth on; who starts, or waits to, is the first of the
\* changes (PhoneScan's ScanTypeOK), for every number of clients.
THEOREM ScanTyped == ScanSpec => []ScanTypeOK
<1> QED BY ScanInitially, ScanStays, ScanInvTypes, PTL DEF ScanSpec

LEMMA TypesAreBle == Types => BleTypeOK
<1> SUFFICES ASSUME Types PROVE BleTypeOK
  OBVIOUS
<1> USE DEF Types
<1>1. link \in LinkType /\ bonds \in BondsType
  BY DEF LinkOK, BondsOK
<1>2. asm.pieces \in Seq(Conn) /\ Len(asm.pieces) <= LineRoom /\ asm.over \in BOOLEAN
  BY DEF AsmOK, AsmType
<1>3. (\A i \in DOMAIN rxq : rxq[i] \in CommandType) /\ Len(rxq) <= RxRoom
  BY DEF RxqOK
<1>4. \A q \in {ctl, live} : Range(q.ring) \subseteq Line /\ q.stalled \in BOOLEAN /\ q.replyDrops \in Nat
  <2>1. ctl \in QueueType /\ live \in QueueType
    BY DEF CtlOK, LiveOK
  <2> QED
    BY <2>1, ElementsOf DEF QueueType
<1>5. Len(ctl.ring) <= CtlRoom /\ Len(live.ring) <= FeedRoom
  BY DEF CtlOK, LiveOK
<1>6. /\ loop.at \in {"idle", "poll", "write", "wait", "pair"} /\ loop.lag \in 0 .. MaxLag
      /\ loop.left \in 0 .. PollMax /\ Range(loop.out) \subseteq What /\ (loop.at \in {"write", "wait"} <=> loop.out # <<>>)
  <2>1. loop.out \in Seq(What \ {"rid"})
    BY DEF LoopOK, LoopType
  <2>2. Range(loop.out) \subseteq What \ {"rid"}
    BY <2>1, ElementsOf
  <2> QED
    BY <2>2 DEF LoopOK, LoopType
<1>7. Range(tx.line) \subseteq Line /\ tx.conn \in 0 .. MaxConns /\ tx.handle \in Handles \union {NoHandle}
  <2>1. tx.line \in Seq(Line)
    <3>1. tx.line = <<>> \/ \E l \in Line : tx.line = <<l>>
      BY DEF TxOK, TxType, AtMostOne
    <3> QED
      BY <3>1, OneOrNone
  <2> QED
    BY <2>1, ElementsOf DEF TxOK, TxType
<1>8. air.records \in 0 .. Records /\ air.ended \in {"no", "done", "cut"} /\ air.waits \in Nat /\ air.strays \in Nat
  BY DEF AirOK, AirType
<1> QED
  BY <1>1, <1>2, <1>3, <1>4, <1>5, <1>6, <1>7, <1>8 DEF LinkType, BondsType, CommandType, BleTypeOK

\* The rings, the line under assembly, the queue of commands and the loop's answer
\* stay within their sizes and their types (BleLink's BleTypeOK), for every size.
THEOREM BleTyped == BleSpec => []BleTypeOK
<1> QED BY InitTypes, TypesStep, TypesAreBle, PTL DEF BleSpec

\* Both, of every behaviour of the run's specification (MCBluetooth's
\* BluetoothTypeOK).
THEOREM BluetoothTyped == BluetoothSpec => []BluetoothTypeOK
<1> DEFINE IInv == Types /\ LinkSane /\ ScanInv
<1>1. BluetoothInit => IInv
  BY InitTypes, ScanInitially DEF BluetoothInit
<1>2. IInv /\ [BluetoothNext]_<<bleVars, scanVars, part>> => IInv'
  <2> SUFFICES ASSUME IInv, [BluetoothNext]_<<bleVars, scanVars, part>> PROVE IInv'
    OBVIOUS
  <2>1. [BleNext]_bleVars /\ [ScanNext]_scanVars
    BY DEF BluetoothNext
  <2> QED
    BY <2>1, TypesStep, ScanStays
<1>3. IInv => BluetoothTypeOK
  <2>1. ScanInv => ScanTypeOK
    BY ScanInvTypes
  <2> QED
    BY <2>1, TypesAreBle DEF BluetoothTypeOK
<1> QED
  BY <1>1, <1>2, <1>3, PTL DEF BluetoothSpec
=============================================================================
